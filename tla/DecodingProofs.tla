---------------------------- MODULE DecodingProofs ----------------------------
(***************************************************************************)
(* What holds of the groups of a capture, for captures of any length, any  *)
(* size of the windows and of the groups, any number of attempts at a      *)
(* window and whatever they see; of how the bits of a group are repaired,  *)
(* for any words; of how a Clock-Time is read, for any rules and zones; of *)
(* the Clock-Time field; and, at the end, of what is shown of a station,   *)
(* whatever groups it and others are heard to send.                        *)
(*                                                                         *)
(* The argument: the groups that an attempt emits are apart on its own     *)
(* axis (Greedy); the axis of the capture turns them round and keeps them  *)
(* apart and within the window (OnAxis, PlaceOf); and a window begins      *)
(* where the last group of the one before it ends or later (Places), so    *)
(* that groups of different windows are apart as well.                     *)
(***************************************************************************)
EXTENDS Decoding, FiniteSetTheorems, SequenceTheorems, NaturalsInduction, TLAPS

-----------------------------------------------------------------------------
(* The groups that an attempt emits.                                         *)

\* Some natural numbers have a least one.
LEMMA LeastOf ==
  ASSUME NEW S \in SUBSET Nat, S # {}
  PROVE  \E n \in S : \A m \in S : n <= m
<1> DEFINE less == OpToRel(<, Nat)
<1>1. \A m, n \in Nat : m < n => <<m, n>> \in less
  BY DEF OpToRel
<1>2. IsWellFoundedOn(less, Nat)
  BY NatLessThanWellFounded
<1> HIDE DEF less
<1>3. PICK n \in S : \A m \in S : ~(<<m, n>> \in less)
  BY <1>2, WFMin
<1>4. ASSUME NEW m \in S PROVE n <= m
  <2>1. m \in Nat /\ n \in Nat /\ ~(<<m, n>> \in less)
    BY <1>3
  <2>2. ~(m < n)
    BY <1>1, <2>1
  <2> QED
    BY <2>1, <2>2
<1> QED
  BY <1>4

\* Of some places there is a first one among those with the highest rank.
LEMMA FirstOfMost ==
  ASSUME NEW n \in Nat, NEW S \in SUBSET (1..n), S # {}, NEW rank, \A i \in S : rank[i] \in Int
  PROVE  \E i \in S : \A j \in S : rank[j] <= rank[i] /\ (j < i => rank[j] < rank[i])
<1> DEFINE Upto(m) == {j \in S : j <= m}
           Best(i, m) == \A j \in Upto(m) : rank[j] <= rank[i] /\ (j < i => rank[j] < rank[i])
           missing == {m \in Nat : Upto(m) # {} /\ ~\E i \in Upto(m) : Best(i, m)}
<1>1. missing = {}
  <2> SUFFICES ASSUME missing # {} PROVE FALSE
    OBVIOUS
  <2>1. PICK m \in missing : \A k \in missing : m <= k
    BY LeastOf
  <2>2. m \in Nat /\ Upto(m) # {} /\ ~\E i \in Upto(m) : Best(i, m)
    BY <2>1
  <2>3. m - 1 \in Nat /\ m - 1 \notin missing
    <3> HIDE DEF Best
    <3>1. m # 0
      <4>1. \A j \in S : ~(j <= 0)
        OBVIOUS
      <4>2. Upto(0) = {}
        BY <4>1, Zenon
      <4> QED
        BY <2>2, <4>2
    <3>2. ~(m <= m - 1)
      BY <2>2
    <3> HIDE DEF missing
    <3> QED
      BY <2>1, <2>2, <3>1, <3>2
  <2>4. \A j \in Upto(m) : j \in Upto(m - 1) \/ j = m
    BY <2>2
  <2>5. CASE Upto(m - 1) = {}
    <3>1. \A j \in Upto(m) : j = m
      BY <2>4, <2>5
    <3>2. m \in Upto(m) /\ rank[m] \in Int
      <4>1. PICK j \in Upto(m) : TRUE
        BY <2>2, Zenon
      <4>2. j = m
        BY <3>1
      <4> QED
        BY <4>1, <4>2
    <3>3. Best(m, m)
      BY <2>2, <3>1, <3>2
    <3> QED
      BY <2>2, <3>2, <3>3
  <2>6. CASE Upto(m - 1) # {}
    <3>1. PICK i \in Upto(m - 1) : Best(i, m - 1)
      <4> HIDE DEF Best
      <4> QED
        BY <2>3, <2>6
    <3>2. i \in S /\ i \in Nat /\ i < m /\ i \in Upto(m) /\ rank[i] \in Int
      BY <2>2, <3>1
    <3>3. CASE m \in S /\ rank[i] < rank[m]
      <4>1. m \in Upto(m) /\ rank[m] \in Int
        BY <2>2, <3>3
      <4>2. ASSUME NEW j \in Upto(m)
            PROVE  rank[j] <= rank[m] /\ (j < m => rank[j] < rank[m])
        <5>1. rank[j] \in Int /\ j \in Int
          BY <4>2
        <5>2. j \in Upto(m - 1) => rank[j] <= rank[i]
          BY <3>1
        <5> QED
          BY <2>4, <3>2, <3>3, <4>1, <4>2, <5>1, <5>2
      <4> QED
        BY <2>2, <4>1, <4>2
    <3>4. CASE ~(m \in S /\ rank[i] < rank[m])
      <4>1. ASSUME NEW j \in Upto(m)
            PROVE  rank[j] <= rank[i] /\ (j < i => rank[j] < rank[i])
        <5>1. rank[j] \in Int /\ j \in Int /\ j \in S
          BY <4>1
        <5>2. CASE j \in Upto(m - 1)
          BY <3>1, <5>2
        <5>3. CASE j = m
          BY <2>2, <3>2, <3>4, <5>1, <5>3
        <5> QED
          BY <2>4, <4>1, <5>2, <5>3
      <4> QED
        BY <2>2, <3>2, <4>1
    <3> QED
      BY <3>3, <3>4
  <2> QED
    BY <2>5, <2>6
<1>2. Upto(n) = S
  <2>1. \A j \in S : j <= n
    OBVIOUS
  <2> QED
    BY <2>1, Zenon
<1>3. \E i \in Upto(n) : Best(i, n)
  <2> HIDE DEF Best
  <2>1. n \notin missing
    BY <1>1
  <2> QED
    BY <1>2, <2>1
<1> QED
  BY <1>2, <1>3

\* The groups among some starts that are taken from left to right.
Greedy(found, starts) ==
    \A j \in starts : j \in found <=> \A k \in found : k < j => k + GroupBits <= j

\* However many places there are, a choice from left to right exists.
LEMMA GreedyExists ==
  ASSUME NEW starts \in SUBSET Nat, NEW n \in Nat, \A j \in starts : j < n
  PROVE  \E found \in SUBSET starts : Greedy(found, starts)
<1> DEFINE Upto(m) == {j \in starts : j < m}
           Has(m) == \E found \in SUBSET Upto(m) : Greedy(found, Upto(m))
           missing == {m \in Nat : ~Has(m)}
<1>1. GroupBits \in Nat \ {0}
  BY SearchAssumption
<1>2. missing = {}
  <2> SUFFICES ASSUME missing # {} PROVE FALSE
    OBVIOUS
  <2>1. PICK m \in missing : \A k \in missing : m <= k
    BY LeastOf
  <2>2. Has(0)
    <3>0. \A j \in starts : ~(j < 0)
      OBVIOUS
    <3>1. Upto(0) = {}
      BY <3>0, Zenon
    <3>2. Greedy({}, Upto(0))
      BY <3>1 DEF Greedy
    <3> QED
      BY <3>2
  <2>3. m - 1 \in Nat /\ m \in Nat
    <3> HIDE DEF Has
    <3> QED
      BY <2>1, <2>2
  <2>4. Has(m - 1)
    <3> HIDE DEF Has
    <3> QED
      BY <2>1, <2>3
  <2>5. PICK old \in SUBSET Upto(m - 1) : Greedy(old, Upto(m - 1))
    BY <2>4
  <2> DEFINE new == {j \in starts : j = m - 1 /\ \A k \in old : k + GroupBits <= j}
             all == old \cup new
  <2>6. all \in SUBSET Upto(m)
    <3>1. \A j \in starts : j < m - 1 \/ j = m - 1 => j < m
      BY <2>3
    <3>2. \A j \in old : j \in starts /\ j < m - 1
      BY <2>5
    <3>3. \A j \in all : j \in starts /\ j < m
      BY <3>1, <3>2
    <3> QED
      BY <3>3
  <2>7. ASSUME NEW j \in Upto(m)
        PROVE  j \in all <=> \A k \in all : k < j => k + GroupBits <= j
    <3>1. CASE j = m - 1
      <4>1. j \notin old /\ (\A k \in old : k < j) /\ \A k \in new : ~(k < j)
        BY <2>3, <2>5, <3>1
      <4>2. j \in new <=> \A k \in old : k + GroupBits <= j
        BY <2>7, <3>1
      <4> QED
        BY <4>1, <4>2
    <3>2. CASE j # m - 1
      <4>1. j \in Upto(m - 1) /\ j \notin new /\ \A k \in new : ~(k < j)
        BY <2>3, <2>7, <3>2
      <4>2. j \in old <=> \A k \in old : k < j => k + GroupBits <= j
        BY <2>5, <4>1 DEF Greedy
      <4> QED
        BY <4>1, <4>2
    <3> QED
      BY <3>1, <3>2
  <2>8. Greedy(all, Upto(m))
    BY <2>7 DEF Greedy
  <2>9. Has(m)
    BY <2>6, <2>8
  <2> HIDE DEF Has
  <2> QED
    BY <2>1, <2>9
<1>3. Has(n)
  <2> HIDE DEF Has
  <2> QED
    BY <1>2
<1>4. Upto(n) = starts
  OBVIOUS
<1> QED
  BY <1>3, <1>4

\* What is emitted are starts that were kept and do not overlap; and every clean start
\* is emitted or overlaps a clean group that is.
LEMMA EmittedProperties ==
  ASSUME NEW bits \in Int, NEW look \in [0..bits - GroupBits -> 0..2]
  PROVE  /\ Emitted(look) \subseteq 0..bits - GroupBits
         /\ \A j, k \in Emitted(look) : k < j => k + GroupBits <= j
         /\ \A i \in CleanStarts(look) :
               \E j \in Emitted(look) \cap CleanStarts(look) : j - i < GroupBits /\ i - j < GroupBits
<1> DEFINE starts == Kept(look)
           found == Emitted(look)
<1>1. GroupBits \in Nat \ {0} /\ DOMAIN look = 0..bits - GroupBits
  BY SearchAssumption
<1>2. starts \subseteq 0..bits - GroupBits
  BY <1>1 DEF Kept, CleanStarts, CorrectedStarts
<1>3. PICK n \in Nat : \A j \in starts : j < n
  <2>1. CASE bits - GroupBits \in Nat
    <3>1. bits - GroupBits + 1 \in Nat /\ \A j \in 0..bits - GroupBits : j < bits - GroupBits + 1
      BY <1>1, <2>1
    <3> QED
      BY <1>2, <3>1
  <2>2. CASE bits - GroupBits \notin Nat
    <3>1. starts = {}
      BY <1>1, <1>2, <2>2
    <3> QED
      BY <3>1
  <2> QED
    BY <2>1, <2>2
<1>4. starts \in SUBSET Nat
  BY <1>2
<1>5. \E S \in SUBSET starts : Greedy(S, starts)
  <2> HIDE DEF starts
  <2> QED
    BY <1>3, <1>4, GreedyExists
<1>6. found \in SUBSET starts /\ Greedy(found, starts)
  BY <1>5 DEF Emitted, Greedy
<1>7. \A j, k \in found : k < j => k + GroupBits <= j
  BY <1>6 DEF Greedy
<1>8. ASSUME NEW i \in CleanStarts(look)
      PROVE  \E j \in found \cap CleanStarts(look) : j - i < GroupBits /\ i - j < GroupBits
  <2>1. i \in starts /\ i \in Nat
    BY <1>4 DEF Kept
  <2>2. CASE i \in found
    BY <1>1, <2>1, <2>2
  <2>3. CASE i \notin found
    <3>1. PICK k \in found : k < i /\ ~(k + GroupBits <= i)
      BY <1>6, <2>1, <2>3 DEF Greedy
    <3>2. k \in starts /\ k \in Nat
      BY <1>4, <1>6
    <3>3. i \in k - GroupBits + 1..k + GroupBits - 1
      BY <1>1, <2>1, <3>1, <3>2
    <3>4. k \in CleanStarts(look)
      BY <3>2, <3>3 DEF Kept
    <3> QED
      BY <1>1, <2>1, <3>1, <3>2, <3>4
  <2> QED
    BY <2>2, <2>3
<1> QED
  BY <1>2, <1>6, <1>7, <1>8

\* Some places, sorted: each is among them, and they increase.
LEMMA RankedProperties ==
  ASSUME NEW S \in SUBSET Nat, NEW m \in Nat, \A i \in S : i < m,
         NEW s, s = [k \in 1..Cardinality(S) |->
                        CHOOSE i \in S : Cardinality({j \in S : j < i}) = k - 1]
  PROVE  /\ IsFiniteSet(S) /\ Cardinality(S) \in Nat
         /\ s \in Seq(S) /\ Len(s) = Cardinality(S)
         /\ \A k \in 1..Cardinality(S) : s[k] \in S
         /\ \A k, l \in 1..Cardinality(S) : k < l => s[k] < s[l]
<1> DEFINE under(i) == {j \in S : j < i}
           n == Cardinality(S)
<1>1. IsFiniteSet(S) /\ n \in Nat
  <2>1. S \subseteq 0..m
    OBVIOUS
  <2>2. IsFiniteSet(0..m)
    BY FS_Interval
  <2> QED
    BY <2>1, <2>2, FS_Subset, FS_CardinalityType
<1>2. \A i : IsFiniteSet(under(i)) /\ Cardinality(under(i)) \in Nat
  BY <1>1, FS_Subset, FS_CardinalityType
<1>3. ASSUME NEW k \in 1..n PROVE \E i \in S : Cardinality(under(i)) = k - 1
  <2> DEFINE high == {i \in Nat : Cardinality(under(i)) >= k}
  <2>1. m \in high
    <3>1. under(m) = S
      OBVIOUS
    <3>2. n >= k
      BY <1>1
    <3> HIDE DEF under
    <3> QED
      BY <3>1, <3>2
  <2>2. PICK i \in high : \A j \in high : i <= j
    BY <2>1, LeastOf
  <2>3. i # 0
    <3>0. \A j \in S : ~(j < 0)
      OBVIOUS
    <3>1. under(0) = {}
      BY <3>0, Zenon
    <3>2. Cardinality(under(0)) = 0
      BY <3>1, FS_EmptySet
    <3>3. 0 \notin high
      BY <3>2
    <3> QED
      BY <2>2, <3>3
  <2>4. i - 1 \in Nat /\ i \in Nat /\ Cardinality(under(i)) >= k
    BY <2>2, <2>3
  <2>5. ~(Cardinality(under(i - 1)) >= k)
    BY <2>2, <2>4
  <2>6. i - 1 \in S /\ under(i) = under(i - 1) \cup {i - 1} /\ i - 1 \notin under(i - 1)
    <3>1. CASE i - 1 \in S
      <4>1. \A j \in S : j < i <=> j < i - 1 \/ j = i - 1
        BY <2>4
      <4>2. under(i) = under(i - 1) \cup {i - 1}
        BY <3>1, <4>1
      <4>3. i - 1 \notin under(i - 1)
        BY <2>4
      <4> QED
        BY <3>1, <4>2, <4>3
    <3>2. CASE i - 1 \notin S
      <4>1. \A j \in S : j < i <=> j < i - 1
        BY <2>4, <3>2
      <4>2. under(i) = under(i - 1)
        BY <4>1
      <4> QED
        BY <2>4, <2>5, <4>2
    <3> QED
      BY <3>1, <3>2
  <2>7. Cardinality(under(i)) = Cardinality(under(i - 1)) + 1
    <3> HIDE DEF under
    <3> QED
      BY <1>2, <2>6, FS_AddElement
  <2>8. Cardinality(under(i - 1)) = k - 1
    <3>1. Cardinality(under(i - 1)) \in Nat /\ Cardinality(under(i)) \in Nat
      BY <1>2
    <3> HIDE DEF under
    <3> QED
      BY <2>4, <2>5, <2>7, <3>1
  <2> QED
    BY <2>6, <2>8
<1>4. \A k \in 1..n : s[k] \in S /\ Cardinality(under(s[k])) = k - 1
  <2> TAKE k \in 1..n
  <2>1. s[k] = CHOOSE i \in S : Cardinality(under(i)) = k - 1
    OBVIOUS
  <2> HIDE DEF under
  <2> QED
    BY <1>3, <2>1
<1>5. s \in Seq(S) /\ Len(s) = n
  <2>1. s \in [1..n -> S]
    BY <1>4
  <2>2. s \in Seq(S)
    BY <1>1, <2>1, SeqDef
  <2>3. DOMAIN s = 1..Len(s) /\ Len(s) \in Nat /\ DOMAIN s = 1..n
    BY <2>1, <2>2, LenProperties
  <2> QED
    BY <1>1, <2>2, <2>3
<1>6. ASSUME NEW k \in 1..n, NEW l \in 1..n, k < l PROVE s[k] < s[l]
  <2>1. s[k] \in Nat /\ s[l] \in Nat
    BY <1>4
  <2>2. Cardinality(under(s[k])) = k - 1 /\ Cardinality(under(s[l])) = l - 1
    BY <1>4
  <2>3. ASSUME ~(s[k] < s[l]) PROVE FALSE
    <3>0. \A j \in S : j < s[l] => j < s[k]
      BY <2>1, <2>3
    <3>1. under(s[l]) \subseteq under(s[k])
      BY <3>0, Zenon
    <3>2. Cardinality(under(s[l])) <= Cardinality(under(s[k]))
      <4> HIDE DEF under
      <4> QED
        BY <1>2, <3>1, FS_Subset
    <3> QED
      BY <1>1, <1>6, <2>2, <3>2
  <2> QED
    BY <2>3
<1> QED
  BY <1>1, <1>4, <1>5, <1>6

-----------------------------------------------------------------------------
(* The windows.                                                              *)

Interval(position) == position..position + GroupBits - 1

\* What is known of the attempts at the window.
Tries ==
    /\ symbols \in Nat /\ start \in 0..symbols /\ tried \in 0..Attempts /\ done \in BOOLEAN
    /\ best = <<>> <=> tried = 0
    /\ best # <<>> =>
          LET attempt == best[1]
          IN  /\ attempt.look \in [0..Bits - GroupBits -> 0..2] /\ attempt.reversed \in BOOLEAN
              /\ best = <<[look |-> attempt.look, found |-> Emitted(attempt.look),
                           reversed |-> attempt.reversed]>>

\* What is known of the groups so far.
Places ==
    /\ positions \in Seq(Nat) /\ places \in Seq(SUBSET Int) /\ Len(places) = Len(positions)
    /\ clean \in Nat /\ corrected \in Nat /\ clean + corrected = Len(positions)
    /\ \A k \in 1..Len(positions) : /\ positions[k] <= symbols - 1 - GroupBits
                                    /\ places[k] = Interval(positions[k])
                                    /\ ~Whole => positions[k] + GroupBits <= start
    /\ \A k, l \in 1..Len(positions) :
          /\ k # l => \/ positions[k] + GroupBits <= positions[l]
                      \/ positions[l] + GroupBits <= positions[k]
          /\ ~Whole /\ k < l => positions[k] < positions[l]
    /\ Whole /\ ~done => positions = <<>>

NewPositions == [k \in DOMAIN InOrder |-> start + OnAxis(InOrder[k])]
NewPlaces == [k \in DOMAIN InOrder |-> PlaceOf(InOrder[k])]
Count == Cardinality(best[1].found)

\* A window is of symbols of the capture.
LEMMA WindowProperties ==
  ASSUME Tries
  PROVE  /\ GroupBits \in Nat \ {0} /\ Stop \in Nat /\ start <= Stop /\ Stop <= symbols
         /\ Bits \in Int /\ Bits = Stop - start - 1
<1>1. GroupBits \in Nat \ {0} /\ Window \in Nat
  BY SearchAssumption
<1>2. Window \div 2 \in Nat
  BY <1>1
<1>3. symbols \in Nat /\ start \in Nat /\ start <= symbols
  BY DEF Tries
<1>4. Stop = symbols \/ (Stop = start + Window /\ start + Window <= symbols)
  <2> DEFINE half == Window \div 2
  <2>1. half \in Nat
    BY <1>2
  <2>2. Stop = IF Whole \/ symbols - (start + Window) < half THEN symbols ELSE start + Window
    BY DEF Stop
  <2> HIDE DEF half
  <2>3. Stop = symbols \/ (Stop = start + Window /\ ~(symbols - (start + Window) < half))
    BY <2>2
  <2>4. ~(symbols - (start + Window) < half) => start + Window <= symbols
    BY <1>1, <1>3, <2>1
  <2> QED
    BY <2>3, <2>4, Zenon
<1>5. Stop \in Nat /\ start <= Stop /\ Stop <= symbols
  BY <1>1, <1>3, <1>4
<1> QED
  BY <1>1, <1>3, <1>5 DEF Bits

\* The groups that were found, in the order of their axis.
LEMMA FoundProperties ==
  ASSUME Tries, best # <<>>
  PROVE  /\ IsFiniteSet(best[1].found) /\ Count \in Nat /\ Len(Found) = Count
         /\ Found \in Seq(best[1].found) /\ best[1].reversed \in BOOLEAN
         /\ \A k \in 1..Count : Found[k] \in 0..Bits - GroupBits
         /\ \A k, l \in 1..Count : k < l => Found[k] + GroupBits <= Found[l]
<1> DEFINE found == best[1].found
<1>1. PICK look \in [0..Bits - GroupBits -> 0..2], reversed \in BOOLEAN :
              best = <<[look |-> look, found |-> Emitted(look), reversed |-> reversed]>>
  BY DEF Tries
<1>2. found = Emitted(look) /\ best[1].reversed \in BOOLEAN
  BY <1>1
<1>3. GroupBits \in Nat \ {0} /\ Bits \in Int
  BY WindowProperties
<1>4. /\ found \subseteq 0..Bits - GroupBits
      /\ \A j, k \in found : k < j => k + GroupBits <= j
  <2> HIDE DEF found
  <2> QED
    BY <1>2, <1>3, EmittedProperties
<1>5. PICK m \in Nat : \A i \in found : i < m
  <2>1. CASE Bits - GroupBits \in Nat
    <3>1. Bits - GroupBits + 1 \in Nat /\ \A j \in 0..Bits - GroupBits : j < Bits - GroupBits + 1
      BY <1>3, <2>1
    <3> QED
      BY <1>4, <3>1
  <2>2. CASE Bits - GroupBits \notin Nat
    <3>1. found = {}
      BY <1>3, <1>4, <2>2
    <3> QED
      BY <3>1
  <2> QED
    BY <2>1, <2>2
<1>6. found \in SUBSET Nat
  BY <1>4
<1>7. Found = [k \in 1..Cardinality(found) |->
                  CHOOSE i \in found : Cardinality({j \in found : j < i}) = k - 1]
  BY DEF Found, Before
<1> HIDE DEF found
<1>8. /\ IsFiniteSet(found) /\ Cardinality(found) \in Nat
      /\ Found \in Seq(found) /\ Len(Found) = Cardinality(found)
      /\ \A k \in 1..Cardinality(found) : Found[k] \in found
      /\ \A k, l \in 1..Cardinality(found) : k < l => Found[k] < Found[l]
  BY <1>5, <1>6, <1>7, RankedProperties
<1> QED
  BY <1>2, <1>4, <1>8 DEF found, Count

\* The same, in the order in which they are kept, on the axis of the capture.
LEMMA InOrderProperties ==
  ASSUME Tries, best # <<>>
  PROVE  /\ DOMAIN InOrder = 1..Count /\ Len(InOrder) = Count
         /\ \A k \in 1..Count : InOrder[k] \in 0..Bits - GroupBits
         /\ \A k \in 1..Count : OnAxis(InOrder[k]) \in 0..Bits - GroupBits
         /\ ~Whole => \A k, l \in 1..Count :
                         k < l => OnAxis(InOrder[k]) + GroupBits <= OnAxis(InOrder[l])
         /\ \A k, l \in 1..Count :
               k # l => \/ OnAxis(InOrder[k]) + GroupBits <= OnAxis(InOrder[l])
                        \/ OnAxis(InOrder[l]) + GroupBits <= OnAxis(InOrder[k])
<1> DEFINE rev == best[1].reversed
           A(i) == OnAxis(i)
<1>1. /\ Count \in Nat /\ Len(Found) = Count /\ Found \in Seq(best[1].found) /\ rev \in BOOLEAN
      /\ \A k \in 1..Count : Found[k] \in 0..Bits - GroupBits
      /\ \A k, l \in 1..Count : k < l => Found[k] + GroupBits <= Found[l]
  BY FoundProperties
<1>2. GroupBits \in Nat \ {0} /\ Bits \in Int
  BY WindowProperties
<1>3. DOMAIN Found = 1..Count
  BY <1>1, LenProperties
<1>4. \A i : A(i) = IF rev THEN Bits - i - GroupBits ELSE i
  BY DEF OnAxis, OnCaptureAxis
<1>5. \A i \in 0..Bits - GroupBits : A(i) \in 0..Bits - GroupBits
  BY <1>2, <1>4
<1>6. \A i, j \in 0..Bits - GroupBits :
         i + GroupBits <= j => IF rev THEN A(j) + GroupBits <= A(i) ELSE A(i) + GroupBits <= A(j)
  BY <1>2, <1>4
<1> HIDE DEF A, rev
<1>7. CASE Whole \/ ~rev
  <2>1. InOrder = Found
    BY <1>7 DEF InOrder, rev
  <2>2. \A k \in 1..Count : InOrder[k] \in 0..Bits - GroupBits /\ A(InOrder[k]) \in 0..Bits - GroupBits
    BY <1>1, <1>5, <2>1
  <2>3. ASSUME NEW k \in 1..Count, NEW l \in 1..Count, k < l
        PROVE  IF rev THEN A(InOrder[l]) + GroupBits <= A(InOrder[k])
               ELSE A(InOrder[k]) + GroupBits <= A(InOrder[l])
    <3>1. Found[k] + GroupBits <= Found[l]
      BY <1>1, <2>3
    <3>2. Found[k] \in 0..Bits - GroupBits /\ Found[l] \in 0..Bits - GroupBits
      BY <1>1
    <3> QED
      BY <1>6, <2>1, <3>1, <3>2
  <2>4. ~Whole => \A k, l \in 1..Count : k < l => A(InOrder[k]) + GroupBits <= A(InOrder[l])
    BY <1>7, <2>3
  <2>5. \A k, l \in 1..Count : k # l => \/ A(InOrder[k]) + GroupBits <= A(InOrder[l])
                                        \/ A(InOrder[l]) + GroupBits <= A(InOrder[k])
    <3> TAKE k, l \in 1..Count
    <3> HAVE k # l
    <3>1. k < l \/ l < k
      OBVIOUS
    <3> QED
      BY <2>3, <3>1
  <2> QED
    BY <1>1, <1>3, <2>1, <2>2, <2>4, <2>5 DEF A
<1>8. CASE ~Whole /\ rev
  <2>1. InOrder = [i \in 1..Count |-> Found[(Count - i) + 1]]
    BY <1>1, <1>8 DEF InOrder, Reverse, rev
  <2>2. DOMAIN InOrder = 1..Count
    BY <2>1
  <2>3. Len(InOrder) = Count
    <3>1. InOrder \in [1..Count -> 0..Bits - GroupBits]
      <4>1. \A i \in 1..Count : (Count - i) + 1 \in 1..Count
        BY <1>1
      <4> QED
        BY <1>1, <2>1, <4>1
    <3> DEFINE allowed == 0..Bits - GroupBits
    <3>2. InOrder \in Seq(allowed)
      <4> HIDE DEF allowed
      <4> SUFFICES InOrder \in [1..Count -> allowed]
        BY <1>1, SeqDef
      <4> QED
        BY <3>1 DEF allowed
    <3> HIDE DEF allowed
    <3>3. DOMAIN InOrder = 1..Len(InOrder) /\ Len(InOrder) \in Nat
      BY <3>2, LenProperties
    <3> QED
      BY <1>1, <2>2, <3>3
  <2>4. \A k \in 1..Count : InOrder[k] = Found[(Count - k) + 1] /\ (Count - k) + 1 \in 1..Count
    BY <1>1, <2>1
  <2>5. \A k \in 1..Count : InOrder[k] \in 0..Bits - GroupBits /\ A(InOrder[k]) \in 0..Bits - GroupBits
    BY <1>1, <1>5, <2>4
  <2>6. ASSUME NEW k \in 1..Count, NEW l \in 1..Count, k < l
        PROVE  A(InOrder[k]) + GroupBits <= A(InOrder[l])
    <3> DEFINE a == (Count - k) + 1
               b == (Count - l) + 1
    <3>1. a \in 1..Count /\ b \in 1..Count /\ b < a
      BY <1>1, <2>6
    <3>2. InOrder[k] = Found[a] /\ InOrder[l] = Found[b]
      BY <2>4
    <3> HIDE DEF a, b
    <3>3. Found[b] + GroupBits <= Found[a]
      BY <1>1, <3>1
    <3>4. Found[a] \in 0..Bits - GroupBits /\ Found[b] \in 0..Bits - GroupBits
      BY <1>1, <3>1
    <3> QED
      BY <1>6, <1>8, <3>2, <3>3, <3>4
  <2>7. \A k, l \in 1..Count : k # l => \/ A(InOrder[k]) + GroupBits <= A(InOrder[l])
                                        \/ A(InOrder[l]) + GroupBits <= A(InOrder[k])
    <3> TAKE k, l \in 1..Count
    <3> HAVE k # l
    <3>1. k < l \/ l < k
      OBVIOUS
    <3> QED
      BY <2>6, <3>1
  <2> QED
    BY <2>2, <2>3, <2>5, <2>6, <2>7 DEF A
<1> QED
  BY <1>1, <1>7, <1>8

\* Where a window's groups are: each within the window, and none over another.
LEMMA NewProperties ==
  ASSUME Tries, best # <<>>
  PROVE  /\ Count \in Nat
         /\ NewPositions \in Seq(Nat) /\ Len(NewPositions) = Count
         /\ NewPlaces \in Seq(SUBSET Int) /\ Len(NewPlaces) = Count
         /\ \A k \in 1..Count :
               /\ start <= NewPositions[k] /\ NewPositions[k] <= symbols - 1 - GroupBits
               /\ NewPlaces[k] = Interval(NewPositions[k])
               /\ ~Whole => NewPositions[k] + GroupBits <= NextStart
         /\ \A k, l \in 1..Count :
               /\ k # l => \/ NewPositions[k] + GroupBits <= NewPositions[l]
                           \/ NewPositions[l] + GroupBits <= NewPositions[k]
               /\ ~Whole /\ k < l => NewPositions[k] < NewPositions[l]
         /\ NextStart \in 0..symbols /\ start <= NextStart
<1> DEFINE A(k) == OnAxis(InOrder[k])
           N(k) == NewPositions[k]
<1>1. /\ Count \in Nat /\ Len(Found) = Count /\ Found \in Seq(best[1].found)
      /\ best[1].reversed \in BOOLEAN
  BY FoundProperties
<1>2. /\ GroupBits \in Nat \ {0} /\ Stop \in Nat /\ start <= Stop /\ Stop <= symbols
      /\ Bits \in Int /\ Bits = Stop - start - 1
  BY WindowProperties
<1>3. symbols \in Nat /\ start \in Nat
  BY DEF Tries
<1>4. /\ DOMAIN InOrder = 1..Count /\ Len(InOrder) = Count
      /\ \A k \in 1..Count : InOrder[k] \in 0..Bits - GroupBits
      /\ \A k \in 1..Count : A(k) \in 0..Bits - GroupBits
      /\ ~Whole => \A k, l \in 1..Count : k < l => A(k) + GroupBits <= A(l)
      /\ \A k, l \in 1..Count : k # l => A(k) + GroupBits <= A(l) \/ A(l) + GroupBits <= A(k)
  BY InOrderProperties
<1>5. NewPositions = [k \in 1..Count |-> start + A(k)]
  BY <1>4 DEF NewPositions
<1>6. \A k \in 1..Count : N(k) = start + A(k)
  BY <1>5
<1>7. NewPlaces = [k \in 1..Count |-> PlaceOf(InOrder[k])]
  BY <1>4 DEF NewPlaces
<1>8. ASSUME NEW k \in 1..Count PROVE PlaceOf(InOrder[k]) = Interval(N(k))
  <2> DEFINE i == InOrder[k]
  <2>1. i \in Int /\ N(k) = start + OnAxis(i) /\ N(k) \in Int
    BY <1>2, <1>3, <1>4, <1>6
  <2>2. OnAxis(i) = IF best[1].reversed THEN Bits - i - GroupBits ELSE i
    BY DEF OnAxis, OnCaptureAxis
  <2>3. PlaceOf(i) = {start + (IF best[1].reversed THEN Bits - 1 - bit ELSE bit) : bit \in i..i + GroupBits - 1}
    BY DEF PlaceOf
  <2> HIDE DEF i, N
  <2>4. CASE best[1].reversed
    <3>1. N(k) = start + Bits - i - GroupBits
      BY <1>2, <1>3, <2>1, <2>2, <2>4
    <3>2. PlaceOf(i) = {start + (Bits - 1 - bit) : bit \in i..i + GroupBits - 1}
      BY <2>3, <2>4
    <3>3. ASSUME NEW x \in PlaceOf(i) PROVE x \in Interval(N(k))
      <4>1. PICK bit \in i..i + GroupBits - 1 : x = start + (Bits - 1 - bit)
        BY <3>2, <3>3
      <4> QED
        BY <1>2, <1>3, <2>1, <3>1, <4>1 DEF Interval
    <3>4. ASSUME NEW x \in Interval(N(k)) PROVE x \in PlaceOf(i)
      <4> DEFINE bit == start + Bits - 1 - x
      <4>1. x \in Int /\ bit \in i..i + GroupBits - 1 /\ x = start + (Bits - 1 - bit)
        BY <1>2, <1>3, <2>1, <3>1, <3>4 DEF Interval
      <4> HIDE DEF bit
      <4> QED
        BY <3>2, <4>1
    <3> QED
      BY <3>3, <3>4 DEF i
  <2>5. CASE ~best[1].reversed
    <3>1. N(k) = start + i
      BY <1>2, <1>3, <2>1, <2>2, <2>5
    <3>2. PlaceOf(i) = {start + bit : bit \in i..i + GroupBits - 1}
      BY <2>3, <2>5
    <3>3. ASSUME NEW x \in PlaceOf(i) PROVE x \in Interval(N(k))
      <4>1. PICK bit \in i..i + GroupBits - 1 : x = start + bit
        BY <3>2, <3>3
      <4> QED
        BY <1>2, <1>3, <2>1, <3>1, <4>1 DEF Interval
    <3>4. ASSUME NEW x \in Interval(N(k)) PROVE x \in PlaceOf(i)
      <4> DEFINE bit == x - start
      <4>1. x \in Int /\ bit \in i..i + GroupBits - 1 /\ x = start + bit
        BY <1>2, <1>3, <2>1, <3>1, <3>4 DEF Interval
      <4> HIDE DEF bit
      <4> QED
        BY <3>2, <4>1
    <3> QED
      BY <3>3, <3>4 DEF i
  <2> QED
    BY <1>1, <2>4, <2>5
<1>9. ASSUME NEW k \in 1..Count
      PROVE  N(k) \in Nat /\ start <= N(k) /\ N(k) + GroupBits <= Stop - 1
  <2>1. A(k) \in 0..Bits - GroupBits /\ N(k) = start + A(k)
    BY <1>4, <1>6
  <2> HIDE DEF A, N
  <2> QED
    BY <1>2, <1>3, <2>1
<1>10. NewPositions \in Seq(Nat) /\ Len(NewPositions) = Count
  <2>1. NewPositions \in [1..Count -> Nat]
    BY <1>5, <1>6, <1>9
  <2>2. NewPositions \in Seq(Nat)
    BY <1>1, <2>1, SeqDef
  <2>3. DOMAIN NewPositions = 1..Len(NewPositions) /\ Len(NewPositions) \in Nat
    BY <2>2, LenProperties
  <2> QED
    BY <1>1, <1>5, <2>2, <2>3
<1>11. NewPlaces \in Seq(SUBSET Int) /\ Len(NewPlaces) = Count
  <2>1. \A x : Interval(x) \in SUBSET Int
    BY DEF Interval
  <2>0. \A k \in 1..Count : PlaceOf(InOrder[k]) \in SUBSET Int
    <3> TAKE k \in 1..Count
    <3>1. PlaceOf(InOrder[k]) = Interval(N(k))
      BY <1>8
    <3> QED
      BY <2>1, <3>1, Zenon
  <2>2. NewPlaces \in [1..Count -> SUBSET Int]
    BY <1>7, <2>0
  <2>3. NewPlaces \in Seq(SUBSET Int)
    BY <1>1, <2>2, SeqDef
  <2>4. DOMAIN NewPlaces = 1..Len(NewPlaces) /\ Len(NewPlaces) \in Nat
    BY <2>3, LenProperties
  <2> QED
    BY <1>1, <1>7, <2>3, <2>4
<1>12. \A k \in 1..Count : NewPlaces[k] = Interval(N(k))
  BY <1>7, <1>8
<1>13. ASSUME NEW k \in 1..Count, NEW l \in 1..Count
       PROVE  /\ k # l => N(k) + GroupBits <= N(l) \/ N(l) + GroupBits <= N(k)
              /\ ~Whole /\ k < l => N(k) + GroupBits <= N(l)
  <2>1. /\ k # l => A(k) + GroupBits <= A(l) \/ A(l) + GroupBits <= A(k)
        /\ ~Whole /\ k < l => A(k) + GroupBits <= A(l)
        /\ A(k) \in 0..Bits - GroupBits /\ A(l) \in 0..Bits - GroupBits
    BY <1>4
  <2>2. N(k) = start + A(k) /\ N(l) = start + A(l)
    BY <1>6
  <2> HIDE DEF A, N
  <2> QED
    BY <1>2, <1>3, <2>1, <2>2
<1>14. /\ NextStart \in Nat /\ start <= NextStart /\ NextStart <= symbols
       /\ ~Whole => \A k \in 1..Count : N(k) + GroupBits <= NextStart
  <2>1. CASE Count # 0 /\ Stop < symbols
    <3>1. Count \in 1..Count
      BY <1>1, <2>1
    <3>2. Last(InOrder) = InOrder[Count] /\ Found # <<>>
      BY <1>1, <1>4, <2>1, EmptySeq DEF Last
    <3>3. NextStart = start + A(Count) + GroupBits
      BY <2>1, <3>2 DEF NextStart
    <3>4. NextStart = N(Count) + GroupBits
      BY <1>6, <3>1, <3>3
    <3>5. N(Count) \in Nat /\ start <= N(Count) /\ N(Count) + GroupBits <= Stop - 1
      BY <1>9, <3>1
    <3>6. ASSUME ~Whole, NEW k \in 1..Count PROVE N(k) + GroupBits <= NextStart
      <4>1. k = Count \/ k < Count
        BY <1>1
      <4>2. N(k) \in Nat /\ (k < Count => N(k) + GroupBits <= N(Count))
        BY <1>9, <1>13, <3>1, <3>6
      <4> HIDE DEF N
      <4> QED
        BY <1>2, <3>4, <3>5, <4>1, <4>2
    <3> HIDE DEF N
    <3> QED
      BY <1>2, <1>3, <3>4, <3>5, <3>6
  <2>2. CASE ~(Count # 0 /\ Stop < symbols)
    <3>1. Count = 0 => Found = <<>>
      BY <1>1, EmptySeq
    <3>2. NextStart = Stop
      BY <2>2, <3>1 DEF NextStart
    <3>3. ASSUME NEW k \in 1..Count PROVE N(k) + GroupBits <= Stop
      <4>1. N(k) \in Nat /\ N(k) + GroupBits <= Stop - 1
        BY <1>9
      <4> HIDE DEF N
      <4> QED
        BY <1>2, <4>1
    <3> QED
      BY <1>2, <3>2, <3>3
  <2> QED
    BY <2>1, <2>2
<1>15. ASSUME NEW k \in 1..Count PROVE N(k) <= symbols - 1 - GroupBits
  <2>1. N(k) \in Nat /\ N(k) + GroupBits <= Stop - 1
    BY <1>9
  <2> HIDE DEF N
  <2> QED
    BY <1>2, <1>3, <2>1
<1>16. ASSUME NEW k \in 1..Count, NEW l \in 1..Count, ~Whole, k < l PROVE N(k) < N(l)
  <2>1. N(k) \in Nat /\ N(l) \in Nat /\ N(k) + GroupBits <= N(l)
    BY <1>9, <1>13, <1>16
  <2> HIDE DEF N
  <2> QED
    BY <1>2, <2>1
<1>17. NextStart \in 0..symbols
  BY <1>3, <1>14
<1> QED
  BY <1>1, <1>9, <1>10, <1>11, <1>12, <1>13, <1>14, <1>15, <1>16, <1>17

-----------------------------------------------------------------------------
(* The steps of the search.                                                  *)

\* An attempt keeps what is known of the attempts: it looks at the whole window.
LEMMA AttemptStep ==
  ASSUME Tries, Places, Attempt
  PROVE  Tries' /\ Places'
<1>1. /\ ~done /\ tried < Attempts /\ tried' = tried + 1
      /\ UNCHANGED <<symbols, clear, start, positions, clean, corrected, places, done>>
  BY DEF Attempt, Searching
<1>2. PICK look \in Looks(Bits) :
         best' = <<[look |-> look, found |-> Emitted(look), reversed |-> tried % 2 = 1]>>
         \/ (best' = best /\ best # <<>>)
  BY DEF Attempt
<1>3. look \in [0..Bits - GroupBits -> 0..2]
  BY DEF Looks
<1>4. Bits' = Bits
  BY <1>1 DEF Bits, Stop, Whole
<1>5. tried' \in 0..Attempts /\ tried' # 0
  BY <1>1, SearchAssumption DEF Tries
<1>6. best' # <<>> /\
      \E look_ \in [0..Bits - GroupBits -> 0..2], reversed \in BOOLEAN :
         best' = <<[look |-> look_, found |-> Emitted(look_), reversed |-> reversed]>>
  <2>1. CASE best' = <<[look |-> look, found |-> Emitted(look), reversed |-> tried % 2 = 1]>>
    <3>1. (tried % 2 = 1) \in BOOLEAN
      OBVIOUS
    <3> QED
      BY <1>3, <2>1, <3>1
  <2>2. CASE best' = best /\ best # <<>>
    BY <2>2 DEF Tries
  <2> QED
    BY <1>2, <2>1, <2>2
<1>7. Tries'
  BY <1>1, <1>4, <1>5, <1>6 DEF Tries
<1>8. Places'
  <2>1. Whole' = Whole
    BY <1>1 DEF Whole
  <2> QED
    BY <1>1, <2>1 DEF Places
<1> QED
  BY <1>7, <1>8

\* The groups of a window come after those of the windows before it.
LEMMA EndWindowStep ==
  ASSUME Tries, Places, EndWindow
  PROVE  Tries' /\ Places'
<1> DEFINE n == Len(positions)
           p(k) == positions'[k]
<1>1. /\ ~done /\ tried = Attempts
      /\ positions' = positions \o NewPositions /\ places' = places \o NewPlaces
      /\ start' = NextStart /\ done' = Whole
      /\ tried' = 0 /\ best' = <<>>
      /\ UNCHANGED <<symbols, clear>>
  BY DEF EndWindow, Searching, NewPositions, NewPlaces
<1>2. best # <<>>
  BY <1>1, SearchAssumption DEF Tries
<1>3. /\ Count \in Nat
      /\ NewPositions \in Seq(Nat) /\ Len(NewPositions) = Count
      /\ NewPlaces \in Seq(SUBSET Int) /\ Len(NewPlaces) = Count
      /\ NextStart \in 0..symbols /\ start <= NextStart
      /\ GroupBits \in Nat /\ symbols \in Nat /\ start \in Nat
  BY <1>2, NewProperties, WindowProperties DEF Tries
<1>4. \A k \in 1..Count :
         /\ start <= NewPositions[k] /\ NewPositions[k] <= symbols - 1 - GroupBits
         /\ NewPlaces[k] = Interval(NewPositions[k])
         /\ ~Whole => NewPositions[k] + GroupBits <= NextStart
  BY <1>2, NewProperties
<1>5. \A k, l \in 1..Count :
         /\ k # l => \/ NewPositions[k] + GroupBits <= NewPositions[l]
                     \/ NewPositions[l] + GroupBits <= NewPositions[k]
         /\ ~Whole /\ k < l => NewPositions[k] < NewPositions[l]
  BY <1>2, NewProperties
<1>6. Whole \in BOOLEAN /\ Whole' = Whole
  BY <1>1 DEF Whole
<1>7. Tries'
  <2>1. 0 \in 0..Attempts
    BY SearchAssumption
  <2> QED
    BY <1>1, <1>3, <1>6, <2>1 DEF Tries
<1>8. /\ n \in Nat /\ positions \in Seq(Nat) /\ places \in Seq(SUBSET Int) /\ Len(places) = n
      /\ Len(positions') = n + Count /\ positions' \in Seq(Nat)
      /\ Len(places') = n + Count /\ places' \in Seq(SUBSET Int)
  <2>1. /\ n \in Nat /\ positions \in Seq(Nat) /\ places \in Seq(SUBSET Int) /\ Len(places) = n
    BY DEF Places
  <2>2. /\ Len(positions') = n + Count /\ positions' \in Seq(Nat)
    <3> DEFINE whole == positions \o NewPositions
    <3>1. whole \in Seq(Nat) /\ Len(whole) = Len(positions) + Len(NewPositions)
      <4>1. positions \in Seq(Nat) /\ NewPositions \in Seq(Nat)
        BY <1>3, <2>1
      <4> QED
        BY <4>1, ConcatProperties
    <3>2. positions' = whole
      BY <1>1
    <3> HIDE DEF whole
    <3> QED
      BY <1>3, <3>1, <3>2
  <2>3. /\ Len(places') = n + Count /\ places' \in Seq(SUBSET Int)
    <3> DEFINE whole == places \o NewPlaces
    <3>1. whole \in Seq(SUBSET Int) /\ Len(whole) = Len(places) + Len(NewPlaces)
      <4>1. places \in Seq(SUBSET Int) /\ NewPlaces \in Seq(SUBSET Int)
        BY <1>3, <2>1
      <4> QED
        BY <4>1, ConcatProperties
    <3>2. places' = whole
      BY <1>1
    <3> HIDE DEF whole
    <3> QED
      BY <1>3, <2>1, <3>1, <3>2
  <2> QED
    BY <2>1, <2>2, <2>3
<1>9. /\ \A k \in 1..n : p(k) = positions[k] /\ places'[k] = places[k]
      /\ \A k \in n + 1..n + Count :
            p(k) = NewPositions[k - n] /\ places'[k] = NewPlaces[k - n] /\ k - n \in 1..Count
  BY <1>1, <1>3, <1>8
<1>10. /\ clean' \in Nat /\ corrected' \in Nat /\ clean' + corrected' = n + Count
  <2> DEFINE found == best[1].found
             cleanOnes == found \cap CleanStarts(best[1].look)
  <2>1. clean' = clean + Cardinality(cleanOnes)
        /\ corrected' = corrected + Cardinality(found \ cleanOnes)
    BY DEF EndWindow
  <2>2. IsFiniteSet(found) /\ Cardinality(found) = Count
    BY <1>2, FoundProperties DEF Count
  <2> DEFINE others == found \ cleanOnes
  <2>3. found = cleanOnes \cup others /\ cleanOnes \cap others = {}
        /\ cleanOnes \subseteq found /\ others \subseteq found
    OBVIOUS
  <2>4. clean' = clean + Cardinality(cleanOnes) /\ corrected' = corrected + Cardinality(others)
    BY <2>1
  <2> HIDE DEF found, cleanOnes, others
  <2>5. IsFiniteSet(cleanOnes) /\ IsFiniteSet(others)
    BY <2>2, <2>3, FS_Subset
  <2>6. Cardinality(cleanOnes) \in Nat /\ Cardinality(others) \in Nat
    BY <2>5, FS_CardinalityType
  <2>7. Cardinality(found) = Cardinality(cleanOnes) + Cardinality(others) - Cardinality({})
    BY <2>3, <2>5, FS_Union
  <2>8. Cardinality({}) = 0
    BY FS_EmptySet
  <2>9. clean \in Nat /\ corrected \in Nat /\ clean + corrected = n
    BY DEF Places
  <2> HIDE DEF n
  <2> QED
    BY <1>3, <2>2, <2>4, <2>6, <2>7, <2>8, <2>9
<1>11. Whole => n = 0
  BY <1>1 DEF Places
<1>12. ASSUME NEW k \in 1..n + Count
       PROVE  /\ p(k) \in Nat /\ p(k) <= symbols - 1 - GroupBits
              /\ places'[k] = Interval(p(k))
              /\ ~Whole => p(k) + GroupBits <= NextStart
              /\ k \in 1..n => ~Whole /\ p(k) + GroupBits <= start
              /\ k \notin 1..n => start <= p(k)
  <2>1. CASE k \in 1..n
    <3>1. ~Whole
      BY <1>8, <1>11, <2>1
    <3>2. /\ positions[k] \in Nat /\ positions[k] <= symbols - 1 - GroupBits
          /\ places[k] = Interval(positions[k])
          /\ positions[k] + GroupBits <= start
      BY <1>8, <2>1, <3>1 DEF Places
    <3>3. p(k) = positions[k] /\ places'[k] = places[k]
      BY <1>9, <2>1
    <3> HIDE DEF p
    <3> QED
      BY <1>3, <2>1, <3>1, <3>2, <3>3
  <2>2. CASE k \notin 1..n
    <3>1. k \in n + 1..n + Count
      BY <1>3, <1>8, <2>2
    <3>2. p(k) = NewPositions[k - n] /\ places'[k] = NewPlaces[k - n] /\ k - n \in 1..Count
      BY <1>9, <3>1
    <3>3. NewPositions[k - n] \in Nat
      BY <1>3, <3>2
    <3> HIDE DEF p, n
    <3> QED
      BY <1>4, <2>2, <3>2, <3>3
  <2> QED
    BY <2>1, <2>2
<1>13. ASSUME NEW k \in 1..n + Count, NEW l \in 1..n + Count
       PROVE  /\ k # l => p(k) + GroupBits <= p(l) \/ p(l) + GroupBits <= p(k)
              /\ ~Whole /\ k < l => p(k) < p(l)
  <2>0. /\ k \in Nat /\ l \in Nat /\ n \in Nat /\ p(k) \in Nat /\ p(l) \in Nat
        /\ GroupBits \in Nat \ {0}
    BY <1>3, <1>8, <1>12, SearchAssumption
  <2>1. CASE k \in 1..n /\ l \in 1..n
    <3>1. /\ k # l => \/ positions[k] + GroupBits <= positions[l]
                      \/ positions[l] + GroupBits <= positions[k]
          /\ ~Whole /\ k < l => positions[k] < positions[l]
      BY <2>1 DEF Places
    <3> QED
      BY <1>9, <2>1, <3>1
  <2>2. CASE k \notin 1..n /\ l \notin 1..n
    <3>1. k \in n + 1..n + Count /\ l \in n + 1..n + Count
      BY <1>3, <2>0, <2>2
    <3>2. p(k) = NewPositions[k - n] /\ k - n \in 1..Count
      BY <1>9, <3>1
    <3>3. p(l) = NewPositions[l - n] /\ l - n \in 1..Count
      BY <1>9, <3>1
    <3>4. (k # l => k - n # l - n) /\ (k < l => k - n < l - n)
      BY <2>0
    <3> HIDE DEF p, n
    <3>5. /\ k - n # l - n => \/ NewPositions[k - n] + GroupBits <= NewPositions[l - n]
                              \/ NewPositions[l - n] + GroupBits <= NewPositions[k - n]
          /\ ~Whole /\ k - n < l - n => NewPositions[k - n] < NewPositions[l - n]
      BY <1>5, <3>2, <3>3
    <3> QED
      BY <3>2, <3>3, <3>4, <3>5
  <2>3. CASE k \in 1..n /\ l \notin 1..n
    <3>1. p(k) + GroupBits <= start /\ start <= p(l)
      BY <1>12, <2>3
    <3> HIDE DEF p, n
    <3> QED
      BY <1>3, <2>0, <3>1
  <2>4. CASE k \notin 1..n /\ l \in 1..n
    <3>1. p(l) + GroupBits <= start /\ start <= p(k)
      BY <1>12, <2>4
    <3>2. ~(k < l)
      BY <2>0, <2>4
    <3> HIDE DEF p, n
    <3> QED
      BY <1>3, <2>0, <3>1, <3>2
  <2> QED
    BY <2>1, <2>2, <2>3, <2>4
<1>14. Whole' /\ ~done' => positions' = <<>>
  BY <1>1, <1>6
<1> HIDE DEF n
<1>15. /\ Len(positions') = n + Count /\ start' = NextStart /\ symbols' = symbols
       /\ Len(places') = Len(positions')
  BY <1>1, <1>8
<1>16. Places'
  BY <1>6, <1>8, <1>10, <1>12, <1>13, <1>14, <1>15 DEF Places
<1> QED
  BY <1>7, <1>16

\* The end of the search leaves its groups as they are.
LEMMA EndSearchStep ==
  ASSUME Tries, Places, EndSearch
  PROVE  Tries' /\ Places'
<1>1. ~done /\ done' = TRUE
      /\ UNCHANGED <<symbols, clear, start, tried, best, positions, clean, corrected, places>>
  BY DEF EndSearch
<1>2. Bits' = Bits /\ Whole' = Whole
  BY <1>1 DEF Bits, Stop, Whole
<1> QED
  BY <1>1, <1>2 DEF Tries, Places

\* Nor does any other step touch them.
LEMMA SearchUnchanged ==
  ASSUME Tries, Places, UNCHANGED searchVars
  PROVE  Tries' /\ Places'
<1>1. UNCHANGED <<symbols, clear, start, tried, best, positions, clean, corrected, places, done>>
  BY DEF searchVars
<1>2. Bits' = Bits /\ Whole' = Whole
  BY <1>1 DEF Bits, Stop, Whole
<1> QED
  BY <1>1, <1>2 DEF Tries, Places

-----------------------------------------------------------------------------
(* The module.                                                               *)

\* What is known of the station: its counts and payloads are of PIs that were received.
Stations ==
    /\ \A g \in air : g.pi \in PIs
    /\ firstPi \in PIs \cup {NoPI}
    /\ order \in Seq(PIs) /\ groups \in Seq(Range(groups))
    /\ DOMAIN counts = Range(order) /\ DOMAIN payloads \subseteq PIs
    /\ Len(groups) <= Len(positions)

\* The rules of a policy: no two for the same stations name different zones.
Sound(given) ==
    /\ given \in Seq(Range(given)) /\ ~Conflicting(given)
    /\ \A i \in 1..Len(given) : /\ given[i].kind \in {"all", "freq", "pi"}
                                /\ given[i].zone \in DOMAIN Zones \cup {Standard}

\* A payload whose Clock-Times are.
Clocks == Seq([utc : Int, offset : Int, rx : Int \cup {NoTime}])
Timed(p) == "clocks" \in DOMAIN p /\ p.clocks \in Clocks

\* Every PI that is counted has a payload, or none has and one PI was set; and what they
\* hold can be read by the rules.
Readings ==
    /\ Sound(rules)
    /\ \A g \in air : g.low \in Nat /\ g.c \in Nat /\ g.d \in Nat
    /\ \A pi \in DOMAIN counts : counts[pi] \in Nat
    /\ IF payloads = <<>> THEN Range(order) \subseteq {firstPi} ELSE Range(order) \subseteq DOMAIN payloads
    /\ Timed(fields) /\ \A pi \in DOMAIN payloads : Timed(payloads[pi])

\* Noise flips one bit of a group or two, if there is a group.
Words16 == SUBSET (0..15)
Noisy ==
    /\ sent \in {<<>>} \cup [Blocks -> Words16]
    /\ flipped # {} => sent # <<>> /\ \E f, g \in Blocks \X (0..25) : flipped = {f, g}

IInv == Tries /\ Places /\ Stations /\ Readings /\ Noisy

\* What the blocks say is a number of minutes.
LEMMA DecodedTypes ==
  ASSUME NEW b \in Nat, NEW c \in Nat, NEW d \in Nat, DecodeClockTime(b, c, d) # <<>>
  PROVE  DecodeClockTime(b, c, d)[1].utc \in Int /\ DecodeClockTime(b, c, d)[1].offset \in Int
<1> DEFINE mjd == (b % 4) * 32768 + c \div 2
           hour == HourOf(c, d)
           minute == (d \div 64) % 64
           offset == 30 * (d % 32)
           east == IF (d \div 32) % 2 = 1 THEN -offset ELSE offset
           utc == mjd * DayMinutes + hour * 60 + minute
<1>1. mjd \in Int /\ minute \in Int /\ offset \in Int
  <2>1. b % 4 \in Int /\ c \div 2 \in Int /\ (d \div 64) % 64 \in Int /\ d % 32 \in Int
    OBVIOUS
  <2> QED
    BY <2>1
<1>2. hour \in Int
  <2>1. c % 2 \in Int /\ d \div 4096 \in Int
    OBVIOUS
  <2> QED
    BY <2>1 DEF HourOf
<1>3. DecodeClockTime(b, c, d) = <<ClockTime(utc, east)>>
  BY DEF DecodeClockTime
<1> HIDE DEF mjd, hour, minute, offset
<1>4. utc \in Int
  BY <1>1, <1>2 DEF DayMinutes
<1>5. east \in Int
  BY <1>1
<1> HIDE DEF utc, east
<1> QED
  BY <1>3, <1>4, <1>5 DEF ClockTime

\* A new payload has no Clock-Time.
LEMMA NewTimed == Timed(NewPayload)
<1>1. "clocks" \in DOMAIN NewPayload /\ NewPayload.clocks = <<>>
  BY DEF NewPayload
<1> QED
  BY <1>1 DEF Timed, Clocks

\* No group was received yet: there is nothing to read.
LEMMA InitReadings == Init => Readings
<1> SUFFICES ASSUME Init PROVE Readings
  OBVIOUS
<1>1. PICK capture \in Captures : air = capture.air /\ rules = capture.rules
  BY DEF Init
<1>2. Sound(rules)
  <2>1. rules \in Seq(Range(rules)) /\ ~Conflicting(rules)
    BY <1>1, CapturesAssumption DEF Init
  <2>2. DOMAIN rules = 1..Len(rules)
    BY <2>1, LenProperties
  <2>3. \A i \in 1..Len(rules) : /\ rules[i].kind \in {"all", "freq", "pi"}
                                 /\ rules[i].zone \in DOMAIN Zones \cup {Standard}
    BY <1>1, <2>2, CapturesAssumption DEF Precedence
  <2> QED
    BY <2>1, <2>3 DEF Sound
<1>3. \A g \in air : g.low \in Nat /\ g.c \in Nat /\ g.d \in Nat
  BY <1>1, CapturesAssumption
<1>4. /\ counts = <<>> /\ order = <<>> /\ payloads = <<>> /\ fields = NewPayload
  BY DEF Init, InfoInit
<1>5. DOMAIN counts = {} /\ DOMAIN payloads = {} /\ Range(order) = {}
  BY <1>4 DEF Range
<1>6. Timed(fields)
  BY <1>4, NewTimed
<1> QED
  BY <1>2, <1>3, <1>4, <1>5, <1>6 DEF Readings

\* Nor has noise flipped any bit.
LEMMA InitNoisy == Init => Noisy
<1> SUFFICES ASSUME Init PROVE Noisy
  OBVIOUS
<1>1. flipped = {} /\ \E capture \in Captures : sent \in capture.words
  BY DEF Init
<1>2. \A capture \in Captures : capture.words \subseteq {<<>>} \cup [Blocks -> SUBSET (0..15)]
  BY CapturesAssumption DEF DataBits
<1> QED
  BY <1>1, <1>2 DEF Noisy, Words16

\* Nothing was searched or parsed.
LEMMA InitIInv == Init => IInv
<1> SUFFICES ASSUME Init PROVE IInv
  OBVIOUS
<1>1. PICK capture \in Captures : symbols = capture.symbols /\ air = capture.air
  BY DEF Init
<1>2. symbols \in Nat /\ \A g \in air : g.pi \in PIs
  BY <1>1, CapturesAssumption
<1>3. Tries
  <2>1. start = 0 /\ tried = 0 /\ best = <<>> /\ done = FALSE
    BY DEF Init, SearchInit
  <2>2. Attempts \in Nat
    BY SearchAssumption
  <2>3. start \in 0..symbols /\ tried \in 0..Attempts
    BY <1>2, <2>1, <2>2
  <2>4. done \in BOOLEAN
    BY <2>1
  <2> QED
    BY <1>2, <2>1, <2>3, <2>4 DEF Tries
<1>4. Places
  BY DEF Init, SearchInit, Places
<1>5. Stations
  <2>1. /\ counts = <<>> /\ order = <<>> /\ firstPi = NoPI /\ payloads = <<>> /\ groups = <<>>
        /\ positions = <<>>
    BY DEF Init, SearchInit, InfoInit
  <2>2. order \in Seq(PIs) /\ groups \in Seq(Range(groups)) /\ Len(groups) <= Len(positions)
    BY <2>1
  <2>3. DOMAIN counts = {} /\ DOMAIN payloads = {} /\ Range(order) = {}
    BY <2>1 DEF Range
  <2> QED
    BY <1>2, <2>1, <2>2, <2>3 DEF Stations
<1> QED
  BY <1>3, <1>4, <1>5, InitReadings, InitNoisy DEF IInv

\* What is at the end of a sequence is of its range.
LEMMA AppendRange ==
  ASSUME NEW S, NEW s \in Seq(S), NEW x
  PROVE  Range(Append(s, x)) = Range(s) \cup {x} /\ Append(s, x) \in Seq(Range(Append(s, x)))
<1> DEFINE t == Append(s, x)
<1>1. Len(s) \in Nat /\ DOMAIN s = 1..Len(s)
  BY LenProperties
<1>2. /\ DOMAIN t = 1..Len(s) + 1 /\ t[Len(s) + 1] = x /\ \A i \in 1..Len(s) : t[i] = s[i]
      /\ t = [i \in 1..Len(s) + 1 |-> t[i]]
  <2>1. s \in Seq(S \cup {x}) /\ x \in S \cup {x}
    OBVIOUS
  <2>2. t \in Seq(S \cup {x}) /\ Len(t) = Len(s) + 1
        /\ \A i \in 1..Len(s) + 1 : t[i] = IF i <= Len(s) THEN s[i] ELSE x
    BY <2>1
  <2>3. DOMAIN t = 1..Len(s) + 1 /\ t = [i \in 1..Len(s) + 1 |-> t[i]]
    BY <1>1, <2>2, LenProperties
  <2> HIDE DEF t
  <2> QED
    BY <1>1, <2>2, <2>3
<1> HIDE DEF t
<1>3. ASSUME NEW y PROVE y \in Range(t) <=> y \in Range(s) \cup {x}
  <2>1. y \in Range(t) <=> \E i \in 1..Len(s) + 1 : y = t[i]
    BY <1>2 DEF Range
  <2>2. y \in Range(s) <=> \E i \in 1..Len(s) : y = s[i]
    BY <1>1 DEF Range
  <2>3. ASSUME NEW i \in 1..Len(s) + 1 PROVE i \in 1..Len(s) \/ i = Len(s) + 1
    BY <1>1
  <2>4. \A i \in 1..Len(s) : i \in 1..Len(s) + 1
    BY <1>1
  <2>5. Len(s) + 1 \in 1..Len(s) + 1
    BY <1>1
  <2> QED
    BY <1>2, <2>1, <2>2, <2>3, <2>4, <2>5, Zenon
<1>4. t \in Seq(Range(t))
  <2>1. \A i \in 1..Len(s) + 1 : t[i] \in Range(t)
    BY <1>2 DEF Range
  <2>2. t \in [1..Len(s) + 1 -> Range(t)]
    BY <1>2, <2>1
  <2>3. Len(s) + 1 \in Nat
    BY <1>1
  <2> QED
    BY <2>2, <2>3, SeqDef
<1>5. Range(t) = Range(s) \cup {x}
  BY <1>3, Zenon
<1> QED
  BY <1>4, <1>5 DEF t

\* A group that is parsed is counted for the PI that it names.
LEMMA ParseStep ==
  ASSUME IInv, Parse
  PROVE  Stations'
<1>1. PICK g \in air : ParseGroup(g, ReceivedAt(positions[Len(groups) + 1]), EndOf(places[Len(groups) + 1]))
  BY DEF Parse
<1> DEFINE added == [group |-> g, rx |-> ReceivedAt(positions[Len(groups) + 1]),
                     end |-> EndOf(places[Len(groups) + 1])]
<1>2. /\ Len(groups) < Len(positions) /\ UNCHANGED <<positions, air>>
  BY DEF Parse, Parsing, searchVars, captureVars
<1>3. groups' = Append(groups, added)
  BY <1>1 DEF ParseGroup
<1>4. groups' \in Seq(Range(groups')) /\ Len(groups') = Len(groups) + 1
  <2> HIDE DEF added
  <2>1. groups \in Seq(Range(groups))
    BY DEF IInv, Stations
  <2>2. groups' \in Seq(Range(groups'))
    BY <1>3, <2>1, AppendRange
  <2>3. Len(groups') = Len(groups) + 1
    BY <1>3, <2>1
  <2> QED
    BY <2>2, <2>3
<1> HIDE DEF added
<1>5. Len(groups') <= Len(positions')
  <2>1. Len(groups) \in Nat /\ Len(positions) \in Nat
    BY DEF IInv, Stations, Places
  <2> QED
    BY <1>2, <1>4, <2>1
<1>6. g.pi \in PIs
  BY DEF IInv, Stations
<1>7. firstPi' \in PIs
  BY <1>1, <1>6 DEF ParseGroup, IInv, Stations
<1>8. order' \in Seq(PIs) /\ DOMAIN counts' = Range(order')
  <2>0. order \in Seq(PIs) /\ DOMAIN counts = Range(order)
    BY DEF IInv, Stations
  <2>1. CASE g.pi \in DOMAIN counts
    <3>1. counts' = Put(counts, g.pi, counts[g.pi] + 1) /\ order' = order
      BY <1>1, <2>1 DEF ParseGroup
    <3>2. DOMAIN counts' = DOMAIN counts \cup {g.pi}
      BY <3>1 DEF Put
    <3> QED
      BY <2>0, <2>1, <3>1, <3>2
  <2>2. CASE g.pi \notin DOMAIN counts
    <3>1. counts' = Put(counts, g.pi, 1) /\ order' = Append(order, g.pi)
      BY <1>1, <2>2 DEF ParseGroup
    <3>2. DOMAIN counts' = DOMAIN counts \cup {g.pi}
      BY <3>1 DEF Put
    <3>3. Range(order') = Range(order) \cup {g.pi}
      BY <2>0, <3>1, AppendRange
    <3>4. order' \in Seq(PIs)
      BY <1>6, <2>0, <3>1
    <3> QED
      BY <2>0, <3>2, <3>3, <3>4
  <2> QED
    BY <2>1, <2>2
<1>9. DOMAIN payloads' \subseteq PIs
  <2> DEFINE known == IF payloads = <<>> THEN Put(<<>>, firstPi', fields) ELSE payloads
             rx == ReceivedAt(positions[Len(groups) + 1])
  <2>1. payloads' = Put(known, g.pi, Parsed(PayloadOf(known, g.pi), g, rx))
    BY <1>1 DEF ParseGroup
  <2>2. DOMAIN known \subseteq PIs
    BY <1>7 DEF Put, IInv, Stations
  <2>3. DOMAIN payloads' = {g.pi} \cup DOMAIN known
    <3> HIDE DEF known, rx
    <3> QED
      BY <2>1 DEF Put
  <2> QED
    BY <1>6, <2>2, <2>3
<1>10. \A h \in air' : h.pi \in PIs
  BY <1>2 DEF IInv, Stations
<1> QED
  BY <1>4, <1>5, <1>7, <1>8, <1>9, <1>10 DEF Stations

\* Setting the PI leaves at most one PI counted, and no group parsed.
LEMMA IdentifyStep ==
  ASSUME IInv, Identify
  PROVE  Stations'
<1>1. PICK value \in PIs \cup {NoPI} : SetPi(value)
  BY DEF Identify
<1>2. UNCHANGED <<positions, air>>
  BY DEF Identify, searchVars, captureVars
<1>3. groups' = <<>> /\ payloads' = <<>> /\ firstPi' = value
  BY <1>1 DEF SetPi
<1>4. groups' \in Seq(Range(groups')) /\ Len(groups') <= Len(positions') /\ DOMAIN payloads' = {}
  <2>1. Len(positions) \in Nat
    BY DEF IInv, Places
  <2> QED
    BY <1>2, <1>3, <2>1
<1>5. order' \in Seq(PIs) /\ DOMAIN counts' = Range(order')
  <2>1. CASE value = NoPI
    <3>1. counts' = <<>> /\ order' = <<>>
      BY <1>1, <2>1 DEF SetPi
    <3> QED
      BY <3>1 DEF Range
  <2>2. CASE value # NoPI
    <3>1. counts' = Put(<<>>, value, Confirmation) /\ order' = <<value>> /\ value \in PIs
      BY <1>1, <2>2 DEF SetPi
    <3>2. DOMAIN counts' = {value}
      BY <3>1 DEF Put
    <3>3. Range(order') = {value}
      BY <3>1 DEF Range
    <3> QED
      BY <3>1, <3>2, <3>3
  <2> QED
    BY <2>1, <2>2
<1>6. \A h \in air' : h.pi \in PIs
  BY <1>2 DEF IInv, Stations
<1> QED
  BY <1>3, <1>4, <1>5, <1>6 DEF Stations

\* What a group adds to a payload leaves its Clock-Times in order.
LEMMA ParsedTimed ==
  ASSUME NEW p, Timed(p), NEW g, g.low \in Nat, g.c \in Nat, g.d \in Nat,
         NEW rx \in Int \cup {NoTime}
  PROVE  Timed(Parsed(p, g, rx))
<1> DEFINE q == [p EXCEPT !.pty = IF @ = NoPty THEN g.pty ELSE @,
                          !.counted = @ (+) SetToBag({<<g.type, g.version>>})]
<1>1. Timed(q)
  BY DEF Timed
<1> HIDE DEF q
<1>2. Timed(UpdatePs(q, g))
  BY <1>1 DEF Timed, UpdatePs
<1>3. Timed(UpdateRt(q, g))
  BY <1>1 DEF Timed, UpdateRt
<1>4. Timed(UpdateClock(q, g, rx))
  <2> DEFINE decoded == DecodeClockTime(g.low, g.c, g.d)
  <2>1. CASE decoded = <<>>
    BY <1>1, <2>1 DEF UpdateClock
  <2>2. CASE decoded # <<>>
    <3>1. decoded[1].utc \in Int /\ decoded[1].offset \in Int
      BY <2>2, DecodedTypes
    <3> DEFINE clock == [utc |-> decoded[1].utc, offset |-> decoded[1].offset, rx |-> rx]
    <3>2. UpdateClock(q, g, rx) = [q EXCEPT !.clocks = Append(@, clock)]
      BY <2>2 DEF UpdateClock
    <3> HIDE DEF decoded
    <3>3. clock \in [utc : Int, offset : Int, rx : Int \cup {NoTime}]
      BY <3>1
    <3> HIDE DEF clock
    <3>4. Append(q.clocks, clock) \in Clocks /\ "clocks" \in DOMAIN q
      BY <1>1, <3>3 DEF Timed, Clocks
    <3> QED
      BY <3>2, <3>4 DEF Timed
  <2> QED
    BY <2>1, <2>2
<1>5. Parsed(p, g, rx) = CASE g.type = 0 -> UpdatePs(q, g)
                           [] g.type = 2 -> UpdateRt(q, g)
                           [] g.type = 4 /\ g.version = "A" -> UpdateClock(q, g, rx)
                           [] OTHER -> q
  BY DEF Parsed, q
<1> QED
  BY <1>1, <1>2, <1>3, <1>4, <1>5

\* The PI that is most common is the first of those with most groups.
LEMMA MostCommonFirst ==
  ASSUME NEW PI, NEW order_ \in Seq(PI), order_ # <<>>, NEW counts_,
         \A pi \in Range(order_) : counts_[pi] \in Nat
  PROVE  \E i \in DOMAIN order_ :
           /\ MostCommon(order_, counts_) = order_[i]
           /\ \A j \in DOMAIN order_ : /\ counts_[order_[j]] <= counts_[order_[i]]
                                       /\ j < i => counts_[order_[j]] < counts_[order_[i]]
<1>1. Len(order_) \in Nat /\ DOMAIN order_ = 1..Len(order_) /\ 1 \in DOMAIN order_
  BY EmptySeq, LenProperties
<1> DEFINE rank == [i \in DOMAIN order_ |-> counts_[order_[i]]]
           most == CHOOSE i \in DOMAIN order_ :
                       \A j \in DOMAIN order_ :
                           /\ counts_[order_[j]] <= counts_[order_[i]]
                           /\ j < i => counts_[order_[j]] < counts_[order_[i]]
<1>2. \A i \in DOMAIN order_ : rank[i] \in Int /\ rank[i] = counts_[order_[i]]
  BY DEF Range
<1>3. \E i \in DOMAIN order_ : \A j \in DOMAIN order_ : rank[j] <= rank[i] /\ (j < i => rank[j] < rank[i])
  <2> HIDE DEF rank
  <2> QED
    BY <1>1, <1>2, FirstOfMost
<1>4. /\ most \in DOMAIN order_
      /\ \A j \in DOMAIN order_ : /\ counts_[order_[j]] <= counts_[order_[most]]
                                  /\ j < most => counts_[order_[j]] < counts_[order_[most]]
  BY <1>3
<1>5. MostCommon(order_, counts_) = order_[most]
  BY DEF MostCommon
<1> HIDE DEF most
<1> QED
  BY <1>4, <1>5

\* It is one of those that were counted.
LEMMA MostCommonCounted ==
  ASSUME NEW PI, NEW order_ \in Seq(PI), order_ # <<>>, NEW counts_,
         \A pi \in Range(order_) : counts_[pi] \in Nat
  PROVE  MostCommon(order_, counts_) \in Range(order_)
<1>1. \E i \in DOMAIN order_ : MostCommon(order_, counts_) = order_[i]
  BY MostCommonFirst
<1> QED
  BY <1>1 DEF Range

\* A group that is parsed leaves what its PI, and what is shown, can be read by.
LEMMA ParseReadings ==
  ASSUME IInv, Parse
  PROVE  Readings'
<1>1. PICK g \in air : ParseGroup(g, ReceivedAt(positions[Len(groups) + 1]), EndOf(places[Len(groups) + 1]))
  BY DEF Parse
<1> DEFINE rx == ReceivedAt(positions[Len(groups) + 1])
           known == IF payloads = <<>> THEN Put(<<>>, firstPi', fields) ELSE payloads
           parsed == Parsed(PayloadOf(known, g.pi), g, rx)
<1>2. UNCHANGED <<air, rules>>
  BY DEF Parse, captureVars
<1>3. rx \in Int \cup {NoTime}
  <2>1. Len(groups) \in Nat /\ Len(positions) \in Nat /\ Len(groups) < Len(positions)
    BY DEF Parse, Parsing, IInv, Stations, Places
  <2>2. Len(groups) + 1 \in 1..Len(positions)
    BY <2>1
  <2>3. positions[Len(groups) + 1] \in Nat /\ GroupBits \in Nat
    BY <2>2, SearchAssumption, ElementOfSeq DEF IInv, Places
  <2> QED
    BY <2>3 DEF ReceivedAt
<1>4. payloads' = Put(known, g.pi, parsed)
  BY <1>1 DEF ParseGroup
<1>5. g.low \in Nat /\ g.c \in Nat /\ g.d \in Nat /\ g.pi \in PIs
  BY DEF IInv, Readings, Stations
<1>6. \A pi \in DOMAIN known : Timed(known[pi])
  BY DEF IInv, Readings, Put
<1>7. Range(order) \subseteq DOMAIN known
  <2>1. CASE payloads = <<>>
    <3>1. Range(order) \subseteq {firstPi} /\ Range(order) \subseteq PIs
      <4>1. Range(order) \subseteq {firstPi}
        BY <2>1 DEF IInv, Readings
      <4>2. order \in Seq(PIs)
        BY DEF IInv, Stations
      <4>3. Range(order) \subseteq PIs
        BY <4>2 DEF Range
      <4> QED
        BY <4>1, <4>3
    <3>2. firstPi = NoPI \/ firstPi' = firstPi
      BY <1>1 DEF ParseGroup
    <3>3. Range(order) \subseteq {firstPi'}
      BY <3>1, <3>2, StationAssumption
    <3>4. DOMAIN known = {firstPi'}
      BY <2>1 DEF Put
    <3> QED
      BY <3>3, <3>4
  <2>2. CASE payloads # <<>>
    BY <2>2 DEF IInv, Readings
  <2> QED
    BY <2>1, <2>2
<1> HIDE DEF rx, known
<1>8. Timed(parsed)
  <2>1. Timed(PayloadOf(known, g.pi))
    BY <1>6, NewTimed DEF PayloadOf
  <2> QED
    BY <1>3, <1>5, <2>1, ParsedTimed
<1> HIDE DEF parsed
<1>9. /\ DOMAIN payloads' = DOMAIN known \cup {g.pi}
      /\ \A pi \in DOMAIN payloads' : Timed(payloads'[pi])
  BY <1>4, <1>6, <1>8 DEF Put
<1>10. /\ Range(order') = Range(order) \cup {g.pi} /\ order' \in Seq(PIs)
       /\ \A pi \in DOMAIN counts' : counts'[pi] \in Nat
       /\ DOMAIN counts' = Range(order')
  <2>1. order \in Seq(PIs) /\ DOMAIN counts = Range(order) /\ \A pi \in DOMAIN counts : counts[pi] \in Nat
    BY DEF IInv, Readings, Stations
  <2>2. CASE g.pi \in DOMAIN counts
    <3>1. counts' = Put(counts, g.pi, counts[g.pi] + 1) /\ order' = order
      BY <1>1, <2>2 DEF ParseGroup
    <3>2. DOMAIN counts' = DOMAIN counts /\ \A pi \in DOMAIN counts' : counts'[pi] \in Nat
      BY <2>1, <2>2, <3>1 DEF Put
    <3> QED
      BY <2>1, <2>2, <3>1, <3>2
  <2>3. CASE g.pi \notin DOMAIN counts
    <3>1. counts' = Put(counts, g.pi, 1) /\ order' = Append(order, g.pi)
      BY <1>1, <2>3 DEF ParseGroup
    <3>2. DOMAIN counts' = DOMAIN counts \cup {g.pi} /\ \A pi \in DOMAIN counts' : counts'[pi] \in Nat
      BY <2>1, <3>1 DEF Put
    <3>3. Range(order') = Range(order) \cup {g.pi}
      BY <2>1, <3>1, AppendRange
    <3>4. order' \in Seq(PIs)
      BY <1>5, <2>1, <3>1
    <3> QED
      BY <2>1, <3>2, <3>3, <3>4
  <2> QED
    BY <2>2, <2>3
<1>11. payloads' # <<>> /\ Range(order') \subseteq DOMAIN payloads'
  BY <1>7, <1>9, <1>10
<1>12. Timed(fields')
  <2>1. fields' = payloads'[MostCommon(order', counts')]
    BY <1>1 DEF ParseGroup
  <2>2. order' # <<>>
    <3>1. order' = <<>> => Range(order') = {}
      BY DEF Range
    <3>2. g.pi \in Range(order')
      BY <1>10
    <3> QED
      BY <3>1, <3>2
  <2>3. MostCommon(order', counts') \in Range(order')
    BY <1>10, <2>2, MostCommonCounted
  <2> QED
    BY <1>9, <1>11, <2>1, <2>3
<1>13. /\ Sound(rules')
       /\ \A h \in air' : h.low \in Nat /\ h.c \in Nat /\ h.d \in Nat
  BY <1>2 DEF IInv, Readings
<1> QED
  BY <1>9, <1>10, <1>11, <1>12, <1>13 DEF Readings

\* Setting the PI leaves nothing to read.
LEMMA IdentifyReadings ==
  ASSUME IInv, Identify
  PROVE  Readings'
<1>1. PICK value \in PIs \cup {NoPI} : SetPi(value)
  BY DEF Identify
<1>2. UNCHANGED <<air, rules>>
  BY DEF Identify, captureVars
<1>3. payloads' = <<>> /\ firstPi' = value /\ fields' = NewPayload
  BY <1>1 DEF SetPi
<1>4. (\A pi \in DOMAIN counts' : counts'[pi] \in Nat) /\ Range(order') \subseteq {value}
  <2>1. CASE value = NoPI
    <3>1. counts' = <<>> /\ order' = <<>>
      BY <1>1, <2>1 DEF SetPi
    <3> QED
      BY <3>1 DEF Range
  <2>2. CASE value # NoPI
    <3>1. counts' = Put(<<>>, value, Confirmation) /\ order' = <<value>>
      BY <1>1, <2>2 DEF SetPi
    <3>2. Confirmation \in Nat
      BY StationAssumption
    <3> QED
      BY <3>1, <3>2 DEF Put, Range
  <2> QED
    BY <2>1, <2>2
<1>5. Timed(fields') /\ DOMAIN payloads' = {}
  BY <1>3, NewTimed
<1>6. /\ Sound(rules')
      /\ \A h \in air' : h.low \in Nat /\ h.c \in Nat /\ h.d \in Nat
  BY <1>2 DEF IInv, Readings
<1> QED
  BY <1>3, <1>4, <1>5, <1>6 DEF Readings

\* Nor does a step that leaves the station and the capture alone.
LEMMA ReadingsUnchanged ==
  ASSUME Readings, UNCHANGED <<air, rules, counts, order, firstPi, payloads, fields>>
  PROVE  Readings'
<1> QED
  BY DEF Readings, Sound, Conflicting, Timed, Range

\* A bit is flipped only while there is none or one.
LEMMA NoiseStep ==
  ASSUME Noisy, Receive
  PROVE  Noisy'
<1>1. /\ sent # <<>> /\ sent' = sent
      /\ Cardinality(flipped) < MaxFlips
  BY DEF Receive, Noise
<1>2. PICK i \in Blocks, bit \in 0..25 : flipped' = flipped \cup {<<i, bit>>}
  <2>1. BlockBits - 1 = 25
    BY DEF BlockBits, DataBits, CrcBits
  <2> QED
    BY <2>1 DEF Receive, Noise
<1>3. <<i, bit>> \in Blocks \X (0..25)
  BY <1>2
<1>4. \E f \in Blocks \X (0..25) : flipped \subseteq {f}
  <2>1. CASE flipped = {}
    BY <1>3, <2>1
  <2>2. CASE flipped # {}
    <3>1. PICK f \in Blocks \X (0..25), g \in Blocks \X (0..25) : flipped = {f, g}
      BY <2>2 DEF Noisy
    <3>2. f # g => Cardinality({f} \cup {g}) = 2
      <4>1. IsFiniteSet({f}) /\ Cardinality({f}) = 1
        BY FS_Singleton
      <4>2. f # g => g \notin {f}
        OBVIOUS
      <4> QED
        BY <4>1, <4>2, FS_AddElement
    <3>3. {f} \cup {g} = flipped
      BY <3>1
    <3>4. f = g
      <4>1. MaxFlips <= 2 /\ MaxFlips \in Int
        BY FlipsAssumption
      <4>2. ~(Cardinality(flipped) = 2)
        BY <1>1, <4>1
      <4> QED
        BY <3>2, <3>3, <4>2
    <3> QED
      BY <3>1, <3>4
  <2> QED
    BY <2>1, <2>2
<1>5. \E f, g \in Blocks \X (0..25) : flipped' = {f, g}
  <2>1. PICK f \in Blocks \X (0..25) : flipped \subseteq {f}
    BY <1>4
  <2>2. flipped' = {<<i, bit>>, <<i, bit>>} \/ flipped' = {f, <<i, bit>>}
    BY <1>2, <2>1
  <2> QED
    BY <1>3, <2>2
<1> QED
  BY <1>1, <1>5 DEF Noisy

\* Every step keeps the invariant: one case per action of the code.
LEMMA NextIInv == IInv /\ [Next]_vars => IInv'
<1> SUFFICES ASSUME IInv, [Next]_vars PROVE IInv'
  OBVIOUS
<1>6. UNCHANGED blockVars => Noisy'
  BY DEF IInv, Noisy, blockVars
<1>1. CASE Receive
  <2>1. Tries' /\ Places'
    BY <1>1, SearchUnchanged DEF Receive, IInv
  <2>2. Stations'
    BY <1>1 DEF Receive, IInv, Stations, infoVars, captureVars, searchVars, Range
  <2>3. Readings'
    BY <1>1, ReadingsUnchanged DEF Receive, IInv, infoVars, captureVars
  <2> QED
    BY <1>1, <2>1, <2>2, <2>3, NoiseStep DEF IInv
<1>2. CASE Search
  <2>1. Tries' /\ Places'
    BY <1>2, AttemptStep, EndWindowStep, EndSearchStep DEF Search, IInv
  <2>2. Len(positions) <= Len(positions')
    <3>1. CASE Attempt
      BY <3>1 DEF Attempt, IInv, Places
    <3>2. CASE EndSearch
      BY <3>2 DEF EndSearch, IInv, Places
    <3>3. CASE EndWindow
      <4>1. positions' = positions \o NewPositions
        BY <3>3 DEF EndWindow, NewPositions
      <4>2. tried = Attempts
        BY <3>3 DEF EndWindow
      <4>3. best # <<>>
        BY <4>2, SearchAssumption DEF IInv, Tries
      <4>4. NewPositions \in Seq(Nat) /\ positions \in Seq(Nat)
        BY <4>3, NewProperties DEF IInv, Places
      <4>5. Len(positions') = Len(positions) + Len(NewPositions)
        BY <4>1, <4>4, ConcatProperties
      <4> QED
        BY <4>4, <4>5
    <3> QED
      BY <1>2, <3>1, <3>2, <3>3 DEF Search
  <2>3. Len(groups) <= Len(positions')
    <3>1. Len(groups) \in Nat /\ Len(positions) \in Nat /\ Len(positions') \in Nat
      BY <2>1 DEF IInv, Stations, Places
    <3>2. Len(groups) <= Len(positions)
      BY DEF IInv, Stations
    <3> QED
      BY <2>2, <3>1, <3>2
  <2>4. UNCHANGED <<air, firstPi, order, groups, counts, payloads>>
    BY <1>2 DEF Search, infoVars, captureVars
  <2>5. Stations'
    BY <2>3, <2>4 DEF IInv, Stations, Range
  <2>6. Readings'
    BY <1>2, ReadingsUnchanged DEF Search, IInv, infoVars, captureVars
  <2> QED
    BY <1>2, <1>6, <2>1, <2>5, <2>6 DEF Search, IInv
<1>3. CASE Parse
  BY <1>3, <1>6, ParseStep, ParseReadings, SearchUnchanged DEF Parse, IInv
<1>4. CASE Identify
  BY <1>4, <1>6, IdentifyStep, IdentifyReadings, SearchUnchanged DEF Identify, IInv
<1>5. CASE UNCHANGED vars
  <2>1. Tries' /\ Places'
    BY <1>5, SearchUnchanged DEF vars, IInv
  <2>2. Stations'
    BY <1>5 DEF vars, IInv, Stations, infoVars, captureVars, searchVars, Range
  <2>3. Readings'
    BY <1>5, ReadingsUnchanged DEF vars, IInv, infoVars, captureVars
  <2> QED
    BY <1>5, <1>6, <2>1, <2>2, <2>3 DEF vars, IInv
<1> QED
  BY <1>1, <1>2, <1>3, <1>4, <1>5 DEF Next

\* What is known of the search and of the station holds throughout.
THEOREM Inductive == Spec => []IInv
<1> QED
  BY InitIInv, NextIInv, PTL DEF Spec

\* Windows, positions and payloads keep their types, for captures of any length, windows
\* and groups of any size and any number of attempts (_decode_in_windows, StationInfo).
THEOREM TypeCorrect == Spec => []TypeOK
<1>1. ASSUME IInv PROVE TypeOK
  <2>1. \A k \in DOMAIN positions : positions[k] \in 0..symbols - 1 - GroupBits
    <3> TAKE k \in DOMAIN positions
    <3>1. k \in 1..Len(positions) /\ positions[k] \in Nat
      BY <1>1 DEF IInv, Places
    <3>2. positions[k] <= symbols - 1 - GroupBits
      BY <1>1, <3>1 DEF IInv, Places
    <3> QED
      BY <1>1, <3>1, <3>2, SearchAssumption DEF IInv, Tries
  <2>2. Range(order) \subseteq PIs
    BY <1>1 DEF IInv, Stations, Range
  <2> QED
    BY <1>1, <2>1, <2>2 DEF IInv, Tries, Places, Stations, TypeOK
<1> QED
  BY <1>1, Inductive, PTL

\* However long a capture and whatever the attempts see in its windows, no group is counted
\* twice, each is at the place where it was read, on either axis, and a clean group gives way
\* to none that was corrected (_decode_in_windows, _positions_on_capture_axis,
\* _drop_corrected_starts_overlapping_clean).
THEOREM GroupsAreInPlace == Spec => []GroupsKeepTheirPlace
<1>1. ASSUME IInv PROVE PlacesAreKept
  <2>1. /\ DOMAIN places = 1..Len(positions) /\ DOMAIN positions = 1..Len(positions)
        /\ positions \in Seq(Nat) /\ GroupBits \in Nat \ {0}
    BY <1>1, SearchAssumption DEF IInv, Places
  <2>2. \A k \in 1..Len(positions) : places[k] = Interval(positions[k]) /\ positions[k] \in Nat
    BY <1>1, <2>1 DEF IInv, Places
  <2>3. ASSUME NEW i \in 1..Len(positions), NEW j \in 1..Len(positions), i # j
        PROVE  places[i] \cap places[j] = {}
    <3>1. \/ positions[i] + GroupBits <= positions[j]
          \/ positions[j] + GroupBits <= positions[i]
      BY <1>1, <2>3 DEF IInv, Places
    <3>2. ASSUME NEW x \in Interval(positions[i]), x \in Interval(positions[j]) PROVE FALSE
      BY <2>1, <2>2, <3>1, <3>2 DEF Interval
    <3> QED
      BY <2>2, <3>2
  <2>4. ~Whole => \A i, j \in 1..Len(positions) : i < j => positions[i] < positions[j]
    BY <1>1 DEF IInv, Places
  <2> QED
    BY <2>1, <2>2, <2>3, <2>4 DEF PlacesAreKept, Interval
<1>2. ASSUME IInv PROVE CleanComesFirst
  <2> SUFFICES ASSUME best # <<>>
               PROVE  \A i \in CleanStarts(best[1].look) :
                          \E j \in best[1].found \cap CleanStarts(best[1].look) :
                              j - i < GroupBits /\ i - j < GroupBits
    BY DEF CleanComesFirst
  <2>1. PICK look \in [0..Bits - GroupBits -> 0..2], reversed \in BOOLEAN :
           best = <<[look |-> look, found |-> Emitted(look), reversed |-> reversed]>>
    BY <1>2 DEF IInv, Tries
  <2>2. best[1].look = look /\ best[1].found = Emitted(look)
    BY <2>1
  <2>3. Bits \in Int
    BY <1>2, WindowProperties DEF IInv
  <2>4. \A i \in CleanStarts(look) :
           \E j \in Emitted(look) \cap CleanStarts(look) : j - i < GroupBits /\ i - j < GroupBits
    BY <2>3, EmittedProperties
  <2> QED
    BY <2>2, <2>4
<1> QED
  BY <1>1, <1>2, Inductive, PTL DEF GroupsKeepTheirPlace

-----------------------------------------------------------------------------
(* The register.                                                             *)

\* One turn of the register.
Turn(register) ==
    LET next == Shifted(register, 1)
    IN  IF CrcBits \in next THEN Xor(next, CrcPoly) ELSE next

Registers == SUBSET (0..9)

\* A turn moves every bit, and the one that leaves takes the polynomial with it.
LEMMA TurnMembers ==
  ASSUME NEW register \in Registers
  PROVE  /\ Turn(register) \in Registers
         /\ 9 \notin register => \A x : x \in Turn(register) <=> x \in 1..9 /\ x - 1 \in register
         /\ 9 \in register => \A x : x \in Turn(register) <=>
               x \in 0..9 /\ (x \in 1..9 /\ x - 1 \in register <=> x \notin {0, 3, 4, 5, 7, 8})
<1> DEFINE next == Shifted(register, 1)
<1>1. \A x : x \in next <=> x \in 1..10 /\ x - 1 \in register
  <2>1. \A x \in next : x \in 1..10 /\ x - 1 \in register
    BY DEF Shifted, Registers
  <2>2. ASSUME NEW x \in 1..10, x - 1 \in register PROVE x \in next
    <3>1. x = (x - 1) + 1
      OBVIOUS
    <3> QED
      BY <2>2, <3>1 DEF Shifted
  <2> QED
    BY <2>1, <2>2
<1>2. 10 \in next <=> 9 \in register
  BY <1>1
<1>3. Turn(register) = IF 10 \in next THEN Xor(next, CrcPoly) ELSE next
  BY DEF Turn, CrcBits
<1> HIDE DEF next
<1>4. CASE 9 \notin register
  <2>1. \A x : x \in Turn(register) <=> x \in 1..10 /\ x - 1 \in register
    BY <1>1, <1>2, <1>3, <1>4
  <2>2. \A x : x \in Turn(register) <=> x \in 1..9 /\ x - 1 \in register
    BY <1>4, <2>1 DEF Registers
  <2>3. \A x \in Turn(register) : x \in 0..9
    BY <2>2
  <2> QED
    BY <1>4, <2>2, <2>3 DEF Registers
<1>5. CASE 9 \in register
  <2>1. \A x : x \in Turn(register) <=>
           (x \in next /\ x \notin CrcPoly) \/ (x \in CrcPoly /\ x \notin next)
    BY <1>2, <1>3, <1>5 DEF Xor
  <2>2. \A x : x \in CrcPoly <=> x = 10 \/ x \in {0, 3, 4, 5, 7, 8}
    BY DEF CrcPoly
  <2>3. ASSUME NEW x
        PROVE  x \in Turn(register) <=>
                 x \in 0..9 /\ (x \in 1..9 /\ x - 1 \in register <=> x \notin {0, 3, 4, 5, 7, 8})
    <3>1. CASE x \in 0..9
      BY <1>1, <2>1, <2>2, <3>1
    <3>2. CASE x = 10
      BY <1>1, <1>5, <2>1, <2>2, <3>2
    <3>3. CASE x \notin 0..9 /\ x # 10
      <4>1. x \notin CrcPoly /\ x \notin 1..10
        BY <2>2, <3>3
      <4> QED
        BY <1>1, <2>1, <3>3, <4>1
    <3> QED
      BY <3>1, <3>2, <3>3
  <2>4. \A x \in Turn(register) : x \in 0..9
    BY <2>3
  <2> QED
    BY <1>5, <2>3, <2>4 DEF Registers
<1> QED
  BY <1>4, <1>5

\* A register can be turned back.
LEMMA TurnedBack ==
  ASSUME NEW r \in Registers, NEW s \in Registers, Turn(r) = Turn(s)
  PROVE  r = s
<1>1. 9 \in r <=> 9 \in s
  <2>1. 0 \in Turn(r) <=> 9 \in r
    BY TurnMembers
  <2>2. 0 \in Turn(s) <=> 9 \in s
    BY TurnMembers
  <2> QED
    BY <2>1, <2>2
<1>2. ASSUME NEW x \in 0..8 PROVE x \in r <=> x \in s
  <2>1. x + 1 \in 1..9 /\ x + 1 \in 0..9 /\ (x + 1) - 1 = x
    OBVIOUS
  <2>2. CASE 9 \in r
    <3>1. x + 1 \in Turn(r) <=> (x \in r <=> x + 1 \notin {0, 3, 4, 5, 7, 8})
      BY <2>1, <2>2, TurnMembers
    <3>2. x + 1 \in Turn(s) <=> (x \in s <=> x + 1 \notin {0, 3, 4, 5, 7, 8})
      BY <1>1, <2>1, <2>2, TurnMembers
    <3> QED
      BY <3>1, <3>2
  <2>3. CASE 9 \notin r
    <3>1. x + 1 \in Turn(r) <=> x \in r
      BY <2>1, <2>3, TurnMembers
    <3>2. x + 1 \in Turn(s) <=> x \in s
      BY <1>1, <2>1, <2>3, TurnMembers
    <3> QED
      BY <3>1, <3>2
  <2> QED
    BY <2>2, <2>3
<1>3. \A x \in 0..9 : x \in r <=> x \in s
  BY <1>1, <1>2
<1>4. \A x : x \in r <=> x \in s
  BY <1>3 DEF Registers
<1> QED
  BY <1>4

\* What a bit leaves after each number of turns.
Turns ==
    <<{0}, {1}, {2}, {3}, {4}, {5}, {6}, {7}, {8}, {9}, {0, 3, 4, 5, 7, 8},
      {1, 4, 5, 6, 8, 9}, {0, 2, 3, 4, 6, 8, 9}, {0, 1, 8, 9},
      {0, 1, 2, 3, 4, 5, 7, 8, 9}, {0, 1, 2, 6, 7, 9}, {0, 1, 2, 4, 5}, {1, 2, 3, 5, 6},
      {2, 3, 4, 6, 7}, {3, 4, 5, 7, 8}, {4, 5, 6, 8, 9}, {0, 3, 4, 6, 8, 9},
      {0, 1, 3, 8, 9}, {0, 1, 2, 3, 5, 7, 8, 9}, {0, 1, 2, 5, 6, 7, 9},
      {0, 1, 2, 4, 5, 6}>>

\* Each entry is the one before it turned, and bit 0 is never alone again.
LEMMA TurnsTurn ==
  /\ Turns[1] = {0} /\ \A k \in 1..26 : Turns[k] \in Registers
  /\ \A k \in 2..26 : Turns[k] = Turn(Turns[k - 1]) /\ \E x \in 1..9 : x \in Turns[k]
<1>0. Turns[1] = {0} /\ {0} \in Registers
  BY DEF Turns, Registers
<1>1. Turns[2] = Turn(Turns[1]) /\ Turns[2] \in Registers /\ 1 \in Turns[2]
  <2>1. Turns[1] = {0} /\ Turns[2] = {1}
    BY DEF Turns
  <2>2. {0} \in Registers /\ {1} \in Registers
    BY DEF Registers
  <2>3. \A x : x \in Turn({0}) <=> x \in {1}
    BY <2>2, TurnMembers
  <2>4. Turn({0}) = {1}
    BY <2>3, Zenon
  <2> QED
    BY <2>1, <2>2, <2>4
<1>2. Turns[3] = Turn(Turns[2]) /\ Turns[3] \in Registers /\ 2 \in Turns[3]
  <2>1. Turns[2] = {1} /\ Turns[3] = {2}
    BY DEF Turns
  <2>2. {1} \in Registers /\ {2} \in Registers
    BY DEF Registers
  <2>3. \A x : x \in Turn({1}) <=> x \in {2}
    BY <2>2, TurnMembers
  <2>4. Turn({1}) = {2}
    BY <2>3, Zenon
  <2> QED
    BY <2>1, <2>2, <2>4
<1>3. Turns[4] = Turn(Turns[3]) /\ Turns[4] \in Registers /\ 3 \in Turns[4]
  <2>1. Turns[3] = {2} /\ Turns[4] = {3}
    BY DEF Turns
  <2>2. {2} \in Registers /\ {3} \in Registers
    BY DEF Registers
  <2>3. \A x : x \in Turn({2}) <=> x \in {3}
    BY <2>2, TurnMembers
  <2>4. Turn({2}) = {3}
    BY <2>3, Zenon
  <2> QED
    BY <2>1, <2>2, <2>4
<1>4. Turns[5] = Turn(Turns[4]) /\ Turns[5] \in Registers /\ 4 \in Turns[5]
  <2>1. Turns[4] = {3} /\ Turns[5] = {4}
    BY DEF Turns
  <2>2. {3} \in Registers /\ {4} \in Registers
    BY DEF Registers
  <2>3. \A x : x \in Turn({3}) <=> x \in {4}
    BY <2>2, TurnMembers
  <2>4. Turn({3}) = {4}
    BY <2>3, Zenon
  <2> QED
    BY <2>1, <2>2, <2>4
<1>5. Turns[6] = Turn(Turns[5]) /\ Turns[6] \in Registers /\ 5 \in Turns[6]
  <2>1. Turns[5] = {4} /\ Turns[6] = {5}
    BY DEF Turns
  <2>2. {4} \in Registers /\ {5} \in Registers
    BY DEF Registers
  <2>3. \A x : x \in Turn({4}) <=> x \in {5}
    BY <2>2, TurnMembers
  <2>4. Turn({4}) = {5}
    BY <2>3, Zenon
  <2> QED
    BY <2>1, <2>2, <2>4
<1>6. Turns[7] = Turn(Turns[6]) /\ Turns[7] \in Registers /\ 6 \in Turns[7]
  <2>1. Turns[6] = {5} /\ Turns[7] = {6}
    BY DEF Turns
  <2>2. {5} \in Registers /\ {6} \in Registers
    BY DEF Registers
  <2>3. \A x : x \in Turn({5}) <=> x \in {6}
    BY <2>2, TurnMembers
  <2>4. Turn({5}) = {6}
    BY <2>3, Zenon
  <2> QED
    BY <2>1, <2>2, <2>4
<1>7. Turns[8] = Turn(Turns[7]) /\ Turns[8] \in Registers /\ 7 \in Turns[8]
  <2>1. Turns[7] = {6} /\ Turns[8] = {7}
    BY DEF Turns
  <2>2. {6} \in Registers /\ {7} \in Registers
    BY DEF Registers
  <2>3. \A x : x \in Turn({6}) <=> x \in {7}
    BY <2>2, TurnMembers
  <2>4. Turn({6}) = {7}
    BY <2>3, Zenon
  <2> QED
    BY <2>1, <2>2, <2>4
<1>8. Turns[9] = Turn(Turns[8]) /\ Turns[9] \in Registers /\ 8 \in Turns[9]
  <2>1. Turns[8] = {7} /\ Turns[9] = {8}
    BY DEF Turns
  <2>2. {7} \in Registers /\ {8} \in Registers
    BY DEF Registers
  <2>3. \A x : x \in Turn({7}) <=> x \in {8}
    BY <2>2, TurnMembers
  <2>4. Turn({7}) = {8}
    BY <2>3, Zenon
  <2> QED
    BY <2>1, <2>2, <2>4
<1>9. Turns[10] = Turn(Turns[9]) /\ Turns[10] \in Registers /\ 9 \in Turns[10]
  <2>1. Turns[9] = {8} /\ Turns[10] = {9}
    BY DEF Turns
  <2>2. {8} \in Registers /\ {9} \in Registers
    BY DEF Registers
  <2>3. \A x : x \in Turn({8}) <=> x \in {9}
    BY <2>2, TurnMembers
  <2>4. Turn({8}) = {9}
    BY <2>3, Zenon
  <2> QED
    BY <2>1, <2>2, <2>4
<1>10. Turns[11] = Turn(Turns[10]) /\ Turns[11] \in Registers /\ 3 \in Turns[11]
  <2>1. Turns[10] = {9} /\ Turns[11] = {0, 3, 4, 5, 7, 8}
    BY DEF Turns
  <2>2. {9} \in Registers /\ {0, 3, 4, 5, 7, 8} \in Registers
    BY DEF Registers
  <2>3. \A x : x \in Turn({9}) <=> x \in {0, 3, 4, 5, 7, 8}
    BY <2>2, TurnMembers
  <2>4. Turn({9}) = {0, 3, 4, 5, 7, 8}
    BY <2>3, Zenon
  <2> QED
    BY <2>1, <2>2, <2>4
<1>11. Turns[12] = Turn(Turns[11]) /\ Turns[12] \in Registers /\ 1 \in Turns[12]
  <2>1. Turns[11] = {0, 3, 4, 5, 7, 8} /\ Turns[12] = {1, 4, 5, 6, 8, 9}
    BY DEF Turns
  <2>2. {0, 3, 4, 5, 7, 8} \in Registers /\ {1, 4, 5, 6, 8, 9} \in Registers
    BY DEF Registers
  <2>3. \A x : x \in Turn({0, 3, 4, 5, 7, 8}) <=> x \in {1, 4, 5, 6, 8, 9}
    BY <2>2, TurnMembers
  <2>4. Turn({0, 3, 4, 5, 7, 8}) = {1, 4, 5, 6, 8, 9}
    BY <2>3, Zenon
  <2> QED
    BY <2>1, <2>2, <2>4
<1>12. Turns[13] = Turn(Turns[12]) /\ Turns[13] \in Registers /\ 2 \in Turns[13]
  <2>1. Turns[12] = {1, 4, 5, 6, 8, 9} /\ Turns[13] = {0, 2, 3, 4, 6, 8, 9}
    BY DEF Turns
  <2>2. {1, 4, 5, 6, 8, 9} \in Registers /\ {0, 2, 3, 4, 6, 8, 9} \in Registers
    BY DEF Registers
  <2>3. \A x : x \in Turn({1, 4, 5, 6, 8, 9}) <=> x \in {0, 2, 3, 4, 6, 8, 9}
    BY <2>2, TurnMembers
  <2>4. Turn({1, 4, 5, 6, 8, 9}) = {0, 2, 3, 4, 6, 8, 9}
    BY <2>3, Zenon
  <2> QED
    BY <2>1, <2>2, <2>4
<1>13. Turns[14] = Turn(Turns[13]) /\ Turns[14] \in Registers /\ 1 \in Turns[14]
  <2>1. Turns[13] = {0, 2, 3, 4, 6, 8, 9} /\ Turns[14] = {0, 1, 8, 9}
    BY DEF Turns
  <2>2. {0, 2, 3, 4, 6, 8, 9} \in Registers /\ {0, 1, 8, 9} \in Registers
    BY DEF Registers
  <2>3. \A x : x \in Turn({0, 2, 3, 4, 6, 8, 9}) <=> x \in {0, 1, 8, 9}
    BY <2>2, TurnMembers
  <2>4. Turn({0, 2, 3, 4, 6, 8, 9}) = {0, 1, 8, 9}
    BY <2>3, Zenon
  <2> QED
    BY <2>1, <2>2, <2>4
<1>14. Turns[15] = Turn(Turns[14]) /\ Turns[15] \in Registers /\ 1 \in Turns[15]
  <2>1. Turns[14] = {0, 1, 8, 9} /\ Turns[15] = {0, 1, 2, 3, 4, 5, 7, 8, 9}
    BY DEF Turns
  <2>2. {0, 1, 8, 9} \in Registers /\ {0, 1, 2, 3, 4, 5, 7, 8, 9} \in Registers
    BY DEF Registers
  <2>3. \A x : x \in Turn({0, 1, 8, 9}) <=> x \in {0, 1, 2, 3, 4, 5, 7, 8, 9}
    BY <2>2, TurnMembers
  <2>4. Turn({0, 1, 8, 9}) = {0, 1, 2, 3, 4, 5, 7, 8, 9}
    BY <2>3, Zenon
  <2> QED
    BY <2>1, <2>2, <2>4
<1>15. Turns[16] = Turn(Turns[15]) /\ Turns[16] \in Registers /\ 1 \in Turns[16]
  <2>1. Turns[15] = {0, 1, 2, 3, 4, 5, 7, 8, 9} /\ Turns[16] = {0, 1, 2, 6, 7, 9}
    BY DEF Turns
  <2>2. {0, 1, 2, 3, 4, 5, 7, 8, 9} \in Registers /\ {0, 1, 2, 6, 7, 9} \in Registers
    BY DEF Registers
  <2>3. \A x : x \in Turn({0, 1, 2, 3, 4, 5, 7, 8, 9}) <=> x \in {0, 1, 2, 6, 7, 9}
    BY <2>2, TurnMembers
  <2>4. Turn({0, 1, 2, 3, 4, 5, 7, 8, 9}) = {0, 1, 2, 6, 7, 9}
    BY <2>3, Zenon
  <2> QED
    BY <2>1, <2>2, <2>4
<1>16. Turns[17] = Turn(Turns[16]) /\ Turns[17] \in Registers /\ 1 \in Turns[17]
  <2>1. Turns[16] = {0, 1, 2, 6, 7, 9} /\ Turns[17] = {0, 1, 2, 4, 5}
    BY DEF Turns
  <2>2. {0, 1, 2, 6, 7, 9} \in Registers /\ {0, 1, 2, 4, 5} \in Registers
    BY DEF Registers
  <2>3. \A x : x \in Turn({0, 1, 2, 6, 7, 9}) <=> x \in {0, 1, 2, 4, 5}
    BY <2>2, TurnMembers
  <2>4. Turn({0, 1, 2, 6, 7, 9}) = {0, 1, 2, 4, 5}
    BY <2>3, Zenon
  <2> QED
    BY <2>1, <2>2, <2>4
<1>17. Turns[18] = Turn(Turns[17]) /\ Turns[18] \in Registers /\ 1 \in Turns[18]
  <2>1. Turns[17] = {0, 1, 2, 4, 5} /\ Turns[18] = {1, 2, 3, 5, 6}
    BY DEF Turns
  <2>2. {0, 1, 2, 4, 5} \in Registers /\ {1, 2, 3, 5, 6} \in Registers
    BY DEF Registers
  <2>3. \A x : x \in Turn({0, 1, 2, 4, 5}) <=> x \in {1, 2, 3, 5, 6}
    BY <2>2, TurnMembers
  <2>4. Turn({0, 1, 2, 4, 5}) = {1, 2, 3, 5, 6}
    BY <2>3, Zenon
  <2> QED
    BY <2>1, <2>2, <2>4
<1>18. Turns[19] = Turn(Turns[18]) /\ Turns[19] \in Registers /\ 2 \in Turns[19]
  <2>1. Turns[18] = {1, 2, 3, 5, 6} /\ Turns[19] = {2, 3, 4, 6, 7}
    BY DEF Turns
  <2>2. {1, 2, 3, 5, 6} \in Registers /\ {2, 3, 4, 6, 7} \in Registers
    BY DEF Registers
  <2>3. \A x : x \in Turn({1, 2, 3, 5, 6}) <=> x \in {2, 3, 4, 6, 7}
    BY <2>2, TurnMembers
  <2>4. Turn({1, 2, 3, 5, 6}) = {2, 3, 4, 6, 7}
    BY <2>3, Zenon
  <2> QED
    BY <2>1, <2>2, <2>4
<1>19. Turns[20] = Turn(Turns[19]) /\ Turns[20] \in Registers /\ 3 \in Turns[20]
  <2>1. Turns[19] = {2, 3, 4, 6, 7} /\ Turns[20] = {3, 4, 5, 7, 8}
    BY DEF Turns
  <2>2. {2, 3, 4, 6, 7} \in Registers /\ {3, 4, 5, 7, 8} \in Registers
    BY DEF Registers
  <2>3. \A x : x \in Turn({2, 3, 4, 6, 7}) <=> x \in {3, 4, 5, 7, 8}
    BY <2>2, TurnMembers
  <2>4. Turn({2, 3, 4, 6, 7}) = {3, 4, 5, 7, 8}
    BY <2>3, Zenon
  <2> QED
    BY <2>1, <2>2, <2>4
<1>20. Turns[21] = Turn(Turns[20]) /\ Turns[21] \in Registers /\ 4 \in Turns[21]
  <2>1. Turns[20] = {3, 4, 5, 7, 8} /\ Turns[21] = {4, 5, 6, 8, 9}
    BY DEF Turns
  <2>2. {3, 4, 5, 7, 8} \in Registers /\ {4, 5, 6, 8, 9} \in Registers
    BY DEF Registers
  <2>3. \A x : x \in Turn({3, 4, 5, 7, 8}) <=> x \in {4, 5, 6, 8, 9}
    BY <2>2, TurnMembers
  <2>4. Turn({3, 4, 5, 7, 8}) = {4, 5, 6, 8, 9}
    BY <2>3, Zenon
  <2> QED
    BY <2>1, <2>2, <2>4
<1>21. Turns[22] = Turn(Turns[21]) /\ Turns[22] \in Registers /\ 3 \in Turns[22]
  <2>1. Turns[21] = {4, 5, 6, 8, 9} /\ Turns[22] = {0, 3, 4, 6, 8, 9}
    BY DEF Turns
  <2>2. {4, 5, 6, 8, 9} \in Registers /\ {0, 3, 4, 6, 8, 9} \in Registers
    BY DEF Registers
  <2>3. \A x : x \in Turn({4, 5, 6, 8, 9}) <=> x \in {0, 3, 4, 6, 8, 9}
    BY <2>2, TurnMembers
  <2>4. Turn({4, 5, 6, 8, 9}) = {0, 3, 4, 6, 8, 9}
    BY <2>3, Zenon
  <2> QED
    BY <2>1, <2>2, <2>4
<1>22. Turns[23] = Turn(Turns[22]) /\ Turns[23] \in Registers /\ 1 \in Turns[23]
  <2>1. Turns[22] = {0, 3, 4, 6, 8, 9} /\ Turns[23] = {0, 1, 3, 8, 9}
    BY DEF Turns
  <2>2. {0, 3, 4, 6, 8, 9} \in Registers /\ {0, 1, 3, 8, 9} \in Registers
    BY DEF Registers
  <2>3. \A x : x \in Turn({0, 3, 4, 6, 8, 9}) <=> x \in {0, 1, 3, 8, 9}
    BY <2>2, TurnMembers
  <2>4. Turn({0, 3, 4, 6, 8, 9}) = {0, 1, 3, 8, 9}
    BY <2>3, Zenon
  <2> QED
    BY <2>1, <2>2, <2>4
<1>23. Turns[24] = Turn(Turns[23]) /\ Turns[24] \in Registers /\ 1 \in Turns[24]
  <2>1. Turns[23] = {0, 1, 3, 8, 9} /\ Turns[24] = {0, 1, 2, 3, 5, 7, 8, 9}
    BY DEF Turns
  <2>2. {0, 1, 3, 8, 9} \in Registers /\ {0, 1, 2, 3, 5, 7, 8, 9} \in Registers
    BY DEF Registers
  <2>3. \A x : x \in Turn({0, 1, 3, 8, 9}) <=> x \in {0, 1, 2, 3, 5, 7, 8, 9}
    BY <2>2, TurnMembers
  <2>4. Turn({0, 1, 3, 8, 9}) = {0, 1, 2, 3, 5, 7, 8, 9}
    BY <2>3, Zenon
  <2> QED
    BY <2>1, <2>2, <2>4
<1>24. Turns[25] = Turn(Turns[24]) /\ Turns[25] \in Registers /\ 1 \in Turns[25]
  <2>1. Turns[24] = {0, 1, 2, 3, 5, 7, 8, 9} /\ Turns[25] = {0, 1, 2, 5, 6, 7, 9}
    BY DEF Turns
  <2>2. {0, 1, 2, 3, 5, 7, 8, 9} \in Registers /\ {0, 1, 2, 5, 6, 7, 9} \in Registers
    BY DEF Registers
  <2>3. \A x : x \in Turn({0, 1, 2, 3, 5, 7, 8, 9}) <=> x \in {0, 1, 2, 5, 6, 7, 9}
    BY <2>2, TurnMembers
  <2>4. Turn({0, 1, 2, 3, 5, 7, 8, 9}) = {0, 1, 2, 5, 6, 7, 9}
    BY <2>3, Zenon
  <2> QED
    BY <2>1, <2>2, <2>4
<1>25. Turns[26] = Turn(Turns[25]) /\ Turns[26] \in Registers /\ 1 \in Turns[26]
  <2>1. Turns[25] = {0, 1, 2, 5, 6, 7, 9} /\ Turns[26] = {0, 1, 2, 4, 5, 6}
    BY DEF Turns
  <2>2. {0, 1, 2, 5, 6, 7, 9} \in Registers /\ {0, 1, 2, 4, 5, 6} \in Registers
    BY DEF Registers
  <2>3. \A x : x \in Turn({0, 1, 2, 5, 6, 7, 9}) <=> x \in {0, 1, 2, 4, 5, 6}
    BY <2>2, TurnMembers
  <2>4. Turn({0, 1, 2, 5, 6, 7, 9}) = {0, 1, 2, 4, 5, 6}
    BY <2>3, Zenon
  <2> QED
    BY <2>1, <2>2, <2>4
<1>26. \A k \in 2..26 : Turns[k] = Turn(Turns[k - 1]) /\ Turns[k] \in Registers
                          /\ \E x \in 1..9 : x \in Turns[k]
  BY <1>1, <1>2, <1>3, <1>4, <1>5, <1>6, <1>7, <1>8, <1>9, <1>10, <1>11, <1>12, <1>13,
     <1>14, <1>15, <1>16, <1>17, <1>18, <1>19, <1>20, <1>21, <1>22, <1>23, <1>24, <1>25
<1> QED
  BY <1>0, <1>26

\* What a bit leaves after 0 to 25 turns: at first it alone, after that other bits as well,
\* never what it left before.
LEMMA TurnedProperties ==
  /\ \A t \in 0..25 : Turned[t] \in Registers
  /\ DOMAIN Turned = 0..25 /\ Turned[0] = {0} /\ \A t \in 0..25 : Turned[t] = Turns[t + 1]
  /\ \A t \in 1..25 : Turned[t] = Turn(Turned[t - 1]) /\ \E x \in 1..9 : x \in Turned[t]
<1> DEFINE Body(g) == [t \in 0..25 |-> IF t = 0 THEN {0} ELSE Turn(g[t - 1])]
           table == [t \in 0..25 |-> Turns[t + 1]]
<1>1. Turned = CHOOSE g : g = Body(g)
  BY DEF Turned, Turn, BlockBits, DataBits, CrcBits
<1>2. table = Body(table)
  <2>1. ASSUME NEW t \in 0..25 PROVE table[t] = IF t = 0 THEN {0} ELSE Turn(table[t - 1])
    <3>1. CASE t = 0
      BY <3>1, TurnsTurn
    <3>2. CASE t # 0
      <4>1. t + 1 \in 2..26 /\ t - 1 \in 0..25 /\ (t + 1) - 1 = (t - 1) + 1
        BY <3>2
      <4>2. Turns[t + 1] = Turn(Turns[(t - 1) + 1])
        BY <4>1, TurnsTurn
      <4> QED
        BY <3>2, <4>1, <4>2
    <3> QED
      BY <3>1, <3>2
  <2> QED
    BY <2>1
<1>3. Turned = Body(Turned)
  <2> HIDE DEF Body, table
  <2> QED
    BY <1>1, <1>2
<1>4. /\ DOMAIN Turned = 0..25 /\ Turned[0] = {0}
      /\ \A t \in 1..25 : Turned[t] = Turn(Turned[t - 1])
  BY <1>3
<1> DEFINE other == {t \in 0..25 : Turned[t] # Turns[t + 1]}
<1>5. other = {}
  <2> SUFFICES ASSUME other # {} PROVE FALSE
    OBVIOUS
  <2>1. PICK t \in other : \A u \in other : t <= u
    <3>1. other \in SUBSET Nat
      OBVIOUS
    <3> HIDE DEF other
    <3> QED
      BY <3>1, LeastOf
  <2>2. t \in 1..25
    <3>1. Turned[0] = Turns[0 + 1]
      BY <1>4, TurnsTurn
    <3> QED
      BY <2>1, <3>1
  <2>3. Turned[t - 1] = Turns[(t - 1) + 1]
    BY <2>1, <2>2
  <2>4. t + 1 \in 2..26 /\ (t - 1) + 1 = (t + 1) - 1
    BY <2>2
  <2>5. Turns[t + 1] = Turn(Turns[(t - 1) + 1])
    BY <2>4, TurnsTurn
  <2> QED
    BY <1>4, <2>1, <2>2, <2>3, <2>5
<1>6. ASSUME NEW t \in 0..25 PROVE Turned[t] \in Registers /\ (t # 0 => \E x \in 1..9 : x \in Turned[t])
  <2>1. t + 1 \in 1..26 /\ (t # 0 => t + 1 \in 2..26)
    OBVIOUS
  <2>2. Turned[t] = Turns[t + 1]
    BY <1>5
  <2> QED
    BY <2>1, <2>2, TurnsTurn
<1>7. \A t \in 1..25 : t \in 0..25 /\ t # 0
  OBVIOUS
<1> QED
  BY <1>4, <1>5, <1>6, <1>7

\* A bit does not reach the polynomial in its first nine turns.
LEMMA TurnedFirst == \A t \in 0..9 : Turned[t] = {t}
<1>1. \A t \in 0..9 : t + 1 \in 1..10 /\ t \in 0..25
  OBVIOUS
<1>2. \A k \in 1..10 : Turns[k] = {k - 1}
  BY DEF Turns
<1> QED
  BY <1>1, <1>2, TurnedProperties

\* No two of them are the same: turning back would give a bit that is alone for two times.
LEMMA TurnedDiffer ==
  /\ \A t \in 0..25 : Turned[t] # {}
  /\ \A t, u \in 0..25 : t < u => Turned[t] # Turned[u]
<1>1. \A t \in 0..25 : Turned[t] # {}
  <2> TAKE t \in 0..25
  <2>1. CASE t = 0
    BY <2>1, TurnedProperties
  <2>2. CASE t # 0
    <3>1. t \in 1..25
      BY <2>2
    <3> QED
      BY <3>1, TurnedProperties
  <2> QED
    BY <2>1, <2>2
<1> DEFINE again == {t \in 0..25 : \E u \in 0..25 : t < u /\ Turned[t] = Turned[u]}
<1>2. again = {}
  <2> SUFFICES ASSUME again # {} PROVE FALSE
    OBVIOUS
  <2>1. PICK t \in again : \A v \in again : t <= v
    <3>1. again \in SUBSET Nat
      OBVIOUS
    <3> HIDE DEF again
    <3> QED
      BY <3>1, LeastOf
  <2>2. PICK u \in 0..25 : t < u /\ Turned[t] = Turned[u]
    BY <2>1
  <2>3. CASE t = 0
    <3>1. u \in 1..25
      BY <2>2, <2>3
    <3>2. PICK x \in 1..9 : x \in Turned[u]
      BY <3>1, TurnedProperties
    <3>3. x \in {0}
      BY <2>2, <2>3, <3>2, TurnedProperties
    <3> QED
      BY <3>3
  <2>4. CASE t # 0
    <3>1. t \in 1..25 /\ u \in 1..25 /\ t - 1 \in 0..25 /\ u - 1 \in 0..25 /\ t - 1 < u - 1
      BY <2>1, <2>2, <2>4
    <3>2. Turn(Turned[t - 1]) = Turn(Turned[u - 1])
      BY <2>2, <3>1, TurnedProperties
    <3>3. Turned[t - 1] \in Registers /\ Turned[u - 1] \in Registers
      BY <3>1, TurnedProperties
    <3>4. Turned[t - 1] = Turned[u - 1]
      BY <3>2, <3>3, TurnedBack
    <3>5. t - 1 \in again
      BY <3>1, <3>4
    <3> QED
      BY <2>1, <3>1, <3>5
  <2> QED
    BY <2>3, <2>4
<1> QED
  BY <1>1, <1>2

-----------------------------------------------------------------------------
(* A block.                                                                  *)

Blocks26 == SUBSET (0..25)

\* The bits of the halves of a block.
LEMMA HalvesOfBlock ==
  ASSUME NEW block \in Blocks26
  PROVE  /\ Dataword(block) \in Words16 /\ Checkword(block) \in Registers
         /\ \A d : d \in Dataword(block) <=> d \in 0..15 /\ d + 10 \in block
         /\ \A d : d \in Checkword(block) <=> d \in 0..9 /\ d \in block
<1>1. \A d : d \in Dataword(block) <=> d \in 0..15 /\ d + 10 \in block
  <2>1. \A d \in Dataword(block) : d \in 0..15 /\ d + 10 \in block
    BY DEF Dataword, CrcBits, Blocks26
  <2>2. ASSUME NEW d \in 0..15, d + 10 \in block PROVE d \in Dataword(block)
    <3>1. d = (d + 10) - 10 /\ d + 10 >= 10
      OBVIOUS
    <3> QED
      BY <2>2, <3>1 DEF Dataword, CrcBits
  <2> QED
    BY <2>1, <2>2
<1>2. \A d : d \in Checkword(block) <=> d \in 0..9 /\ d \in block
  <2>1. \A d \in block : d \in 0..25
    BY DEF Blocks26
  <2>2. \A d \in 0..25 : d < 10 <=> d \in 0..9
    OBVIOUS
  <2>3. \A d : d \in Checkword(block) <=> d \in block /\ d < 10
    BY DEF Checkword, CrcBits
  <2> QED
    BY <2>1, <2>2, <2>3
<1> QED
  BY <1>1, <1>2 DEF Words16, Registers

\* What is a number's remainder by two.
LEMMA Parity ==
  ASSUME NEW a \in Nat, NEW b \in Nat, NEW c \in Nat, NEW n \in Nat, n = (a - c) + (b - c)
  PROVE  (n % 2 = 1) <=> ~((a % 2 = 1) <=> (b % 2 = 1))
<1>1. n = a + b - 2 * c
  OBVIOUS
<1>2. n % 2 = (a + b) % 2
  BY <1>1
<1> QED
  BY <1>2

\* The number of what is in one of two sets is odd if one of the two numbers is.
LEMMA XorParity ==
  ASSUME NEW A, NEW B, IsFiniteSet(A), IsFiniteSet(B)
  PROVE  (Cardinality(Xor(A, B)) % 2 = 1)
           <=> ~((Cardinality(A) % 2 = 1) <=> (Cardinality(B) % 2 = 1))
<1> DEFINE a == Cardinality(A)
           b == Cardinality(B)
           c == Cardinality(A \cap B)
<1>1. IsFiniteSet(A \cap B) /\ IsFiniteSet(A \ B) /\ IsFiniteSet(B \ A)
  BY FS_Subset
<1>2. a \in Nat /\ b \in Nat /\ c \in Nat
  BY <1>1, FS_CardinalityType
<1>3. Cardinality(A \ B) = a - c
  BY FS_Difference
<1>4. Cardinality(B \ A) = b - c
  <2>1. Cardinality(B \ A) = b - Cardinality(B \cap A) /\ B \cap A = A \cap B
    BY FS_Difference
  <2> QED
    BY <2>1
<1>5. Cardinality(Xor(A, B)) = (a - c) + (b - c)
  <2>1. (A \ B) \cap (B \ A) = {}
    OBVIOUS
  <2>2. Cardinality((A \ B) \cup (B \ A))
          = Cardinality(A \ B) + Cardinality(B \ A) - Cardinality((A \ B) \cap (B \ A))
    BY <1>1, FS_Union
  <2>3. Cardinality((A \ B) \cap (B \ A)) = 0
    BY <2>1, FS_EmptySet
  <2> HIDE DEF a, b, c
  <2> QED
    BY <1>2, <1>3, <1>4, <2>2, <2>3 DEF Xor
<1>6. Cardinality(Xor(A, B)) \in Nat
  <2>1. IsFiniteSet(Xor(A, B))
    BY <1>1, FS_Union DEF Xor
  <2> QED
    BY <2>1, FS_CardinalityType
<1> HIDE DEF a, b, c
<1>7. (Cardinality(Xor(A, B)) % 2 = 1) <=> ~((a % 2 = 1) <=> (b % 2 = 1))
  BY <1>2, <1>5, <1>6, Parity
<1> QED
  BY <1>7 DEF a, b

\* The check bits of words that differ differ as those of the difference.
LEMMA Linear ==
  ASSUME NEW x \in Words16, NEW y \in Words16
  PROVE  Crc10(Xor(x, y)) = Xor(Crc10(x), Crc10(y)) /\ Crc10(x) \in Registers
<1> DEFINE On(w, c) == {bit \in w : c \in BitCrc[bit]}
<1>1. \A w, c : c \in Crc10(w) <=> c \in 0..9 /\ Cardinality(On(w, c)) % 2 = 1
  BY DEF Crc10, CrcBits
<1>2. \A c : On(Xor(x, y), c) = Xor(On(x, c), On(y, c))
  BY DEF Xor
<1>3. \A c : IsFiniteSet(On(x, c)) /\ IsFiniteSet(On(y, c))
  <2>1. IsFiniteSet(0..15)
    <3>1. 0 \in Int /\ 15 \in Int
      OBVIOUS
    <3> QED
      BY <3>1, FS_Interval
  <2>2. \A c : On(x, c) \subseteq 0..15 /\ On(y, c) \subseteq 0..15
    BY DEF Words16
  <2> HIDE DEF On
  <2> QED
    BY <2>1, <2>2, FS_Subset
<1> HIDE DEF On
<1>4. \A c : c \in Crc10(Xor(x, y)) <=> ~(c \in Crc10(x) <=> c \in Crc10(y)) /\ c \in 0..9
  BY <1>1, <1>2, <1>3, XorParity
<1>5. \A c : c \in Crc10(Xor(x, y)) <=> c \in Xor(Crc10(x), Crc10(y))
  BY <1>1, <1>4 DEF Xor
<1>6. Crc10(x) \in Registers
  BY <1>1 DEF Registers
<1> QED
  BY <1>5, <1>6

\* The syndrome of a flip is what its bit leaves after as many turns as it has place.
LEMMA FlipTurned ==
  ASSUME NEW bit \in 0..25
  PROVE  FlipSyndrome[bit] = Turned[bit] /\ DOMAIN FlipSyndrome = 0..25
<1>1. FlipSyndrome = [b \in 0..25 |-> Xor(Checkword({b}), Crc10(Dataword({b})))]
  BY DEF FlipSyndrome, BlockBits, DataBits, CrcBits
<1>2. FlipSyndrome[bit] = Xor(Checkword({bit}), Crc10(Dataword({bit})))
  BY <1>1
<1>3. {bit} \in Blocks26
  BY DEF Blocks26
<1>4. \A w, c : c \in Crc10(w) <=> c \in 0..9 /\ Cardinality({b \in w : c \in BitCrc[b]}) % 2 = 1
  BY DEF Crc10, CrcBits
<1>5. CASE bit \in 0..9
  <2>1. \A d : d \notin Dataword({bit})
    BY <1>3, <1>5, HalvesOfBlock
  <2>2. Dataword({bit}) = {}
    BY <2>1
  <2>3. \A c : c \notin Crc10({})
    <3>1. \A c : {b \in {} : c \in BitCrc[b]} = {}
      OBVIOUS
    <3>2. Cardinality({}) = 0 /\ 0 % 2 # 1
      BY FS_EmptySet
    <3> QED
      BY <1>4, <3>1, <3>2
  <2>4. \A c : c \in Checkword({bit}) <=> c = bit
    BY <1>3, <1>5, HalvesOfBlock
  <2>5. \A c : c \in FlipSyndrome[bit] <=> c = bit
    BY <1>2, <2>2, <2>3, <2>4 DEF Xor
  <2>6. Turned[bit] = {bit}
    BY <1>5, TurnedFirst
  <2> QED
    BY <1>1, <2>5, <2>6
<1>6. CASE bit \notin 0..9
  <2>1. bit - 10 \in 0..15
    BY <1>6
  <2>2. \A d : d \in Dataword({bit}) <=> d = bit - 10
    BY <1>3, <2>1, HalvesOfBlock
  <2>3. Dataword({bit}) = {bit - 10}
    BY <2>2
  <2>4. \A c : c \notin Checkword({bit})
    BY <1>3, <1>6, HalvesOfBlock
  <2>5. BitCrc[bit - 10] = Turned[bit]
    <3>1. BitCrc = [b \in 0..15 |-> Turned[b + 10]]
      BY DEF BitCrc, DataBits, CrcBits
    <3>2. (bit - 10) + 10 = bit
      OBVIOUS
    <3> QED
      BY <2>1, <3>1, <3>2
  <2>6. \A c : c \in Crc10({bit - 10}) <=> c \in 0..9 /\ c \in Turned[bit]
    <3> TAKE c
    <3> DEFINE on == {b \in {bit - 10} : c \in BitCrc[b]}
    <3>1. c \in Crc10({bit - 10}) <=> c \in 0..9 /\ Cardinality(on) % 2 = 1
      BY <1>4
    <3>2. CASE c \in Turned[bit]
      <4>1. on = {bit - 10}
        BY <2>5, <3>2
      <4>2. Cardinality(on) = 1 /\ 1 % 2 = 1
        BY <4>1, FS_Singleton
      <4> HIDE DEF on
      <4> QED
        BY <3>1, <3>2, <4>2
    <3>3. CASE c \notin Turned[bit]
      <4>1. on = {}
        BY <2>5, <3>3
      <4>2. Cardinality(on) = 0 /\ 0 % 2 # 1
        BY <4>1, FS_EmptySet
      <4> HIDE DEF on
      <4> QED
        BY <3>1, <3>3, <4>2
    <3> QED
      BY <3>2, <3>3
  <2>7. \A c \in Turned[bit] : c \in 0..9
    BY TurnedProperties DEF Registers
  <2>8. \A c : c \in FlipSyndrome[bit] <=> c \in Turned[bit]
    BY <1>2, <2>3, <2>4, <2>6, <2>7 DEF Xor
  <2> QED
    BY <1>1, <2>8
<1> QED
  BY <1>5, <1>6

\* A block is its word above and its check bits below.
LEMMA EncodedHalves ==
  ASSUME NEW word \in Words16, NEW offset \in Registers
  PROVE  /\ EncodeBlock(word, offset) \in Blocks26
         /\ Dataword(EncodeBlock(word, offset)) = word
         /\ Checkword(EncodeBlock(word, offset)) = Xor(Crc10(word), offset)
<1> DEFINE block == EncodeBlock(word, offset)
           check == Xor(Crc10(word), offset)
<1>1. Crc10(word) \in Registers
  BY Linear
<1>2. \A x \in check : x \in 0..9
  BY <1>1 DEF Xor, Registers
<1>3. \A x \in Shifted(word, 10) : x \in 10..25 /\ x - 10 \in word
  BY DEF Shifted, Words16
<1>4. \A d \in word : d \in 0..15 /\ d + 10 \in Shifted(word, 10)
  BY DEF Shifted, Words16
<1>5. block = Shifted(word, 10) \cup check
  BY DEF EncodeBlock, CrcBits
<1> HIDE DEF block, check
<1>6. \A x \in block : x \in 0..25
  BY <1>2, <1>3, <1>5
<1>7. block \in Blocks26
  BY <1>6 DEF Blocks26
<1>8. \A d : d \in Dataword(block) <=> d \in word
  <2>1. ASSUME NEW d \in 0..15, d + 10 \in block PROVE d \in word
    <3>1. d + 10 \notin 0..9 /\ (d + 10) - 10 = d
      OBVIOUS
    <3> QED
      BY <1>2, <1>3, <1>5, <2>1, <3>1
  <2> QED
    BY <1>4, <1>5, <1>7, <2>1, HalvesOfBlock
<1>9. \A d : d \in Checkword(block) <=> d \in check
  <2>1. \A d \in 0..9 : d \notin 10..25
    OBVIOUS
  <2> QED
    BY <1>2, <1>3, <1>5, <1>7, <2>1, HalvesOfBlock
<1>10. Dataword(block) = word /\ Checkword(block) = check
  BY <1>8, <1>9
<1> QED
  BY <1>7, <1>10 DEF block, check

\* Flips in a block are flips in its halves.
LEMMA XorHalves ==
  ASSUME NEW x \in Blocks26, NEW y \in Blocks26
  PROVE  /\ Xor(x, y) \in Blocks26
         /\ Dataword(Xor(x, y)) = Xor(Dataword(x), Dataword(y))
         /\ Checkword(Xor(x, y)) = Xor(Checkword(x), Checkword(y))
<1>1. Xor(x, y) \in Blocks26
  BY DEF Xor, Blocks26
<1>2. \A d : d \in Dataword(Xor(x, y)) <=> d \in Xor(Dataword(x), Dataword(y))
  BY <1>1, HalvesOfBlock DEF Xor
<1>3. \A d : d \in Checkword(Xor(x, y)) <=> d \in Xor(Checkword(x), Checkword(y))
  BY <1>1, HalvesOfBlock DEF Xor
<1> QED
  BY <1>1, <1>2, <1>3

\* The syndrome that flips leave, whatever the word.
Left(flips) == Xor(Checkword(flips), Crc10(Dataword(flips)))

\* One flip leaves what the table has for it, and two leave their exclusive or.
LEMMA LeftProperties ==
  /\ Left({}) = {}
  /\ \A b \in 0..25 : Left({b}) = FlipSyndrome[b]
  /\ \A b, c \in 0..25 : b # c => Left({b, c}) = Xor(FlipSyndrome[b], FlipSyndrome[c])
<1>1. ASSUME NEW x \in Blocks26, NEW y \in Blocks26 PROVE Left(Xor(x, y)) = Xor(Left(x), Left(y))
  <2>1. Crc10(Xor(Dataword(x), Dataword(y))) = Xor(Crc10(Dataword(x)), Crc10(Dataword(y)))
    BY HalvesOfBlock, Linear
  <2>2. Left(Xor(x, y)) = Xor(Xor(Checkword(x), Checkword(y)),
                              Xor(Crc10(Dataword(x)), Crc10(Dataword(y))))
    BY <2>1, XorHalves DEF Left
  <2>3. \A a, b, c, d : Xor(Xor(a, b), Xor(c, d)) = Xor(Xor(a, c), Xor(b, d))
    <3> TAKE a, b, c, d
    <3>1. \A e : e \in Xor(Xor(a, b), Xor(c, d)) <=> e \in Xor(Xor(a, c), Xor(b, d))
      BY DEF Xor
    <3> QED
      BY <3>1
  <2> QED
    BY <2>2, <2>3 DEF Left
<1>2. \A b \in 0..25 : {b} \in Blocks26
  BY DEF Blocks26
<1>3. \A b \in 0..25 : Left({b}) = FlipSyndrome[b]
  BY DEF Left, FlipSyndrome, BlockBits, DataBits, CrcBits
<1>4. Left({}) = {}
  <2>1. Xor({0}, {0}) = {} /\ Xor(Left({0}), Left({0})) = {}
    BY DEF Xor
  <2>2. {0} \in Blocks26
    BY <1>2
  <2> QED
    BY <1>1, <2>1, <2>2
<1>5. ASSUME NEW b \in 0..25, NEW c \in 0..25, b # c
      PROVE  Left({b, c}) = Xor(FlipSyndrome[b], FlipSyndrome[c])
  <2>1. Xor({b}, {c}) = {b, c}
    BY <1>5 DEF Xor
  <2>2. {b} \in Blocks26 /\ {c} \in Blocks26
    BY <1>2
  <2>3. Left(Xor({b}, {c})) = Xor(Left({b}), Left({c}))
    BY <1>1, <2>2
  <2>4. Left({b}) = FlipSyndrome[b] /\ Left({c}) = FlipSyndrome[c]
    BY <1>3
  <2> QED
    BY <2>1, <2>3, <2>4
<1> QED
  BY <1>3, <1>4, <1>5

\* What is said of a block that was encoded and then flipped rests on what the flips leave.
LEMMA BlockSays ==
  ASSUME NEW word \in Words16, NEW offset \in Registers, NEW flips \in Blocks26,
         NEW block, block = Xor(EncodeBlock(word, offset), flips)
  PROVE  /\ Syndrome(block, offset) = Left(flips)
         /\ ErrorPosition(block, offset) = {bit \in 0..25 : FlipSyndrome[bit] = Left(flips)}
         /\ ErrorPosition(block, offset) = flips => Corrected(block, offset) = word
<1>1. /\ Dataword(block) = Xor(word, Dataword(flips))
      /\ Checkword(block) = Xor(Xor(Crc10(word), offset), Checkword(flips))
  BY EncodedHalves, XorHalves
<1>2. Crc10(Dataword(block)) = Xor(Crc10(word), Crc10(Dataword(flips)))
  BY <1>1, HalvesOfBlock, Linear
<1>3. Syndrome(block, offset) = Left(flips)
  <2>1. \A a, b, c, d : Xor(Xor(Xor(Xor(a, b), c), b), Xor(a, d)) = Xor(c, d)
    <3> TAKE a, b, c, d
    <3>1. \A e : e \in Xor(Xor(Xor(Xor(a, b), c), b), Xor(a, d)) <=> e \in Xor(c, d)
      BY DEF Xor
    <3> QED
      BY <3>1
  <2> QED
    BY <1>1, <1>2, <2>1 DEF Syndrome, Left
<1>4. ErrorPosition(block, offset) = {bit \in 0..25 : FlipSyndrome[bit] = Left(flips)}
  <2>1. DOMAIN FlipSyndrome = 0..25
    BY FlipTurned
  <2> QED
    BY <1>3, <2>1 DEF ErrorPosition
<1>5. Corrected(block, offset)
        = Xor(Xor(word, Dataword(flips)), Dataword(ErrorPosition(block, offset)))
  BY <1>1 DEF Corrected
<1>6. \A a, b : Xor(Xor(a, b), b) = a
  <2> TAKE a, b
  <2>1. \A e : e \in Xor(Xor(a, b), b) <=> e \in a
    BY DEF Xor
  <2> QED
    BY <2>1
<1> QED
  BY <1>3, <1>4, <1>5, <1>6

\* The flips of single bits leave different syndromes, and none leaves nothing.
LEMMA FlipsDiffer ==
  /\ \A b \in 0..25 : FlipSyndrome[b] # {}
  /\ \A b, c \in 0..25 : FlipSyndrome[b] = FlipSyndrome[c] => b = c
<1>1. \A b \in 0..25 : FlipSyndrome[b] # {}
  BY FlipTurned, TurnedDiffer
<1>2. \A b, c \in 0..25 : FlipSyndrome[b] = FlipSyndrome[c] => b = c
  <2> TAKE b, c \in 0..25
  <2>1. Turned[b] = Turned[c] => ~(b < c) /\ ~(c < b)
    BY TurnedDiffer
  <2>2. ~(b < c) /\ ~(c < b) => b = c
    OBVIOUS
  <2> QED
    BY <2>1, <2>2, FlipTurned
<1> QED
  BY <1>1, <1>2

\* A block is clean without flips,
LEMMA NoFlip ==
  ASSUME NEW word \in Words16, NEW offset \in Registers, NEW flips \in Blocks26, flips = {},
         NEW block, block = Xor(EncodeBlock(word, offset), flips)
  PROVE  /\ Syndrome(block, offset) = {} /\ ErrorPosition(block, offset) = {}
         /\ Corrected(block, offset) = word
<1>1. Left(flips) = {}
  BY LeftProperties
<1>2. /\ Syndrome(block, offset) = Left(flips)
      /\ ErrorPosition(block, offset) = {bit \in 0..25 : FlipSyndrome[bit] = Left(flips)}
      /\ ErrorPosition(block, offset) = flips => Corrected(block, offset) = word
  BY BlockSays
<1>3. ErrorPosition(block, offset) = {}
  BY <1>1, <1>2, FlipsDiffer
<1> QED
  BY <1>1, <1>2, <1>3

\* is repaired after one,
LEMMA OneFlip ==
  ASSUME NEW word \in Words16, NEW offset \in Registers, NEW flips \in Blocks26,
         NEW block, block = Xor(EncodeBlock(word, offset), flips),
         NEW b \in 0..25
  PROVE  flips = {b} => /\ Syndrome(block, offset) # {} /\ ErrorPosition(block, offset) = {b}
                        /\ Corrected(block, offset) = word
<1>1. flips = {b} => Left(flips) = FlipSyndrome[b]
  BY LeftProperties
<1>2. /\ Syndrome(block, offset) = Left(flips)
      /\ ErrorPosition(block, offset) = {bit \in 0..25 : FlipSyndrome[bit] = Left(flips)}
      /\ ErrorPosition(block, offset) = flips => Corrected(block, offset) = word
  BY BlockSays
<1>3. flips = {b} => \A bit : bit \in ErrorPosition(block, offset) <=> bit = b
  BY <1>1, <1>2, FlipsDiffer
<1>4. flips = {b} => ErrorPosition(block, offset) = {b}
  BY <1>3
<1> QED
  BY <1>1, <1>2, <1>4, FlipsDiffer

\* and so it is repaired after one flip or none,
LEMMA OneFlipAtMost ==
  ASSUME NEW word \in Words16, NEW offset \in Registers, NEW flips \in Blocks26,
         NEW block, block = Xor(EncodeBlock(word, offset), flips)
  PROVE  flips = {} \/ (\E b \in 0..25 : flips = {b}) =>
             /\ Corrected(block, offset) = word
             /\ Syndrome(block, offset) = {} <=> flips = {}
             /\ ErrorPosition(block, offset) = {} <=> flips = {}
<1>1. CASE flips = {}
  BY <1>1, NoFlip
<1>2. ASSUME NEW b \in 0..25
      PROVE  flips = {b} => /\ Corrected(block, offset) = word
                            /\ Syndrome(block, offset) # {}
                            /\ ErrorPosition(block, offset) = {b}
  BY OneFlip
<1> QED
  BY <1>1, <1>2

\* and never looks clean after two.
LEMMA TwoFlips ==
  ASSUME NEW word \in Words16, NEW offset \in Registers, NEW flips \in Blocks26,
         NEW b \in 0..25, NEW c \in 0..25, b # c, flips = {b, c},
         NEW block, block = Xor(EncodeBlock(word, offset), flips)
  PROVE  Syndrome(block, offset) # {}
<1>1. Left(flips) = Xor(FlipSyndrome[b], FlipSyndrome[c])
  BY LeftProperties
<1>2. Syndrome(block, offset) = Left(flips)
  BY BlockSays
<1>3. \A x, y : Xor(x, y) = {} => x = y
  <2> TAKE x, y
  <2>1. Xor(x, y) = {} => \A e : e \in x <=> e \in y
    BY DEF Xor
  <2> QED
    BY <2>1
<1> QED
  BY <1>1, <1>2, <1>3, FlipsDiffer

-----------------------------------------------------------------------------
(* A group.                                                                  *)

\* The offset words that the blocks were sent with.
SentOffsets == <<Offset.A, Offset.B, OffsetC(VersionOf(sent[2])), Offset.D>>

\* The bits of a block that were flipped.
FlipsIn(i) == {flip[2] : flip \in {f \in flipped : f[1] = i}}

\* Offset words are ten bits wide.
LEMMA SentOffsetsType == Offset.B = SentOffsets[2] /\ \A i \in Blocks : SentOffsets[i] \in Registers
<1>1. \A x \in {"A", "B", "C", "D", "Cprime"} : Offset[x] \in Registers
  BY DEF Offset, Registers
<1>2. OffsetC(VersionOf(sent[2])) \in Registers
  BY <1>1 DEF OffsetC
<1>3. /\ SentOffsets[1] = Offset.A /\ SentOffsets[2] = Offset.B
      /\ SentOffsets[3] = OffsetC(VersionOf(sent[2])) /\ SentOffsets[4] = Offset.D
  BY DEF SentOffsets
<1> QED
  BY <1>1, <1>2, <1>3 DEF Blocks

\* Every block is received as it was encoded but for its flips; and the search knows all
\* offset words once block B is repaired, and those of the other blocks in any case.
LEMMA GroupSays ==
  ASSUME sent \in [Blocks -> Words16], flipped \subseteq Blocks \X (0..25)
  PROVE  /\ \A i \in Blocks : /\ FlipsIn(i) \in Blocks26
                              /\ Received[i] = Xor(EncodeBlock(sent[i], SentOffsets[i]), FlipsIn(i))
         /\ \A i \in Blocks \ {3} : Offsets(Received)[i] = SentOffsets[i]
         /\ Corrected(Received[2], SentOffsets[2]) = sent[2] => Offsets(Received)[3] = SentOffsets[3]
<1>1. \A i \in Blocks : FlipsIn(i) \in Blocks26
  BY DEF FlipsIn, Blocks26
<1>2. \A i \in Blocks : Received[i] = Xor(EncodeBlock(sent[i], SentOffsets[i]), FlipsIn(i))
  <2>1. Encoded(sent, VersionOf(sent[2])) = [i \in Blocks |-> EncodeBlock(sent[i], SentOffsets[i])]
    BY DEF Encoded, SentOffsets
  <2> QED
    BY <2>1 DEF Received, FlipsIn
<1> DEFINE offsets == Offsets(Received)
<1>3. offsets = <<Offset.A, Offset.B, OffsetC(VersionOf(Corrected(Received[2], Offset.B))), Offset.D>>
  BY DEF Offsets
<1>4. /\ offsets[1] = SentOffsets[1] /\ offsets[2] = SentOffsets[2] /\ offsets[4] = SentOffsets[4]
      /\ Corrected(Received[2], Offset.B) = sent[2] => offsets[3] = SentOffsets[3]
  BY <1>3 DEF SentOffsets
<1>5. \A i \in Blocks \ {3} : i = 1 \/ i = 2 \/ i = 4
  BY DEF Blocks
<1> HIDE DEF offsets
<1>6. \A i \in Blocks \ {3} : offsets[i] = SentOffsets[i]
  BY <1>4, <1>5
<1> QED
  BY <1>1, <1>2, <1>4, <1>6, SentOffsetsType DEF offsets

\* With at most one flip in each block the search knows all offset words, and all words.
LEMMA AllRepaired ==
  ASSUME sent \in [Blocks -> Words16], flipped \subseteq Blocks \X (0..25),
         \A i \in Blocks : FlipsIn(i) = {} \/ \E b \in 0..25 : FlipsIn(i) = {b}
  PROVE  /\ \A i \in Blocks : i \in Clean(Received) <=> FlipsIn(i) = {}
         /\ \A i \in Blocks : i \in ToCorrect(Received) <=> FlipsIn(i) # {}
         /\ Words(Received) = sent
<1>1. \A i \in Blocks : /\ sent[i] \in Words16 /\ SentOffsets[i] \in Registers /\ FlipsIn(i) \in Blocks26
                        /\ Received[i] = Xor(EncodeBlock(sent[i], SentOffsets[i]), FlipsIn(i))
  BY GroupSays, SentOffsetsType
<1>2. \A i \in Blocks : /\ Corrected(Received[i], SentOffsets[i]) = sent[i]
                        /\ Syndrome(Received[i], SentOffsets[i]) = {} <=> FlipsIn(i) = {}
                        /\ ErrorPosition(Received[i], SentOffsets[i]) = {} <=> FlipsIn(i) = {}
  BY <1>1, OneFlipAtMost
<1>3. \A i \in Blocks : Offsets(Received)[i] = SentOffsets[i]
  <2>1. 2 \in Blocks
    BY DEF Blocks
  <2> QED
    BY <1>2, <2>1, GroupSays
<1>4. Clean(Received) = {i \in Blocks : Syndrome(Received[i], Offsets(Received)[i]) = {}}
  BY DEF Clean
<1>5. ToCorrect(Received) = {i \in Blocks : ErrorPosition(Received[i], Offsets(Received)[i]) # {}}
  BY DEF ToCorrect
<1>6. Words(Received) = [i \in Blocks |-> Corrected(Received[i], Offsets(Received)[i])]
  BY DEF Words
<1>7. Words(Received) = [i \in Blocks |-> sent[i]]
  BY <1>2, <1>3, <1>6
<1>8. [i \in Blocks |-> sent[i]] = sent
  OBVIOUS
<1> QED
  BY <1>2, <1>3, <1>4, <1>5, <1>7, <1>8

\* One flipped bit or two in a group that was sent.
LEMMA FlipsRepaired ==
  ASSUME sent \in [Blocks -> Words16], NEW f \in Blocks \X (0..25), NEW g \in Blocks \X (0..25),
         flipped = {f, g}
  PROVE  RepairedAsSent
<1>1. /\ f[1] \in Blocks /\ f[2] \in 0..25 /\ g[1] \in Blocks /\ g[2] \in 0..25
      /\ f # g => f[1] # g[1] \/ f[2] # g[2]
  OBVIOUS
<1>2. flipped \subseteq Blocks \X (0..25) /\ flipped # {}
  OBVIOUS
<1>3. {flip[1] : flip \in flipped} = {f[1], g[1]}
  OBVIOUS
<1>4. \A i \in Blocks : /\ i # f[1] /\ i # g[1] => FlipsIn(i) = {}
                        /\ i = f[1] /\ i # g[1] => FlipsIn(i) = {f[2]}
                        /\ i = g[1] /\ i # f[1] => FlipsIn(i) = {g[2]}
                        /\ i = g[1] /\ i = f[1] => FlipsIn(i) = {f[2], g[2]}
  BY DEF FlipsIn
<1>5. CASE f = g
  <2>1. \A i \in Blocks : FlipsIn(i) = {} \/ \E b \in 0..25 : FlipsIn(i) = {b}
    BY <1>1, <1>4, <1>5
  <2>2. \A i \in Blocks : FlipsIn(i) = {} <=> i # f[1]
    BY <1>4, <1>5
  <2>3. /\ \A i \in Blocks : i \in Clean(Received) <=> i # f[1]
        /\ \A i \in Blocks : i \in ToCorrect(Received) <=> i = f[1]
        /\ Words(Received) = sent
    BY <1>2, <2>1, <2>2, AllRepaired
  <2>4. ToCorrect(Received) \subseteq Blocks /\ Clean(Received) \subseteq Blocks
    BY DEF ToCorrect, Clean
  <2>5. ToCorrect(Received) = {f[1]} /\ Clean(Received) \cup ToCorrect(Received) = Blocks
    BY <1>1, <2>3, <2>4
  <2>6. Cardinality({f[1]}) = 1
    BY FS_Singleton
  <2>7. Starts(Received)
    BY <2>5, <2>6 DEF Starts
  <2>8. Clean(Received) # Blocks
    BY <1>1, <2>3
  <2>9. Cardinality({flip[1] : flip \in flipped}) = 1
    BY <1>3, <1>5, <2>6
  <2> QED
    BY <2>3, <2>7, <2>8, <2>9 DEF RepairedAsSent
<1>6. CASE f # g /\ f[1] = g[1]
  <2>1. FlipsIn(f[1]) = {f[2], g[2]} /\ f[2] # g[2]
    BY <1>1, <1>4, <1>6
  <2>2. Offsets(Received)[f[1]] = SentOffsets[f[1]]
    <3>1. CASE f[1] # 3
      BY <1>1, <1>2, <3>1, GroupSays
    <3>2. CASE f[1] = 3
      <4>1. 2 \in Blocks /\ FlipsIn(2) = {}
        BY <1>4, <1>6, <3>2 DEF Blocks
      <4>2. Corrected(Received[2], SentOffsets[2]) = sent[2]
        BY <1>2, <4>1, GroupSays, SentOffsetsType, NoFlip
      <4> QED
        BY <1>2, <3>2, <4>2, GroupSays
    <3> QED
      BY <3>1, <3>2
  <2>3. Syndrome(Received[f[1]], SentOffsets[f[1]]) # {}
    <3> DEFINE word == sent[f[1]]
               offset == SentOffsets[f[1]]
               flips == FlipsIn(f[1])
               block == Received[f[1]]
               b == f[2]
               c == g[2]
    <3>1. /\ word \in Words16 /\ offset \in Registers /\ flips \in Blocks26
          /\ block = Xor(EncodeBlock(word, offset), flips)
      BY <1>1, <1>2, GroupSays, SentOffsetsType
    <3>2. b \in 0..25 /\ c \in 0..25 /\ b # c /\ flips = {b, c}
      BY <1>1, <2>1
    <3> HIDE DEF word, offset, flips, block, b, c
    <3>3. Syndrome(block, offset) # {}
      BY <3>1, <3>2, TwoFlips
    <3> QED
      BY <3>3 DEF offset, block
  <2>4. f[1] \notin Clean(Received)
    BY <2>2, <2>3 DEF Clean
  <2>5. Cardinality(flipped) # 1
    <3>1. IsFiniteSet({f}) /\ Cardinality({f}) = 1 /\ g \notin {f}
      BY <1>6, FS_Singleton
    <3>2. Cardinality({f} \cup {g}) = 1 + 1
      BY <3>1, FS_AddElement
    <3>3. {f} \cup {g} = flipped
      OBVIOUS
    <3> QED
      BY <3>2, <3>3
  <2>6. Cardinality({flip[1] : flip \in flipped}) = 1
    <3>1. {f[1], g[1]} = {f[1]}
      BY <1>6
    <3> QED
      BY <1>3, <3>1, FS_Singleton
  <2> QED
    BY <1>1, <2>4, <2>5, <2>6 DEF RepairedAsSent
<1>7. CASE f # g /\ f[1] # g[1]
  <2>1. \A i \in Blocks : FlipsIn(i) = {} \/ \E b \in 0..25 : FlipsIn(i) = {b}
    BY <1>1, <1>4, <1>7
  <2>2. FlipsIn(f[1]) # {} /\ FlipsIn(g[1]) # {}
    BY <1>1, <1>4, <1>7
  <2>3. f[1] \notin Clean(Received) /\ {f[1], g[1]} \subseteq ToCorrect(Received)
    BY <1>1, <1>2, <2>1, <2>2, AllRepaired
  <2>4. ~Starts(Received)
    <3>1. IsFiniteSet({f[1]}) /\ Cardinality({f[1]}) = 1 /\ g[1] \notin {f[1]}
      BY <1>7, FS_Singleton
    <3>2. Cardinality({f[1]} \cup {g[1]}) = 1 + 1
      BY <3>1, FS_AddElement
    <3>3. {f[1]} \cup {g[1]} = {f[1], g[1]}
      OBVIOUS
    <3>4. IsFiniteSet(ToCorrect(Received))
      <4>1. IsFiniteSet(1..4)
        <5>1. 1 \in Int /\ 4 \in Int
          OBVIOUS
        <5> QED
          BY <5>1, FS_Interval
      <4>2. ToCorrect(Received) \subseteq 1..4
        BY DEF ToCorrect, Blocks
      <4> QED
        BY <4>1, <4>2, FS_Subset
    <3>5. /\ Cardinality({f[1], g[1]}) <= Cardinality(ToCorrect(Received))
          /\ Cardinality(ToCorrect(Received)) \in Nat
      BY <2>3, <3>4, FS_Subset, FS_CardinalityType
    <3>6. ~(Cardinality(ToCorrect(Received)) <= 1)
      BY <3>2, <3>3, <3>5
    <3> QED
      BY <3>6 DEF Starts
  <2>5. Cardinality(flipped) # 1
    <3>1. IsFiniteSet({f}) /\ Cardinality({f}) = 1 /\ g \notin {f}
      BY <1>7, FS_Singleton
    <3>2. Cardinality({f} \cup {g}) = 1 + 1
      BY <3>1, FS_AddElement
    <3>3. {f} \cup {g} = flipped
      OBVIOUS
    <3> QED
      BY <3>2, <3>3
  <2> QED
    BY <1>1, <2>3, <2>4, <2>5 DEF RepairedAsSent
<1> QED
  BY <1>5, <1>6, <1>7

\* A group is found and repaired after any one flip, whichever bit it is, and its words are
\* those that were sent; after two it is never taken for clean, and it is found only if they
\* are in one block (block_valid, _group_starts_with_correction, _materialize_group).
THEOREM RepairedCorrectly == Spec => []RepairedAsSent
<1>1. ASSUME IInv PROVE RepairedAsSent
  <2>1. CASE flipped = {}
    BY <2>1 DEF RepairedAsSent
  <2>2. CASE flipped # {}
    <3>1. sent \in [Blocks -> Words16] /\ \E f, g \in Blocks \X (0..25) : flipped = {f, g}
      BY <1>1, <2>2 DEF IInv, Noisy
    <3> QED
      BY <3>1, FlipsRepaired
  <2> QED
    BY <2>1, <2>2
<1> QED
  BY <1>1, Inductive, PTL

-----------------------------------------------------------------------------
(* The changes of a zone.                                                    *)

\* A number is above the first of some increasing thresholds and below the others.
LEMMA Counted ==
  ASSUME NEW n \in Nat, NEW t, \A i \in 1..n : t[i] \in Int,
         \A i \in 1..n - 1 : t[i] < t[i + 1], NEW time \in Int
  PROVE  \E k \in 0..n : \A i \in 1..n : t[i] <= time <=> i <= k
<1> DEFINE above == {i \in 1..n + 1 : i = n + 1 \/ ~(t[i] <= time)}
<1>1. PICK first \in above : \A i \in above : first <= i
  <2>1. n + 1 \in above
    OBVIOUS
  <2>2. above \in SUBSET Nat
    OBVIOUS
  <2> HIDE DEF above
  <2> QED
    BY <2>1, <2>2, LeastOf
<1>2. first \in 1..n + 1 /\ \A i \in 1..n : i < first => t[i] <= time
  BY <1>1
<1> DEFINE late == {i \in 1..n : first <= i /\ t[i] <= time}
<1>3. late = {}
  <2> SUFFICES ASSUME late # {} PROVE FALSE
    OBVIOUS
  <2>1. late \in SUBSET Nat
    OBVIOUS
  <2>2. PICK i \in late : \A j \in late : i <= j
    <3> HIDE DEF late
    <3> QED
      BY <2>1, LeastOf
  <2>3. i \in 1..n /\ first <= i /\ t[i] <= time
    BY <2>2
  <2>4. first \in 1..n /\ ~(t[first] <= time)
    BY <1>1, <1>2, <2>3
  <2>5. i # first
    BY <2>3, <2>4
  <2>6. i - 1 \in 1..n - 1 /\ i - 1 \in 1..n /\ first <= i - 1
    BY <1>2, <2>3, <2>5
  <2>7. i - 1 \notin late
    BY <2>2, <2>3, <2>6
  <2>8. ~(t[i - 1] <= time)
    BY <2>6, <2>7
  <2>9. t[i - 1] < t[i - 1 + 1] /\ i - 1 + 1 = i
    BY <2>3, <2>6
  <2>10. t[i - 1] \in Int /\ t[i] \in Int
    BY <2>3, <2>6
  <2> QED
    BY <2>3, <2>8, <2>9, <2>10
<1>4. \A i \in 1..n : t[i] <= time <=> i <= first - 1
  BY <1>2, <1>3
<1>5. first - 1 \in 0..n
  BY <1>2
<1> QED
  BY <1>4, <1>5

\* What the zones of the assumption are.
Changing(zone) ==
    /\ zone \in Seq([at : Int, before : Int, after : Int]) /\ zone # <<>>
    /\ \A i \in 1..Len(zone) - 1 :
          zone[i].after = zone[i + 1].before /\ Later(zone[i]) < Earlier(zone[i + 1])

\* The offset after the first k changes.
Held(zone, k) == IF k = 0 THEN zone[1].before ELSE zone[k].after

\* The changes so far are the first k.
Past(zone, k, t, time) == k \in 0..Len(zone) /\ \A i \in 1..Len(zone) : t[i] <= time <=> i <= k

Ats(zone) == [i \in 1..Len(zone) |-> zone[i].at]
Laters(zone) == [i \in 1..Len(zone) |-> Later(zone[i])]
Earliers(zone) == [i \in 1..Len(zone) |-> Earlier(zone[i])]

\* The wall times of a change are those of its instant before and after it.
LEMMA ChangeProperties ==
  ASSUME NEW zone, Changing(zone), NEW i \in 1..Len(zone)
  PROVE  /\ zone[i].at \in Int /\ zone[i].before \in Int /\ zone[i].after \in Int
         /\ Later(zone[i]) \in Int /\ Earlier(zone[i]) \in Int
         /\ Earlier(zone[i]) <= zone[i].at + zone[i].before
         /\ Earlier(zone[i]) <= zone[i].at + zone[i].after
         /\ zone[i].at + zone[i].before <= Later(zone[i])
         /\ zone[i].at + zone[i].after <= Later(zone[i])
         /\ zone[i].before <= zone[i].after => Earlier(zone[i]) = zone[i].at + zone[i].before
                                               /\ Later(zone[i]) = zone[i].at + zone[i].after
         /\ zone[i].after <= zone[i].before => Earlier(zone[i]) = zone[i].at + zone[i].after
                                               /\ Later(zone[i]) = zone[i].at + zone[i].before
<1>1. zone[i] \in [at : Int, before : Int, after : Int]
  BY ElementOfSeq DEF Changing
<1>2. zone[i].at \in Int /\ zone[i].before \in Int /\ zone[i].after \in Int
  BY <1>1
<1> QED
  BY <1>2 DEF Later, Earlier

\* Changes follow each other, as instants and as wall times.
LEMMA ChangesInOrder ==
  ASSUME NEW zone, Changing(zone)
  PROVE  /\ Len(zone) \in Nat /\ Len(zone) >= 1
         /\ \A i \in 1..Len(zone) - 1 :
               /\ Ats(zone)[i] < Ats(zone)[i + 1]
               /\ Laters(zone)[i] < Laters(zone)[i + 1]
               /\ Earliers(zone)[i] < Earliers(zone)[i + 1]
<1>1. Len(zone) \in Nat /\ Len(zone) >= 1
  BY EmptySeq, LenProperties DEF Changing
<1>2. ASSUME NEW i \in 1..Len(zone) - 1
      PROVE  /\ Ats(zone)[i] < Ats(zone)[i + 1]
             /\ Laters(zone)[i] < Laters(zone)[i + 1]
             /\ Earliers(zone)[i] < Earliers(zone)[i + 1]
  <2>1. i \in 1..Len(zone) /\ i + 1 \in 1..Len(zone)
    BY <1>1
  <2>2. zone[i].after = zone[i + 1].before /\ Later(zone[i]) < Earlier(zone[i + 1])
    BY <1>2 DEF Changing
  <2>3. /\ zone[i].at \in Int /\ zone[i].after \in Int
        /\ Later(zone[i]) \in Int /\ Earlier(zone[i]) \in Int
        /\ Earlier(zone[i]) <= zone[i].at + zone[i].after
        /\ zone[i].at + zone[i].after <= Later(zone[i])
    BY <2>1, ChangeProperties
  <2>4. /\ zone[i + 1].at \in Int /\ zone[i + 1].before \in Int
        /\ Later(zone[i + 1]) \in Int /\ Earlier(zone[i + 1]) \in Int
        /\ Earlier(zone[i + 1]) <= zone[i + 1].at + zone[i + 1].before
        /\ zone[i + 1].at + zone[i + 1].before <= Later(zone[i + 1])
    BY <2>1, ChangeProperties
  <2>5. /\ zone[i].at < zone[i + 1].at /\ Later(zone[i]) < Later(zone[i + 1])
        /\ Earlier(zone[i]) < Earlier(zone[i + 1])
    BY <2>2, <2>3, <2>4
  <2> QED
    BY <2>1, <2>5 DEF Ats, Laters, Earliers
<1> QED
  BY <1>1, <1>2

\* The first k changes count, whichever of their times are compared.
LEMMA PastExists ==
  ASSUME NEW zone, Changing(zone), NEW time \in Int
  PROVE  /\ \E k \in 0..Len(zone) : Past(zone, k, Ats(zone), time)
         /\ \E k \in 0..Len(zone) : Past(zone, k, Laters(zone), time)
         /\ \E k \in 0..Len(zone) : Past(zone, k, Earliers(zone), time)
<1>1. Len(zone) \in Nat
  BY ChangesInOrder
<1>2. \A i \in 1..Len(zone) :
         Ats(zone)[i] \in Int /\ Laters(zone)[i] \in Int /\ Earliers(zone)[i] \in Int
  BY ChangeProperties DEF Ats, Laters, Earliers
<1>3. \E k \in 0..Len(zone) : \A i \in 1..Len(zone) : Ats(zone)[i] <= time <=> i <= k
  BY <1>1, <1>2, ChangesInOrder, Counted
<1>4. \E k \in 0..Len(zone) : \A i \in 1..Len(zone) : Laters(zone)[i] <= time <=> i <= k
  BY <1>1, <1>2, ChangesInOrder, Counted
<1>5. \E k \in 0..Len(zone) : \A i \in 1..Len(zone) : Earliers(zone)[i] <= time <=> i <= k
  BY <1>1, <1>2, ChangesInOrder, Counted
<1> QED
  BY <1>3, <1>4, <1>5 DEF Past

\* The last of the first k.
LEMMA LastOfFirst ==
  ASSUME NEW n \in Nat, NEW k \in 1..n
  PROVE  (CHOOSE i \in 1..k : \A j \in 1..k : j <= i) = k
<1>1. k \in 1..k /\ \A j \in 1..k : j <= k
  OBVIOUS
<1>2. \A i \in 1..k : (\A j \in 1..k : j <= i) => i = k
  BY <1>1
<1> QED
  BY <1>1, <1>2

\* The offset that is found when some changes are past.
AfterLast(zone, past) ==
    IF past = {} THEN zone[1].before
    ELSE zone[CHOOSE i \in past : \A j \in past : j <= i].after

\* With the changes so far it is that of the last of them.
LEMMA LastHolds ==
  ASSUME NEW zone, Changing(zone), NEW k, NEW t, NEW time, Past(zone, k, t, time),
         NEW past, \A i : i \in past <=> i \in 1..Len(zone) /\ t[i] <= time
  PROVE  AfterLast(zone, past) = Held(zone, k)
<1>1. Len(zone) \in Nat
  BY ChangesInOrder
<1>2. k \in 0..Len(zone) /\ \A i \in 1..Len(zone) : t[i] <= time <=> i <= k
  BY DEF Past
<1>3. past = 1..k
  <2>1. \A i : i \in past <=> i \in 1..k
    BY <1>1, <1>2
  <2> QED
    BY <2>1, Zenon
<1>4. CASE k = 0
  BY <1>3, <1>4 DEF Held, AfterLast
<1>5. CASE k # 0
  <2>1. k \in 1..Len(zone) /\ k \in 1..k
    BY <1>1, <1>2, <1>5
  <2>2. past # {}
    BY <1>3, <2>1
  <2> DEFINE last == CHOOSE i \in past : \A j \in past : j <= i
  <2>3. last = k
    BY <1>1, <1>3, <2>1, LastOfFirst
  <2>4. AfterLast(zone, past) = zone[last].after
    BY <2>2 DEF AfterLast
  <2> HIDE DEF last
  <2> QED
    BY <1>5, <2>3, <2>4 DEF Held
<1> QED
  BY <1>4, <1>5

\* So it is for an instant, and for a wall clock with the later or the earlier times of
\* the changes.
LEMMA OffsetsHeld ==
  ASSUME NEW zone, Changing(zone), NEW time, NEW k
  PROVE  /\ Past(zone, k, Ats(zone), time) => OffsetAt(zone, time) = Held(zone, k)
         /\ Past(zone, k, Laters(zone), time) => OffsetOfWall(zone, time, 0) = Held(zone, k)
         /\ Past(zone, k, Earliers(zone), time) => OffsetOfWall(zone, time, 1) = Held(zone, k)
<1>1. DOMAIN zone = 1..Len(zone)
  BY LenProperties DEF Changing
<1>2. ASSUME Past(zone, k, Ats(zone), time) PROVE OffsetAt(zone, time) = Held(zone, k)
  <2> DEFINE past == {i \in DOMAIN zone : zone[i].at <= time}
  <2>1. \A i : i \in past <=> i \in 1..Len(zone) /\ Ats(zone)[i] <= time
    BY <1>1 DEF Ats
  <2>2. OffsetAt(zone, time) = AfterLast(zone, past)
    BY DEF OffsetAt, After, AfterLast
  <2> HIDE DEF past
  <2> QED
    BY <1>2, <2>1, <2>2, LastHolds
<1>3. ASSUME Past(zone, k, Laters(zone), time) PROVE OffsetOfWall(zone, time, 0) = Held(zone, k)
  <2> DEFINE past == {i \in DOMAIN zone : Later(zone[i]) <= time}
  <2>1. \A i : i \in past <=> i \in 1..Len(zone) /\ Laters(zone)[i] <= time
    BY <1>1 DEF Laters
  <2>2. OffsetOfWall(zone, time, 0) = AfterLast(zone, past)
    BY DEF OffsetOfWall, After, AfterLast
  <2> HIDE DEF past
  <2> QED
    BY <1>3, <2>1, <2>2, LastHolds
<1>4. ASSUME Past(zone, k, Earliers(zone), time) PROVE OffsetOfWall(zone, time, 1) = Held(zone, k)
  <2> DEFINE past == {i \in DOMAIN zone : Earlier(zone[i]) <= time}
  <2>1. \A i : i \in past <=> i \in 1..Len(zone) /\ Earliers(zone)[i] <= time
    BY <1>1 DEF Earliers
  <2>2. OffsetOfWall(zone, time, 1) = AfterLast(zone, past)
    BY DEF OffsetOfWall, After, AfterLast
  <2> HIDE DEF past
  <2> QED
    BY <1>4, <2>1, <2>2, LastHolds
<1> QED
  BY <1>2, <1>3, <1>4

\* That offset is an end of the change before and of the change after.
LEMMA HeldProperties ==
  ASSUME NEW zone, Changing(zone), NEW k \in 0..Len(zone)
  PROVE  /\ Len(zone) \in Nat /\ Held(zone, k) \in Int
         /\ k >= 1 => k \in 1..Len(zone) /\ Held(zone, k) = zone[k].after
         /\ k < Len(zone) => k + 1 \in 1..Len(zone) /\ Held(zone, k) = zone[k + 1].before
<1>1. Len(zone) \in Nat /\ Len(zone) >= 1
  BY ChangesInOrder
<1>2. k >= 1 => k \in 1..Len(zone) /\ Held(zone, k) = zone[k].after
  BY <1>1 DEF Held
<1>3. ASSUME k < Len(zone) PROVE k + 1 \in 1..Len(zone) /\ Held(zone, k) = zone[k + 1].before
  <2>1. k + 1 \in 1..Len(zone)
    BY <1>1, <1>3
  <2>2. CASE k = 0
    BY <2>1, <2>2 DEF Held
  <2>3. CASE k # 0
    <3>1. k \in 1..Len(zone) - 1
      BY <1>1, <1>3, <2>3
    <3> QED
      BY <2>1, <2>3, <3>1 DEF Held, Changing
  <2> QED
    BY <2>2, <2>3
<1>4. Held(zone, k) \in Int
  <2>1. 1 \in 1..Len(zone) /\ (k # 0 => k \in 1..Len(zone))
    BY <1>1
  <2> QED
    BY <2>1, ChangeProperties DEF Held
<1> QED
  BY <1>1, <1>2, <1>3, <1>4

\* The wall time is one that the offset after the first k changes gives some instant at
\* which it holds.
Fits(zone, wall, k) ==
    /\ k >= 1 => zone[k].at + Held(zone, k) <= wall
    /\ k < Len(zone) => wall < zone[k + 1].at + Held(zone, k)

\* It fits if and only if they are the changes that have come at that instant.
LEMMA FitsHeld ==
  ASSUME NEW zone, Changing(zone), NEW wall \in Int, NEW k \in 0..Len(zone)
  PROVE  Fits(zone, wall, k) <=> Past(zone, k, Ats(zone), wall - Held(zone, k))
<1> DEFINE offset == Held(zone, k)
           utc == wall - offset
<1>1. /\ Len(zone) \in Nat /\ offset \in Int /\ utc \in Int
      /\ k >= 1 => k \in 1..Len(zone)
      /\ k < Len(zone) => k + 1 \in 1..Len(zone)
  BY HeldProperties
<1>2. \A i \in 1..Len(zone) : Ats(zone)[i] = zone[i].at /\ zone[i].at \in Int
  BY ChangeProperties DEF Ats
<1> HIDE DEF offset, utc
<1>3. ASSUME Past(zone, k, Ats(zone), utc) PROVE Fits(zone, wall, k)
  <2>1. \A i \in 1..Len(zone) : zone[i].at <= utc <=> i <= k
    BY <1>2, <1>3 DEF Past
  <2>2. k >= 1 => zone[k].at + offset <= wall
    <3>1. k >= 1 => zone[k].at <= utc
      BY <1>1, <2>1
    <3> QED
      BY <1>1, <1>2, <3>1 DEF utc
  <2>3. k < Len(zone) => wall < zone[k + 1].at + offset
    <3>1. k < Len(zone) => ~(zone[k + 1].at <= utc)
      BY <1>1, <2>1
    <3> QED
      BY <1>1, <1>2, <3>1 DEF utc
  <2> QED
    BY <2>2, <2>3 DEF Fits, offset
<1>4. ASSUME Fits(zone, wall, k) PROVE Past(zone, k, Ats(zone), utc)
  <2>1. PICK m \in 0..Len(zone) : Past(zone, m, Ats(zone), utc)
    BY <1>1, PastExists
  <2>2. \A i \in 1..Len(zone) : zone[i].at <= utc <=> i <= m
    BY <1>2, <2>1 DEF Past
  <2>3. k <= m
    <3>1. k >= 1 => zone[k].at <= utc
      BY <1>1, <1>2, <1>4 DEF Fits, utc, offset
    <3> QED
      BY <1>1, <2>2, <3>1
  <2>4. m <= k
    <3>1. k < Len(zone) => ~(zone[k + 1].at <= utc)
      BY <1>1, <1>2, <1>4 DEF Fits, utc, offset
    <3>2. k < Len(zone) => ~(k + 1 <= m)
      BY <1>1, <2>2, <3>1
    <3> QED
      BY <1>1, <3>2
  <2>5. m = k
    BY <2>3, <2>4
  <2> QED
    BY <2>1, <2>5
<1> QED
  BY <1>3, <1>4 DEF utc, offset

\* The instants that show a wall time are those of the offsets that fit it.
LEMMA Showing ==
  ASSUME NEW zone, Changing(zone), NEW wall \in Int, NEW utc \in Int
  PROVE  utc + OffsetAt(zone, utc) = wall
           <=> \E k \in 0..Len(zone) : Fits(zone, wall, k) /\ utc = wall - Held(zone, k)
<1>1. ASSUME utc + OffsetAt(zone, utc) = wall
      PROVE  \E k \in 0..Len(zone) : Fits(zone, wall, k) /\ utc = wall - Held(zone, k)
  <2>1. PICK k \in 0..Len(zone) : Past(zone, k, Ats(zone), utc)
    BY PastExists
  <2>2. OffsetAt(zone, utc) = Held(zone, k) /\ Held(zone, k) \in Int
    BY <2>1, OffsetsHeld, HeldProperties
  <2>3. utc = wall - Held(zone, k)
    BY <1>1, <2>2
  <2> QED
    BY <2>1, <2>3, FitsHeld
<1>2. ASSUME NEW k \in 0..Len(zone), Fits(zone, wall, k), utc = wall - Held(zone, k)
      PROVE  utc + OffsetAt(zone, utc) = wall
  <2>1. Past(zone, k, Ats(zone), utc)
    BY <1>2, FitsHeld
  <2>2. OffsetAt(zone, utc) = Held(zone, k) /\ Held(zone, k) \in Int
    BY <2>1, OffsetsHeld, HeldProperties
  <2> QED
    BY <1>2, <2>2
<1> QED
  BY <1>1, <1>2

\* All of them are enumerated.
LEMMA InstantsAre ==
  ASSUME NEW zone, Changing(zone), NEW wall \in Int, NEW utc
  PROVE  utc \in Instants(zone, wall)
           <=> \E k \in 0..Len(zone) : Fits(zone, wall, k) /\ utc = wall - Held(zone, k)
<1> DEFINE offsets == UNION {{change.before, change.after} : change \in Range(zone)}
<1>1. /\ DOMAIN zone = 1..Len(zone) /\ Len(zone) \in Nat
      /\ Range(zone) = {zone[i] : i \in 1..Len(zone)}
  <2>1. DOMAIN zone = 1..Len(zone) /\ Len(zone) \in Nat
    BY LenProperties DEF Changing
  <2> QED
    BY <2>1 DEF Range
<1>2. \A offset \in offsets : offset \in Int
  BY <1>1, ChangeProperties
<1>3. \A k \in 0..Len(zone) : Held(zone, k) \in offsets
  <2> TAKE k \in 0..Len(zone)
  <2>1. \A i \in 1..Len(zone) : zone[i].before \in offsets /\ zone[i].after \in offsets
    BY <1>1
  <2>2. CASE k >= 1
    BY <2>1, <2>2, HeldProperties
  <2>3. CASE ~(k >= 1)
    <3>1. 1 \in 1..Len(zone) /\ k = 0
      BY <2>3, ChangesInOrder
    <3> QED
      BY <2>1, <3>1 DEF Held
  <2> QED
    BY <2>2, <2>3
<1>4. utc \in Instants(zone, wall)
        <=> (\E offset \in offsets : utc = wall - offset) /\ utc + OffsetAt(zone, utc) = wall
  BY DEF Instants
<1> HIDE DEF offsets
<1>5. (\E offset \in offsets : utc = wall - offset) => utc \in Int
  BY <1>2
<1>6. ASSUME NEW k \in 0..Len(zone), utc = wall - Held(zone, k)
      PROVE  \E offset \in offsets : utc = wall - offset
  BY <1>3, <1>6
<1> QED
  BY <1>4, <1>5, <1>6, Showing

\* Of the offsets only two can fit: the one after the changes that are past at their later
\* wall time, and the one after those that are past at their earlier.
LEMMA FittingOffsets ==
  ASSUME NEW zone, Changing(zone), NEW wall \in Int, NEW k0, NEW k1,
         Past(zone, k0, Laters(zone), wall), Past(zone, k1, Earliers(zone), wall)
  PROVE  /\ k0 \in 0..Len(zone) /\ k1 \in 0..Len(zone) /\ (k1 = k0 \/ k1 = k0 + 1)
         /\ \A k \in 0..Len(zone) : Fits(zone, wall, k) => k = k0 \/ k = k1
<1>1. /\ Len(zone) \in Nat /\ k0 \in 0..Len(zone) /\ k1 \in 0..Len(zone)
      /\ \A i \in 1..Len(zone) : Later(zone[i]) <= wall <=> i <= k0
      /\ \A i \in 1..Len(zone) : Earlier(zone[i]) <= wall <=> i <= k1
  BY ChangesInOrder DEF Past, Laters, Earliers
<1>2. k0 <= k1
  <2>1. CASE k0 = 0
    BY <1>1, <2>1
  <2>2. CASE k0 # 0
    <3>1. k0 \in 1..Len(zone) /\ Later(zone[k0]) <= wall
      BY <1>1, <2>2
    <3>2. Earlier(zone[k0]) <= wall
      BY <3>1, ChangeProperties
    <3> QED
      BY <1>1, <3>1, <3>2
  <2> QED
    BY <2>1, <2>2
<1>3. k1 <= k0 + 1
  <2> SUFFICES ASSUME ~(k1 <= k0 + 1) PROVE FALSE
    OBVIOUS
  <2>1. k0 + 1 \in 1..Len(zone) - 1 /\ k0 + 1 \in 1..Len(zone) /\ k0 + 1 + 1 \in 1..Len(zone)
    BY <1>1
  <2>2. ~(Later(zone[k0 + 1]) <= wall) /\ Earlier(zone[k0 + 1 + 1]) <= wall
    BY <1>1, <2>1
  <2>3. Later(zone[k0 + 1]) < Earlier(zone[k0 + 1 + 1])
    BY <2>1 DEF Changing
  <2>4. Later(zone[k0 + 1]) \in Int /\ Earlier(zone[k0 + 1 + 1]) \in Int
    BY <2>1, ChangeProperties
  <2> QED
    BY <2>2, <2>3, <2>4
<1>4. ASSUME NEW k \in 0..Len(zone), Fits(zone, wall, k) PROVE k0 <= k /\ k <= k1
  <2>1. k <= k1
    <3>1. CASE k = 0
      BY <1>1, <3>1
    <3>2. CASE k # 0
      <4>1. k \in 1..Len(zone) /\ Held(zone, k) = zone[k].after
        BY <3>2, HeldProperties
      <4>2. zone[k].at + zone[k].after <= wall
        BY <1>4, <3>2, <4>1 DEF Fits
      <4>3. Earlier(zone[k]) <= wall
        BY <4>1, <4>2, ChangeProperties
      <4> QED
        BY <1>1, <4>1, <4>3
    <3> QED
      BY <3>1, <3>2
  <2>2. k0 <= k
    <3>1. CASE k < Len(zone)
      <4>1. k + 1 \in 1..Len(zone) /\ Held(zone, k) = zone[k + 1].before
        BY <3>1, HeldProperties
      <4>2. wall < zone[k + 1].at + zone[k + 1].before
        BY <1>4, <3>1, <4>1 DEF Fits
      <4>3. ~(Later(zone[k + 1]) <= wall)
        BY <4>1, <4>2, ChangeProperties
      <4>4. ~(k + 1 <= k0)
        BY <1>1, <4>1, <4>3
      <4> QED
        BY <1>1, <4>4
    <3>2. CASE ~(k < Len(zone))
      BY <1>1, <3>2
    <3> QED
      BY <3>1, <3>2
  <2> QED
    BY <2>1, <2>2
<1>5. k1 = k0 \/ k1 = k0 + 1
  BY <1>1, <1>2, <1>3
<1>6. \A k \in 0..Len(zone) : Fits(zone, wall, k) => k = k0 \/ k = k1
  BY <1>1, <1>4, <1>5
<1> QED
  BY <1>1, <1>5, <1>6

\* A wall time at which no change is skipped or repeated has the offset that holds.
LEMMA OrdinaryWall ==
  ASSUME NEW zone, Changing(zone), NEW wall \in Int, NEW k,
         Past(zone, k, Laters(zone), wall), Past(zone, k, Earliers(zone), wall)
  PROVE  Fits(zone, wall, k)
<1>1. /\ Len(zone) \in Nat /\ k \in 0..Len(zone)
      /\ \A i \in 1..Len(zone) : Later(zone[i]) <= wall <=> i <= k
      /\ \A i \in 1..Len(zone) : Earlier(zone[i]) <= wall <=> i <= k
  BY ChangesInOrder DEF Past, Laters, Earliers
<1>2. ASSUME k >= 1 PROVE zone[k].at + Held(zone, k) <= wall
  <2>1. k \in 1..Len(zone) /\ Held(zone, k) = zone[k].after
    BY <1>1, <1>2, HeldProperties
  <2>2. Later(zone[k]) <= wall
    BY <1>1, <2>1
  <2> QED
    BY <2>1, <2>2, ChangeProperties
<1>3. ASSUME k < Len(zone) PROVE wall < zone[k + 1].at + Held(zone, k)
  <2>1. k + 1 \in 1..Len(zone) /\ Held(zone, k) = zone[k + 1].before
    BY <1>1, <1>3, HeldProperties
  <2>2. ~(Earlier(zone[k + 1]) <= wall)
    BY <1>1, <2>1
  <2> QED
    BY <2>1, <2>2, ChangeProperties
<1> QED
  BY <1>2, <1>3 DEF Fits

\* A wall time between the two of a change is skipped when the offset grows, and repeated
\* when it shrinks.
LEMMA WallOfChange ==
  ASSUME NEW zone, Changing(zone), NEW wall \in Int, NEW k,
         Past(zone, k, Laters(zone), wall), Past(zone, k + 1, Earliers(zone), wall)
  PROVE  /\ k \in 0..Len(zone) /\ k + 1 \in 0..Len(zone)
         /\ Held(zone, k) # Held(zone, k + 1)
         /\ Fits(zone, wall, k) <=> Fits(zone, wall, k + 1)
<1>1. /\ Len(zone) \in Nat /\ k \in 0..Len(zone) /\ k + 1 \in 0..Len(zone)
      /\ \A i \in 1..Len(zone) : Later(zone[i]) <= wall <=> i <= k
      /\ \A i \in 1..Len(zone) : Earlier(zone[i]) <= wall <=> i <= k + 1
  BY ChangesInOrder DEF Past, Laters, Earliers
<1> DEFINE change == zone[k + 1]
<1>2. /\ k + 1 \in 1..Len(zone) /\ k < Len(zone) /\ k + 1 >= 1
      /\ Held(zone, k) = change.before /\ Held(zone, k + 1) = change.after
  <2>1. k < Len(zone) /\ k + 1 >= 1
    BY <1>1
  <2> QED
    BY <1>1, <2>1, HeldProperties
<1>3. /\ change.at \in Int /\ change.before \in Int /\ change.after \in Int
      /\ Later(change) \in Int /\ Earlier(change) \in Int
      /\ change.before <= change.after => Earlier(change) = change.at + change.before
                                          /\ Later(change) = change.at + change.after
      /\ change.after <= change.before => Earlier(change) = change.at + change.after
                                          /\ Later(change) = change.at + change.before
  BY <1>2, ChangeProperties
<1>4. Earlier(change) <= wall /\ ~(Later(change) <= wall)
  BY <1>1, <1>2
<1>5. ASSUME k >= 1 PROVE zone[k].at + Held(zone, k) <= wall
  <2>1. k \in 1..Len(zone) /\ Held(zone, k) = zone[k].after
    BY <1>1, <1>5, HeldProperties
  <2>2. Later(zone[k]) <= wall
    BY <1>1, <2>1
  <2> QED
    BY <2>1, <2>2, ChangeProperties
<1>6. ASSUME k + 1 < Len(zone) PROVE wall < zone[k + 1 + 1].at + Held(zone, k + 1)
  <2>1. k + 1 + 1 \in 1..Len(zone) /\ Held(zone, k + 1) = zone[k + 1 + 1].before
    BY <1>1, <1>6, HeldProperties
  <2>2. ~(Earlier(zone[k + 1 + 1]) <= wall)
    BY <1>1, <2>1
  <2> QED
    BY <2>1, <2>2, ChangeProperties
<1> HIDE DEF change
<1>7. Fits(zone, wall, k) <=> wall < change.at + change.before
  BY <1>2, <1>5 DEF Fits, change
<1>8. Fits(zone, wall, k + 1) <=> change.at + change.after <= wall
  BY <1>2, <1>6 DEF Fits, change
<1>9. change.before # change.after
  BY <1>3, <1>4
<1>10. wall < change.at + change.before <=> change.at + change.after <= wall
  BY <1>3, <1>4
<1> QED
  BY <1>1, <1>2, <1>7, <1>8, <1>9, <1>10

\* What is read in a zone: the instant at which its clocks show the time, if there is
\* exactly one.
LEMMA ReadInZone ==
  ASSUME NEW zone \in DOMAIN Zones, NEW clock, clock.utc \in Int
  PROVE  LET instants == Instants(Zones[zone], clock.utc)
             reading == InterpretInZone(clock, zone)
         IN  /\ reading.status = "nonexistent" <=> instants = {}
             /\ reading.status = "ambiguous" <=> Cardinality(instants) > 1
             /\ Range(reading.utc) = IF Cardinality(instants) = 1 THEN instants ELSE {}
<1> DEFINE changes == Zones[zone]
           wall == clock.utc
           instants == Instants(changes, wall)
           reading == InterpretInZone(clock, zone)
           offset0 == OffsetOfWall(changes, wall, 0)
           offset1 == OffsetOfWall(changes, wall, 1)
           earlier == wall - offset0
<1>1. Changing(changes) /\ zone # Standard
  BY ZonesAssumption DEF Changing
<1>2. reading = IF earlier + OffsetAt(changes, earlier) # wall THEN Reading(<<>>, "nonexistent")
                ELSE IF offset0 # offset1 THEN Reading(<<>>, "ambiguous")
                ELSE Reading(<<earlier>>, "converted")
  BY <1>1 DEF InterpretInZone
<1>3. wall \in Int
  OBVIOUS
<1> HIDE DEF changes, wall, instants, reading, offset0, offset1, earlier
<1>4. PICK k0 \in 0..Len(changes) : Past(changes, k0, Laters(changes), wall)
  BY <1>1, <1>3, PastExists
<1>5. PICK k1 \in 0..Len(changes) : Past(changes, k1, Earliers(changes), wall)
  BY <1>1, <1>3, PastExists
<1>6. /\ offset0 = Held(changes, k0) /\ offset1 = Held(changes, k1)
      /\ offset0 \in Int /\ offset1 \in Int /\ earlier = wall - Held(changes, k0) /\ earlier \in Int
  BY <1>1, <1>3, <1>4, <1>5, OffsetsHeld, HeldProperties DEF offset0, offset1, earlier
<1>7. \A utc : utc \in instants
               <=> \E k \in 0..Len(changes) : Fits(changes, wall, k) /\ utc = wall - Held(changes, k)
  BY <1>1, <1>3, InstantsAre DEF instants
<1>8. earlier + OffsetAt(changes, earlier) = wall <=> earlier \in instants
  BY <1>1, <1>3, <1>6, <1>7, Showing
<1>9. /\ k1 = k0 \/ k1 = k0 + 1
      /\ \A k \in 0..Len(changes) : Fits(changes, wall, k) => k = k0 \/ k = k1
  BY <1>1, <1>3, <1>4, <1>5, FittingOffsets
<1>10. CASE k1 = k0
  <2>1. Fits(changes, wall, k0)
    BY <1>1, <1>3, <1>4, <1>5, <1>10, OrdinaryWall
  <2>2. \A utc : utc \in instants <=> utc = earlier
    BY <1>6, <1>7, <1>9, <1>10, <2>1
  <2>3. instants = {earlier} /\ Cardinality(instants) = 1
    BY <2>2, FS_Singleton
  <2>4. reading = Reading(<<earlier>>, "converted")
    BY <1>2, <1>6, <1>8, <1>10, <2>2
  <2>5. reading.utc = <<earlier>> /\ reading.status = "converted"
    BY <2>4 DEF Reading
  <2>6. Range(reading.utc) = {earlier}
    BY <2>5 DEF Range
  <2> QED
    BY <2>3, <2>5, <2>6 DEF reading, instants, wall, changes
<1>11. CASE k1 = k0 + 1
  <2>1. /\ Held(changes, k0) # Held(changes, k1)
        /\ Fits(changes, wall, k0) <=> Fits(changes, wall, k1)
    BY <1>1, <1>3, <1>4, <1>5, <1>11, WallOfChange
  <2> DEFINE later == wall - offset1
  <2>2. later \in Int /\ later # earlier
    BY <1>3, <1>6, <2>1
  <2>3. CASE Fits(changes, wall, k0)
    <3>1. \A utc : utc \in instants <=> utc = earlier \/ utc = later
      BY <1>6, <1>7, <1>9, <2>1, <2>3
    <3>2. instants = {earlier, later}
      BY <3>1
    <3>3. Cardinality(instants) = 2
      <4>1. IsFiniteSet({earlier}) /\ Cardinality({earlier}) = 1
        BY FS_Singleton
      <4>2. Cardinality({earlier} \cup {later}) = 1 + 1
        BY <2>2, <4>1, FS_AddElement
      <4>3. instants = {earlier} \cup {later}
        BY <3>2
      <4> QED
        BY <4>2, <4>3
    <3>4. reading = Reading(<<>>, "ambiguous")
      BY <1>2, <1>6, <1>8, <2>1, <3>1
    <3>5. reading.utc = <<>> /\ reading.status = "ambiguous" /\ instants # {}
      BY <3>2, <3>4 DEF Reading
    <3>6. Range(reading.utc) = {}
      BY <3>5 DEF Range
    <3> QED
      BY <3>3, <3>5, <3>6 DEF reading, instants, wall, changes
  <2>4. CASE ~Fits(changes, wall, k0)
    <3>1. \A utc : utc \notin instants
      BY <1>7, <1>9, <2>1, <2>4
    <3>2. instants = {} /\ Cardinality(instants) = 0
      BY <3>1, FS_EmptySet
    <3>3. reading = Reading(<<>>, "nonexistent")
      BY <1>2, <1>8, <3>1
    <3>4. reading.utc = <<>> /\ reading.status = "nonexistent"
      BY <3>3 DEF Reading
    <3>5. Range(reading.utc) = {}
      BY <3>4 DEF Range
    <3> QED
      BY <3>2, <3>4, <3>5 DEF reading, instants, wall, changes
  <2> QED
    BY <2>3, <2>4
<1> QED
  BY <1>9, <1>10, <1>11

-----------------------------------------------------------------------------
(* The rule whose zone is used.                                              *)

\* Rules with the same selector are of the same kind, and for the same stations.
LEMMA SameSelector ==
  ASSUME NEW a, NEW b, a.kind \in {"all", "freq", "pi"}, b.kind \in {"all", "freq", "pi"},
         Selector(a) = Selector(b), NEW pi, NEW freq
  PROVE  a.kind = b.kind /\ (Matches(a, pi, freq) <=> Matches(b, pi, freq))
<1>1. /\ a.kind = "all" => Selector(a) = <<"all">>
      /\ a.kind = "freq" => Selector(a) = <<"freq", Channel(a.value)>>
      /\ a.kind = "pi" => Selector(a) = <<"pi", a.value>>
  BY DEF Selector
<1>2. /\ b.kind = "all" => Selector(b) = <<"all">>
      /\ b.kind = "freq" => Selector(b) = <<"freq", Channel(b.value)>>
      /\ b.kind = "pi" => Selector(b) = <<"pi", b.value>>
  BY DEF Selector
<1>3. \A x : Len(<<"all">>) = 1 /\ Len(<<"freq", x>>) = 2 /\ Len(<<"pi", x>>) = 2
  OBVIOUS
<1>4. \A x, y : <<"freq", x>> # <<"pi", y>>
  OBVIOUS
<1>5. \A x : <<"all">> # <<"freq", x>> /\ <<"all">> # <<"pi", x>>
  BY <1>3
<1>6. a.kind = b.kind
  BY <1>1, <1>2, <1>4, <1>5
<1>7. a.kind = "pi" => a.value = b.value
  <2>1. \A x, y : <<"pi", x>> = <<"pi", y>> => x = y
    OBVIOUS
  <2> QED
    BY <1>1, <1>2, <1>6, <2>1
<1> QED
  BY <1>6, <1>7 DEF Matches

\* Two rules of the same kind that match have the same selector.
LEMMA MatchingSelectors ==
  ASSUME NEW a, NEW b, a.kind \in {"all", "freq", "pi"}, a.kind = b.kind,
         NEW pi, NEW freq, Matches(a, pi, freq), Matches(b, pi, freq)
  PROVE  Selector(a) = Selector(b)
<1>1. CASE a.kind = "all"
  BY <1>1 DEF Selector
<1>2. CASE a.kind = "pi"
  <2>1. a.value = pi /\ b.value = pi
    BY <1>2 DEF Matches
  <2> QED
    BY <1>2, <2>1 DEF Selector
<1>3. CASE a.kind = "freq"
  <2>1. Channel(freq) = Selector(a)[2] /\ Channel(freq) = Selector(b)[2]
    BY <1>3 DEF Matches
  <2>2. Selector(a) = <<"freq", Channel(a.value)>> /\ Selector(b) = <<"freq", Channel(b.value)>>
    BY <1>3 DEF Selector
  <2>3. \A x : <<"freq", x>>[2] = x
    OBVIOUS
  <2> QED
    BY <2>1, <2>2, <2>3
<1> QED
  BY <1>1, <1>2, <1>3

\* A rule that matches and that no other that matches goes before.
Winner(given, pi, freq, i) ==
    /\ Matches(given[i], pi, freq)
    /\ \A j \in DOMAIN given : Matches(given[j], pi, freq) =>
           Precedence[given[j].kind] <= Precedence[given[i].kind]

\* A rule that matches is represented by one of the policy, of the same kind.
LEMMA Represented ==
  ASSUME NEW given, Sound(given), NEW pi, NEW freq,
         NEW i \in 1..Len(given), Matches(given[i], pi, freq)
  PROVE  \E k \in Covering(given, pi, freq) : given[k].kind = given[i].kind
<1>1. Len(given) \in Nat /\ DOMAIN given = 1..Len(given)
  BY LenProperties DEF Sound
<1> DEFINE same == {k \in 1..Len(given) : Selector(given[k]) = Selector(given[i])}
<1>2. i \in same /\ same \in SUBSET Nat
  BY <1>1
<1>3. PICK k \in same : \A j \in same : k <= j
  <2> HIDE DEF same
  <2> QED
    BY <1>2, LeastOf
<1>4. k \in 1..Len(given) /\ Selector(given[k]) = Selector(given[i])
  BY <1>3
<1>5. \A j \in 1..k - 1 : Selector(given[j]) # Selector(given[k])
  <2> TAKE j \in 1..k - 1
  <2>1. j \in 1..Len(given) /\ ~(k <= j)
    BY <1>1, <1>4
  <2> QED
    BY <1>3, <1>4, <2>1
<1>6. given[k].kind \in {"all", "freq", "pi"} /\ given[i].kind \in {"all", "freq", "pi"}
  BY <1>4 DEF Sound
<1>7. given[k].kind = given[i].kind /\ Matches(given[k], pi, freq)
  BY <1>4, <1>6, SameSelector
<1>8. k \in Covering(given, pi, freq)
  BY <1>1, <1>4, <1>5, <1>7 DEF Covering, Policy
<1> QED
  BY <1>7, <1>8

\* The zone is that of every winner, and UTC if there is none.
LEMMA ZoneOfWinner ==
  ASSUME NEW given, Sound(given), NEW pi, NEW freq
  PROVE  LET zone == ZoneFor(given, pi, freq)
         IN  /\ \A i \in DOMAIN given : Winner(given, pi, freq, i) => zone = given[i].zone
             /\ (\A i \in DOMAIN given : ~Winner(given, pi, freq, i)) => zone = Standard
             /\ zone = Standard \/ \E i \in DOMAIN given : zone = given[i].zone
<1> DEFINE covering == Covering(given, pi, freq)
           rank == [i \in DOMAIN given |-> Precedence[given[i].kind]]
           chosen == CHOOSE i \in covering :
                       \A j \in covering : rank[j] <= rank[i] /\ (j < i => rank[j] < rank[i])
           zone == ZoneFor(given, pi, freq)
<1>1. Len(given) \in Nat /\ DOMAIN given = 1..Len(given)
  BY LenProperties DEF Sound
<1>2. covering \in SUBSET (1..Len(given)) /\ \A i \in covering : Matches(given[i], pi, freq)
  BY <1>1 DEF Covering, Policy
<1>3. \A i \in 1..Len(given) :
         rank[i] \in Int /\ rank[i] = Precedence[given[i].kind] /\ given[i].kind \in {"all", "freq", "pi"}
  BY <1>1 DEF Sound, Precedence
<1>4. ASSUME NEW i \in 1..Len(given), Matches(given[i], pi, freq)
      PROVE  \E k \in covering : rank[k] = rank[i]
  BY <1>1, <1>2, <1>3, <1>4, Represented
<1>5. CASE covering = {}
  <2>1. \A i \in 1..Len(given) : ~Matches(given[i], pi, freq)
    <3> HIDE DEF covering, rank
    <3> QED
      BY <1>4, <1>5
  <2>2. \A i \in 1..Len(given) : ~Winner(given, pi, freq, i)
    BY <2>1 DEF Winner
  <2>3. zone = Standard
    BY <1>5 DEF ZoneFor
  <2> QED
    BY <1>1, <2>2, <2>3
<1>6. CASE covering # {}
  <2>1. chosen \in covering /\ \A j \in covering : rank[j] <= rank[chosen]
    <3>1. \A i \in covering : rank[i] \in Int
      BY <1>2, <1>3
    <3> HIDE DEF covering, rank
    <3>2. \E i \in covering : \A j \in covering : rank[j] <= rank[i] /\ (j < i => rank[j] < rank[i])
      BY <1>1, <1>2, <1>6, <3>1, FirstOfMost
    <3> QED
      BY <3>2
  <2>2. zone = given[chosen].zone
    <3>1. \A i \in covering : rank[i] = Precedence[given[i].kind]
      BY <1>2, <1>3
    <3>2. zone = given[CHOOSE i \in covering :
                          \A j \in covering :
                              /\ Precedence[given[j].kind] <= Precedence[given[i].kind]
                              /\ j < i => Precedence[given[j].kind] < Precedence[given[i].kind]].zone
      BY <1>6 DEF ZoneFor
    <3> DEFINE first(i) == \A j \in covering : rank[j] <= rank[i] /\ (j < i => rank[j] < rank[i])
               firstOf(i) == \A j \in covering :
                                 /\ Precedence[given[j].kind] <= Precedence[given[i].kind]
                                 /\ j < i => Precedence[given[j].kind] < Precedence[given[i].kind]
    <3>3. \A i \in covering : first(i) <=> firstOf(i)
      <4> HIDE DEF rank, covering
      <4> QED
        BY <3>1
    <3>4. (CHOOSE i \in covering : firstOf(i)) = CHOOSE i \in covering : first(i)
      <4> HIDE DEF first, firstOf, covering
      <4> QED
        BY <3>3
    <3> QED
      BY <3>2, <3>4
  <2> HIDE DEF chosen, zone
  <2>3. chosen \in 1..Len(given) /\ Matches(given[chosen], pi, freq)
    BY <1>2, <2>1
  <2>4. \A i \in 1..Len(given) : Matches(given[i], pi, freq) => rank[i] <= rank[chosen]
    <3> HIDE DEF rank, covering
    <3> QED
      BY <1>4, <2>1
  <2>5. Winner(given, pi, freq, chosen)
    BY <1>1, <1>3, <2>3, <2>4 DEF Winner
  <2>6. ASSUME NEW i \in 1..Len(given), Winner(given, pi, freq, i) PROVE given[chosen].zone = given[i].zone
    <3>1. Matches(given[i], pi, freq) /\ rank[i] <= rank[chosen] /\ rank[chosen] <= rank[i]
      BY <1>1, <1>3, <2>3, <2>4, <2>6 DEF Winner
    <3>2. rank[i] = rank[chosen]
      <4>1. rank[i] \in Int /\ rank[chosen] \in Int
        BY <1>3, <2>3
      <4> HIDE DEF rank
      <4> QED
        BY <3>1, <4>1
    <3>3. given[i].kind = given[chosen].kind
      <4>1. Precedence["all"] = 0 /\ Precedence["freq"] = 1 /\ Precedence["pi"] = 2
        BY DEF Precedence
      <4>2. Precedence[given[i].kind] = Precedence[given[chosen].kind]
        BY <1>3, <2>3, <3>2
      <4>3. given[i].kind \in {"all", "freq", "pi"} /\ given[chosen].kind \in {"all", "freq", "pi"}
        BY <1>3, <2>3
      <4> HIDE DEF rank
      <4> QED
        BY <4>1, <4>2, <4>3
    <3>4. Selector(given[i]) = Selector(given[chosen])
      BY <1>3, <2>3, <3>1, <3>3, MatchingSelectors
    <3> QED
      BY <1>1, <2>3, <3>4 DEF Sound, Conflicting
  <2> QED
    BY <1>1, <2>2, <2>3, <2>5, <2>6 DEF zone
<1> QED
  BY <1>5, <1>6

\* Whatever zones change when, and whatever rules are given in whatever order: the Clock-Time
\* is read in the zone of the most specific rule for the station, and gets the one instant at
\* which that zone's clocks show it, or none if they skip or repeat it (CTPolicy.zone_for,
\* interpret_in_zone).
THEOREM ReadExactly == Spec => []ReadingIsExact
<1>1. ASSUME IInv PROVE ReadingIsExact
  <2> SUFFICES ASSUME fields.clocks # <<>>
               PROVE  LET wall == Last(fields.clocks).utc
                          instants == Instants(Zones[Zone], wall)
                      IN  /\ \A i \in DOMAIN rules : Wins(i) => Zone = rules[i].zone
                          /\ (\A i \in DOMAIN rules : ~Wins(i)) => Zone = Standard
                          /\ IF Zone = Standard THEN Interpretation = Reading(<<wall>>, "standard")
                             ELSE /\ Interpretation.status = "nonexistent" <=> instants = {}
                                  /\ Interpretation.status = "ambiguous" <=> Cardinality(instants) > 1
                                  /\ Range(Interpretation.utc)
                                       = IF Cardinality(instants) = 1 THEN instants ELSE {}
    BY DEF ReadingIsExact
  <2> DEFINE clock == Last(fields.clocks)
  <2>1. clock.utc \in Int
    <3>1. fields.clocks \in Seq([utc : Int, offset : Int, rx : Int \cup {NoTime}])
      BY <1>1 DEF IInv, Readings, Timed, Clocks
    <3>2. Len(fields.clocks) \in 1..Len(fields.clocks)
      BY <3>1, EmptySeq, LenProperties
    <3>3. clock \in [utc : Int, offset : Int, rx : Int \cup {NoTime}]
      BY <3>1, <3>2, ElementOfSeq DEF Last
    <3> QED
      BY <3>3
  <2>2. Sound(rules) /\ DOMAIN rules = 1..Len(rules)
    <3>1. Sound(rules)
      BY <1>1 DEF IInv, Readings
    <3> QED
      BY <3>1, LenProperties DEF Sound
  <2>3. \A i : Wins(i) <=> Winner(rules, ConfirmedPi, tuning, i)
    BY DEF Wins, Winner
  <2>4. /\ \A i \in DOMAIN rules : Winner(rules, ConfirmedPi, tuning, i) => Zone = rules[i].zone
        /\ (\A i \in DOMAIN rules : ~Winner(rules, ConfirmedPi, tuning, i)) => Zone = Standard
        /\ Zone = Standard \/ \E i \in DOMAIN rules : Zone = rules[i].zone
    BY <2>2, ZoneOfWinner DEF Zone
  <2>5. Zone \in DOMAIN Zones \cup {Standard}
    BY <2>2, <2>4 DEF Sound
  <2>6. Interpretation = InterpretInZone(clock, Zone)
    BY DEF Interpretation
  <2> HIDE DEF clock
  <2>7. CASE Zone = Standard
    <3>1. Interpretation = Reading(<<clock.utc>>, "standard")
      BY <2>6, <2>7 DEF InterpretInZone
    <3> QED
      BY <2>3, <2>4, <2>7, <3>1 DEF clock
  <2>8. CASE Zone # Standard
    <3>1. Zone \in DOMAIN Zones
      BY <2>5, <2>8
    <3> DEFINE instants == Instants(Zones[Zone], clock.utc)
    <3>2. /\ Interpretation.status = "nonexistent" <=> instants = {}
          /\ Interpretation.status = "ambiguous" <=> Cardinality(instants) > 1
          /\ Range(Interpretation.utc) = IF Cardinality(instants) = 1 THEN instants ELSE {}
      BY <2>1, <2>6, <3>1, ReadInZone
    <3> QED
      BY <2>3, <2>4, <2>8, <3>2 DEF clock
  <2> QED
    BY <2>7, <2>8
<1> QED
  BY <1>1, Inductive, PTL

-----------------------------------------------------------------------------
(* The Clock-Times of the groups: what a station encodes is what a receiver  *)
(* decodes (rds_clock.py), for every minute of the days that                 *)
(* a Clock-Time may name and every offset.  Each of the three words is a sum *)
(* of fields that fit below each other, so that a division takes out what a  *)
(* product put in.                                                           *)

\* The hour and the minute of an instant; the sign and the half hours of an offset.
HourPart(utc) == (utc % DayMinutes) \div 60
MinutePart(utc) == utc % 60
Sign(offset) == IF offset < 0 THEN 1 ELSE 0
HalfHours(offset) == (IF offset < 0 THEN -offset ELSE offset) \div 30

\* The three words of such parts.
BlockB(day) == day \div 32768
BlockC(day, hour) == (day % 32768) * 2 + hour \div 16
BlockD(hour, minute, sign, half) == (hour % 16) * 4096 + minute * 64 + 32 * sign + half

\* Their parts on the two sides of a block's edge.
Low(day) == day % 32768
Top(hour) == hour \div 16
Rest(hour) == hour % 16

\* The day, the minute and the offset that the blocks say.
DayOf(b, c) == (b % 4) * 32768 + c \div 2
HourField(d) == d \div 4096
MinuteOf(d) == (d \div 64) % 64
SignBit(d) == (d \div 32) % 2
HalfField(d) == d % 32
OffsetOf(d) == IF SignBit(d) = 1 THEN -(30 * HalfField(d)) ELSE 30 * HalfField(d)

\* The instant of a day, an hour and a minute.
Instant(day, hour, minute) == day * DayMinutes + hour * 60 + minute

\* A number is its quotient and what is left, for each divisor of the field.
LEMMA By1440 ==
    ASSUME NEW n \in Int, NEW q, NEW r, q = n \div 1440, r = n % 1440
    PROVE  q \in Int /\ r \in 0..1439 /\ n = 1440 * q + r
  OBVIOUS

LEMMA By60 ==
    ASSUME NEW n \in Int, NEW q, NEW r, q = n \div 60, r = n % 60
    PROVE  q \in Int /\ r \in 0..59 /\ n = 60 * q + r
  OBVIOUS

LEMMA By30 ==
    ASSUME NEW n \in Int, NEW q, NEW r, q = n \div 30, r = n % 30
    PROVE  q \in Int /\ r \in 0..29 /\ n = 30 * q + r
  OBVIOUS

LEMMA By16 ==
    ASSUME NEW n \in 0..23, NEW q, NEW r, q = n \div 16, r = n % 16
    PROVE  q \in 0..1 /\ r \in 0..15 /\ n = 16 * q + r
  OBVIOUS

\* An instant is a day, an hour and a minute.
LEMMA PartsOfInstant ==
    ASSUME NEW utc \in Int
    PROVE  /\ Mjd(utc) \in Int /\ HourPart(utc) \in 0..23 /\ MinutePart(utc) \in 0..59
           /\ utc = Instant(Mjd(utc), HourPart(utc), MinutePart(utc))
<1> DEFINE day == utc \div 1440
           rest == utc % 1440
           hour == rest \div 60
           over == rest % 60
           hours == utc \div 60
           minute == utc % 60
<1>1. day \in Int /\ rest \in 0..1439 /\ utc = 1440 * day + rest
  BY By1440
<1>2. rest \in Int
  BY <1>1
<1>3. hour \in Int /\ over \in 0..59 /\ rest = 60 * hour + over
  <2> HIDE DEF rest
  <2> QED BY <1>2, By60
<1>4. hours \in Int /\ minute \in 0..59 /\ utc = 60 * hours + minute
  BY By60
<1>5. DayMinutes = 1440
  BY DEF DayMinutes
<1>6. Mjd(utc) = day /\ HourPart(utc) = hour /\ MinutePart(utc) = minute
  BY <1>5 DEF Mjd, HourPart, MinutePart
<1> HIDE DEF day, rest, hour, over, hours, minute
<1>7. over = minute
  BY <1>1, <1>3, <1>4
<1>8. hour \in 0..23 /\ utc = day * 1440 + hour * 60 + minute
  BY <1>1, <1>3, <1>4, <1>7
<1>9. utc = Instant(day, hour, minute)
  BY <1>5, <1>8 DEF Instant
<1> QED BY <1>1, <1>4, <1>6, <1>8, <1>9

\* The top of a day is two bits wide.
LEMMA TopOfDay ==
    ASSUME NEW day \in Int, day >= 0, day <= 131071
    PROVE  /\ BlockB(day) \in Int /\ BlockB(day) % 4 = BlockB(day)
           /\ day = BlockB(day) * 32768 + Low(day)
           /\ Low(day) \in Int /\ Low(day) >= 0 /\ Low(day) <= 32767
<1>1. day \in Int /\ day >= 0 /\ day <= 131071
  OBVIOUS
<1>2. BlockB(day) = day \div 32768 /\ Low(day) = day % 32768
  BY DEF BlockB, Low
<1>3. /\ BlockB(day) \in Int /\ day = 32768 * BlockB(day) + Low(day)
      /\ Low(day) \in Int /\ 0 <= Low(day) /\ Low(day) <= 32767
  <2> DEFINE q == BlockB(day)
             r == Low(day)
  <2>1. q = day \div 32768 /\ r = day % 32768
    BY <1>2
  <2> HIDE DEF q, r
  <2>2. q \in Int /\ r \in Int /\ 0 <= r /\ r <= 32767 /\ day = 32768 * q + r
    <3>1. day \in Int /\ q = day \div 32768 /\ r = day % 32768
      BY <2>1
    <3> QED BY ONLY <3>1
  <2> QED BY <2>2 DEF q, r
<1>4. 0 <= BlockB(day) /\ BlockB(day) <= 3
  BY <1>1, <1>3
<1>5. BlockB(day) % 4 = BlockB(day)
  BY <1>3, <1>4
<1> QED BY <1>3, <1>5

\* The hour is split into its top bit and the rest.
LEMMA HalvesOfHour ==
    ASSUME NEW hour \in 0..23
    PROVE  Top(hour) \in 0..1 /\ Rest(hour) \in 0..15 /\ hour = 16 * Top(hour) + Rest(hour)
  BY By16 DEF Top, Rest

\* A number of half hours is its sign and its magnitude.
LEMMA PartsOfHalfHours ==
    ASSUME NEW n \in Int, n >= -31, n <= 31, NEW offset, offset = 30 * n
    PROVE  /\ Sign(offset) \in 0..1 /\ HalfHours(offset) \in 0..31
           /\ offset = IF Sign(offset) = 1 THEN -(30 * HalfHours(offset)) ELSE 30 * HalfHours(offset)
<1>1. CASE offset < 0
  <2>1. HalfHours(offset) = (-offset) \div 30 /\ -offset = 30 * (-n)
    BY <1>1 DEF HalfHours
  <2>2. HalfHours(offset) = -n
    BY <2>1
  <2> QED BY <1>1, <2>2 DEF Sign
<1>2. CASE ~(offset < 0)
  <2>1. HalfHours(offset) = offset \div 30
    BY <1>2 DEF HalfHours
  <2>2. HalfHours(offset) = n
    BY <2>1
  <2> QED BY <1>2, <2>2 DEF Sign
<1> QED BY <1>1, <1>2

\* An offset that can be encoded is its sign and the number of its half hours.
LEMMA PartsOfOffset ==
    ASSUME NEW utc \in Int, NEW offset \in Int, Encodable(ClockTime(utc, offset))
    PROVE  /\ Sign(offset) \in 0..1 /\ HalfHours(offset) \in 0..31
           /\ offset = IF Sign(offset) = 1 THEN -(30 * HalfHours(offset)) ELSE 30 * HalfHours(offset)
<1> DEFINE clock == ClockTime(utc, offset)
           n == offset \div 30
           r == offset % 30
<1>1. clock.offset = offset
  BY Zenon DEF ClockTime
<1>2. clock.offset % 30 = 0 /\ clock.offset \div 30 \in -31..31
  BY Zenon DEF Encodable
<1>3. r = 0 /\ n \in -31..31
  BY <1>1, <1>2, Zenon
<1>4. n \in Int /\ offset = 30 * n + r
  BY By30
<1> HIDE DEF n, r
<1>5. offset = 30 * n /\ n >= -31 /\ n <= 31
  BY <1>3, <1>4
<1> QED BY <1>4, <1>5, PartsOfHalfHours

\* The words that are sent are those of the parts.
LEMMA EncodedParts ==
    ASSUME NEW utc \in Int, NEW offset \in Int
    PROVE  EncodeClockTime(utc + offset, offset) =
             [b |-> BlockB(Mjd(utc)), c |-> BlockC(Mjd(utc), HourPart(utc)),
              d |-> BlockD(HourPart(utc), MinutePart(utc), Sign(offset), HalfHours(offset))]
<1>1. utc + offset - offset = utc
  OBVIOUS
<1>2. (IF offset < 0 THEN 32 ELSE 0) = 32 * Sign(offset)
  BY DEF Sign
<1> QED BY <1>1, <1>2
        DEF EncodeClockTime, BlockB, BlockC, BlockD, HourPart, MinutePart, HalfHours

\* The fields of the words of a day and an hour are read back.
LEMMA DayReadBack ==
    ASSUME NEW day \in Int, day >= 0, day <= 131071, NEW hour \in 0..23
    PROVE  /\ BlockB(day) \in Int /\ BlockC(day, hour) \in Int
           /\ day = DayOf(BlockB(day), BlockC(day, hour))
           /\ BlockC(day, hour) % 2 = Top(hour)
<1>1. /\ BlockB(day) \in Int /\ BlockB(day) % 4 = BlockB(day)
      /\ day = BlockB(day) * 32768 + Low(day)
      /\ Low(day) \in Int /\ Low(day) >= 0 /\ Low(day) <= 32767
  BY TopOfDay
<1>2. Top(hour) \in 0..1
  BY HalvesOfHour
<1> DEFINE low == Low(day)
           top == Top(hour)
           c == BlockC(day, hour)
<1>3. c = low * 2 + top
  BY DEF BlockC, Low, Top
<1> HIDE DEF low, top, c
<1>4. low \in Int /\ top \in 0..1
  BY <1>1, <1>2 DEF low, top
<1>5. c \in Int /\ c \div 2 = low /\ c % 2 = top
  BY <1>3, <1>4
<1>6. DayOf(BlockB(day), c) = day
  BY <1>1, <1>5 DEF DayOf, low
<1> QED BY <1>1, <1>5, <1>6 DEF c, top

\* The fields of the word that is block D are read back.
LEMMA TimeReadBack ==
    ASSUME NEW hour \in 0..23, NEW minute \in 0..59, NEW sign \in 0..1, NEW half \in 0..31
    PROVE  LET d == BlockD(hour, minute, sign, half)
           IN  /\ d \in Int /\ HourField(d) = Rest(hour) /\ MinuteOf(d) = minute
               /\ SignBit(d) = sign /\ HalfField(d) = half
<1> DEFINE rest == Rest(hour)
           d == BlockD(hour, minute, sign, half)
<1>1. rest \in 0..15
  BY HalvesOfHour
<1>2. d = rest * 4096 + minute * 64 + 32 * sign + half
  BY DEF BlockD, Rest
<1> HIDE DEF rest, d
<1>3. d \in Int
  BY <1>1, <1>2
<1>4. d \div 4096 = rest
  BY <1>1, <1>2
<1>5. d \div 64 = rest * 64 + minute /\ (rest * 64 + minute) % 64 = minute
  BY <1>1, <1>2
<1>6. d \div 32 = rest * 128 + minute * 2 + sign /\ (rest * 128 + minute * 2 + sign) % 2 = sign
  BY <1>1, <1>2
<1>7. d % 32 = half
  BY <1>1, <1>2
<1>8. MinuteOf(d) = minute
  BY <1>5 DEF MinuteOf
<1>9. SignBit(d) = sign /\ HalfField(d) = half
  BY <1>6, <1>7 DEF SignBit, HalfField
<1>10. HourField(d) = Rest(hour)
  BY <1>4 DEF rest, HourField
<1> QED BY <1>3, <1>8, <1>9, <1>10, Zenon DEF d

\* The hour is put together from its two blocks.
LEMMA HourReadBack ==
    ASSUME NEW hour \in 0..23, NEW c, NEW d, c % 2 = Top(hour), HourField(d) = Rest(hour)
    PROVE  hour = HourOf(c, d)
<1>1. Top(hour) \in 0..1 /\ Rest(hour) \in 0..15 /\ hour = 16 * Top(hour) + Rest(hour)
  BY HalvesOfHour
<1>2. HourOf(c, d) = Top(hour) * 16 + Rest(hour)
  BY DEF HourOf, HourField
<1> QED BY <1>1, <1>2

\* Blocks whose fields are those of a Clock-Time are decoded as that Clock-Time.
LEMMA DecodedFromFields ==
    ASSUME NEW b \in Int, NEW c \in Int, NEW d \in Int,
           DayOf(b, c) \in SensibleDays, HourOf(c, d) \in 0..23, MinuteOf(d) \in 0..59
    PROVE  DecodeClockTime(b, c, d)
             = <<ClockTime(Instant(DayOf(b, c), HourOf(c, d), MinuteOf(d)), OffsetOf(d))>>
<1>1. HourOf(c, d) < 24 /\ MinuteOf(d) < 60
  OBVIOUS
<1> QED BY <1>1 DEF DecodeClockTime, DayOf, MinuteOf, OffsetOf, SignBit, HalfField, Instant

\* The words of any instant that can be encoded say its day, its hour, its minute and its
\* offset.
LEMMA EncodedFields ==
    ASSUME NEW utc \in Int, NEW offset \in Int, Encodable(ClockTime(utc, offset))
    PROVE  LET words == EncodeClockTime(utc + offset, offset)
           IN  /\ words.b \in Int /\ words.c \in Int /\ words.d \in Int
               /\ DayOf(words.b, words.c) = Mjd(utc)
               /\ HourOf(words.c, words.d) = HourPart(utc)
               /\ MinuteOf(words.d) = MinutePart(utc) /\ OffsetOf(words.d) = offset
<1> DEFINE day == Mjd(utc)
           hour == HourPart(utc)
           minute == MinutePart(utc)
           sign == Sign(offset)
           half == HalfHours(offset)
           b == BlockB(day)
           c == BlockC(day, hour)
           d == BlockD(hour, minute, sign, half)
           words == EncodeClockTime(utc + offset, offset)
<1>1. words.b = b /\ words.c = c /\ words.d = d
  <2>1. words = [b |-> b, c |-> c, d |-> d]
    BY EncodedParts
  <2> HIDE DEF words, b, c, d
  <2> QED BY <2>1
<1>2. hour \in 0..23 /\ minute \in 0..59
  BY PartsOfInstant
<1>3. day \in Int /\ day >= 0 /\ day <= 131071
  <2>1. day \in Int
    BY PartsOfInstant
  <2>2. ClockTime(utc, offset).utc = utc
    BY Zenon DEF ClockTime
  <2>3. day \in FieldDays
    BY <2>2, Zenon DEF Encodable
  <2> HIDE DEF day
  <2>4. day >= 0 /\ day <= 131071
    BY <2>3 DEF FieldDays
  <2> QED BY <2>1, <2>4
<1>4. /\ sign \in 0..1 /\ half \in 0..31
      /\ offset = IF sign = 1 THEN -(30 * half) ELSE 30 * half
  BY PartsOfOffset
<1> HIDE DEF words, day, hour, minute, sign, half
<1>5. /\ b \in Int /\ c \in Int /\ day = DayOf(b, c) /\ c % 2 = Top(hour)
  BY <1>2, <1>3, DayReadBack
<1>6. /\ d \in Int /\ HourField(d) = Rest(hour) /\ MinuteOf(d) = minute
      /\ SignBit(d) = sign /\ HalfField(d) = half
  BY <1>2, <1>4, TimeReadBack, Zenon
<1> HIDE DEF b, c, d
<1>7. hour = HourOf(c, d)
  BY <1>2, <1>5, <1>6, HourReadBack
<1>8. OffsetOf(d) = offset
  BY <1>4, <1>6 DEF OffsetOf
<1>9. words.b \in Int /\ words.c \in Int /\ words.d \in Int
  BY <1>1, <1>5, <1>6
<1>10. /\ DayOf(words.b, words.c) = day /\ HourOf(words.c, words.d) = hour
      /\ MinuteOf(words.d) = minute /\ OffsetOf(words.d) = offset
  BY <1>1, <1>5, <1>6, <1>7, <1>8, Zenon
<1> QED BY <1>9, <1>10 DEF words, day, hour, minute

\* Every Clock-Time of the days that it may name, with an offset that fits its field, is
\* decoded as it was encoded: the hour that is split over two blocks, the sign of the
\* offset and the day of an instant before midnight (encode_clock_time,
\* decode_clock_time).
THEOREM DecodedAsEncoded ==
    ASSUME NEW utc \in Int, NEW offset \in Int,
           Mjd(utc) \in SensibleDays, Encodable(ClockTime(utc, offset))
    PROVE  LET words == EncodeClockTime(utc + offset, offset)
           IN  DecodeClockTime(words.b, words.c, words.d) = <<ClockTime(utc, offset)>>
<1> DEFINE words == EncodeClockTime(utc + offset, offset)
<1>1. /\ words.b \in Int /\ words.c \in Int /\ words.d \in Int
      /\ DayOf(words.b, words.c) = Mjd(utc) /\ HourOf(words.c, words.d) = HourPart(utc)
      /\ MinuteOf(words.d) = MinutePart(utc) /\ OffsetOf(words.d) = offset
  BY EncodedFields
<1> HIDE DEF words
<1>2. /\ HourPart(utc) \in 0..23 /\ MinutePart(utc) \in 0..59
      /\ utc = Instant(Mjd(utc), HourPart(utc), MinutePart(utc))
  BY PartsOfInstant
<1>3. /\ DayOf(words.b, words.c) \in SensibleDays /\ HourOf(words.c, words.d) \in 0..23
      /\ MinuteOf(words.d) \in 0..59
  BY <1>1, <1>2, Zenon
<1>4. DecodeClockTime(words.b, words.c, words.d)
        = <<ClockTime(Instant(DayOf(words.b, words.c), HourOf(words.c, words.d), MinuteOf(words.d)),
                      OffsetOf(words.d))>>
  BY <1>1, <1>3, DecodedFromFields
<1>5. DecodeClockTime(words.b, words.c, words.d) = <<ClockTime(utc, offset)>>
  BY <1>1, <1>2, <1>4, Zenon
<1> QED BY <1>5 DEF words

-----------------------------------------------------------------------------
(* What the groups of a PI make of an empty payload.                         *)

\* The payloads after each of the first groups.
Builds(f, heard, pi, n) ==
    f = [k \in 0..n |-> IF k = 0 THEN NewPayload ELSE Extended(f[k - 1], heard[k], pi)]

\* There are such payloads, however many groups were heard,
LEMMA BuildExists ==
  ASSUME NEW heard, NEW pi, NEW n \in Nat
  PROVE  \E f : Builds(f, heard, pi, n)
<1> DEFINE missing == {k \in Nat : ~\E f : Builds(f, heard, pi, k)}
<1>1. 0 \notin missing
  <2> DEFINE f == [k \in 0..0 |-> NewPayload]
  <2>1. f = [k \in 0..0 |-> IF k = 0 THEN NewPayload ELSE Extended(f[k - 1], heard[k], pi)]
    OBVIOUS
  <2> QED
    BY <2>1 DEF Builds
<1>2. ASSUME NEW k \in Nat, k + 1 \in missing PROVE k \in missing
  <2> SUFFICES ASSUME NEW f, Builds(f, heard, pi, k) PROVE \E h : Builds(h, heard, pi, k + 1)
    BY <1>2
  <2> DEFINE h == [i \in 0..k + 1 |-> IF i = k + 1 THEN Extended(f[k], heard[k + 1], pi) ELSE f[i]]
  <2>1. ASSUME NEW i \in 0..k + 1
        PROVE  h[i] = IF i = 0 THEN NewPayload ELSE Extended(h[i - 1], heard[i], pi)
    <3>1. CASE i = k + 1
      <4>1. h[i] = Extended(f[k], heard[i], pi) /\ i # 0 /\ i - 1 = k /\ k \in 0..k + 1 /\ k # k + 1
        BY <3>1
      <4>2. h[i - 1] = f[k]
        BY <4>1
      <4> QED
        BY <4>1, <4>2
    <3>2. CASE i # k + 1
      <4>1. i \in 0..k /\ h[i] = f[i]
        BY <3>2
      <4>2. f[i] = IF i = 0 THEN NewPayload ELSE Extended(f[i - 1], heard[i], pi)
        BY <4>1 DEF Builds
      <4>3. i # 0 => i - 1 \in 0..k + 1 /\ i - 1 # k + 1
        BY <4>1
      <4>4. i # 0 => h[i - 1] = f[i - 1]
        BY <4>3
      <4> QED
        BY <4>1, <4>2, <4>4
    <3> QED
      BY <3>1, <3>2
  <2>2. h = [i \in 0..k + 1 |-> h[i]]
    OBVIOUS
  <2> HIDE DEF h
  <2>3. h = [i \in 0..k + 1 |-> IF i = 0 THEN NewPayload ELSE Extended(h[i - 1], heard[i], pi)]
    BY <2>1, <2>2
  <2> QED
    BY <2>3 DEF Builds
<1> HIDE DEF missing
<1>3. missing = {}
  <2> SUFFICES ASSUME missing # {} PROVE FALSE
    OBVIOUS
  <2>1. missing \in SUBSET Nat
    BY DEF missing
  <2>2. PICK k \in missing : \A m \in missing : k <= m
    BY <2>1, LeastOf
  <2>3. k \in Nat /\ k # 0
    BY <1>1, <2>1
  <2>4. k - 1 \in Nat /\ (k - 1) + 1 = k /\ ~(k <= k - 1)
    BY <2>3
  <2> QED
    BY <1>2, <2>2, <2>4
<1> QED
  BY <1>3 DEF missing

\* and what they are after a group depends on no later one.
LEMMA BuildsAgree ==
  ASSUME NEW heard, NEW more, NEW pi, NEW n \in Nat, NEW m \in Nat, n <= m,
         \A k \in 1..n : heard[k] = more[k],
         NEW f, Builds(f, heard, pi, n), NEW g, Builds(g, more, pi, m)
  PROVE  \A k \in 0..n : f[k] = g[k]
<1> DEFINE differ == {k \in 0..n : f[k] # g[k]}
<1>1. /\ \A k \in 0..n : f[k] = IF k = 0 THEN NewPayload ELSE Extended(f[k - 1], heard[k], pi)
      /\ \A k \in 0..m : g[k] = IF k = 0 THEN NewPayload ELSE Extended(g[k - 1], more[k], pi)
  BY DEF Builds
<1>2. \A k \in 0..n : k \in 0..m
  OBVIOUS
<1>3. 0 \notin differ
  BY <1>1, <1>2
<1>4. ASSUME NEW k \in differ PROVE k \in 1..n /\ k - 1 \in differ
  <2>1. k \in 1..n /\ k \in 0..n /\ k # 0 /\ k - 1 \in 0..n
    BY <1>3, <1>4
  <2>2. f[k] = Extended(f[k - 1], heard[k], pi) /\ g[k] = Extended(g[k - 1], more[k], pi)
    BY <1>1, <1>2, <2>1
  <2>3. f[k - 1] # g[k - 1]
    BY <1>4, <2>1, <2>2
  <2> QED
    BY <2>1, <2>3
<1>5. differ \in SUBSET Nat
  OBVIOUS
<1> HIDE DEF differ
<1>6. differ = {}
  <2> SUFFICES ASSUME differ # {} PROVE FALSE
    OBVIOUS
  <2>1. PICK k \in differ : \A i \in differ : k <= i
    BY <1>5, LeastOf
  <2>2. k \in 1..n /\ k <= k - 1
    BY <1>4, <2>1
  <2> QED
    BY <2>2
<1> QED
  BY <1>6 DEF differ

\* A group extends what the groups before it built.
LEMMA BuiltOne ==
  ASSUME NEW S, NEW heard \in Seq(S), NEW x \in S, NEW pi
  PROVE  /\ Built(<<>>, pi) = NewPayload
         /\ Built(Append(heard, x), pi) = Extended(Built(heard, pi), x, pi)
<1> DEFINE more == Append(heard, x)
           of(s) == CHOOSE f : Builds(f, s, pi, Len(s))
<1>1. \A s : Built(s, pi) = of(s)[Len(s)]
  BY DEF Built, Builds
<1>2. Len(heard) \in Nat /\ Len(more) = Len(heard) + 1 /\ more[Len(heard) + 1] = x
      /\ \A k \in 1..Len(heard) : more[k] = heard[k]
  OBVIOUS
<1>3. Len(<<>>) = 0
  OBVIOUS
<1> DEFINE n == Len(heard)
           f == of(heard)
           g == of(more)
           e == of(<<>>)
<1>4. Builds(f, heard, pi, n) /\ Builds(g, more, pi, n + 1) /\ Builds(e, <<>>, pi, 0)
  <2>1. \A s : Len(s) \in Nat => \E h : Builds(h, s, pi, Len(s))
    BY BuildExists
  <2>2. \A s : Len(s) \in Nat => Builds(of(s), s, pi, Len(s))
    BY <2>1
  <2> HIDE DEF of, more
  <2>3. Len(more) \in Nat /\ Len(<<>>) \in Nat
    BY <1>2, <1>3
  <2>4. Builds(f, heard, pi, n)
    BY <1>2, <2>2
  <2>5. Builds(g, more, pi, Len(more)) /\ Builds(e, <<>>, pi, Len(<<>>))
    BY <2>2, <2>3, Zenon
  <2> QED
    BY <1>2, <1>3, <2>4, <2>5
<1> HIDE DEF of, more, f, g, e, n
<1>5. n \in Nat /\ n + 1 \in Nat /\ n <= n + 1 /\ \A k \in 1..n : heard[k] = more[k]
  BY <1>2 DEF n
<1>6. f[n] = g[n]
  <2>1. \A k \in 0..n : f[k] = g[k]
    <3>1. Builds(f, heard, pi, n) /\ Builds(g, more, pi, n + 1)
      BY <1>4
    <3> DEFINE m == n + 1
    <3>2. m \in Nat /\ n <= m /\ Builds(g, more, pi, m)
      BY <1>5, <3>1
    <3> HIDE DEF m
    <3> QED
      BY <1>5, <3>1, <3>2, BuildsAgree
  <2> QED
    BY <1>5, <2>1
<1>7. g[n + 1] = Extended(g[n], more[n + 1], pi)
  <2>1. n + 1 \in 0..n + 1 /\ n + 1 # 0 /\ (n + 1) - 1 = n
    BY <1>5
  <2> QED
    BY <1>4, <2>1 DEF Builds
<1>8. e[0] = NewPayload
  BY <1>4 DEF Builds
<1> QED
  BY <1>1, <1>2, <1>3, <1>6, <1>7, <1>8 DEF f, g, e, n, more

-----------------------------------------------------------------------------
(* What a group adds.                                                        *)

\* A payload has these fields.
IsPayload(p) ==
    {"pty", "ps", "candidate", "seen", "latest", "stable", "rt", "flag", "clocks", "counted"} \subseteq DOMAIN p

\* Laying a pair of characters over a text.
LEMMA Laid ==
  ASSUME NEW at, NEW word, NEW text
  PROVE  /\ DOMAIN Pair(at, word) = {at, at + 1}
         /\ \A k : k \in DOMAIN (Over(Pair(at, word), text)) <=> k \in {at, at + 1} \cup DOMAIN text
         /\ \A k \in {at, at + 1} : (Over(Pair(at, word), text))[k] = Pair(at, word)[k]
         /\ \A k \in DOMAIN text : k \notin {at, at + 1} => (Over(Pair(at, word), text))[k] = text[k]
<1> DEFINE pair == Pair(at, word)
<1>1. DOMAIN pair = {at, at + 1}
  BY DEF Pair
<1> HIDE DEF pair
<1>2. Over(pair, text) = [k \in DOMAIN pair \cup DOMAIN text |-> IF k \in DOMAIN pair THEN pair[k] ELSE text[k]]
  BY DEF Over
<1> DEFINE both == Over(pair, text)
<1> HIDE DEF both
<1>3. /\ DOMAIN both = DOMAIN pair \cup DOMAIN text
      /\ \A k \in DOMAIN both : both[k] = IF k \in DOMAIN pair THEN pair[k] ELSE text[k]
  BY <1>2 DEF both
<1>4. /\ \A k \in {at, at + 1} : both[k] = pair[k]
      /\ \A k \in DOMAIN text : k \notin {at, at + 1} => both[k] = text[k]
  BY <1>1, <1>3
<1> QED
  BY <1>1, <1>3, <1>4 DEF both, pair

\* A segment of the name.
LEMMA SegmentIs == ASSUME NEW g, g.low \in Nat PROVE Segment(g) \in 0..PsSegments - 1
  BY StationAssumption DEF Segment

\* A segment is collected, and a complete frame begins a new one.
LEMMA UpdatePsIs ==
  ASSUME NEW p, NEW g, IsPayload(p)
  PROVE  LET seg == Segment(g)
             candidate == IF seg \in p.seen THEN p.candidate ELSE Over(Characters(g), p.candidate)
             seen == p.seen \cup {seg}
             stable == IF p.latest = <<candidate>> THEN p.stable + 1 ELSE 1
             q == UpdatePs(p, g)
         IN  /\ IsPayload(q) /\ q.rt = p.rt /\ q.flag = p.flag /\ q.clocks = p.clocks
             /\ seen # 0..PsSegments - 1 =>
                   q.candidate = candidate /\ q.seen = seen /\ q.latest = p.latest /\ q.ps = p.ps
             /\ seen = 0..PsSegments - 1 =>
                   /\ q.candidate = NewPayload.candidate /\ q.seen = {} /\ q.latest = <<candidate>>
                   /\ q.ps = IF stable >= 2 THEN candidate ELSE p.ps
<1> DEFINE seg == Segment(g)
           candidate == IF seg \in p.seen THEN p.candidate ELSE Over(Characters(g), p.candidate)
           seen == p.seen \cup {seg}
           stable == IF p.latest = <<candidate>> THEN p.stable + 1 ELSE 1
           q == UpdatePs(p, g)
<1>1. q = IF seen # 0..PsSegments - 1 THEN [p EXCEPT !.candidate = candidate, !.seen = seen]
          ELSE [p EXCEPT !.candidate = NewPayload.candidate, !.seen = {}, !.latest = <<candidate>>,
                         !.stable = stable, !.ps = IF stable >= 2 THEN candidate ELSE @]
  BY DEF UpdatePs, Characters
<1> HIDE DEF seg, candidate, seen, stable, q
<1>2. CASE seen # 0..PsSegments - 1
  <2>1. q = [p EXCEPT !.candidate = candidate, !.seen = seen]
    BY <1>1, <1>2
  <2>2. DOMAIN q = DOMAIN p
    BY <2>1
  <2>3. "candidate" \in DOMAIN p /\ "seen" \in DOMAIN p
    BY DEF IsPayload
  <2>4. q.candidate = candidate /\ q.seen = seen
    BY <2>1, <2>3
  <2>5. IsPayload(q)
    BY <2>2 DEF IsPayload
  <2>6. q.rt = p.rt /\ q.flag = p.flag /\ q.clocks = p.clocks /\ q.latest = p.latest /\ q.ps = p.ps
    BY <2>1 DEF IsPayload
  <2> QED
    BY <1>2, <2>4, <2>5, <2>6 DEF seg, candidate, seen, stable, q
<1>3. CASE seen = 0..PsSegments - 1
  <2>1. q = [p EXCEPT !.candidate = NewPayload.candidate, !.seen = {}, !.latest = <<candidate>>,
                      !.stable = stable, !.ps = IF stable >= 2 THEN candidate ELSE @]
    BY <1>1, <1>3
  <2>2. DOMAIN q = DOMAIN p
    BY <2>1
  <2>3. /\ "candidate" \in DOMAIN p /\ "seen" \in DOMAIN p /\ "latest" \in DOMAIN p
        /\ "stable" \in DOMAIN p /\ "ps" \in DOMAIN p
    BY DEF IsPayload
  <2>4. q.candidate = NewPayload.candidate /\ q.seen = {} /\ q.latest = <<candidate>>
    BY <2>1, <2>3
  <2>5. q.ps = IF stable >= 2 THEN candidate ELSE p.ps
    BY <2>1, <2>3
  <2>6. IsPayload(q)
    BY <2>2 DEF IsPayload
  <2>7. q.rt = p.rt /\ q.flag = p.flag /\ q.clocks = p.clocks
    BY <2>1 DEF IsPayload
  <2> QED
    BY <1>3, <2>4, <2>5, <2>6, <2>7 DEF seg, candidate, seen, stable, q
<1> QED
  BY <1>2, <1>3

-----------------------------------------------------------------------------
(* The name.                                                                 *)

\* The frame that is collected began behind group m, and the one before it had ended there.
Collects(heard, p, pi, m) ==
    LET names == OfType(heard, pi, 0)
    IN  /\ \A seg \in p.seen :
              /\ seg \in Int
              /\ \E i \in names : /\ i > m /\ Segment(heard[i].group) = seg
                                  /\ Shows(p.candidate, Characters(heard[i].group))
        /\ p.latest # <<>> =>
              \A seg \in 0..PsSegments - 1 :
                  \E i \in names : /\ i <= m /\ Segment(heard[i].group) = seg
                                   /\ Shows(p.latest[1], Characters(heard[i].group))

NameKnown(heard, p, pi) ==
    NameHeardTwice(heard, p, pi) /\ \E m \in 0..Len(heard) : Collects(heard, p, pi, m)

\* One more group is heard.
LEMMA Appended ==
  ASSUME NEW S, NEW heard \in Seq(S), NEW x \in S, NEW pi, NEW type
  PROVE  LET more == Append(heard, x)
             n == Len(heard)
             old == OfType(heard, pi, type)
             new == OfType(more, pi, type)
         IN  /\ n \in Nat /\ Len(more) = n + 1 /\ more[n + 1] = x /\ more \in Seq(S)
             /\ \A i \in 1..n : more[i] = heard[i]
             /\ old \subseteq 1..n
             /\ new = IF x.group.pi = pi /\ x.group.type = type THEN old \cup {n + 1} ELSE old
<1> DEFINE more == Append(heard, x)
           n == Len(heard)
           old == OfType(heard, pi, type)
           new == OfType(more, pi, type)
           is == x.group.pi = pi /\ x.group.type = type
<1>1. n \in Nat /\ Len(more) = n + 1 /\ more[n + 1] = x /\ \A i \in 1..n : more[i] = heard[i]
  OBVIOUS
<1>2. more \in Seq(S)
  OBVIOUS
<1>3. DOMAIN heard = 1..n /\ DOMAIN more = 1..n + 1
  BY <1>1, <1>2, LenProperties
<1> HIDE DEF more, n
<1>4. \A i : i \in old <=> i \in 1..n /\ heard[i].group.pi = pi /\ heard[i].group.type = type
  BY <1>3 DEF OfType, HeardAt
<1>5. \A i : i \in new <=> i \in 1..n + 1 /\ more[i].group.pi = pi /\ more[i].group.type = type
  BY <1>3 DEF OfType, HeardAt
<1> HIDE DEF old, new
<1>6. \A i : i \in 1..n + 1 <=> i \in 1..n \/ i = n + 1
  BY <1>1
<1>7. \A i : i \in new <=> i \in old \/ (i = n + 1 /\ is)
  BY <1>1, <1>4, <1>5, <1>6
<1>8. new = IF is THEN old \cup {n + 1} ELSE old
  <2>1. CASE is
    <3>1. \A i : i \in new <=> i \in old \cup {n + 1}
      BY <1>7, <2>1
    <3> QED
      BY <2>1, <3>1
  <2>2. CASE ~is
    <3>1. \A i : i \in new <=> i \in old
      BY <1>7, <2>2
    <3> QED
      BY <2>2, <3>1
  <2> QED
    BY <2>1, <2>2
<1>9. old \subseteq 1..n
  BY <1>4
<1> QED
  BY <1>1, <1>2, <1>8, <1>9 DEF more, n, old, new

\* What the groups heard so far say of a name, they say still when one more is heard.
LEMMA CollectsOn ==
  ASSUME NEW S, NEW heard \in Seq(S), NEW x \in S, NEW pi, NEW p, NameKnown(heard, p, pi), NEW q,
         q.ps = p.ps, q.candidate = p.candidate, q.seen = p.seen, q.latest = p.latest
  PROVE  NameKnown(Append(heard, x), q, pi)
<1> DEFINE more == Append(heard, x)
           n == Len(heard)
           names == OfType(heard, pi, 0)
<1>1. /\ n \in Nat /\ Len(more) = n + 1 /\ names \subseteq 1..n
      /\ \A i \in 1..n : more[i] = heard[i]
      /\ \A i \in names : i \in OfType(more, pi, 0)
  <2>1. /\ n \in Nat /\ Len(more) = n + 1 /\ names \subseteq 1..n
        /\ \A i \in 1..n : more[i] = heard[i]
        /\ OfType(more, pi, 0) = IF x.group.pi = pi /\ x.group.type = 0 THEN names \cup {n + 1} ELSE names
    BY Appended
  <2> HIDE DEF more, n, names
  <2> QED
    BY <2>1
<1> HIDE DEF more, n, names
<1>2. NameHeardTwice(more, q, pi)
  <2> SUFFICES ASSUME q.ps # NewPayload.ps, NEW seg \in 0..PsSegments - 1
               PROVE  \E i, j \in OfType(more, pi, 0) :
                        /\ i # j /\ Segment(more[i].group) = seg /\ Segment(more[j].group) = seg
                        /\ Shows(q.ps, Characters(more[i].group)) /\ Shows(q.ps, Characters(more[j].group))
    BY DEF NameHeardTwice
  <2>1. PICK i \in names, j \in names :
               /\ i # j /\ Segment(heard[i].group) = seg /\ Segment(heard[j].group) = seg
               /\ Shows(p.ps, Characters(heard[i].group)) /\ Shows(p.ps, Characters(heard[j].group))
    BY DEF NameKnown, NameHeardTwice, names
  <2>2. /\ i \in OfType(more, pi, 0) /\ j \in OfType(more, pi, 0)
        /\ more[i] = heard[i] /\ more[j] = heard[j]
    BY <1>1, <2>1
  <2> QED
    BY <2>1, <2>2
<1>3. PICK m \in 0..n : Collects(heard, p, pi, m)
  BY DEF NameKnown, n
<1>4. ASSUME NEW seg \in q.seen
      PROVE  /\ seg \in Int
             /\ \E i \in OfType(more, pi, 0) :
                   /\ i > m /\ Segment(more[i].group) = seg
                   /\ Shows(q.candidate, Characters(more[i].group))
  <2>1. seg \in Int /\ \E i \in names : /\ i > m /\ Segment(heard[i].group) = seg
                                        /\ Shows(p.candidate, Characters(heard[i].group))
    BY <1>3 DEF Collects, names
  <2> QED
    BY <1>1, <2>1
<1>5. ASSUME q.latest # <<>>, NEW seg \in 0..PsSegments - 1
      PROVE  \E i \in OfType(more, pi, 0) :
                   /\ i <= m /\ Segment(more[i].group) = seg
                   /\ Shows(q.latest[1], Characters(more[i].group))
  <2>1. \E i \in names : /\ i <= m /\ Segment(heard[i].group) = seg
                         /\ Shows(p.latest[1], Characters(heard[i].group))
    BY <1>3, <1>5 DEF Collects, names
  <2> QED
    BY <1>1, <2>1
<1>6. Collects(more, q, pi, m)
  BY <1>4, <1>5 DEF Collects
<1>7. m \in 0..Len(more)
  BY <1>1
<1> QED
  BY <1>2, <1>6, <1>7 DEF NameKnown, more

\* A segment that is new is laid where no other was.
LEMMA SegmentLaid ==
  ASSUME NEW g, NEW text, Segment(g) \in Int
  PROVE  /\ Shows(Over(Characters(g), text), Characters(g))
         /\ \A h : Segment(h) \in Int /\ Segment(h) # Segment(g) /\ Shows(text, Characters(h))
                     => Shows(Over(Characters(g), text), Characters(h))
<1> DEFINE both == Over(Characters(g), text)
           seg == Segment(g)
<1>1. /\ DOMAIN Characters(g) = {2 * seg, 2 * seg + 1}
      /\ \A k : k \in DOMAIN both <=> k \in {2 * seg, 2 * seg + 1} \cup DOMAIN text
      /\ \A k \in {2 * seg, 2 * seg + 1} : both[k] = Characters(g)[k]
      /\ \A k \in DOMAIN text : k \notin {2 * seg, 2 * seg + 1} => both[k] = text[k]
  <2> DEFINE place == 2 * seg
             word == g.d
  <2>1. Characters(g) = Pair(place, word)
    BY DEF Characters
  <2> HIDE DEF place, word, seg
  <2>2. both = Over(Pair(place, word), text)
    BY <2>1
  <2> HIDE DEF both
  <2>3. /\ DOMAIN Pair(place, word) = {place, place + 1}
        /\ \A k : k \in DOMAIN both <=> k \in {place, place + 1} \cup DOMAIN text
        /\ \A k \in {place, place + 1} : both[k] = Pair(place, word)[k]
        /\ \A k \in DOMAIN text : k \notin {place, place + 1} => both[k] = text[k]
    BY <2>2, Laid
  <2> QED
    BY <2>1, <2>3 DEF place
<1> HIDE DEF both
<1>2. Shows(both, Characters(g))
  BY <1>1 DEF Shows
<1>3. ASSUME NEW h, Segment(h) \in Int, Segment(h) # seg, Shows(text, Characters(h))
      PROVE  Shows(both, Characters(h))
  <2>1. DOMAIN Characters(h) = {2 * Segment(h), 2 * Segment(h) + 1}
    BY Laid DEF Characters
  <2>2. \A k \in DOMAIN Characters(h) : k \notin {2 * seg, 2 * seg + 1}
    BY <1>3, <2>1
  <2>3. \A k \in DOMAIN Characters(h) : k \in DOMAIN text /\ text[k] = Characters(h)[k]
    BY <1>3 DEF Shows
  <2>4. \A k \in DOMAIN Characters(h) : k \in DOMAIN both /\ both[k] = Characters(h)[k]
    BY <1>1, <2>2, <2>3
  <2> QED
    BY <2>4 DEF Shows
<1> QED
  BY <1>2, <1>3 DEF both

\* The name that is shown after a group of a name has been received twice.
LEMMA NameStep ==
  ASSUME NEW S, NEW heard \in Seq(S), NEW x \in S, NEW pi, NEW p, IsPayload(p), NameKnown(heard, p, pi),
         x.group.pi = pi, x.group.type = 0, x.group.low \in Nat
  PROVE  NameKnown(Append(heard, x), UpdatePs(p, x.group), pi)
<1> DEFINE more == Append(heard, x)
           n == Len(heard)
           names == OfType(heard, pi, 0)
           named == OfType(more, pi, 0)
           g == x.group
           seg == Segment(g)
           candidate == IF seg \in p.seen THEN p.candidate ELSE Over(Characters(g), p.candidate)
           seen == p.seen \cup {seg}
           stable == IF p.latest = <<candidate>> THEN p.stable + 1 ELSE 1
           q == UpdatePs(p, g)
           Says(i, text, part) == Segment(more[i].group) = part /\ Shows(text, Characters(more[i].group))
<1>1. /\ n \in Nat /\ Len(more) = n + 1 /\ more[n + 1] = x /\ names \subseteq 1..n
      /\ \A i \in 1..n : more[i] = heard[i]
      /\ \A i \in names : i \in named
      /\ \A i \in named : i \in names \/ i = n + 1
      /\ n + 1 \in named
  <2>1. /\ n \in Nat /\ Len(more) = n + 1 /\ more[n + 1] = x /\ names \subseteq 1..n
        /\ \A i \in 1..n : more[i] = heard[i]
        /\ named = IF x.group.pi = pi /\ x.group.type = 0 THEN names \cup {n + 1} ELSE names
    BY Appended
  <2>2. named = names \cup {n + 1}
    BY <2>1
  <2> HIDE DEF more, n, names, named
  <2> QED
    BY <2>1, <2>2
<1>2. /\ seen # 0..PsSegments - 1 =>
            q.candidate = candidate /\ q.seen = seen /\ q.latest = p.latest /\ q.ps = p.ps
      /\ seen = 0..PsSegments - 1 =>
            /\ q.candidate = NewPayload.candidate /\ q.seen = {} /\ q.latest = <<candidate>>
            /\ q.ps = IF stable >= 2 THEN candidate ELSE p.ps
  BY UpdatePsIs
<1>3. seg \in 0..PsSegments - 1 /\ seg \in Int
  <2>1. seg \in 0..PsSegments - 1
    BY SegmentIs
  <2> HIDE DEF seg
  <2> QED
    BY <2>1
<1> HIDE DEF candidate, seen, stable, q, more, n, names, named
<1>4. PICK m \in 0..n : Collects(heard, p, pi, m)
  BY DEF NameKnown, n
<1>5. ASSUME NEW part \in seen
      PROVE  part \in Int /\ \E i \in named : i > m /\ Says(i, candidate, part)
  <2>1. CASE part \in p.seen
    <3>1. PICK i \in names : /\ part \in Int /\ i > m /\ Segment(heard[i].group) = part
                             /\ Shows(p.candidate, Characters(heard[i].group))
      BY <1>4, <2>1 DEF Collects, names
    <3>2. i \in named /\ more[i] = heard[i]
      BY <1>1, <3>1
    <3>3. Shows(candidate, Characters(heard[i].group))
      <4>1. CASE seg \in p.seen
        BY <3>1, <4>1 DEF candidate
      <4>2. CASE seg \notin p.seen
        <5>1. part # seg
          BY <2>1, <4>2
        <5> HIDE DEF seg
        <5>2. Segment(g) \in Int /\ Segment(g) = seg
          BY <1>3 DEF seg
        <5> HIDE DEF g
        <5>3. Shows(Over(Characters(g), p.candidate), Characters(heard[i].group))
          BY <3>1, <5>1, <5>2, SegmentLaid
        <5> QED
          BY <4>2, <5>3 DEF candidate
      <4> QED
        BY <4>1, <4>2
    <3> QED
      BY <3>1, <3>2, <3>3
  <2>2. CASE part \notin p.seen
    <3>1. part = seg /\ seg \notin p.seen
      BY <2>2 DEF seen
    <3>2. candidate = Over(Characters(g), p.candidate)
      BY <3>1 DEF candidate
    <3>3. Shows(candidate, Characters(g))
      <4>1. Segment(g) \in Int
        BY <1>3
      <4> QED
        BY <3>2, <4>1, SegmentLaid
    <3>4. n + 1 > m
      BY <1>1, <1>4
    <3>5. Says(n + 1, candidate, part)
      BY <1>1, <3>1, <3>3
    <3> QED
      BY <1>1, <1>3, <3>1, <3>4, <3>5
  <2> QED
    BY <2>1, <2>2
<1>6. ASSUME p.latest # <<>>, NEW part \in 0..PsSegments - 1
      PROVE  \E i \in named : i <= m /\ Says(i, p.latest[1], part)
  <2>1. PICK i \in names : /\ i <= m /\ Segment(heard[i].group) = part
                           /\ Shows(p.latest[1], Characters(heard[i].group))
    BY <1>4, <1>6 DEF Collects, names
  <2>2. i \in named /\ more[i] = heard[i]
    BY <1>1, <2>1
  <2> QED
    BY <2>1, <2>2
<1>7. ASSUME p.ps # NewPayload.ps, NEW part \in 0..PsSegments - 1
      PROVE  \E i, j \in named : i # j /\ Says(i, p.ps, part) /\ Says(j, p.ps, part)
  <2>1. PICK i \in names, j \in names :
               /\ i # j /\ Segment(heard[i].group) = part /\ Segment(heard[j].group) = part
               /\ Shows(p.ps, Characters(heard[i].group)) /\ Shows(p.ps, Characters(heard[j].group))
    BY <1>7 DEF NameKnown, NameHeardTwice, names
  <2>2. i \in named /\ j \in named /\ more[i] = heard[i] /\ more[j] = heard[j]
    BY <1>1, <2>1
  <2> QED
    BY <2>1, <2>2
<1>8. \A i \in named : i \in Int /\ i <= n + 1
  <2> SUFFICES ASSUME NEW i \in named PROVE i \in Int /\ i <= n + 1
    OBVIOUS
  <2>1. i \in 1..n \/ i = n + 1
    BY <1>1
  <2> QED
    BY <1>1, <2>1
<1>9. CASE seen # 0..PsSegments - 1
  <2>1. q.candidate = candidate /\ q.seen = seen /\ q.latest = p.latest /\ q.ps = p.ps
    BY <1>2, <1>9
  <2>2. Collects(more, q, pi, m)
    BY <1>5, <1>6, <2>1 DEF Collects, named
  <2>3. NameHeardTwice(more, q, pi)
    BY <1>7, <2>1 DEF NameHeardTwice, named
  <2>4. m \in 0..Len(more)
    BY <1>1
  <2> QED
    BY <2>2, <2>3, <2>4 DEF NameKnown, q, more
<1>10. CASE seen = 0..PsSegments - 1
  <2>1. /\ q.seen = {} /\ q.latest = <<candidate>>
        /\ q.ps = IF stable >= 2 THEN candidate ELSE p.ps
    BY <1>2, <1>10
  <2>2. Collects(more, q, pi, n + 1)
    <3>1. ASSUME NEW part \in 0..PsSegments - 1
          PROVE  \E i \in named : i <= n + 1 /\ Says(i, candidate, part)
      <4>1. PICK i \in named : Says(i, candidate, part)
        BY <1>5, <1>10
      <4> QED
        BY <1>8, <4>1
    <3>2. q.latest[1] = candidate
      BY <2>1
    <3> QED
      BY <2>1, <3>1, <3>2 DEF Collects, named
  <2>3. ASSUME q.ps # NewPayload.ps, NEW part \in 0..PsSegments - 1
        PROVE  \E i, j \in named : i # j /\ Says(i, q.ps, part) /\ Says(j, q.ps, part)
    <3>1. CASE stable >= 2
      <4>1. p.latest = <<candidate>>
        BY <3>1 DEF stable
      <4>2. p.latest # <<>> /\ p.latest[1] = candidate /\ q.ps = candidate
        BY <2>1, <3>1, <4>1
      <4>3. PICK i \in named : i <= m /\ Says(i, candidate, part)
        BY <1>6, <4>2
      <4>4. PICK j \in named : j > m /\ Says(j, candidate, part)
        BY <1>5, <1>10
      <4>5. i # j
        BY <1>8, <4>3, <4>4
      <4> QED
        BY <4>2, <4>3, <4>4, <4>5
    <3>2. CASE ~(stable >= 2)
      BY <1>7, <2>1, <2>3, <3>2
    <3> QED
      BY <3>1, <3>2
  <2>4. NameHeardTwice(more, q, pi)
    BY <2>3 DEF NameHeardTwice, named
  <2>5. n + 1 \in 0..Len(more)
    BY <1>1
  <2> QED
    BY <2>2, <2>4, <2>5 DEF NameKnown, q, more
<1> QED
  BY <1>9, <1>10

-----------------------------------------------------------------------------
(* The text.                                                                 *)

\* A character of the text has come since the A/B flag was what it is.
OneMessage(heard, p, pi) ==
    \A k \in DOMAIN p.rt : p.rt[k] # Space =>
        /\ p.flag # NoFlag
        /\ \E i \in OfType(heard, pi, 2) :
               /\ \A j \in OfType(heard, pi, 2) : j >= i => AbFlag(heard[j].group) = p.flag
               /\ k \in DOMAIN RtChars(heard[i].group) /\ RtChars(heard[i].group)[k] = p.rt[k]

\* Then the text is of one message.
LEMMA TextOfOneMessage ==
  ASSUME NEW heard, NEW p, NEW pi, OneMessage(heard, p, pi), OfType(heard, pi, 2) \subseteq Int
  PROVE  RtOfOneMessage(heard, p, pi)
<1> DEFINE texts == OfType(heard, pi, 2)
<1>1. ASSUME NEW k \in DOMAIN p.rt, p.rt[k] # Space
      PROVE  \E i \in texts :
               /\ \A j \in texts : j >= i => AbFlag(heard[j].group) = AbFlag(heard[i].group)
               /\ k \in DOMAIN RtChars(heard[i].group) /\ RtChars(heard[i].group)[k] = p.rt[k]
  <2>1. PICK i \in texts :
               /\ \A j \in texts : j >= i => AbFlag(heard[j].group) = p.flag
               /\ k \in DOMAIN RtChars(heard[i].group) /\ RtChars(heard[i].group)[k] = p.rt[k]
    BY <1>1 DEF OneMessage
  <2>2. AbFlag(heard[i].group) = p.flag
    <3>1. i >= i
      OBVIOUS
    <3> QED
      BY <2>1, <3>1
  <2> QED
    BY <2>1, <2>2
<1> QED
  BY <1>1 DEF RtOfOneMessage

\* A group of another type or of another PI leaves the text as it is.
LEMMA TextOn ==
  ASSUME NEW S, NEW heard \in Seq(S), NEW x \in S, NEW pi, NEW p, OneMessage(heard, p, pi), NEW q,
         q.rt = p.rt, q.flag = p.flag, ~(x.group.pi = pi /\ x.group.type = 2)
  PROVE  OneMessage(Append(heard, x), q, pi)
<1> DEFINE more == Append(heard, x)
           n == Len(heard)
           texts == OfType(heard, pi, 2)
<1>1. /\ \A i \in 1..n : more[i] = heard[i]
      /\ texts \subseteq 1..n /\ OfType(more, pi, 2) = texts
  <2>1. /\ \A i \in 1..n : more[i] = heard[i]
        /\ texts \subseteq 1..n
        /\ OfType(more, pi, 2) = IF x.group.pi = pi /\ x.group.type = 2 THEN texts \cup {n + 1} ELSE texts
    BY Appended
  <2> HIDE DEF more, n, texts
  <2> QED
    BY <2>1
<1> HIDE DEF more, n, texts
<1>2. \A i \in texts : more[i] = heard[i]
  BY <1>1
<1>3. OneMessage(more, q, pi)
  BY <1>1, <1>2 DEF OneMessage, texts
<1> QED
  BY <1>3 DEF more

\* A group of the text is of the message that its A/B flag says.
LEMMA TextStep ==
  ASSUME NEW S, NEW heard \in Seq(S), NEW x \in S, NEW pi, NEW p, OneMessage(heard, p, pi),
         "rt" \in DOMAIN p, "flag" \in DOMAIN p,
         x.group.pi = pi, x.group.type = 2, x.group.low \in Nat
  PROVE  OneMessage(Append(heard, x), UpdateRt(p, x.group), pi)
<1> DEFINE more == Append(heard, x)
           n == Len(heard)
           texts == OfType(heard, pi, 2)
           g == x.group
           chars == RtChars(g)
           kept == IF p.flag # NoFlag /\ p.flag # AbFlag(g) THEN NewPayload.rt ELSE p.rt
           q == UpdateRt(p, g)
<1>1. /\ n \in Nat /\ more[n + 1] = x /\ \A i \in 1..n : more[i] = heard[i]
      /\ texts \subseteq 1..n /\ OfType(more, pi, 2) = texts \cup {n + 1}
  <2>1. /\ n \in Nat /\ more[n + 1] = x /\ \A i \in 1..n : more[i] = heard[i]
        /\ texts \subseteq 1..n
        /\ OfType(more, pi, 2) = IF x.group.pi = pi /\ x.group.type = 2 THEN texts \cup {n + 1} ELSE texts
    BY Appended
  <2> HIDE DEF more, n, texts
  <2> QED
    BY <2>1
<1>2. q.rt = Over(chars, kept) /\ q.flag = AbFlag(g)
  <2> HIDE DEF chars, kept
  <2>1. q = [p EXCEPT !.rt = Over(chars, kept), !.flag = AbFlag(g)]
    BY DEF UpdateRt, chars, kept
  <2> HIDE DEF q
  <2> QED
    BY <2>1
<1>3. AbFlag(g) \in Nat /\ AbFlag(g) # NoFlag
  <2>1. g.low \in Nat
    OBVIOUS
  <2> HIDE DEF g
  <2>2. AbFlag(g) \in Nat
    BY <2>1 DEF AbFlag
  <2> QED
    BY <2>2 DEF NoFlag
<1>4. NewPayload.rt = [k \in 0..RtLen - 1 |-> Space]
  BY DEF NewPayload
<1>5. /\ DOMAIN q.rt = DOMAIN chars \cup DOMAIN kept
      /\ \A k \in DOMAIN q.rt : q.rt[k] = IF k \in DOMAIN chars THEN chars[k] ELSE kept[k]
  <2> HIDE DEF chars, kept, q
  <2> QED
    BY <1>2 DEF Over
<1> HIDE DEF more, n, texts, q, chars, g, kept
<1>6. RtChars(more[n + 1].group) = chars /\ AbFlag(more[n + 1].group) = AbFlag(g)
  BY <1>1 DEF chars, g
<1>7. ASSUME NEW k \in DOMAIN q.rt, q.rt[k] # Space
      PROVE  \E i \in texts \cup {n + 1} :
               /\ \A j \in texts \cup {n + 1} : j >= i => AbFlag(more[j].group) = q.flag
               /\ k \in DOMAIN RtChars(more[i].group) /\ RtChars(more[i].group)[k] = q.rt[k]
  <2>1. CASE k \in DOMAIN chars
    <3>1. q.rt[k] = chars[k]
      BY <1>5, <2>1
    <3>2. ASSUME NEW j \in texts \cup {n + 1}, j >= n + 1 PROVE AbFlag(more[j].group) = q.flag
      <4>1. j = n + 1
        BY <1>1, <3>2
      <4> QED
        BY <1>2, <1>6, <4>1
    <3> QED
      BY <1>6, <2>1, <3>1, <3>2
  <2>2. CASE k \notin DOMAIN chars
    <3>1. k \in DOMAIN kept /\ q.rt[k] = kept[k] /\ kept[k] # Space
      BY <1>5, <1>7, <2>2
    <3>2. ~(p.flag # NoFlag /\ p.flag # AbFlag(g))
      BY <1>4, <3>1 DEF kept
    <3>3. k \in DOMAIN p.rt /\ q.rt[k] = p.rt[k] /\ p.rt[k] # Space
      BY <3>1, <3>2 DEF kept
    <3>4. p.flag # NoFlag
      BY <3>3 DEF OneMessage
    <3>5. p.flag = q.flag /\ q.flag = AbFlag(g)
      BY <1>2, <3>2, <3>4
    <3>6. PICK i \in texts :
               /\ \A j \in texts : j >= i => AbFlag(heard[j].group) = p.flag
               /\ k \in DOMAIN RtChars(heard[i].group) /\ RtChars(heard[i].group)[k] = p.rt[k]
      BY <3>3 DEF OneMessage, texts
    <3>7. ASSUME NEW j \in texts \cup {n + 1}, j >= i PROVE AbFlag(more[j].group) = q.flag
      <4>1. CASE j = n + 1
        BY <1>6, <3>5, <4>1
      <4>2. CASE j # n + 1
        <5>1. j \in texts /\ more[j] = heard[j]
          BY <1>1, <4>2
        <5> QED
          BY <3>5, <3>6, <3>7, <5>1
      <4> QED
        BY <4>1, <4>2
    <3>8. more[i] = heard[i]
      BY <1>1, <3>6
    <3> QED
      BY <3>3, <3>6, <3>7, <3>8
  <2> QED
    BY <2>1, <2>2
<1>8. q.flag # NoFlag
  BY <1>2, <1>3
<1>9. OneMessage(more, q, pi)
  BY <1>1, <1>7, <1>8 DEF OneMessage
<1> QED
  BY <1>9 DEF more, q, g

-----------------------------------------------------------------------------
(* The Clock-Times.                                                          *)

\* The groups that say a Clock-Time.
SaysTime(g) == g.version = "A" /\ g.sent # <<>> /\ Mjd(g.sent[1].utc) \in SensibleDays
TimedAt(heard, pi) == {i \in OfType(heard, pi, 4) : SaysTime(heard[i].group)}
ClockOf(x) == [utc |-> x.group.sent[1].utc, offset |-> x.group.sent[1].offset, rx |-> x.end]

\* A Clock-Time is counted behind those that came before it.
LEMMA ClocksStep ==
  ASSUME NEW S, NEW heard \in Seq(S), NEW x \in S, NEW pi, NEW p, Timed(p), ClocksAsSent(heard, p, pi),
         NEW q, q.clocks = IF x.group.pi = pi /\ x.group.type = 4 /\ SaysTime(x.group)
                           THEN Append(p.clocks, ClockOf(x)) ELSE p.clocks
  PROVE  ClocksAsSent(Append(heard, x), q, pi)
<1> DEFINE more == Append(heard, x)
           n == Len(heard)
           old == TimedAt(heard, pi)
           new == TimedAt(more, pi)
           says == x.group.pi = pi /\ x.group.type = 4 /\ SaysTime(x.group)
           Upto(s, i) == {j \in s : j <= i}
<1>1. /\ n \in Nat /\ more[n + 1] = x /\ \A i \in 1..n : more[i] = heard[i]
      /\ OfType(heard, pi, 4) \subseteq 1..n
      /\ OfType(more, pi, 4) = IF x.group.pi = pi /\ x.group.type = 4
                               THEN OfType(heard, pi, 4) \cup {n + 1} ELSE OfType(heard, pi, 4)
  BY Appended
<1>2. Len(p.clocks) = Cardinality(old) /\ \A i \in old : p.clocks[Cardinality(Upto(old, i))] = ClockOf(heard[i])
  BY DEF ClocksAsSent, TimedAt, SaysTime, ClockOf
<1>3. /\ \A i : i \in old <=> i \in OfType(heard, pi, 4) /\ SaysTime(heard[i].group)
      /\ \A i : i \in new <=> i \in OfType(more, pi, 4) /\ SaysTime(more[i].group)
  BY DEF TimedAt
<1>4. Len(q.clocks) = Cardinality(new) /\ (\A i \in new : q.clocks[Cardinality(Upto(new, i))] = ClockOf(more[i]))
         => ClocksAsSent(more, q, pi)
  BY DEF ClocksAsSent, TimedAt, SaysTime, ClockOf
<1>5. Len(p.clocks) \in Nat /\ p.clocks \in Clocks
      /\ \A clock : /\ Len(Append(p.clocks, clock)) = Len(p.clocks) + 1
                    /\ Append(p.clocks, clock)[Len(p.clocks) + 1] = clock
                    /\ \A i \in 1..Len(p.clocks) : Append(p.clocks, clock)[i] = p.clocks[i]
  <2>1. p.clocks \in Clocks
    BY DEF Timed
  <2> QED
    BY <2>1 DEF Clocks
<1> HIDE DEF more, n, old, new
<1>6. old \subseteq 1..n /\ new = IF says THEN old \cup {n + 1} ELSE old
  <2>1. \A i : i \in old => i \in 1..n
    BY <1>1, <1>3
  <2>2. CASE says
    <3>1. \A i : i \in new <=> i \in old \cup {n + 1}
      BY <1>1, <1>3, <2>2
    <3> QED
      BY <2>1, <2>2, <3>1
  <2>3. CASE ~says
    <3>1. \A i : i \in new <=> i \in old
      BY <1>1, <1>3, <2>3
    <3> QED
      BY <2>1, <2>3, <3>1
  <2> QED
    BY <2>2, <2>3
<1>7. IsFiniteSet(old)
  <2>1. IsFiniteSet(1..n)
    BY <1>1, FS_Interval
  <2> QED
    BY <1>6, <2>1, FS_Subset
<1> DEFINE total == Cardinality(old)
           count == [i \in old |-> Cardinality(Upto(old, i))]
<1>8. total \in Nat /\ Len(p.clocks) = total
  BY <1>2, <1>7, FS_CardinalityType
<1>9. ASSUME NEW i \in old PROVE count[i] \in 1..total
  <2>1. Upto(old, i) \subseteq old /\ i \in Upto(old, i)
    <3>1. i \in Int
      BY <1>6
    <3> QED
      BY <3>1
  <2>2. IsFiniteSet(Upto(old, i)) /\ Cardinality(Upto(old, i)) <= total
    BY <1>7, <2>1, FS_Subset
  <2>3. Cardinality(Upto(old, i)) \in Nat /\ Cardinality(Upto(old, i)) # 0
    BY <2>1, <2>2, FS_CardinalityType, FS_EmptySet
  <2> DEFINE c == Cardinality(Upto(old, i))
  <2>4. count[i] = c
    OBVIOUS
  <2>5. c \in Nat /\ c # 0 /\ c <= total
    BY <2>2, <2>3
  <2> HIDE DEF c, count, total
  <2> QED
    BY <1>8, <2>4, <2>5
<1>10. \A i \in old : p.clocks[count[i]] = ClockOf(heard[i])
  BY <1>2
<1>11. \A i \in old : count[i] = Cardinality(Upto(old, i))
  OBVIOUS
<1> HIDE DEF count
<1>12. CASE ~says
  <2>1. new = old /\ q.clocks = p.clocks
    BY <1>6, <1>12
  <2>2. \A i \in new : more[i] = heard[i]
    BY <1>1, <1>6, <2>1
  <2>3. \A i \in new : q.clocks[Cardinality(Upto(new, i))] = ClockOf(more[i])
    BY <1>2, <2>1, <2>2
  <2>4. Len(q.clocks) = Cardinality(new)
    BY <1>2, <2>1
  <2> QED
    BY <1>4, <2>3, <2>4 DEF more
<1>13. CASE says
  <2>1. new = old \cup {n + 1} /\ q.clocks = Append(p.clocks, ClockOf(x)) /\ n + 1 \notin old
    BY <1>1, <1>6, <1>13
  <2>2. Cardinality(new) = total + 1
    BY <1>7, <2>1, FS_AddElement
  <2>3. Len(q.clocks) = Cardinality(new)
    BY <1>5, <1>8, <2>1, <2>2
  <2>4. ASSUME NEW i \in new PROVE q.clocks[Cardinality(Upto(new, i))] = ClockOf(more[i])
    <3>1. CASE i = n + 1
      <4>1. \A j : j \in Upto(new, i) <=> j \in new
        <5>1. ASSUME NEW j \in new PROVE j <= n + 1
          <6>1. j \in 1..n \/ j = n + 1
            BY <1>6, <2>1
          <6> QED
            BY <1>1, <6>1
        <5> QED
          BY <3>1, <5>1
      <4>2. Upto(new, i) = new
        BY <4>1
      <4>3. Cardinality(Upto(new, i)) = total + 1
        BY <2>2, <4>2
      <4> QED
        BY <1>1, <1>5, <1>8, <2>1, <3>1, <4>3
    <3>2. CASE i # n + 1
      <4>1. i \in old /\ i \in 1..n /\ more[i] = heard[i]
        BY <1>1, <1>6, <2>1, <3>2
      <4>2. \A j : j \in Upto(new, i) <=> j \in Upto(old, i)
        BY <1>1, <2>1, <4>1
      <4>3. Cardinality(Upto(new, i)) = count[i]
        <5>1. Upto(new, i) = Upto(old, i)
          BY <4>2
        <5> QED
          BY <1>11, <4>1, <5>1
      <4>4. count[i] \in 1..Len(p.clocks)
        BY <1>8, <1>9, <4>1
      <4>5. q.clocks[count[i]] = p.clocks[count[i]]
        BY <1>5, <2>1, <4>4
      <4> QED
        BY <1>10, <4>1, <4>3, <4>5
    <3> QED
      BY <3>1, <3>2
  <2> QED
    BY <1>4, <2>3, <2>4 DEF more
<1> QED
  BY <1>12, <1>13

\* Words that were encoded say the Clock-Time that was, or none if its day is not sensible.
LEMMA DecodedWords ==
  ASSUME NEW g, WordsAsSent(g)
  PROVE  DecodeClockTime(g.low, g.c, g.d) =
           IF g.sent # <<>> /\ Mjd(g.sent[1].utc) \in SensibleDays
           THEN <<ClockTime(g.sent[1].utc, g.sent[1].offset)>> ELSE <<>>
<1>1. CASE g.sent = <<>>
  BY <1>1 DEF WordsAsSent
<1>2. CASE g.sent # <<>>
  <2> DEFINE clock == g.sent[1]
             utc == clock.utc
             offset == clock.offset
             words == EncodeClockTime(utc + offset, offset)
  <2>1. /\ clock \in [utc : Int, offset : Int] /\ Encodable(clock)
        /\ g.low = words.b /\ g.c = words.c /\ g.d = words.d
    BY <1>2 DEF WordsAsSent
  <2> HIDE DEF words, clock
  <2>2. utc \in Int /\ offset \in Int /\ clock = ClockTime(utc, offset)
    BY <2>1 DEF ClockTime
  <2>3. Encodable(ClockTime(utc, offset))
    BY <2>1, <2>2, Zenon
  <2> HIDE DEF utc, offset
  <2>4. CASE Mjd(utc) \in SensibleDays
    <3>1. DecodeClockTime(words.b, words.c, words.d) = <<ClockTime(utc, offset)>>
      BY <2>2, <2>3, <2>4, DecodedAsEncoded DEF words
    <3> QED
      BY <1>2, <2>1, <2>4, <3>1, Zenon DEF utc, offset, clock
  <2>5. CASE Mjd(utc) \notin SensibleDays
    <3>1. DayOf(words.b, words.c) = Mjd(utc)
      BY <2>2, <2>3, EncodedFields DEF words
    <3>2. DayOf(words.b, words.c) \notin SensibleDays
      BY <2>5, <3>1, Zenon
    <3>3. DecodeClockTime(words.b, words.c, words.d) = <<>>
      BY <3>2 DEF DecodeClockTime, DayOf
    <3> QED
      BY <2>1, <2>5, <3>3, Zenon DEF utc, clock
  <2> QED
    BY <2>4, <2>5
<1> QED
  BY <1>1, <1>2

-----------------------------------------------------------------------------
(* What a payload shows.                                                     *)

\* A payload is what the groups of its PI built, and what it shows is what they said.
Knows(heard, p, pi) ==
    /\ p = Built(heard, pi) /\ IsPayload(p) /\ Timed(p)
    /\ NameKnown(heard, p, pi) /\ OneMessage(heard, p, pi) /\ ClocksAsSent(heard, p, pi)

\* An empty payload shows nothing.
LEMMA KnowsNothing == ASSUME NEW pi PROVE Knows(<<>>, NewPayload, pi)
<1> DEFINE none == <<>>
<1>1. Len(none) = 0 /\ DOMAIN none = {}
  OBVIOUS
<1>2. NewPayload = Built(none, pi)
  <2>1. none \in Seq({none})
    OBVIOUS
  <2>2. Built(<<>>, pi) = NewPayload
    BY <2>1, BuiltOne
  <2> QED
    BY <2>2
<1>3. /\ IsPayload(NewPayload) /\ NewPayload.seen = {} /\ NewPayload.latest = <<>> /\ NewPayload.clocks = <<>>
      /\ NewPayload.rt = [k \in 0..RtLen - 1 |-> Space]
  BY DEF NewPayload, IsPayload
<1>4. \A type : OfType(none, pi, type) = {}
  BY <1>1 DEF OfType, HeardAt
<1>5. NameKnown(none, NewPayload, pi)
  <2>1. 0 \in 0..Len(none)
    BY <1>1
  <2>2. Collects(none, NewPayload, pi, 0)
    BY <1>3 DEF Collects
  <2>3. NameHeardTwice(none, NewPayload, pi)
    BY DEF NameHeardTwice
  <2> QED
    BY <2>1, <2>2, <2>3 DEF NameKnown
<1>6. OneMessage(none, NewPayload, pi)
  BY <1>3 DEF OneMessage
<1>7. ClocksAsSent(none, NewPayload, pi)
  <2>1. TimedAt(none, pi) = {}
    BY <1>4 DEF TimedAt
  <2>2. Cardinality({}) = 0
    BY FS_EmptySet
  <2>3. Len(NewPayload.clocks) = 0
    BY <1>3
  <2> QED
    BY <2>1, <2>2, <2>3 DEF ClocksAsSent, TimedAt, SaysTime
<1> QED
  BY <1>2, <1>3, <1>5, <1>6, <1>7, NewTimed DEF Knows

\* One more group, of this PI or another, leaves the payload known.
LEMMA KnowsStep ==
  ASSUME NEW S, NEW heard \in Seq(S), NEW x \in S, NEW pi, NEW p, Knows(heard, p, pi),
         x.group.low \in Nat, x.group.c \in Nat, x.group.d \in Nat,
         x.rx = x.end, x.rx \in Int \cup {NoTime},
         x.group.type = 4 /\ x.group.version = "A" => WordsAsSent(x.group)
  PROVE  Knows(Append(heard, x), Extended(p, x, pi), pi)
<1> DEFINE more == Append(heard, x)
           g == x.group
           r == [p EXCEPT !.pty = IF @ = NoPty THEN g.pty ELSE @,
                          !.counted = @ (+) SetToBag({<<g.type, g.version>>})]
           q == Extended(p, x, pi)
<1>1. q = Built(more, pi)
  <2>1. Built(more, pi) = Extended(Built(heard, pi), x, pi)
    BY BuiltOne
  <2>2. p = Built(heard, pi)
    BY DEF Knows
  <2> QED
    BY <2>1, <2>2
<1>2. q = IF g.pi # pi THEN p
          ELSE CASE g.type = 0 -> UpdatePs(r, g)
                 [] g.type = 2 -> UpdateRt(r, g)
                 [] g.type = 4 /\ g.version = "A" -> UpdateClock(r, g, x.rx)
                 [] OTHER -> r
  BY DEF Extended, Parsed
<1>3. IsPayload(p) /\ Timed(p) /\ NameKnown(heard, p, pi) /\ OneMessage(heard, p, pi) /\ ClocksAsSent(heard, p, pi)
  BY DEF Knows
<1>4. /\ IsPayload(r) /\ r.ps = p.ps /\ r.candidate = p.candidate /\ r.seen = p.seen
      /\ r.latest = p.latest /\ r.rt = p.rt /\ r.flag = p.flag /\ r.clocks = p.clocks
  <2>1. DOMAIN r = DOMAIN p
    OBVIOUS
  <2>2. IsPayload(r)
    BY <1>3, <2>1 DEF IsPayload
  <2>3. /\ r.ps = p.ps /\ r.candidate = p.candidate /\ r.seen = p.seen
        /\ r.latest = p.latest
    BY <1>3 DEF IsPayload
  <2>4. r.rt = p.rt /\ r.flag = p.flag /\ r.clocks = p.clocks
    BY <1>3 DEF IsPayload
  <2> QED
    BY <2>2, <2>3, <2>4
<1> HIDE DEF more, r, q
<1>5. /\ NameKnown(heard, r, pi) /\ OneMessage(heard, r, pi) /\ ClocksAsSent(heard, r, pi) /\ Timed(r)
  <2>1. NameKnown(heard, r, pi)
    BY <1>3, <1>4 DEF NameKnown, NameHeardTwice, Collects
  <2>2. OneMessage(heard, r, pi)
    BY <1>3, <1>4 DEF OneMessage
  <2>3. ClocksAsSent(heard, r, pi)
    BY <1>3, <1>4 DEF ClocksAsSent
  <2>4. Timed(r)
    BY <1>3, <1>4 DEF Timed, IsPayload
  <2> QED
    BY <2>1, <2>2, <2>3, <2>4
<1>6. Timed(q)
  <2>1. Timed(Parsed(p, g, x.rx))
    BY <1>3, ParsedTimed
  <2> QED
    BY <1>3, <2>1 DEF q, Extended
<1>7. CASE g.pi # pi
  <2>1. q = p
    BY <1>2, <1>7
  <2>2. NameKnown(more, q, pi)
    BY <1>3, <2>1, CollectsOn DEF more
  <2>3. OneMessage(more, q, pi)
    BY <1>3, <1>7, <2>1, TextOn DEF more
  <2>4. ClocksAsSent(more, q, pi)
    BY <1>3, <1>7, <2>1, ClocksStep DEF more
  <2> QED
    BY <1>1, <1>3, <2>1, <2>2, <2>3, <2>4 DEF Knows, more, q
<1>8. CASE g.pi = pi /\ g.type = 0
  <2>1. q = UpdatePs(r, g)
    BY <1>2, <1>8
  <2>2. IsPayload(q) /\ q.rt = r.rt /\ q.flag = r.flag /\ q.clocks = r.clocks
    BY <1>4, <2>1, UpdatePsIs
  <2>3. NameKnown(more, q, pi)
    BY <1>4, <1>5, <1>8, <2>1, NameStep DEF more
  <2>4. OneMessage(more, q, pi)
    BY <1>5, <1>8, <2>2, TextOn DEF more
  <2>5. ClocksAsSent(more, q, pi)
    BY <1>5, <1>8, <2>2, ClocksStep DEF more
  <2> QED
    BY <1>1, <1>6, <2>2, <2>3, <2>4, <2>5 DEF Knows, more, q
<1>9. CASE g.pi = pi /\ g.type = 2
  <2>1. q = UpdateRt(r, g)
    BY <1>2, <1>9
  <2>2. /\ DOMAIN q = DOMAIN r /\ q.ps = r.ps /\ q.candidate = r.candidate /\ q.seen = r.seen
        /\ q.latest = r.latest /\ q.clocks = r.clocks
    BY <1>4, <2>1 DEF UpdateRt, IsPayload
  <2>3. IsPayload(q)
    BY <1>4, <2>2 DEF IsPayload
  <2>4. NameKnown(more, q, pi)
    BY <1>5, <2>2, CollectsOn DEF more
  <2>5. OneMessage(more, q, pi)
    <3>1. "rt" \in DOMAIN r /\ "flag" \in DOMAIN r
      BY <1>4 DEF IsPayload
    <3> QED
      BY <1>5, <1>9, <2>1, <3>1, TextStep DEF more
  <2>6. ClocksAsSent(more, q, pi)
    BY <1>5, <1>9, <2>2, ClocksStep DEF more
  <2> QED
    BY <1>1, <1>6, <2>3, <2>4, <2>5, <2>6 DEF Knows, more, q
<1>10. CASE g.pi = pi /\ g.type = 4 /\ g.version = "A"
  <2> DEFINE decoded == DecodeClockTime(g.low, g.c, g.d)
             clock == [utc |-> decoded[1].utc, offset |-> decoded[1].offset, rx |-> x.rx]
  <2>1. q = UpdateClock(r, g, x.rx)
    BY <1>2, <1>10
  <2>2. decoded = IF g.sent # <<>> /\ Mjd(g.sent[1].utc) \in SensibleDays
                  THEN <<ClockTime(g.sent[1].utc, g.sent[1].offset)>> ELSE <<>>
    BY <1>10, DecodedWords
  <2>3. q = IF decoded = <<>> THEN r ELSE [r EXCEPT !.clocks = Append(@, clock)]
    BY <2>1 DEF UpdateClock
  <2>4. decoded = <<>> <=> ~SaysTime(g)
    BY <1>10, <2>2 DEF SaysTime
  <2>5. SaysTime(g) => clock = ClockOf(x)
    BY <2>2 DEF SaysTime, ClockOf, ClockTime
  <2> HIDE DEF decoded, clock
  <2>6. /\ DOMAIN q = DOMAIN r /\ q.ps = r.ps /\ q.candidate = r.candidate /\ q.seen = r.seen
        /\ q.latest = r.latest /\ q.rt = r.rt /\ q.flag = r.flag
    BY <1>4, <2>3 DEF IsPayload
  <2>7. q.clocks = IF SaysTime(g) THEN Append(r.clocks, ClockOf(x)) ELSE r.clocks
    <3>1. "clocks" \in DOMAIN r
      BY <1>4 DEF IsPayload
    <3> QED
      BY <2>3, <2>4, <2>5, <3>1
  <2>8. IsPayload(q)
    BY <1>4, <2>6 DEF IsPayload
  <2>9. NameKnown(more, q, pi)
    BY <1>5, <2>6, CollectsOn DEF more
  <2>10. OneMessage(more, q, pi)
    BY <1>5, <1>10, <2>6, TextOn DEF more
  <2>11. ClocksAsSent(more, q, pi)
    BY <1>5, <1>10, <2>7, ClocksStep DEF more
  <2> QED
    BY <1>1, <1>6, <2>8, <2>9, <2>10, <2>11 DEF Knows, more, q
<1>11. CASE g.pi = pi /\ g.type # 0 /\ g.type # 2 /\ ~(g.type = 4 /\ g.version = "A")
  <2>1. q = r
    BY <1>2, <1>11
  <2>2. NameKnown(more, q, pi)
    BY <1>5, <2>1, CollectsOn DEF more
  <2>3. OneMessage(more, q, pi)
    BY <1>5, <1>11, <2>1, TextOn DEF more
  <2>4. ClocksAsSent(more, q, pi)
    BY <1>5, <1>11, <2>1, ClocksStep DEF more, SaysTime
  <2> QED
    BY <1>1, <1>4, <1>6, <2>1, <2>2, <2>3, <2>4 DEF Knows, more, q
<1> QED
  BY <1>7, <1>8, <1>9, <1>10, <1>11

-----------------------------------------------------------------------------
(* What is shown of the station.                                             *)

\* The groups of a capture, each with the time at which it was received.
Hearings == [group : air, rx : Int \cup {NoTime}, end : Int \cup {NoTime}]

\* Every payload is known from the groups, and the counts say how often and in which order
\* the PIs were heard.
PayloadsKnown ==
    /\ groups \in Seq(Hearings)
    /\ \A g \in air : g.type = 4 /\ g.version = "A" => WordsAsSent(g)
    /\ groups = <<>> <=> payloads = <<>>
    /\ fields = IF payloads = <<>> THEN NewPayload ELSE payloads[MostCommon(order, counts)]
    /\ \A pi \in PIs : /\ Knows(groups, PayloadOf(payloads, pi), pi)
                       /\ pi \in DOMAIN counts <=> Heard(pi) > 0
                       /\ pi \in DOMAIN counts => counts[pi] = Heard(pi)
    /\ \A i, j \in DOMAIN order : i < j => HeardBefore(order[i], order[j])

\* Where a PI is heard.
LEMMA HeardOneMore ==
  ASSUME NEW S, NEW heard \in Seq(S), NEW x \in S, NEW pi
  PROVE  LET n == Len(heard)
             old == HeardAt(heard, pi)
             new == HeardAt(Append(heard, x), pi)
         IN  /\ n \in Nat /\ old \subseteq 1..n /\ new = IF x.group.pi = pi THEN old \cup {n + 1} ELSE old
             /\ IsFiniteSet(old) /\ Cardinality(old) \in Nat /\ (Cardinality(old) = 0 <=> old = {})
             /\ Cardinality(new) = IF x.group.pi = pi THEN Cardinality(old) + 1 ELSE Cardinality(old)
<1> DEFINE more == Append(heard, x)
           n == Len(heard)
           old == HeardAt(heard, pi)
           new == HeardAt(more, pi)
<1>1. n \in Nat /\ Len(more) = n + 1 /\ more[n + 1] = x /\ \A i \in 1..n : more[i] = heard[i]
  OBVIOUS
<1>2. DOMAIN heard = 1..n /\ DOMAIN more = 1..n + 1
  <2>1. more \in Seq(S)
    OBVIOUS
  <2> QED
    BY <1>1, <2>1, LenProperties
<1> HIDE DEF more, n
<1>3. /\ \A i : i \in old <=> i \in 1..n /\ heard[i].group.pi = pi
      /\ \A i : i \in new <=> i \in 1..n + 1 /\ more[i].group.pi = pi
  BY <1>2 DEF HeardAt
<1> HIDE DEF old, new
<1>4. \A i : i \in 1..n + 1 <=> i \in 1..n \/ i = n + 1
  BY <1>1
<1>5. \A i : i \in new <=> i \in old \/ (i = n + 1 /\ x.group.pi = pi)
  BY <1>1, <1>3, <1>4
<1>6. new = IF x.group.pi = pi THEN old \cup {n + 1} ELSE old
  <2>1. CASE x.group.pi = pi
    <3>1. \A i : i \in new <=> i \in old \cup {n + 1}
      BY <1>5, <2>1
    <3> QED
      BY <2>1, <3>1
  <2>2. CASE x.group.pi # pi
    <3>1. \A i : i \in new <=> i \in old
      BY <1>5, <2>2
    <3> QED
      BY <2>2, <3>1
  <2> QED
    BY <2>1, <2>2
<1>7. old \subseteq 1..n
  BY <1>3
<1>8. IsFiniteSet(old)
  <2>1. IsFiniteSet(1..n)
    BY <1>1, FS_Interval
  <2> QED
    BY <1>7, <2>1, FS_Subset
<1>9. Cardinality(old) \in Nat /\ (Cardinality(old) = 0 <=> old = {})
  BY <1>8, FS_CardinalityType, FS_EmptySet
<1>10. n + 1 \notin old
  BY <1>1, <1>7
<1>11. Cardinality(new) = IF x.group.pi = pi THEN Cardinality(old) + 1 ELSE Cardinality(old)
  BY <1>6, <1>8, <1>10, FS_AddElement
<1> QED
  BY <1>1, <1>6, <1>7, <1>8, <1>9, <1>11 DEF more, n, old, new

\* A group is counted for its PI, which is then the last of those that were heard.
LEMMA ParseCounts ==
  ASSUME Stations, Readings, PayloadsKnown, NEW g \in air, NEW rx, NEW end, ParseGroup(g, rx, end),
         [group |-> g, rx |-> rx, end |-> end] \in Hearings
  PROVE  /\ \A pi \in PIs : /\ pi \in DOMAIN counts' <=> Heard(pi)' > 0
                            /\ pi \in DOMAIN counts' => counts'[pi] = Heard(pi)'
         /\ \A i, j \in DOMAIN order' : i < j => HeardBefore(order[i], order[j])'
<1> DEFINE x == [group |-> g, rx |-> rx, end |-> end]
           n == Len(groups)
           here(pi) == HeardAt(groups, pi)
           now(pi) == HeardAt(groups', pi)
           seeded(pi) == IF seed = <<pi>> THEN Confirmation ELSE 0
<1>1. groups \in Seq(Hearings) /\ groups' = Append(groups, x) /\ seed' = seed /\ x.group = g
  BY DEF PayloadsKnown, ParseGroup
<1>2. g.pi \in PIs /\ order \in Seq(PIs) /\ DOMAIN counts = Range(order)
  BY DEF Stations
<1>3. \A pi \in PIs : /\ pi \in DOMAIN counts <=> Heard(pi) > 0
                      /\ pi \in DOMAIN counts => counts[pi] = Heard(pi)
  BY DEF PayloadsKnown
<1>4. \A i, j \in DOMAIN order : i < j => HeardBefore(order[i], order[j])
  BY DEF PayloadsKnown
<1>5. ASSUME NEW pi
      PROVE  /\ n \in Nat /\ here(pi) \subseteq 1..n
             /\ now(pi) = IF g.pi = pi THEN here(pi) \cup {n + 1} ELSE here(pi)
             /\ Cardinality(here(pi)) \in Nat /\ (Cardinality(here(pi)) = 0 <=> here(pi) = {})
             /\ Cardinality(now(pi)) = IF g.pi = pi THEN Cardinality(here(pi)) + 1 ELSE Cardinality(here(pi))
  <2> HIDE DEF x
  <2>1. x \in Hearings
    BY DEF x
  <2> QED
    BY <1>1, <2>1, HeardOneMore
<1>6. \A pi : Heard(pi) = Cardinality(here(pi)) + seeded(pi) /\ Heard(pi)' = Cardinality(now(pi)) + seeded(pi)
  BY <1>1 DEF Heard
<1>7. \A pi : seeded(pi) \in Nat /\ (seeded(pi) = 0 <=> seed # <<pi>>)
  BY StationAssumption
<1>8. \A a, b : HeardBefore(a, b)
          <=> seed = <<a>> \/ (seed # <<b>> /\ \E i \in here(a) : \A j \in here(b) : i < j)
  BY DEF HeardBefore
<1>9. \A a, b : HeardBefore(a, b)'
          <=> seed = <<a>> \/ (seed # <<b>> /\ \E i \in now(a) : \A j \in now(b) : i < j)
  BY <1>1 DEF HeardBefore
<1> HIDE DEF x, n, here, now, seeded
<1>10. ASSUME NEW pi
       PROVE  Heard(pi) \in Nat /\ Heard(pi)' = IF g.pi = pi THEN Heard(pi) + 1 ELSE Heard(pi)
  <2>1. Cardinality(here(pi)) \in Nat /\ seeded(pi) \in Nat
    BY <1>5, <1>7
  <2>2. Cardinality(now(pi)) = IF g.pi = pi THEN Cardinality(here(pi)) + 1 ELSE Cardinality(here(pi))
    BY <1>5
  <2>3. Heard(pi) = Cardinality(here(pi)) + seeded(pi) /\ Heard(pi)' = Cardinality(now(pi)) + seeded(pi)
    BY <1>6
  <2> QED
    BY <2>1, <2>2, <2>3
<1>11. ASSUME NEW a, NEW b, HeardBefore(a, b) PROVE HeardBefore(a, b)'
  <2>1. CASE seed = <<a>>
    BY <1>9, <2>1
  <2>2. CASE seed # <<a>>
    <3>1. PICK i \in here(a) : \A j \in here(b) : i < j
      BY <1>8, <1>11, <2>2
    <3>2. i \in now(a) /\ i < n + 1
      BY <1>5
    <3>3. \A j \in now(b) : i < j
      BY <1>5, <3>1, <3>2
    <3>4. seed # <<b>>
      BY <1>8, <1>11, <2>2
    <3> QED
      BY <1>9, <3>2, <3>3, <3>4
  <2> QED
    BY <2>1, <2>2
<1>12. ASSUME NEW a \in PIs, Heard(a) > 0, Heard(g.pi) = 0 PROVE HeardBefore(a, g.pi)'
  <2>1. here(g.pi) = {} /\ seed # <<g.pi>>
    <3>1. Cardinality(here(g.pi)) \in Nat /\ seeded(g.pi) \in Nat /\ Heard(g.pi) = Cardinality(here(g.pi)) + seeded(g.pi)
      BY <1>5, <1>6, <1>7
    <3>2. Cardinality(here(g.pi)) = 0 /\ seeded(g.pi) = 0
      BY <1>12, <3>1
    <3> QED
      BY <1>5, <1>7, <3>2
  <2>2. CASE seed = <<a>>
    BY <1>9, <2>2
  <2>3. CASE seed # <<a>>
    <3>1. here(a) # {}
      <4>1. seeded(a) = 0
        BY <1>7, <2>3
      <4>2. Cardinality(here(a)) \in Nat /\ Heard(a) = Cardinality(here(a)) + seeded(a)
        BY <1>5, <1>6
      <4>3. Cardinality(here(a)) # 0
        BY <1>12, <4>1, <4>2
      <4> QED
        BY <1>5, <4>3
    <3>2. PICK i \in here(a) : TRUE
      BY <3>1
    <3>3. i \in now(a) /\ i < n + 1
      BY <1>5
    <3>4. now(g.pi) = {n + 1}
      BY <1>5, <2>1
    <3>5. \A j \in now(g.pi) : i < j
      BY <3>3, <3>4
    <3> QED
      BY <1>9, <2>1, <3>3, <3>5
  <2> QED
    BY <2>2, <2>3
<1>13. CASE g.pi \in DOMAIN counts
  <2>1. counts' = Put(counts, g.pi, counts[g.pi] + 1) /\ order' = order
    BY <1>13 DEF ParseGroup
  <2>2. /\ DOMAIN counts' = DOMAIN counts
        /\ \A pi \in DOMAIN counts : counts'[pi] = IF pi = g.pi THEN counts[g.pi] + 1 ELSE counts[pi]
    BY <1>13, <2>1 DEF Put
  <2>3. ASSUME NEW pi \in PIs
        PROVE  (pi \in DOMAIN counts' <=> Heard(pi)' > 0) /\ (pi \in DOMAIN counts' => counts'[pi] = Heard(pi)')
    <3>1. Heard(pi) \in Nat /\ Heard(pi)' = IF g.pi = pi THEN Heard(pi) + 1 ELSE Heard(pi)
      BY <1>10
    <3>2. (pi \in DOMAIN counts <=> Heard(pi) > 0) /\ (pi \in DOMAIN counts => counts[pi] = Heard(pi))
      BY <1>3
    <3> QED
      BY <1>13, <2>2, <3>1, <3>2
  <2>4. ASSUME NEW i \in DOMAIN order', NEW j \in DOMAIN order', i < j
        PROVE  HeardBefore(order[i], order[j])'
    <3> DEFINE a == order[i]
               b == order[j]
    <3>1. HeardBefore(a, b) /\ order'[i] = a /\ order'[j] = b
      BY <1>4, <2>1, <2>4
    <3> HIDE DEF a, b
    <3>2. \A c, d : HeardBefore(c, d) => HeardBefore(c, d)'
      BY <1>11
    <3> QED
      BY <1>8, <1>9, <2>1, <3>1, <3>2 DEF a, b
  <2> QED
    BY <2>3, <2>4
<1>14. CASE g.pi \notin DOMAIN counts
  <2>1. counts' = Put(counts, g.pi, 1) /\ order' = Append(order, g.pi)
    BY <1>14 DEF ParseGroup
  <2>2. /\ DOMAIN counts' = DOMAIN counts \cup {g.pi}
        /\ \A pi \in DOMAIN counts' : counts'[pi] = IF pi = g.pi THEN 1 ELSE counts[pi]
    BY <2>1 DEF Put
  <2>3. Heard(g.pi) = 0
    BY <1>2, <1>3, <1>10, <1>14
  <2>4. ASSUME NEW pi \in PIs
        PROVE  (pi \in DOMAIN counts' <=> Heard(pi)' > 0) /\ (pi \in DOMAIN counts' => counts'[pi] = Heard(pi)')
    <3>1. Heard(pi) \in Nat /\ Heard(pi)' = IF g.pi = pi THEN Heard(pi) + 1 ELSE Heard(pi)
      BY <1>10
    <3>2. (pi \in DOMAIN counts <=> Heard(pi) > 0) /\ (pi \in DOMAIN counts => counts[pi] = Heard(pi))
      BY <1>3
    <3> QED
      BY <1>14, <2>2, <2>3, <3>1, <3>2
  <2> DEFINE m == Len(order)
  <2>5. /\ m \in Nat /\ DOMAIN order = 1..m /\ DOMAIN order' = 1..m + 1
        /\ order'[m + 1] = g.pi /\ \A i \in 1..m : order'[i] = order[i] /\ order[i] \in DOMAIN counts
    <3>1. order' \in Seq(PIs) /\ Len(order') = m + 1 /\ m \in Nat
      BY <1>2, <2>1
    <3>2. DOMAIN order = 1..m /\ DOMAIN order' = 1..m + 1
      BY <1>2, <3>1, LenProperties
    <3>3. order'[m + 1] = g.pi /\ \A i \in 1..m : order'[i] = order[i]
      BY <1>2, <2>1
    <3>4. \A i \in DOMAIN order : order[i] \in DOMAIN counts
      BY <1>2 DEF Range
    <3> QED
      BY <3>1, <3>2, <3>3, <3>4
  <2> HIDE DEF m
  <2>6. ASSUME NEW i \in DOMAIN order', NEW j \in DOMAIN order', i < j
        PROVE  HeardBefore(order[i], order[j])'
    <3> DEFINE a == order[i]
               b == order[j]
    <3>1. i \in 1..m /\ order'[i] = a /\ a \in DOMAIN counts
      BY <2>5, <2>6
    <3>2. a \in PIs /\ Heard(a) > 0
      <4>1. a \in PIs
        BY <1>2, <2>5, <3>1
      <4> QED
        BY <1>3, <3>1, <4>1
    <3>3. \A c, d : HeardBefore(c, d) => HeardBefore(c, d)'
      BY <1>11
    <3>4. \A c \in PIs : Heard(c) > 0 => HeardBefore(c, g.pi)'
      BY <1>12, <2>3
    <3>5. CASE j = m + 1
      <4>1. order'[j] = g.pi
        BY <2>5, <3>5
      <4> DEFINE first == order'[i]
      <4>2. first = a
        BY <3>1
      <4> HIDE DEF a, first
      <4>3. first \in PIs /\ Heard(first) > 0
        BY <3>2, <4>2
      <4>4. \A c \in PIs : Heard(c) > 0 =>
               seed = <<c>> \/ (seed # <<g.pi>> /\ \E k \in now(c) : \A l \in now(g.pi) : k < l)
        BY <1>9, <3>4
      <4>5. seed = <<first>> \/ (seed # <<g.pi>> /\ \E k \in now(first) : \A l \in now(g.pi) : k < l)
        BY <4>3, <4>4
      <4> QED
        BY <1>9, <4>1, <4>5 DEF first
    <3>6. CASE j # m + 1
      <4>1. j \in DOMAIN order /\ i \in DOMAIN order /\ order'[j] = b
        BY <2>5, <2>6, <3>6
      <4>2. HeardBefore(a, b)
        BY <1>4, <2>6, <4>1
      <4> HIDE DEF a, b
      <4> QED
        BY <1>8, <1>9, <3>1, <3>3, <4>1, <4>2
    <3> QED
      BY <3>5, <3>6
  <2> QED
    BY <2>4, <2>6
<1> QED
  BY <1>13, <1>14

\* The last of an interval.
LEMMA LastOfInterval == ASSUME NEW i \in Int, NEW k \in Int, i <= k PROVE Max(i..k) = k
  BY DEF Max

\* A group that is parsed extends the payload of its PI, and no other.
LEMMA ParseKnown ==
  ASSUME IInv, PayloadsKnown, Parse
  PROVE  PayloadsKnown'
<1> DEFINE i == Len(groups) + 1
           rx == ReceivedAt(positions[i])
           end == EndOf(places[i])
<1>1. PICK g \in air : ParseGroup(g, rx, end)
  BY DEF Parse
<1> DEFINE x == [group |-> g, rx |-> rx, end |-> end]
           known == IF payloads = <<>> THEN Put(<<>>, firstPi', fields) ELSE payloads
           parsed == Parsed(PayloadOf(known, g.pi), g, rx)
<1>2. air' = air
  BY DEF Parse, captureVars
<1>3. /\ payloads' = Put(known, g.pi, parsed) /\ fields' = payloads'[MostCommon(order', counts')]
      /\ groups' = Append(groups, x)
  BY <1>1 DEF ParseGroup
<1>4. rx = end /\ rx \in Int \cup {NoTime}
  <2>1. Len(groups) \in Nat /\ Len(positions) \in Nat /\ Len(groups) < Len(positions)
    BY DEF Parse, Parsing, IInv, Stations, Places
  <2>2. i \in 1..Len(positions)
    BY <2>1
  <2> HIDE DEF i
  <2> DEFINE at == positions[i]
             place == places[i]
  <2>3. at \in Nat /\ place = Interval(at) /\ GroupBits \in Nat \ {0}
    BY <2>2, SearchAssumption, ElementOfSeq DEF IInv, Places
  <2>4. rx = IF timed THEN at + GroupBits ELSE NoTime
    BY DEF ReceivedAt
  <2>5. end = IF timed THEN Max(place) + 1 ELSE NoTime
    BY DEF EndOf
  <2> HIDE DEF at, place, rx, end
  <2>6. Max(place) = at + GroupBits - 1
    <3> DEFINE last == at + GroupBits - 1
    <3>1. last \in Int /\ at \in Int /\ at <= last /\ place = at..last
      BY <2>3 DEF Interval
    <3> HIDE DEF last
    <3>2. Max(place) = last
      BY <3>1, LastOfInterval
    <3> QED
      BY <3>2 DEF last
  <2> QED
    BY <2>3, <2>4, <2>5, <2>6
<1>5. x \in Hearings
  BY <1>4 DEF Hearings
<1>6. g.pi \in PIs /\ g.low \in Nat /\ g.c \in Nat /\ g.d \in Nat
  BY DEF IInv, Stations, Readings
<1>7. groups \in Seq(Hearings) /\ (g.type = 4 /\ g.version = "A" => WordsAsSent(g))
  BY DEF PayloadsKnown
<1> HIDE DEF i, rx, end
<1>8. /\ \A pi \in PIs : /\ pi \in DOMAIN counts' <=> Heard(pi)' > 0
                         /\ pi \in DOMAIN counts' => counts'[pi] = Heard(pi)'
      /\ \A k, l \in DOMAIN order' : k < l => HeardBefore(order[k], order[l])'
  BY <1>1, <1>5, ParseCounts DEF IInv
<1>9. ASSUME NEW pi \in PIs
      PROVE  PayloadOf(payloads', pi) = Extended(PayloadOf(payloads, pi), x, pi)
  <2>1. PayloadOf(known, pi) = PayloadOf(payloads, pi)
    <3>1. CASE payloads = <<>>
      <4>1. fields = NewPayload /\ DOMAIN payloads = {}
        BY <3>1 DEF PayloadsKnown
      <4> QED
        BY <3>1, <4>1 DEF PayloadOf, Put
    <3>2. CASE payloads # <<>>
      BY <3>2
    <3> QED
      BY <3>1, <3>2
  <2> HIDE DEF known
  <2>2. PayloadOf(payloads', pi) = IF pi = g.pi THEN parsed ELSE PayloadOf(known, pi)
    <3> HIDE DEF parsed
    <3> QED
      BY <1>3 DEF PayloadOf, Put
  <2>3. x.group = g /\ x.rx = rx
    OBVIOUS
  <2> HIDE DEF x
  <2> QED
    BY <2>1, <2>2, <2>3 DEF Extended
<1>10. x.group = g /\ x.rx = rx /\ x.end = end
  OBVIOUS
<1> HIDE DEF x, known, parsed
<1>11. ASSUME NEW pi \in PIs PROVE Knows(groups', PayloadOf(payloads', pi), pi)
  <2> DEFINE p == PayloadOf(payloads, pi)
  <2>1. Knows(groups, p, pi)
    BY DEF PayloadsKnown
  <2> HIDE DEF p
  <2>2. Knows(Append(groups, x), Extended(p, x, pi), pi)
    BY <1>4, <1>5, <1>6, <1>7, <1>10, <2>1, KnowsStep
  <2> QED
    BY <1>3, <1>9, <2>2 DEF p
<1>12. payloads' # <<>> /\ groups' # <<>> /\ groups' \in Seq(Hearings)
  <2>1. g.pi \in DOMAIN payloads'
    BY <1>3 DEF Put
  <2>2. groups' \in Seq(Hearings) /\ groups' # <<>>
    BY <1>3, <1>5, <1>7
  <2> QED
    BY <2>1, <2>2
<1>13. Hearings' = Hearings
  BY <1>2 DEF Hearings
<1>14. \A h \in air' : h.type = 4 /\ h.version = "A" => WordsAsSent(h)
  BY <1>2 DEF PayloadsKnown
<1> QED
  BY <1>3, <1>8, <1>11, <1>12, <1>13, <1>14 DEF PayloadsKnown

\* Where nothing was heard, only the PI that was set counts.
LEMMA HeardNothing ==
  ASSUME groups = <<>>
  PROVE  \A pi : Heard(pi) = IF seed = <<pi>> THEN Confirmation ELSE 0
<1> TAKE pi
<1>1. HeardAt(groups, pi) = {}
  BY DEF HeardAt
<1>2. Cardinality({}) = 0 /\ Confirmation \in Nat
  BY FS_EmptySet, StationAssumption
<1>3. Heard(pi) = 0 + (IF seed = <<pi>> THEN Confirmation ELSE 0)
  BY <1>1, <1>2, Zenon DEF Heard
<1> QED
  BY <1>2, <1>3

\* Setting the PI leaves no group heard.
LEMMA IdentifyKnown ==
  ASSUME PayloadsKnown, Identify
  PROVE  PayloadsKnown'
<1>1. PICK value \in PIs \cup {NoPI} : SetPi(value)
  BY DEF Identify
<1>2. air' = air
  BY DEF Identify, captureVars
<1>3. payloads' = <<>> /\ groups' = <<>> /\ fields' = NewPayload /\ seed' = <<value>>
  BY <1>1 DEF SetPi
<1>4. Hearings' = Hearings /\ \A h \in air' : h.type = 4 /\ h.version = "A" => WordsAsSent(h)
  BY <1>2 DEF Hearings, PayloadsKnown
<1>5. ASSUME NEW pi \in PIs PROVE Knows(groups', PayloadOf(payloads', pi), pi)
  <2>1. PayloadOf(payloads', pi) = NewPayload
    BY <1>3 DEF PayloadOf
  <2> QED
    BY <1>3, <2>1, KnowsNothing
<1>6. \A pi : Heard(pi)' = IF seed' = <<pi>> THEN Confirmation ELSE 0
  <2>1. \A pi : HeardAt(groups', pi) = {}
    BY <1>3 DEF HeardAt
  <2>2. Cardinality({}) = 0 /\ Confirmation \in Nat
    BY FS_EmptySet, StationAssumption
  <2> QED
    BY <2>1, <2>2 DEF Heard
<1>7. ASSUME NEW pi \in PIs
      PROVE  (pi \in DOMAIN counts' <=> Heard(pi)' > 0) /\ (pi \in DOMAIN counts' => counts'[pi] = Heard(pi)')
  <2>1. Heard(pi)' = IF value = pi THEN Confirmation ELSE 0
    BY <1>3, <1>6
  <2>2. Confirmation \in Nat \ {0} /\ NoPI \notin PIs
    BY StationAssumption
  <2>3. CASE value = NoPI
    <3>1. counts' = <<>>
      BY <1>1, <2>3 DEF SetPi
    <3> QED
      BY <2>1, <2>2, <2>3, <3>1
  <2>4. CASE value # NoPI
    <3>1. counts' = Put(<<>>, value, Confirmation)
      BY <1>1, <2>4 DEF SetPi
    <3>2. DOMAIN counts' = {value} /\ counts'[value] = Confirmation
      BY <3>1 DEF Put
    <3> QED
      BY <2>1, <2>2, <3>2
  <2> QED
    BY <2>3, <2>4
<1>8. ASSUME NEW i \in DOMAIN order', NEW j \in DOMAIN order', i < j PROVE FALSE
  <2>1. order' = <<>> \/ order' = <<value>>
    BY <1>1 DEF SetPi
  <2>2. DOMAIN order' \subseteq {1}
    BY <2>1
  <2> QED
    BY <1>8, <2>2
<1>9. groups' \in Seq(Hearings)
  BY <1>3
<1> QED
  BY <1>3, <1>4, <1>5, <1>7, <1>8, <1>9 DEF PayloadsKnown

\* Before the first group nothing is shown.
LEMMA InitKnown == Init => PayloadsKnown
<1> SUFFICES ASSUME Init PROVE PayloadsKnown
  OBVIOUS
<1>1. PICK capture \in Captures : air = capture.air
  BY DEF Init
<1>2. \A g \in air : g.type = 4 /\ g.version = "A" => WordsAsSent(g)
  BY <1>1, CapturesAssumption
<1>3. counts = <<>> /\ order = <<>> /\ payloads = <<>> /\ fields = NewPayload /\ groups = <<>> /\ seed = <<>>
  BY DEF Init, InfoInit
<1>4. ASSUME NEW pi \in PIs PROVE Knows(groups, PayloadOf(payloads, pi), pi)
  <2>1. PayloadOf(payloads, pi) = NewPayload
    BY <1>3 DEF PayloadOf
  <2> QED
    BY <1>3, <2>1, KnowsNothing
<1>5. \A pi \in PIs : pi \notin DOMAIN counts /\ ~(Heard(pi) > 0)
  <2>1. \A pi : Heard(pi) = 0
    <3>1. \A pi : Heard(pi) = IF seed = <<pi>> THEN Confirmation ELSE 0
      BY <1>3, HeardNothing
    <3> QED
      BY <1>3, <3>1
  <2> QED
    BY <1>3, <2>1
<1>6. DOMAIN order = {} /\ groups \in Seq(Hearings)
  BY <1>3
<1> QED
  BY <1>2, <1>3, <1>4, <1>5, <1>6 DEF PayloadsKnown

\* Nor does a step that leaves the groups and the station alone change what is known.
LEMMA KnownUnchanged ==
  ASSUME PayloadsKnown, UNCHANGED infoVars, UNCHANGED air
  PROVE  PayloadsKnown'
<1>1. UNCHANGED <<counts, order, firstPi, payloads, fields, seed, groups>>
  BY DEF infoVars
<1>2. Hearings' = Hearings
  BY DEF Hearings
<1>3. \A pi : Heard(pi)' = Heard(pi)
  BY <1>1 DEF Heard
<1>4. (\A i, j \in DOMAIN order : i < j => HeardBefore(order[i], order[j]))'
  BY <1>1 DEF PayloadsKnown, HeardBefore
<1>5. \A pi \in PIs : Knows(groups', PayloadOf(payloads', pi), pi)
  BY <1>1 DEF PayloadsKnown
<1> QED
  BY <1>1, <1>2, <1>3, <1>4, <1>5 DEF PayloadsKnown

\* What is known of the payloads makes true what is shown.
LEMMA KnownShown ==
  ASSUME Stations, Readings, PayloadsKnown
  PROVE  StationIsTrue
<1>1. CASE groups = <<>>
  BY <1>1 DEF PayloadsKnown, StationIsTrue
<1>2. CASE groups # <<>>
  <2>1. payloads # <<>> /\ fields = payloads[MostCommon(order, counts)]
    BY <1>2 DEF PayloadsKnown
  <2>2. order \in Seq(PIs) /\ DOMAIN counts = Range(order) /\ groups \in Seq(Hearings)
        /\ Range(order) \subseteq DOMAIN payloads
    BY <2>1 DEF Stations, Readings, PayloadsKnown
  <2>3. \A pi \in PIs : /\ pi \in DOMAIN counts <=> Heard(pi) > 0
                        /\ pi \in DOMAIN counts => counts[pi] = Heard(pi)
    BY DEF PayloadsKnown
  <2>4. \A pi \in PIs : Heard(pi) \in Nat
    <3> TAKE pi \in PIs
    <3>1. PICK x \in Hearings : TRUE
      BY <1>2, <2>2, EmptySeq
    <3>2. Cardinality(HeardAt(groups, pi)) \in Nat
      BY <2>2, <3>1, HeardOneMore
    <3>3. Confirmation \in Nat
      BY StationAssumption
    <3> QED
      BY <3>2, <3>3 DEF Heard
  <2>5. order # <<>>
    <3>1. PICK k \in DOMAIN groups : groups[k] \in Hearings
      BY <1>2, <2>2, EmptySeq
    <3> DEFINE pi == groups[k].group.pi
    <3>2. pi \in PIs
      BY <3>1 DEF Hearings, Stations
    <3>3. k \in HeardAt(groups, pi)
      BY DEF HeardAt
    <3> HIDE DEF pi
    <3>4. Cardinality(HeardAt(groups, pi)) # 0
      BY <2>2, <3>1, <3>3, HeardOneMore
    <3>5. Heard(pi) # 0
      <4>1. Cardinality(HeardAt(groups, pi)) \in Nat /\ Confirmation \in Nat
        BY <2>2, <3>1, HeardOneMore, StationAssumption
      <4> QED
        BY <3>4, <4>1 DEF Heard
    <3>6. pi \in Range(order)
      BY <2>2, <2>3, <2>4, <3>2, <3>5
    <3> QED
      BY <3>6 DEF Range
  <2>6. PICK i \in DOMAIN order :
           /\ MostCommon(order, counts) = order[i]
           /\ \A j \in DOMAIN order : /\ counts[order[j]] <= counts[order[i]]
                                      /\ j < i => counts[order[j]] < counts[order[i]]
    <3>1. \A pi \in Range(order) : counts[pi] \in Nat
      BY <2>2 DEF Readings
    <3> QED
      BY <2>2, <2>5, <3>1, MostCommonFirst
  <2> DEFINE pi == order[i]
  <2>7. /\ \A j \in DOMAIN order : order[j] \in PIs /\ order[j] \in DOMAIN counts /\ j \in Nat
        /\ \A other \in DOMAIN counts : \E j \in DOMAIN order : other = order[j]
    BY <2>2 DEF Range
  <2>8. pi \in PIs /\ pi \in DOMAIN counts /\ pi \in DOMAIN payloads
    BY <2>2, <2>7
  <2>9. Dominates(pi)
    <3>1. Heard(pi) > 0
      BY <2>3, <2>8
    <3>2. ASSUME NEW other \in PIs \ {pi}
          PROVE  Heard(other) < Heard(pi) \/ (Heard(other) = Heard(pi) /\ HeardBefore(pi, other))
      <4>1. CASE other \notin DOMAIN counts
        <5>1. Heard(other) \in Nat /\ ~(Heard(other) > 0)
          BY <2>3, <2>4, <4>1
        <5> QED
          BY <2>4, <2>8, <3>1, <5>1
      <4>2. CASE other \in DOMAIN counts
        <5>1. PICK j \in DOMAIN order : other = order[j]
          BY <2>7, <4>2
        <5>2. counts[other] = Heard(other) /\ counts[pi] = Heard(pi)
          BY <2>3, <2>8, <4>2
        <5>3. Heard(other) <= Heard(pi) /\ (j < i => Heard(other) < Heard(pi))
          BY <2>6, <5>1, <5>2
        <5>4. j # i
          BY <5>1
        <5>5. i < j => HeardBefore(pi, other)
          BY <5>1 DEF PayloadsKnown
        <5>6. i \in Nat /\ j \in Nat /\ Heard(pi) \in Nat /\ Heard(other) \in Nat
          BY <2>4, <2>7, <2>8
        <5> QED
          BY <5>3, <5>4, <5>5, <5>6
      <4> QED
        BY <4>1, <4>2
    <3> QED
      BY <3>1, <3>2 DEF Dominates
  <2>10. PayloadOf(payloads, pi) = fields
    BY <2>1, <2>6, <2>8 DEF PayloadOf
  <2> HIDE DEF pi
  <2>11. Knows(groups, fields, pi)
    BY <2>8, <2>10 DEF PayloadsKnown
  <2>12. RtOfOneMessage(groups, fields, pi)
    <3>1. PICK x \in Hearings : TRUE
      BY <1>2, <2>2, EmptySeq
    <3>2. OfType(groups, pi, 2) \subseteq 1..Len(groups)
      BY <2>2, <3>1, Appended
    <3>3. OfType(groups, pi, 2) \subseteq Int
      BY <3>2
    <3> QED
      BY <2>11, <3>3, TextOfOneMessage DEF Knows
  <2> QED
    BY <1>2, <2>8, <2>9, <2>11, <2>12 DEF Knows, NameKnown, StationIsTrue
<1> QED
  BY <1>1, <1>2

\* Every step leaves the payloads known.
LEMMA NextKnown == IInv /\ PayloadsKnown /\ [Next]_vars => PayloadsKnown'
<1> SUFFICES ASSUME IInv, PayloadsKnown, [Next]_vars PROVE PayloadsKnown'
  OBVIOUS
<1>1. CASE Receive
  BY <1>1, KnownUnchanged DEF Receive, captureVars
<1>2. CASE Search
  BY <1>2, KnownUnchanged DEF Search, captureVars
<1>3. CASE Parse
  BY <1>3, ParseKnown
<1>4. CASE Identify
  BY <1>4, IdentifyKnown
<1>5. CASE UNCHANGED vars
  BY <1>5, KnownUnchanged DEF vars, captureVars
<1> QED
  BY <1>1, <1>2, <1>3, <1>4, <1>5 DEF Next

\* Every payload is what the groups of its PI built, whatever else was received between them
\* and whichever PI was set, and the counts are of those groups (StationInfo, parse_group).
THEOREM PayloadsOfOnePI == Spec => []PayloadsKnown
<1> QED
  BY InitKnown, NextKnown, Inductive, PTL DEF Spec

\* However many groups of however many PIs are received, what is shown is of the PI heard
\* most, and is what it sent: a name of any length was received twice, a text of any length
\* is of the message that its A/B flag last began, and the Clock-Times are those that were
\* encoded, in order and dated when their groups ended (StationInfo, _update_ps, _update_rt,
\* _update_clock).
THEOREM StationShown == Spec => []StationIsTrue
<1>1. IInv /\ PayloadsKnown => StationIsTrue
  BY KnownShown DEF IInv
<1> QED
  BY <1>1, Inductive, PayloadsOfOnePI, PTL

=============================================================================
