------------------------ MODULE TimeConsensusProofs ------------------------
(***************************************************************************)
(* What holds of the consensus for any number of channels, programmes and  *)
(* receivers, any clocks and any order of the reports.                     *)
(*                                                                         *)
(* The argument: the observations of a track are in the order of their     *)
(* receptions, so the last one is the latest; one vote of a channel is the *)
(* vote of some receiver, so there are no more votes than listeners; and   *)
(* the n-th smallest of some numbers has a number of any majority on both  *)
(* its sides, so a median lies within what a majority agrees on.           *)
(***************************************************************************)
EXTENDS TimeConsensus, FiniteSetTheorems, SequenceTheorems, NaturalsInduction, TLAPS

\* The observations of a track are in the order of their receptions (add_observation).
ObservationsInOrder ==
    \A k \in Keys : \A i, j \in DOMAIN tracks[k].observations :
        i <= j => tracks[k].observations[i].at <= tracks[k].observations[j].at

\* A latency is learned from three receptions, and a track never forgets them.
LatenciesAreLearned ==
    \A k \in Keys : tracks[k].latency # NoLatency => Len(tracks[k].observations) >= 3

Inv == TypeOK /\ ObservationsInOrder /\ LatenciesAreLearned

-----------------------------------------------------------------------------
(* The largest of some numbers, and the n-th smallest.                       *)

\* Some natural numbers have a least one.
LEMMA LeastOf ==
  ASSUME NEW S \in SUBSET Nat, S # {}
  PROVE  \E n \in S : \A m \in S : n <= m
<1> DEFINE less == OpToRel(<, Nat)
<1>1. \A m, n \in Nat : m < n => <<m, n>> \in less
  BY DEF OpToRel
<1>2. IsWellFoundedOn(less, Nat)
  BY NatLessThanWellFounded
<1> HIDE DEF less
<1>3. PICK n \in S : \A m \in S : ~(<<m, n>> \in less)
  BY <1>2, WFMin
<1>4. ASSUME NEW m \in S PROVE n <= m
  <2>1. m \in Nat /\ n \in Nat /\ ~(<<m, n>> \in less)
    BY <1>3
  <2>2. ~(m < n)
    BY <1>1, <2>1
  <2> QED
    BY <2>1, <2>2
<1> QED
  BY <1>4

\* Some element of a finite set has the largest number: the one with the most
\* elements at or below it.
LEMMA LargestOf ==
  ASSUME NEW S, IsFiniteSet(S), S # {}, NEW f, \A k \in S : f[k] \in Int
  PROVE  \E k \in S : \A j \in S : f[j] <= f[k]
<1> DEFINE upTo(k) == {j \in S : f[j] <= f[k]}
           above == {Cardinality(S) - Cardinality(upTo(k)) : k \in S}
<1>1. Cardinality(S) \in Nat
  BY FS_CardinalityType
<1>2. \A k \in S : /\ IsFiniteSet(upTo(k)) /\ Cardinality(upTo(k)) \in Nat
                   /\ Cardinality(upTo(k)) <= Cardinality(S)
  BY FS_Subset, FS_CardinalityType
<1>3. above \in SUBSET Nat /\ above # {}
  <2>1. \A k \in S : Cardinality(S) - Cardinality(upTo(k)) \in Nat
    BY <1>1, <1>2
  <2> HIDE DEF upTo
  <2> QED
    BY <2>1
<1>4. PICK n \in above : \A m \in above : n <= m
  BY <1>3, LeastOf
<1>5. PICK k \in S : n = Cardinality(S) - Cardinality(upTo(k))
  BY <1>4
<1>6. ASSUME NEW j \in S PROVE f[j] <= f[k]
  <2>1. Cardinality(S) - Cardinality(upTo(k)) <= Cardinality(S) - Cardinality(upTo(j))
    BY <1>4, <1>5
  <2>2. Cardinality(upTo(j)) <= Cardinality(upTo(k))
    BY <1>1, <1>2, <2>1
  <2>3. SUFFICES ASSUME f[k] < f[j] PROVE FALSE
    OBVIOUS
  <2>4. upTo(k) \in SUBSET upTo(j) /\ j \in upTo(j) /\ j \notin upTo(k)
    BY <2>3
  <2>5. Cardinality(upTo(k)) <= Cardinality(upTo(j))
    BY <1>2, <2>4, FS_Subset
  <2>6. Cardinality(upTo(k)) # Cardinality(upTo(j))
    BY <1>2, <2>4, FS_Subset
  <2> HIDE DEF upTo
  <2> QED
    BY <1>2, <2>2, <2>5, <2>6
<1> QED
  BY <1>6

\* sorted(f[k] for k in S)[i]: at most i numbers are smaller, and more than i are not larger.
LEMMA NthProperties ==
  ASSUME NEW S, IsFiniteSet(S), NEW f, \A k \in S : f[k] \in Int,
         NEW i \in Nat, i < Cardinality(S)
  PROVE  /\ \E k \in S : f[k] = Nth(S, f, i)
         /\ Nth(S, f, i) \in Int
         /\ Cardinality({k \in S : f[k] < Nth(S, f, i)}) <= i
         /\ Cardinality({k \in S : f[k] <= Nth(S, f, i)}) > i
<1> DEFINE upTo(v) == {j \in S : f[j] <= v}
           under(v) == {j \in S : f[j] < v}
           enough == {k \in S : Cardinality(upTo(f[k])) > i}
           counts == {Cardinality(upTo(f[k])) : k \in enough}
<1>1. \A v : /\ IsFiniteSet(upTo(v)) /\ Cardinality(upTo(v)) \in Nat
             /\ IsFiniteSet(under(v)) /\ Cardinality(under(v)) \in Nat
  BY FS_Subset, FS_CardinalityType
<1>2. enough # {}
  <2>1. S # {}
    BY FS_EmptySet
  <2>2. PICK k \in S : \A j \in S : f[j] <= f[k]
    BY <2>1, LargestOf
  <2>3. upTo(f[k]) = S
    BY <2>2
  <2> QED
    BY <2>3
<1>3. counts \in SUBSET Nat /\ counts # {}
  BY <1>1, <1>2
<1>4. PICK n \in counts : \A m \in counts : n <= m
  BY <1>3, LeastOf
<1>5. PICK k \in enough : n = Cardinality(upTo(f[k]))
  BY <1>4
<1>6. Cardinality(under(f[k])) <= i
  <2>1. SUFFICES ASSUME ~(Cardinality(under(f[k])) <= i) PROVE FALSE
    OBVIOUS
  <2>0. Cardinality(under(f[k])) > i
    <3> HIDE DEF under
    <3> QED
      BY <1>1, <2>1
  <2>2. under(f[k]) # {}
    BY <2>0, FS_EmptySet
  <2>3. PICK j \in under(f[k]) : \A m \in under(f[k]) : f[m] <= f[j]
    <3>1. \A m \in under(f[k]) : f[m] \in Int
      OBVIOUS
    <3>2. IsFiniteSet(under(f[k]))
      BY <1>1
    <3> HIDE DEF under
    <3> QED
      BY <2>2, <3>1, <3>2, LargestOf
  <2>4. upTo(f[j]) = under(f[k])
    BY <2>3
  <2>5. j \in enough
    BY <2>0, <2>4
  <2>6. n <= Cardinality(upTo(f[j]))
    BY <1>4, <2>5
  <2>7. upTo(f[j]) \in SUBSET upTo(f[k]) /\ k \in upTo(f[k]) /\ k \notin upTo(f[j])
    BY <2>3
  <2>8. /\ Cardinality(upTo(f[j])) <= Cardinality(upTo(f[k]))
        /\ Cardinality(upTo(f[j])) # Cardinality(upTo(f[k]))
    BY <1>1, <2>7, FS_Subset
  <2> HIDE DEF upTo, under, enough
  <2> QED
    BY <1>1, <1>5, <2>6, <2>8
<1>7. f[k] \in {f[j] : j \in S} /\ Cardinality(under(f[k])) <= i /\ Cardinality(upTo(f[k])) > i
  BY <1>5, <1>6
<1>8. /\ Nth(S, f, i) \in {f[j] : j \in S}
      /\ Cardinality({j \in S : f[j] < Nth(S, f, i)}) <= i
      /\ Cardinality({j \in S : f[j] <= Nth(S, f, i)}) > i
  BY <1>7 DEF Nth
<1> QED
  BY <1>8

\* The n-th smallest has elements of any large enough part of the set on both its sides.
LEMMA NthOfMost ==
  ASSUME NEW S, IsFiniteSet(S), NEW f, \A k \in S : f[k] \in Int,
         NEW i \in Nat, i < Cardinality(S),
         NEW M \in SUBSET S, Cardinality(M) > i, Cardinality(M) + i >= Cardinality(S)
  PROVE  \E a, b \in M : f[a] <= Nth(S, f, i) /\ Nth(S, f, i) <= f[b]
<1> DEFINE v == Nth(S, f, i)
           upTo == {k \in S : f[k] <= v}
           under == {k \in S : f[k] < v}
<1>1. v \in Int /\ Cardinality(under) <= i /\ Cardinality(upTo) > i
  BY NthProperties
<1>2. /\ IsFiniteSet(upTo) /\ Cardinality(upTo) \in Nat
      /\ IsFiniteSet(under) /\ Cardinality(under) \in Nat
      /\ IsFiniteSet(M) /\ Cardinality(M) \in Nat /\ Cardinality(S) \in Nat
  BY FS_Subset, FS_CardinalityType
<1> HIDE DEF v
<1>3. \E a \in M : f[a] <= v
  <2>1. SUFFICES ASSUME M \cap upTo = {} PROVE FALSE
    BY <1>1
  <2>2. Cardinality(M) + Cardinality(upTo) > Cardinality(S)
    BY <1>1, <1>2
  <2>3. upTo \subseteq S
    OBVIOUS
  <2> HIDE DEF upTo
  <2> QED
    BY <2>1, <2>2, <2>3, FS_MajoritiesIntersect
<1>4. \E b \in M : v <= f[b]
  <2>1. SUFFICES ASSUME \A b \in M : f[b] < v PROVE FALSE
    BY <1>1
  <2>2. M \in SUBSET under
    BY <2>1
  <2>3. Cardinality(M) <= Cardinality(under)
    BY <1>2, <2>2, FS_Subset
  <2> QED
    BY <1>1, <1>2, <2>3
<1> QED
  BY <1>3, <1>4 DEF v

-----------------------------------------------------------------------------
(* The observations of a track.                                              *)

InOrder(observations) ==
    \A i, j \in DOMAIN observations : i <= j => observations[i].at <= observations[j].at

\* InsertAt puts an element at a place, and those from there on one place further.
LEMMA InsertAtProperties ==
  ASSUME NEW S, NEW s \in Seq(S), NEW e \in S, NEW q \in 1..Len(s) + 1
  PROVE  /\ InsertAt(s, q, e) \in Seq(S)
         /\ Len(InsertAt(s, q, e)) = Len(s) + 1
         /\ \A i \in 1..q - 1 : InsertAt(s, q, e)[i] = s[i]
         /\ InsertAt(s, q, e)[q] = e
         /\ \A i \in q..Len(s) : InsertAt(s, q, e)[i + 1] = s[i]
<1> DEFINE first == SubSeq(s, 1, q - 1)
           upToIt == first \o <<e>>
           rest == SubSeq(s, q, Len(s))
           all == upToIt \o rest
<1>1. Len(s) \in Nat /\ q \in Int /\ \A i \in 1..Len(s) : s[i] \in S
  BY LenProperties, ElementOfSeq
<1>2. /\ first \in Seq(S) /\ Len(first) = q - 1
      /\ \A i \in 1..q - 1 : first[i] = s[i]
  BY <1>1, SubSeqProperties
<1>3. /\ rest \in Seq(S) /\ Len(rest) = Len(s) - q + 1
      /\ \A i \in 1..Len(s) - q + 1 : rest[i] = s[q + i - 1]
  BY <1>1, SubSeqProperties
<1>4. <<e>> \in Seq(S) /\ Len(<<e>>) = 1 /\ <<e>>[1] = e
  OBVIOUS
<1>5. InsertAt(s, q, e) = all
  BY Zenon DEF InsertAt
<1> HIDE DEF first, rest
<1>6. /\ upToIt \in Seq(S) /\ Len(upToIt) = q
      /\ \A i \in 1..q - 1 : upToIt[i] = s[i]
      /\ upToIt[q] = e
  <2>1. /\ upToIt \in Seq(S) /\ Len(upToIt) = Len(first) + 1
        /\ \A i \in 1..Len(first) + 1 : upToIt[i] =
                IF i <= Len(first) THEN first[i] ELSE <<e>>[i - Len(first)]
    BY <1>2, <1>4, ConcatProperties
  <2> QED
    BY <1>1, <1>2, <1>4, <2>1
<1> HIDE DEF upToIt
<1>7. /\ all \in Seq(S) /\ Len(all) = Len(upToIt) + Len(rest)
      /\ \A i \in 1..Len(upToIt) + Len(rest) : all[i] =
              IF i <= Len(upToIt) THEN upToIt[i] ELSE rest[i - Len(upToIt)]
  BY <1>3, <1>6, ConcatProperties
<1> HIDE DEF all
<1>8. Len(all) = Len(s) + 1
  BY <1>1, <1>3, <1>6, <1>7
<1>9. \A i \in 1..q : all[i] = upToIt[i]
  BY <1>1, <1>3, <1>6, <1>7
<1>10. ASSUME NEW i \in q..Len(s) PROVE all[i + 1] = s[i]
  <2>1. all[i + 1] = rest[i + 1 - q] /\ i + 1 - q \in 1..Len(s) - q + 1
    BY <1>1, <1>3, <1>6, <1>7
  <2>2. q + (i + 1 - q) - 1 = i
    BY <1>1
  <2> QED
    BY <1>3, <2>1, <2>2
<1> QED
  BY <1>1, <1>5, <1>6, <1>7, <1>8, <1>9, <1>10

\* There are n numbers from 1 to n.
LEMMA FirstNumbers ==
  ASSUME NEW n \in Nat
  PROVE  IsFiniteSet(1..n) /\ Cardinality(1..n) = n
<1>1. /\ IsFiniteSet(1..n)
      /\ Cardinality(1..n) = IF 1 > n THEN 0 ELSE n - 1 + 1
  BY FS_Interval
<1> QED
  BY <1>1

\* The receptions at or before another one, of a track in order, are its first ones.
LEMMA BeforeIsFirst ==
  ASSUME NEW S, \A o \in S : o.at \in Int, NEW s \in Seq(S), InOrder(s), NEW obs \in S
  PROVE  Before(s, obs) = 1..Cardinality(Before(s, obs))
<1> DEFINE B == Before(s, obs)
<1>1. Len(s) \in Nat /\ DOMAIN s = 1..Len(s) /\ \A i \in 1..Len(s) : s[i] \in S
  BY LenProperties, ElementOfSeq
<1>2. IsFiniteSet(B)
  <2>1. B \in SUBSET (1..Len(s)) /\ IsFiniteSet(1..Len(s))
    BY <1>1, FS_Interval DEF Before
  <2> HIDE DEF B
  <2> QED
    BY <2>1, FS_Subset
<1>3. CASE B = {}
  <2>1. Cardinality(B) = 0
    BY <1>3, FS_EmptySet
  <2> QED
    BY <1>3, <2>1
<1>4. CASE B # {}
  <2>1. PICK d \in B : \A i \in B : i <= d
    <3> DEFINE f == [i \in B |-> i]
    <3>1. \A i \in B : f[i] \in Int
      BY <1>1 DEF Before
    <3>2. PICK d \in B : \A i \in B : f[i] <= f[d]
      <4> HIDE DEF f, B
      <4> QED
        BY <1>2, <1>4, <3>1, LargestOf
    <3> QED
      BY <3>2
  <2>2. d \in 1..Len(s)
    BY <1>1 DEF Before
  <2>3. B = 1..d
    <3>1. \A i \in B : i \in 1..d
      BY <1>1, <2>1, <2>2 DEF Before
    <3>2. \A i \in 1..d : i \in B
      BY <1>1, <2>1, <2>2 DEF Before, InOrder
    <3> QED
      BY <3>1, <3>2
  <2>4. Cardinality(B) = d
    <3>1. Cardinality(1..d) = d
      BY <2>2, FS_Interval
    <3> QED
      BY <2>3, <3>1
  <2> QED
    BY <2>3, <2>4
<1> QED
  BY <1>3, <1>4

\* An observation put after those at or before it and before the others keeps the order.
LEMMA InsertedInOrder ==
  ASSUME NEW S, \A o \in S : o.at \in Int,
         NEW n \in Nat, NEW s \in [1..n -> S], NEW all \in [1..n + 1 -> S], NEW p \in 0..n,
         \A i, j \in 1..n : i <= j => s[i].at <= s[j].at,
         \A i \in 1..p : all[i] = s[i] /\ s[i].at <= all[p + 1].at,
         \A i \in p + 1..n : all[i + 1] = s[i] /\ all[p + 1].at <= s[i].at
  PROVE  \A i, j \in 1..n + 1 : i <= j => all[i].at <= all[j].at
<1>1. \A i \in 1..n + 1 : all[i].at \in Int
  OBVIOUS
<1>2. \A i \in 1..n + 1 : i > p + 1 => i - 1 \in p + 1..n /\ all[i] = s[i - 1]
  <2> TAKE i \in 1..n + 1
  <2> HAVE i > p + 1
  <2>1. i - 1 \in p + 1..n /\ (i - 1) + 1 = i
    OBVIOUS
  <2> QED
    BY <2>1
<1> SUFFICES ASSUME NEW i \in 1..n + 1, NEW j \in 1..n + 1, i <= j
             PROVE  all[i].at <= all[j].at
  OBVIOUS
<1>3. CASE j <= p
  <2>1. i \in 1..p /\ j \in 1..p /\ i \in 1..n /\ j \in 1..n
    BY <1>3
  <2> QED
    BY <2>1
<1>4. CASE j = p + 1
  <2>1. CASE i = p + 1
    BY <1>1, <1>4, <2>1
  <2>2. CASE i # p + 1
    <3>1. i \in 1..p
      BY <1>4, <2>2
    <3> QED
      BY <1>4, <3>1
  <2> QED
    BY <2>1, <2>2
<1>5. CASE j > p + 1
  <2>1. j - 1 \in p + 1..n /\ all[j] = s[j - 1] /\ j - 1 \in 1..n
    BY <1>2, <1>5
  <2>2. CASE i <= p
    <3>1. i \in 1..p /\ i \in 1..n /\ i <= j - 1
      BY <1>5, <2>2
    <3> QED
      BY <2>1, <3>1
  <2>3. CASE i = p + 1
    BY <2>1, <2>3
  <2>4. CASE i > p + 1
    <3>1. i - 1 \in p + 1..n /\ all[i] = s[i - 1] /\ i - 1 \in 1..n /\ i - 1 <= j - 1
      BY <1>2, <2>4
    <3> QED
      BY <2>1, <3>1
  <2> QED
    BY <2>2, <2>3, <2>4
<1> QED
  BY <1>3, <1>4, <1>5

\* add_observation: the track stays in order and within its bound, never gets shorter,
\* and its latest reception is never replaced by an older one.
LEMMA AddedProperties ==
  ASSUME NEW S, \A o \in S : o.at \in Int, NEW s \in Seq(S), NEW obs \in S,
         limits.maxObs \in Nat \ {0}, Len(s) <= limits.maxObs
  PROVE  /\ Added(s, obs) \in Seq(S)
         /\ Len(Added(s, obs)) <= limits.maxObs
         /\ Len(Added(s, obs)) >= Len(s)
         /\ Added(s, obs) # <<>>
         /\ s # <<>> => Last(Added(s, obs)).at >= Last(s).at
         /\ InOrder(s) => InOrder(Added(s, obs))
<1> DEFINE p == Cardinality(Before(s, obs))
           all == InsertAt(s, p + 1, obs)
           m == IF Len(all) > limits.maxObs THEN Len(all) - limits.maxObs + 1 ELSE 1
           kept == SubSeq(all, m, Len(all))
<1>0. Len(s) \in Nat
  BY LenProperties
<1>1. DOMAIN s = 1..Len(s) /\ \A i \in 1..Len(s) : s[i] \in S
  BY LenProperties, ElementOfSeq
<1>2. /\ IsFiniteSet(1..Len(s)) /\ Cardinality(1..Len(s)) = Len(s)
      /\ Before(s, obs) \in SUBSET (1..Len(s))
  <2>1. Before(s, obs) \in SUBSET (1..Len(s))
    BY <1>1 DEF Before
  <2>2. IsFiniteSet(1..Len(s)) /\ Cardinality(1..Len(s)) = Len(s)
    BY <1>0, FirstNumbers
  <2> QED
    BY <2>1, <2>2
<1>3. /\ p \in 0..Len(s)
      /\ p = Len(s) => Before(s, obs) = 1..Len(s)
  BY <1>0, <1>1, <1>2, FS_Subset, FS_CardinalityType
<1>4. Added(s, obs) = kept
  BY DEF Added
<1> HIDE DEF p
<1>5. /\ all \in Seq(S) /\ Len(all) = Len(s) + 1
      /\ \A i \in 1..p : all[i] = s[i]
      /\ all[p + 1] = obs
      /\ \A i \in p + 1..Len(s) : all[i + 1] = s[i]
  <2>1. PICK q \in 1..Len(s) + 1 : q = p + 1 /\ q - 1 = p
    BY <1>0, <1>3
  <2>2. /\ InsertAt(s, q, obs) \in Seq(S) /\ Len(InsertAt(s, q, obs)) = Len(s) + 1
        /\ \A i \in 1..q - 1 : InsertAt(s, q, obs)[i] = s[i]
        /\ InsertAt(s, q, obs)[q] = obs
        /\ \A i \in q..Len(s) : InsertAt(s, q, obs)[i + 1] = s[i]
    BY InsertAtProperties
  <2> QED
    BY <2>1, <2>2
<1> HIDE DEF all
<1>6. m \in 1..Len(all) /\ Len(all) - m + 1 <= limits.maxObs /\ Len(all) - m + 1 >= Len(s)
  BY <1>0, <1>1, <1>5
<1> HIDE DEF m
<1>7. \A i \in 1..Len(all) : all[i] \in S
  BY <1>5, ElementOfSeq
<1>8. /\ kept \in Seq(S) /\ Len(kept) = Len(all) - m + 1
      /\ \A i \in 1..Len(all) - m + 1 : kept[i] = all[m + i - 1]
  BY <1>0, <1>1, <1>5, <1>6, <1>7, SubSeqProperties
<1> HIDE DEF kept
<1>9. Len(kept) \in Nat \ {0} /\ kept # <<>> /\ DOMAIN kept = 1..Len(kept)
  BY <1>0, <1>1, <1>5, <1>6, <1>8, LenProperties
<1>10. ASSUME s # <<>> PROVE Last(kept).at >= Last(s).at
  <2>1. Len(s) \in 1..Len(s) /\ Last(s) = s[Len(s)] /\ Last(kept) = kept[Len(kept)]
    BY <1>0, <1>1, <1>10, EmptySeq DEF Last
  <2>2. kept[Len(kept)] = all[Len(s) + 1]
    BY <1>0, <1>1, <1>5, <1>6, <1>8, <1>9
  <2>3. CASE p = Len(s)
    <3>1. Len(s) \in Before(s, obs)
      BY <1>3, <2>1, <2>3
    <3>2. s[Len(s)].at <= obs.at
      BY <3>1 DEF Before
    <3>3. all[Len(s) + 1] = obs
      BY <1>0, <1>1, <1>5, <2>3
    <3> QED
      BY <1>0, <1>1, <2>1, <2>2, <3>2, <3>3
  <2>4. CASE p # Len(s)
    <3>1. all[Len(s) + 1] = s[Len(s)]
      <4>1. Len(s) \in p + 1..Len(s)
        BY <1>0, <1>3, <2>4, <2>1
      <4> QED
        BY <1>5, <4>1
    <3> QED
      BY <1>0, <1>1, <2>1, <2>2, <3>1
  <2> QED
    BY <2>3, <2>4
<1>11. ASSUME InOrder(s) PROVE InOrder(kept)
  <2>1. \A i \in 1..Len(s) : s[i].at <= obs.at <=> i <= p
    <3>1. Before(s, obs) = 1..p
      BY <1>11, BeforeIsFirst DEF p
    <3>2. \A i \in 1..Len(s) : i \in Before(s, obs) <=> s[i].at <= obs.at
      BY <1>1 DEF Before
    <3> QED
      BY <1>3, <3>1, <3>2
  <2>2. \A i, j \in 1..Len(s) : i <= j => s[i].at <= s[j].at
    BY <1>0, <1>1, <1>11 DEF InOrder
  <2>3. \A i, j \in 1..Len(s) + 1 : i <= j => all[i].at <= all[j].at
    <3>1. s \in [1..Len(s) -> S] /\ all \in [1..Len(s) + 1 -> S]
      BY <1>5, LenProperties
    <3>2. \A i \in 1..p : s[i].at <= obs.at
      BY <1>0, <1>3, <2>1
    <3>3. \A i \in p + 1..Len(s) : obs.at <= s[i].at
      <4> TAKE i \in p + 1..Len(s)
      <4>1. i \in 1..Len(s) /\ ~(i <= p)
        BY <1>0, <1>3
      <4> QED
        BY <1>1, <2>1, <4>1
    <3> QED
      BY <1>0, <1>3, <1>5, <2>2, <3>1, <3>2, <3>3, InsertedInOrder
  <2>4. \A i \in DOMAIN kept : kept[i] = all[m + i - 1] /\ m + i - 1 \in 1..Len(s) + 1
    <3> TAKE i \in DOMAIN kept
    <3>1. i \in 1..Len(all) - m + 1
      BY <1>8, <1>9
    <3>2. Len(all) \in Nat /\ Len(all) = Len(s) + 1
      BY <1>0, <1>5
    <3>3. m + i - 1 \in 1..Len(all)
      BY <1>6, <3>1, <3>2
    <3> QED
      BY <1>8, <3>1, <3>2, <3>3
  <2>5. SUFFICES ASSUME NEW i \in DOMAIN kept, NEW j \in DOMAIN kept, i <= j
                 PROVE  kept[i].at <= kept[j].at
    BY DEF InOrder
  <2>6. m + i - 1 <= m + j - 1
    <3>1. m \in Int /\ i \in Int /\ j \in Int
      BY <1>6, <1>9
    <3> QED
      BY <2>5, <3>1
  <2> QED
    BY <2>3, <2>4, <2>6
<1> QED
  BY <1>4, <1>5, <1>6, <1>8, <1>9, <1>10, <1>11

-----------------------------------------------------------------------------
(* Medians.                                                                  *)

\* _median_int lies between two of the numbers.
LEMMA MedianIntBetween ==
  ASSUME NEW S, IsFiniteSet(S), S # {}, NEW f, \A k \in S : f[k] \in Int
  PROVE  /\ MedianInt(S, f) \in Int
         /\ \E a, b \in S : f[a] <= MedianInt(S, f) /\ MedianInt(S, f) <= f[b]
<1> DEFINE n == Cardinality(S)
<1>1. n \in Nat \ {0}
  BY FS_CardinalityType, FS_EmptySet
<1> HIDE DEF n
<1>2. \A i \in Nat : i < n => \E k \in S : f[k] = Nth(S, f, i)
  BY NthProperties DEF n
<1>3. CASE n % 2 = 1
  <2>1. n \div 2 \in Nat /\ n \div 2 < n
    BY <1>1
  <2>2. MedianInt(S, f) = Nth(S, f, n \div 2)
    BY <1>3 DEF MedianInt, n
  <2> QED
    BY <1>2, <2>1, <2>2
<1>4. CASE n % 2 # 1
  <2>1. n \div 2 \in Nat /\ n \div 2 < n /\ n \div 2 - 1 \in Nat /\ n \div 2 - 1 < n
    BY <1>1, <1>4
  <2>2. PICK k \in S : f[k] = Nth(S, f, n \div 2)
    BY <1>2, <2>1
  <2>3. PICK j \in S : f[j] = Nth(S, f, n \div 2 - 1)
    BY <1>2, <2>1
  <2>4. MedianInt(S, f) = (f[j] + f[k]) \div 2
    BY <1>4, <2>2, <2>3 DEF MedianInt, n
  <2>5. \A x, y \in Int : (x + y) \div 2 \in Int
          /\ (x <= y => x <= (x + y) \div 2 /\ (x + y) \div 2 <= y)
          /\ (y <= x => y <= (x + y) \div 2 /\ (x + y) \div 2 <= x)
    OBVIOUS
  <2>6. f[j] \in Int /\ f[k] \in Int
    OBVIOUS
  <2>7. CASE f[j] <= f[k]
    BY <2>4, <2>5, <2>6, <2>7
  <2>8. CASE f[k] <= f[j]
    BY <2>4, <2>5, <2>6, <2>8
  <2> QED
    BY <2>6, <2>7, <2>8
<1> QED
  BY <1>3, <1>4

\* In half minutes, the median of minutes is within two of any of a majority that is
\* within a minute of each other.
LEMMA MedianOfMajority ==
  ASSUME NEW S, IsFiniteSet(S), \A k \in S : Anchor(k).offset \in Int,
         NEW M \in SUBSET S, 2 * Cardinality(M) > Cardinality(S),
         \A j, k \in M : Abs(Anchor(j).offset - Anchor(k).offset) <= 1
  PROVE  \A k \in M : Deviation(S, k) \in Int /\ Deviation(S, k) <= 2
<1> DEFINE n == Cardinality(S)
           h == n \div 2
           f == [k \in S |-> Anchor(k).offset]
<1>1. /\ IsFiniteSet(M) /\ Cardinality(M) \in Nat /\ n \in Nat
      /\ 2 * Cardinality(M) > n /\ Cardinality(M) <= n
  BY FS_Subset, FS_CardinalityType
<1> HIDE DEF n
<1>2. \A k \in S : f[k] \in Int
  OBVIOUS
<1>3. \A k \in M : k \in S /\ f[k] = Anchor(k).offset
  OBVIOUS
<1> HIDE DEF f
<1>4. ASSUME NEW i \in Nat, i < n, Cardinality(M) > i, Cardinality(M) + i >= n
      PROVE  /\ Nth(S, f, i) \in Int
             /\ \A k \in M : f[k] - 1 <= Nth(S, f, i) /\ Nth(S, f, i) <= f[k] + 1
  <2>1. PICK a \in M, b \in M : f[a] <= Nth(S, f, i) /\ Nth(S, f, i) <= f[b]
    BY <1>2, <1>4, NthOfMost DEF n
  <2>2. Nth(S, f, i) \in Int
    BY <1>2, <1>4, NthProperties DEF n
  <2>3. \A j, k \in M : f[j] <= f[k] + 1
    BY <1>2, <1>3 DEF Abs
  <2>4. ASSUME NEW k \in M PROVE f[k] - 1 <= Nth(S, f, i) /\ Nth(S, f, i) <= f[k] + 1
    <3>1. f[k] \in Int /\ f[a] \in Int /\ f[b] \in Int
      BY <1>2, <1>3
    <3>2. f[k] <= f[a] + 1 /\ f[b] <= f[k] + 1
      BY <2>3
    <3> QED
      BY <2>1, <2>2, <3>1, <3>2
  <2> QED
    BY <2>2, <2>4
<1>5. h \in Nat /\ h < n /\ Cardinality(M) > h /\ Cardinality(M) + h >= n
  BY <1>1
<1>6. /\ Nth(S, f, h) \in Int
      /\ \A k \in M : f[k] - 1 <= Nth(S, f, h) /\ Nth(S, f, h) <= f[k] + 1
  BY <1>4, <1>5
<1>7. Median(S) = IF n % 2 = 1 THEN 2 * Nth(S, f, h) ELSE Nth(S, f, h - 1) + Nth(S, f, h)
  BY DEF Median, n, f
<1>8. Median(S) \in Int /\ \A k \in M : 2 * f[k] - 2 <= Median(S) /\ Median(S) <= 2 * f[k] + 2
  <2>1. CASE n % 2 = 1
    <3>1. Median(S) = 2 * Nth(S, f, h)
      BY <1>7, <2>1
    <3> HIDE DEF h
    <3> QED
      BY <1>2, <1>3, <1>6, <3>1
  <2>2. CASE n % 2 # 1
    <3>1. h - 1 \in Nat /\ h - 1 < n /\ Cardinality(M) > h - 1 /\ Cardinality(M) + (h - 1) >= n
      BY <1>1, <2>2
    <3>2. /\ Nth(S, f, h - 1) \in Int
          /\ \A k \in M : f[k] - 1 <= Nth(S, f, h - 1) /\ Nth(S, f, h - 1) <= f[k] + 1
      BY <1>4, <3>1
    <3>3. Median(S) = Nth(S, f, h - 1) + Nth(S, f, h)
      BY <1>7, <2>2
    <3> HIDE DEF h
    <3> QED
      BY <1>2, <1>3, <1>6, <3>2, <3>3
  <2> QED
    BY <2>1, <2>2
<1>9. ASSUME NEW k \in M PROVE Deviation(S, k) \in Int /\ Deviation(S, k) <= 2
  <2>1. Deviation(S, k) = Abs(2 * f[k] - Median(S)) /\ f[k] \in Int
    BY <1>2, <1>3 DEF Deviation
  <2> QED
    BY <1>8, <2>1 DEF Abs
<1> QED
  BY <1>9

-----------------------------------------------------------------------------
(* Tracks and votes.                                                         *)

\* What a bound says of the values that occur.
LEMMA Bounds ==
  ASSUME TypeOK
  PROVE  /\ IsFiniteSet(limits.channels) /\ IsFiniteSet(limits.receivers) /\ IsFiniteSet(Keys)
         /\ limits.offsets \subseteq Int /\ limits.late \subseteq Int
         /\ limits.maxObs \in Nat \ {0}
         /\ \A extent \in Extents : limits[extent] \in Nat
<1>1. /\ limits.channels \in SUBSET Channels /\ limits.receivers \in SUBSET Receivers
      /\ limits.pis \in SUBSET PIs
      /\ limits.offsets \subseteq Int /\ limits.late \subseteq Int
      /\ limits.maxObs \in Nat \ {0} /\ \A extent \in Extents : limits[extent] \in Nat
  BY LimitsAssumption DEF TypeOK
<1>2. /\ IsFiniteSet(limits.channels) /\ IsFiniteSet(limits.receivers)
      /\ IsFiniteSet(limits.pis)
  BY <1>1, NamesAssumption, FS_Subset
<1>3. IsFiniteSet(Keys)
  <2> DEFINE pairs == limits.channels \X (limits.pis \cup {NoPI})
             key == [p \in pairs |-> [channel |-> p[1], pi |-> p[2]]]
  <2>1. IsFiniteSet(limits.pis \cup {NoPI})
    BY <1>2, FS_AddElement
  <2>2. IsFiniteSet(pairs)
    BY <1>2, <2>1, FS_Product
  <2>3. \A k \in Keys : <<k.channel, k.pi>> \in pairs /\ key[<<k.channel, k.pi>>] = k
    BY DEF Keys
  <2>4. key \in [pairs -> Keys]
    BY DEF Keys
  <2>5. key \in Surjection(pairs, Keys)
    BY <2>3, <2>4 DEF Surjection
  <2> QED
    BY <2>2, <2>5, FS_Surjection
<1> QED
  BY <1>1, <1>2, <1>3

\* The observations of a track are observations, and a known track has a last one.
LEMMA TrackProperties ==
  ASSUME TypeOK, NEW k \in Keys
  PROVE  /\ tracks[k] \in StationTracks
         /\ tracks[k].observations \in Seq(Observations)
         /\ Len(tracks[k].observations) \in Nat
         /\ DOMAIN tracks[k].observations = 1..Len(tracks[k].observations)
         /\ \A i \in DOMAIN tracks[k].observations : tracks[k].observations[i] \in Observations
         /\ Known(k) <=> Len(tracks[k].observations) > 0
         /\ Known(k) => Anchor(k) \in Observations /\ Age(k) \in Int
<1>1. tracks[k] \in StationTracks /\ tracks[k].observations \in Seq(Observations)
  BY DEF TypeOK, StationTracks
<1> DEFINE s == tracks[k].observations
<1>2. /\ Len(s) \in Nat /\ DOMAIN s = 1..Len(s)
      /\ \A i \in 1..Len(s) : s[i] \in Observations
  BY <1>1, LenProperties, ElementOfSeq
<1>3. Known(k) <=> Len(s) > 0
  BY <1>1, <1>2, EmptySeq DEF Known
<1>4. ASSUME Known(k) PROVE Anchor(k) \in Observations /\ Age(k) \in Int
  <2>1. Len(s) \in 1..Len(s)
    BY <1>2, <1>3, <1>4
  <2>2. Anchor(k) \in Observations
    BY <1>2, <2>1 DEF Anchor, Last
  <2>3. Anchor(k).at \in Int /\ now \in Int
    BY <2>2, Bounds DEF Observations, TypeOK
  <2> QED
    BY <2>2, <2>3 DEF Age
<1> QED
  BY <1>1, <1>2, <1>3, <1>4

\* An observation's numbers.
LEMMA ObservationProperties ==
  ASSUME TypeOK, NEW o \in Observations
  PROVE  o.at \in Int /\ o.offset \in Int /\ o.late \in Int /\ o.late \in limits.late
  BY Bounds DEF Observations

\* The latest reception of a track by a receiver that has one is one of that receiver.
LEMMA LatestByProperties ==
  ASSUME TypeOK, NEW r, NEW k \in Keys, HeardBy(r, k) # {}
  PROVE  /\ LatestBy(r, k) \in Int
         /\ \E i \in HeardBy(r, k) : LatestBy(r, k) = tracks[k].observations[i].at
<1> DEFINE heard == HeardBy(r, k)
           f == [i \in heard |-> i]
           s == tracks[k].observations
<1>1. Len(s) \in Nat /\ DOMAIN s = 1..Len(s) /\ \A i \in DOMAIN s : s[i] \in Observations
  BY TrackProperties
<1>2. heard \in SUBSET (1..Len(s)) /\ IsFiniteSet(heard)
  <2>1. heard \in SUBSET (1..Len(s))
    BY <1>1 DEF HeardBy
  <2> HIDE DEF heard
  <2> QED
    BY <1>1, <2>1, FirstNumbers, FS_Subset
<1>3. \E i \in heard : \A j \in heard : j <= i
  <2>1. \A i \in heard : f[i] \in Int
    BY <1>2
  <2>2. \E i \in heard : \A j \in heard : f[j] <= f[i]
    <3> HIDE DEF heard, f
    <3> QED
      BY <1>2, <2>1, LargestOf DEF heard
  <2> QED
    BY <2>2
<1>4. PICK i \in heard : LatestBy(r, k) = s[i].at
  <2> HIDE DEF heard
  <2>1. LatestBy(r, k) = s[CHOOSE i \in heard : \A j \in heard : j <= i].at
    BY DEF LatestBy, heard
  <2> QED
    BY <1>3, <2>1
<1>5. s[i] \in Observations
  BY <1>1, <1>2
<1> QED
  BY <1>4, <1>5, ObservationProperties

\* A receiver's vote is one of the tracks that it can vote for.
LEMMA VoteProperties ==
  ASSUME TypeOK, NEW r, NEW c, Candidates(r, c) # {}
  PROVE  Vote(r, c) \in Candidates(r, c)
<1> DEFINE f == [k \in Candidates(r, c) |-> LatestBy(r, k)]
<1>1. Candidates(r, c) \in SUBSET Keys
  BY DEF Candidates, ActiveTracks
<1>2. IsFiniteSet(Candidates(r, c))
  BY <1>1, Bounds, FS_Subset
<1>3. \A k \in Candidates(r, c) : f[k] \in Int /\ f[k] = LatestBy(r, k)
  BY <1>1, LatestByProperties DEF Candidates
<1> HIDE DEF f
<1>4. \E k \in Candidates(r, c) : \A j \in Candidates(r, c) : f[j] <= f[k]
  BY <1>2, <1>3, LargestOf
<1> QED
  BY <1>3, <1>4 DEF Vote

\* A selection: votes of receivers, at most one of a known programme.
LEMMA SelectionProperties ==
  ASSUME TypeOK, NEW S \in Selections
  PROVE  /\ S \subseteq Keys /\ IsFiniteSet(S)
         /\ \A k \in S : Known(k)
         /\ \A k \in S : \E r \in limits.receivers : 
                Candidates(r, k.channel) # {} /\ k = Vote(r, k.channel)
         /\ \A j, k \in S : j.pi # NoPI /\ j.pi = k.pi => j = k
<1>1. S \in SUBSET Kept
  BY DEF Selections
<1>2. ASSUME NEW k \in S
      PROVE  /\ k \in Keys /\ Known(k)
             /\ \E r \in limits.receivers : Candidates(r, k.channel) # {} /\ k = Vote(r, k.channel)
  <2>1. PICK r \in limits.receivers, c \in limits.channels :
            Candidates(r, c) # {} /\ k = Vote(r, c)
    BY <1>1 DEF Kept, Listening
  <2>2. k \in Candidates(r, c)
    BY <2>1, VoteProperties
  <2> QED
    BY <2>1, <2>2 DEF Candidates, ActiveTracks
<1>3. IsFiniteSet(S)
  BY <1>2, Bounds, FS_Subset
<1>4. \A j, k \in S : j.pi # NoPI /\ j.pi = k.pi => j = k
  BY DEF Selections
<1> QED
  BY <1>2, <1>3, <1>4

\* A learned latency is a part of a minute, and lies between the phases of two receptions.
LEMMA LearnedProperties ==
  ASSUME TypeOK, NEW k \in Keys
  PROVE  /\ Learned(k) \in 0..Minute - 1 \cup {NoLatency}
         /\ Len(tracks[k].observations) < 3 => Learned(k) = tracks[k].latency
         /\ Len(tracks[k].observations) >= 3 =>
                /\ Learned(k) \in 0..Minute - 1
                /\ \E i \in DOMAIN tracks[k].observations :
                        Learned(k) <= Phase(tracks[k].observations[i])
<1> DEFINE s == tracks[k].observations
           f == [i \in DOMAIN s |-> Phase(s[i])]
<1>1. /\ Len(s) \in Nat /\ DOMAIN s = 1..Len(s)
      /\ \A i \in DOMAIN s : s[i] \in Observations
      /\ tracks[k] \in StationTracks
  BY TrackProperties
<1>2. CASE Len(s) < 3
  BY <1>1, <1>2 DEF Learned, StationTracks
<1>3. CASE Len(s) >= 3
  <2>1. IsFiniteSet(DOMAIN s) /\ DOMAIN s # {}
    <3>1. 1 \in 1..Len(s)
      BY <1>1, <1>3
    <3> QED
      BY <1>1, <3>1, FirstNumbers
  <2>2. \A i \in DOMAIN s : f[i] \in 0..Minute - 1 /\ f[i] = Phase(s[i])
    <3>1. \A x \in Int : x % 60 \in 0..60 - 1
      OBVIOUS
    <3>2. \A i \in DOMAIN s : Phase(s[i]) \in 0..Minute - 1
      BY <1>1, <3>1, ObservationProperties DEF Phase, Minute
    <3> QED
      BY <3>2
  <2>3. Learned(k) = MedianInt(DOMAIN s, f)
    BY <1>1, <1>3 DEF Learned
  <2>4. \A i \in DOMAIN s : f[i] \in Int
    BY <2>2 DEF Minute
  <2> HIDE DEF f
  <2>5. PICK a \in DOMAIN s, b \in DOMAIN s :
            /\ Learned(k) \in Int
            /\ f[a] <= Learned(k) /\ Learned(k) <= f[b]
    BY <2>1, <2>3, <2>4, MedianIntBetween
  <2>6. f[a] \in 0..Minute - 1 /\ f[b] \in 0..Minute - 1 /\ f[b] = Phase(s[b])
    BY <2>2
  <2>7. Learned(k) \in 0..Minute - 1 /\ Learned(k) <= Phase(s[b])
    BY <2>5, <2>6 DEF Minute
  <2> QED
    BY <1>1, <1>3, <2>7
<1> QED
  BY <1>1, <1>2, <1>3

-----------------------------------------------------------------------------
(* The inductive invariant.                                                  *)

\* Tracks that start empty are in order, and no latency is known.
LEMMA InitInv == Init => Inv
<1> SUFFICES ASSUME Init PROVE Inv
  OBVIOUS
<1> DEFINE empty == [observations |-> <<>>, trust |-> NeutralTrust, outliers |-> 0,
                     status |-> "none", latency |-> NoLatency]
<1>1. limits \in Limits /\ \A extent \in Extents : limits[extent] \in Nat
  BY LimitsAssumption DEF Init
<1>2. /\ limits.maxNow \in Nat /\ limits.maxReports \in Nat
      /\ limits.maxEvaluations \in Nat /\ limits.maxPrecise \in Nat
      /\ limits.maxObs \in Nat \ {0}
  BY <1>1, LimitsAssumption DEF Extents
<1>3. tracks = [k \in Keys |-> empty]
  BY DEF Init
<1>4. empty \in StationTracks
  <2>1. <<>> \in Seq(Observations) /\ evaluations = 0
    BY EmptySeq DEF Init
  <2> QED
    BY <2>1 DEF StationTracks, Statuses, FullTrust, NeutralTrust, NoLatency
<1>5. \A k \in Keys : tracks[k] = empty /\ tracks[k].observations = <<>>
  BY <1>3
<1>6. Len(<<>>) = 0 /\ DOMAIN <<>> = {}
  OBVIOUS
<1>7. TypeOK
  <2>1. tracks \in [Keys -> StationTracks]
    BY <1>3, <1>4
  <2>2. \A k \in Keys : Len(tracks[k].observations) <= limits.maxObs
    BY <1>2, <1>5, <1>6
  <2> QED
    BY <1>1, <1>2, <2>1, <2>2 DEF TypeOK, Init, EmptyResult, NoEstimate
<1>8. ObservationsInOrder
  BY <1>5, <1>6 DEF ObservationsInOrder
<1>9. LatenciesAreLearned
  BY <1>5 DEF LatenciesAreLearned
<1> QED
  BY <1>7, <1>8, <1>9 DEF Inv

\* A report changes one track, and no latency.
LEMMA RecordInv ==
  ASSUME Inv, NEW k \in Keys, NEW r \in limits.receivers, NEW at \in 0..limits.maxNow,
         NEW offset \in limits.offsets, NEW late \in limits.late,
         Record(k, r, at, offset, late)
  PROVE  /\ Inv'
         /\ \A q \in Keys : Known(q) => Known(q)' /\ Anchor(q)'.at >= Anchor(q).at
<1> DEFINE obs == [at |-> at, offset |-> offset, late |-> late, receiver |-> r]
           s == tracks[k].observations
           t == Added(s, obs)
<1>1. TypeOK /\ ObservationsInOrder /\ LatenciesAreLearned
  BY DEF Inv
<1>2. obs \in Observations
  BY DEF Observations
<1>3. /\ limits.maxObs \in Nat \ {0} /\ \A o \in Observations : o.at \in Int
      /\ s \in Seq(Observations) /\ Len(s) \in Nat /\ Len(s) <= limits.maxObs /\ InOrder(s)
  BY <1>1, Bounds, ObservationProperties, TrackProperties DEF TypeOK, ObservationsInOrder, InOrder
<1>4. /\ t \in Seq(Observations) /\ Len(t) <= limits.maxObs /\ Len(t) >= Len(s)
      /\ t # <<>> /\ (s # <<>> => Last(t).at >= Last(s).at) /\ InOrder(t)
  BY <1>2, <1>3, AddedProperties
<1>5. UNCHANGED <<now, result, precise, evaluations, precises, limits>>
  BY DEF Record
<1>6. UNCHANGED <<Keys, Observations, StationTracks>>
  BY <1>5 DEF Keys, Observations, StationTracks
<1>7. reports' \in 0..limits.maxReports
  <2>1. limits.maxReports \in Nat
    BY <1>1, Bounds DEF Extents
  <2> QED
    BY <1>1, <2>1 DEF Record, TypeOK
<1>8. tracks' = [tracks EXCEPT ![k] = [tracks[k] EXCEPT !.observations = t]]
  BY <1>1 DEF Record, TypeOK
<1> HIDE DEF t
<1>9. /\ tracks' \in [Keys -> StationTracks]
      /\ tracks'[k].observations = t /\ tracks'[k].latency = tracks[k].latency
      /\ \A q \in Keys \ {k} : tracks'[q] = tracks[q]
  <2>1. tracks \in [Keys -> StationTracks]
    BY <1>1 DEF TypeOK
  <2>2. [tracks[k] EXCEPT !.observations = t] \in StationTracks
    BY <1>4, <2>1 DEF StationTracks
  <2>3. /\ [tracks[k] EXCEPT !.observations = t].observations = t
        /\ [tracks[k] EXCEPT !.observations = t].latency = tracks[k].latency
    BY <2>1 DEF StationTracks
  <2> QED
    BY <1>8, <2>1, <2>2, <2>3
<1>10. TypeOK'
  <2>1. \A q \in Keys : Len(tracks'[q].observations) <= limits.maxObs
    BY <1>1, <1>4, <1>9 DEF TypeOK
  <2> QED
    BY <1>1, <1>5, <1>6, <1>7, <1>9, <2>1 DEF TypeOK
<1>11. ObservationsInOrder'
  <2>1. ASSUME NEW q \in Keys
        PROVE  \A i, j \in DOMAIN tracks'[q].observations :
                   i <= j => tracks'[q].observations[i].at <= tracks'[q].observations[j].at
    <3>1. CASE q = k
      BY <1>4, <1>9, <3>1 DEF InOrder
    <3>2. CASE q # k
      BY <1>1, <1>9, <3>2 DEF ObservationsInOrder
    <3> QED
      BY <3>1, <3>2
  <2> QED
    BY <1>6, <2>1 DEF ObservationsInOrder
<1>12. LatenciesAreLearned'
  <2>1. ASSUME NEW q \in Keys, tracks'[q].latency # NoLatency
        PROVE  Len(tracks'[q].observations) >= 3
    <3>1. CASE q = k
      <4>1. Len(s) >= 3 /\ Len(t) \in Nat
        BY <1>1, <1>4, <1>9, <2>1, <3>1, LenProperties DEF LatenciesAreLearned
      <4> QED
        BY <1>3, <1>4, <1>9, <3>1, <4>1
    <3>2. CASE q # k
      BY <1>1, <1>9, <2>1, <3>2 DEF LatenciesAreLearned
    <3> QED
      BY <3>1, <3>2
  <2> QED
    BY <1>6, <2>1 DEF LatenciesAreLearned, NoLatency
<1>13. ASSUME NEW q \in Keys, Known(q) PROVE Known(q)' /\ Anchor(q)'.at >= Anchor(q).at
  <2>1. CASE q = k
    <3>1. Known(q)' <=> t # <<>>
      BY <1>9, <2>1 DEF Known
    <3>2. Anchor(q)' = Last(t) /\ Anchor(q) = Last(s)
      BY <1>9, <2>1 DEF Anchor
    <3> QED
      BY <1>4, <1>13, <2>1, <3>1, <3>2 DEF Known
  <2>2. CASE q # k
    <3>1. Known(q)' /\ Anchor(q)' = Anchor(q)
      BY <1>9, <1>13, <2>2 DEF Known, Anchor
    <3>2. Anchor(q).at \in Int
      BY <1>1, <1>13, TrackProperties, ObservationProperties
    <3> QED
      BY <3>1, <3>2
  <2> QED
    BY <2>1, <2>2
<1> QED
  BY <1>10, <1>11, <1>12, <1>13 DEF Inv

\* A step that leaves the observations alone keeps their order, the latest of each track,
\* and the latencies that are learned.
LEMMA SameObservations ==
  ASSUME Inv, UNCHANGED limits,
         \A k \in Keys : /\ tracks'[k].observations = tracks[k].observations
                         /\ tracks'[k].latency \in {tracks[k].latency, Learned(k)}
  PROVE  /\ ObservationsInOrder' /\ LatenciesAreLearned'
         /\ \A k \in Keys : Known(k) => Known(k)' /\ Anchor(k)'.at >= Anchor(k).at
         /\ \A k \in Keys : Len(tracks'[k].observations) <= limits.maxObs
<1>1. TypeOK /\ ObservationsInOrder /\ LatenciesAreLearned
  BY DEF Inv
<1>2. UNCHANGED Keys
  BY DEF Keys
<1>3. ObservationsInOrder'
  BY <1>1, <1>2 DEF ObservationsInOrder
<1>4. LatenciesAreLearned'
  <2>1. ASSUME NEW k \in Keys, tracks'[k].latency # NoLatency
        PROVE  Len(tracks[k].observations) >= 3
    <3>1. CASE Len(tracks[k].observations) < 3
      <4>1. tracks'[k].latency = tracks[k].latency
        BY <1>1, <3>1, LearnedProperties
      <4> QED
        BY <1>1, <2>1, <4>1 DEF LatenciesAreLearned
    <3>2. CASE ~(Len(tracks[k].observations) < 3)
      BY <1>1, <3>2, TrackProperties
    <3> QED
      BY <3>1, <3>2
  <2> QED
    BY <1>2, <2>1 DEF LatenciesAreLearned, NoLatency
<1>5. ASSUME NEW k \in Keys, Known(k) PROVE Known(k)' /\ Anchor(k)'.at >= Anchor(k).at
  <2>1. Known(k)' /\ Anchor(k)' = Anchor(k)
    BY <1>5 DEF Known, Anchor
  <2>2. Anchor(k).at \in Int
    BY <1>1, <1>5, TrackProperties, ObservationProperties
  <2> QED
    BY <2>1, <2>2
<1>6. \A k \in Keys : Len(tracks'[k].observations) <= limits.maxObs
  BY <1>1 DEF TypeOK
<1> QED
  BY <1>3, <1>4, <1>5, <1>6

\* What an evaluation does with its selection.
LEMMA EvaluateProperties ==
  ASSUME Inv, Evaluate
  PROVE  /\ Inv'
         /\ \A k \in Keys : Known(k) => Known(k)' /\ Anchor(k)'.at >= Anchor(k).at
         /\ \E S \in Selections :
                /\ result' = [contributing |-> Contributing(S),
                              outlying |-> S \ Contributing(S), level |-> TrustLevel(S)]
                /\ Voters' = S
                /\ S = {k \in Keys : tracks'[k].status # "none"}
<1>1. TypeOK /\ ObservationsInOrder /\ LatenciesAreLearned
  BY DEF Inv
<1> DEFINE C(S) == Contributing(S)
           status(S) == [k \in Keys |-> IF k \in C(S) THEN "contributing"
                                       ELSE IF k \in S THEN "outlier" ELSE "none"]
<1>2. PICK S \in Selections :
        /\ tracks' = [k \in Keys |-> Classified(tracks[k], status(S)[k])]
        /\ result' = [contributing |-> C(S), outlying |-> S \ C(S), level |-> TrustLevel(S)]
  BY Zenon DEF Evaluate
<1>3. UNCHANGED <<now, precise, reports, precises, limits>> /\ evaluations' = evaluations + 1
  BY DEF Evaluate
<1>4. S \subseteq Keys /\ C(S) \subseteq S
  BY <1>1, SelectionProperties DEF Contributing
<1>5. UNCHANGED <<Keys, Observations>>
  BY <1>3 DEF Keys, Observations
<1>6. /\ limits.maxEvaluations \in Nat /\ evaluations \in Nat
      /\ evaluations' \in 0..limits.maxEvaluations
  <2>1. limits.maxEvaluations \in Nat
    BY <1>1, Bounds DEF Extents
  <2> QED
    BY <1>1, <2>1 DEF Evaluate, TypeOK
<1>7. ASSUME NEW k \in Keys
      PROVE  /\ tracks'[k] \in StationTracks'
             /\ tracks'[k].observations = tracks[k].observations
             /\ tracks'[k].latency = tracks[k].latency
             /\ tracks'[k].status = status(S)[k]
  <2>1. tracks[k] \in StationTracks
    BY <1>1, TrackProperties
  <2>2. tracks'[k] = Classified(tracks[k], status(S)[k]) /\ status(S)[k] \in Statuses
    BY <1>2 DEF Statuses
  <2>3. \A n \in 0..evaluations :
            n \in 0..evaluations' /\ n + 1 \in 0..evaluations' /\ 0 \in 0..evaluations'
    BY <1>3, <1>6
  <2>4. \A x \in 0..FullTrust :
          /\ (IF x < OutlierPenalty THEN 0 ELSE x - OutlierPenalty) \in 0..FullTrust
          /\ (IF x + AgreementBonus > FullTrust THEN FullTrust ELSE x + AgreementBonus) \in 0..FullTrust
    BY DEF FullTrust, OutlierPenalty, AgreementBonus
  <2> HIDE DEF status
  <2> QED
    BY <1>5, <2>1, <2>2, <2>3, <2>4 DEF Classified, StatusReset, StationTracks, Statuses
<1>8. /\ tracks' \in [Keys -> StationTracks']
      /\ S = {k \in Keys : tracks'[k].status # "none"}
  <2>1. \A k \in Keys : tracks'[k].status # "none" <=> k \in S
    BY <1>4, <1>7
  <2>2. DOMAIN tracks' = Keys /\ tracks' = [k \in Keys |-> tracks'[k]]
    BY <1>2
  <2> QED
    BY <1>4, <1>7, <2>1, <2>2
<1>9. /\ ObservationsInOrder' /\ LatenciesAreLearned'
      /\ \A k \in Keys : Known(k) => Known(k)' /\ Anchor(k)'.at >= Anchor(k).at
      /\ \A k \in Keys : Len(tracks'[k].observations) <= limits.maxObs
  BY <1>3, <1>7, SameObservations
<1>10. TypeOK'
  <2>1. TrustLevel(S) \in {"HIGH", "MEDIUM", "LOW", "STALE"}
    BY DEF TrustLevel
  <2> HIDE DEF C, status
  <2>2. /\ result'.contributing \subseteq Keys /\ result'.outlying \subseteq Keys
        /\ result'.level \in {"HIGH", "MEDIUM", "LOW", "STALE"}
    BY <1>2, <1>4, <2>1
  <2> QED
    BY <1>1, <1>3, <1>5, <1>6, <1>8, <1>9, <2>2 DEF TypeOK
<1>11. Voters' = S
  BY <1>2, <1>4 DEF Voters
<1> QED
  BY <1>2, <1>8, <1>9, <1>10, <1>11 DEF Inv

\* The stations of an estimate have distinct programmes and latencies learned from three
\* receptions; the estimate lies between two of their boundaries.
LEMMA EstimateProperties ==
  ASSUME Inv, NEW S \in Selections, ~(Cardinality(Calibrated(S)) < 2)
  PROVE  LET stations == Calibrated(S)
             utc == MedianInt(stations, [k \in stations |-> Boundary(k)])
         IN  /\ stations \subseteq Keys /\ IsFiniteSet(stations)
             /\ Cardinality(stations) \in Nat /\ Cardinality(stations) >= 2
             /\ \A k \in stations :
                    /\ Len(tracks[k].observations) >= 3 /\ Known(k)
                    /\ Learned(k) \in 0..Minute - 1 /\ Boundary(k) \in Int
             /\ utc \in Int
             /\ \E a, b \in stations : Boundary(a) <= utc /\ utc <= Boundary(b)
<1> DEFINE stations == Calibrated(S)
           f == [k \in stations |-> Boundary(k)]
<1>1. TypeOK /\ LatenciesAreLearned
  BY DEF Inv
<1>2. S \subseteq Keys /\ IsFiniteSet(S) /\ stations \in SUBSET S
  BY <1>1, SelectionProperties DEF Calibrated
<1>3. IsFiniteSet(stations) /\ Cardinality(stations) \in Nat
  BY <1>2, FS_Subset, FS_CardinalityType
<1>4. stations # {}
  BY <1>3, FS_EmptySet
<1>5. ASSUME NEW k \in stations
      PROVE  /\ k \in Keys /\ Len(tracks[k].observations) >= 3 /\ Known(k)
             /\ Learned(k) \in 0..Minute - 1 /\ Boundary(k) \in Int
  <2>1. k \in Keys /\ Learned(k) # NoLatency
    BY <1>2 DEF Calibrated
  <2>2. Len(tracks[k].observations) \in Nat
    BY <1>1, <2>1, TrackProperties
  <2>3. Len(tracks[k].observations) >= 3
    <3>1. CASE Len(tracks[k].observations) < 3
      <4>1. tracks[k].latency # NoLatency
        BY <1>1, <2>1, <3>1, LearnedProperties
      <4> QED
        BY <1>1, <2>1, <4>1 DEF LatenciesAreLearned
    <3> QED
      BY <2>2, <3>1
  <2>4. Known(k) /\ Anchor(k) \in Observations
    BY <1>1, <2>1, <2>2, <2>3, TrackProperties
  <2>5. Learned(k) \in 0..Minute - 1
    BY <1>1, <2>1, <2>3, LearnedProperties
  <2>6. Boundary(k) \in Int
    BY <1>1, <2>4, <2>5, ObservationProperties DEF Boundary, Minute
  <2> QED
    BY <2>1, <2>3, <2>4, <2>5, <2>6
<1>6. \A k \in stations : f[k] = Boundary(k) /\ f[k] \in Int
  BY <1>5
<1>7. /\ MedianInt(stations, f) \in Int
      /\ \E a, b \in stations : f[a] <= MedianInt(stations, f) /\ MedianInt(stations, f) <= f[b]
  <2> HIDE DEF stations, f
  <2> QED
    BY <1>3, <1>4, <1>6, MedianIntBetween
<1> QED
  BY <1>2, <1>3, <1>5, <1>6, <1>7

\* What sub_second_consensus makes of its selection.
LEMMA SubSecondProperties ==
  ASSUME Inv, SubSecond
  PROVE  /\ Inv'
         /\ \A k \in Keys : Known(k) => Known(k)' /\ Anchor(k)'.at >= Anchor(k).at
         /\ \E S \in Selections : precise' = Estimate(Calibrated(S))
<1>1. TypeOK /\ ObservationsInOrder /\ LatenciesAreLearned
  BY DEF Inv
<1>2. PICK S \in Selections : precise' = Estimate(Calibrated(S))
  BY DEF SubSecond
<1>3. /\ UNCHANGED <<now, result, reports, evaluations, limits>>
      /\ tracks' = [k \in Keys |-> [tracks[k] EXCEPT !.latency = Learned(k)]]
  BY DEF SubSecond
<1>4. UNCHANGED <<Keys, Observations, StationTracks>>
  BY <1>3 DEF Keys, Observations, StationTracks
<1>5. precises' \in 0..limits.maxPrecise
  <2>1. limits.maxPrecise \in Nat
    BY <1>1, Bounds DEF Extents
  <2> QED
    BY <1>1, <2>1 DEF SubSecond, TypeOK
<1>6. ASSUME NEW k \in Keys
      PROVE  /\ tracks'[k] \in StationTracks
             /\ tracks'[k].observations = tracks[k].observations
             /\ tracks'[k].latency = Learned(k)
  <2>1. tracks[k] \in StationTracks
    BY <1>1, TrackProperties
  <2>2. Learned(k) \in 0..Minute - 1 \cup {NoLatency}
    BY <1>1, LearnedProperties
  <2> QED
    BY <1>3, <2>1, <2>2 DEF StationTracks
<1>7. tracks' \in [Keys -> StationTracks]
  BY <1>3, <1>6
<1>8. /\ ObservationsInOrder' /\ LatenciesAreLearned'
      /\ \A k \in Keys : Known(k) => Known(k)' /\ Anchor(k)'.at >= Anchor(k).at
      /\ \A k \in Keys : Len(tracks'[k].observations) <= limits.maxObs
  BY <1>3, <1>6, SameObservations
<1>9. precise'.stations \subseteq Keys /\ precise'.utc \in Int
  <2>1. CASE Cardinality(Calibrated(S)) < 2
    BY <1>2, <2>1 DEF Estimate, NoEstimate
  <2>2. CASE ~(Cardinality(Calibrated(S)) < 2)
    BY <1>1, <1>2, <2>2, EstimateProperties DEF Estimate
  <2> QED
    BY <2>1, <2>2
<1>10. TypeOK'
  BY <1>1, <1>3, <1>4, <1>5, <1>7, <1>8, <1>9 DEF TypeOK
<1> QED
  BY <1>2, <1>8, <1>10 DEF Inv

\* What a step does to the invariant, to the latest receptions, and to the results.
LEMMA StepProperties ==
  ASSUME Inv, [Next]_vars
  PROVE  /\ Inv'
         /\ \A k \in Keys : Known(k) => Known(k)' /\ Anchor(k)'.at >= Anchor(k).at
         /\ evaluations' # evaluations => Evaluate
         /\ precises' # precises => SubSecond
<1>1. TypeOK /\ ObservationsInOrder /\ LatenciesAreLearned
  BY DEF Inv
<1>2. now \in Nat /\ limits.maxNow \in Nat
  <2>1. limits.maxNow \in Nat
    BY <1>1, Bounds DEF Extents
  <2> QED
    BY <1>1, <2>1 DEF TypeOK
<1>3. ASSUME NEW k \in Keys, NEW r \in limits.receivers, NEW delay \in 0..limits.maxDelay,
             NEW offset \in limits.offsets, NEW late \in limits.late,
             delay <= now, Record(k, r, now - delay, offset, late)
      PROVE  /\ Inv'
             /\ \A q \in Keys : Known(q) => Known(q)' /\ Anchor(q)'.at >= Anchor(q).at
             /\ UNCHANGED <<evaluations, precises>>
  <2>1. now - delay \in 0..limits.maxNow
    <3>1. limits.maxDelay \in Nat
      BY <1>1, Bounds DEF Extents
    <3> QED
      BY <1>1, <1>2, <1>3, <3>1 DEF TypeOK
  <2>2. UNCHANGED <<evaluations, precises>>
    BY <1>3 DEF Record
  <2> QED
    BY <1>3, <2>1, <2>2, RecordInv
<1>4. CASE Evaluate
  BY <1>4, EvaluateProperties DEF Evaluate
<1>5. CASE SubSecond
  BY <1>5, SubSecondProperties DEF SubSecond
<1>6. CASE Tick \/ UNCHANGED vars
  <2>1. UNCHANGED <<tracks, result, precise, reports, evaluations, precises, limits>>
    BY <1>6 DEF Tick, vars
  <2>2. now' \in 0..limits.maxNow
    BY <1>1, <1>2, <1>6 DEF Tick, vars, TypeOK
  <2>3. UNCHANGED <<Keys, Observations, StationTracks>>
    BY <2>1 DEF Keys, Observations, StationTracks
  <2>4. TypeOK'
    BY <1>1, <2>1, <2>2, <2>3 DEF TypeOK
  <2>5. /\ ObservationsInOrder' /\ LatenciesAreLearned'
        /\ \A k \in Keys : Known(k) => Known(k)' /\ Anchor(k)'.at >= Anchor(k).at
    BY <2>1, SameObservations
  <2> QED
    BY <2>1, <2>4, <2>5 DEF Inv
<1> QED
  BY <1>3, <1>4, <1>5, <1>6 DEF Next

\* Every behaviour keeps the invariant.
THEOREM Inductive == Spec => []Inv
<1>1. Inv /\ [Next]_vars => Inv'
  BY StepProperties
<1> QED
  BY InitInv, <1>1, PTL DEF Spec

\* The values of every behaviour are of their types.
THEOREM TypeCorrect == Spec => []TypeOK
<1>1. Inv => TypeOK
  BY DEF Inv
<1> QED
  BY Inductive, <1>1, PTL

\* The observations of every track stay in the order of their receptions, in whatever
\* order they are reported: the last one is the latest.
THEOREM TracksInOrder == Spec => []ObservationsInOrder
<1>1. Inv => ObservationsInOrder
  BY DEF Inv
<1> QED
  BY Inductive, <1>1, PTL

\* A late report never becomes the anchor that ages a track.
THEOREM AnchorStays == Spec => AnchorNeverGoesBack
<1>1. Inv /\ [Next]_vars =>
        [\A k \in Keys : Known(k) => Known(k)' /\ Anchor(k)'.at >= Anchor(k).at]_vars
  BY StepProperties
<1> QED
  BY Inductive, <1>1, PTL DEF Spec, AnchorNeverGoesBack

\* There are no more votes of a channel than receivers that listened to it.
THEOREM VotesAreOfListeners == Spec => VotesHaveListeners
<1>1. ASSUME Inv, [Next]_vars, Evaluated
      PROVE  VotesOfListeners
  <2>1. TypeOK
    BY <1>1 DEF Inv
  <2>2. Evaluate
    BY <1>1, StepProperties DEF Evaluated
  <2>3. PICK S \in Selections : Voters' = S /\ S = {k \in Keys : tracks'[k].status # "none"}
    BY <1>1, <2>2, EvaluateProperties
  <2>4. ASSUME NEW c \in limits.channels
        PROVE  Cardinality({k \in S : k.channel = c}) <=
                   Cardinality({r \in limits.receivers :
                       \E k \in Keys : k.channel = c /\ HeardBy(r, k) # {} /\ Recent(LatestBy(r, k))})
    <3> DEFINE votes == {k \in S : k.channel = c}
               voters == {r \in limits.receivers :
                            Candidates(r, c) # {} /\ Vote(r, c) \in votes}
               listeners == {r \in limits.receivers :
                   \E k \in Keys : k.channel = c /\ HeardBy(r, k) # {} /\ Recent(LatestBy(r, k))}
               vote == [r \in voters |-> Vote(r, c)]
    <3>1. voters \in SUBSET listeners
      <4>1. ASSUME NEW r \in voters PROVE r \in listeners
        <5>1. Vote(r, c) \in Candidates(r, c)
          BY <2>1, VoteProperties
        <5> QED
          BY <5>1 DEF Candidates, ActiveTracks
      <4> QED
        BY <4>1
    <3>2. IsFiniteSet(limits.receivers)
      BY <2>1, Bounds
    <3>3. IsFiniteSet(listeners)
      <4>1. listeners \in SUBSET limits.receivers
        OBVIOUS
      <4> HIDE DEF listeners
      <4> QED
        BY <3>2, <4>1, FS_Subset
    <3>4. vote \in Surjection(voters, votes)
      <4>1. vote \in [voters -> votes]
        OBVIOUS
      <4>2. ASSUME NEW k \in votes PROVE \E r \in voters : vote[r] = k
        <5>1. PICK r \in limits.receivers :
                Candidates(r, k.channel) # {} /\ k = Vote(r, k.channel)
          BY <2>1, SelectionProperties
        <5>2. r \in voters
          BY <5>1
        <5> QED
          BY <5>1, <5>2
      <4> QED
        BY <4>1, <4>2 DEF Surjection
    <3> HIDE DEF votes, voters, listeners, vote
    <3>5. /\ IsFiniteSet(voters) /\ Cardinality(voters) <= Cardinality(listeners)
          /\ Cardinality(voters) \in Nat /\ Cardinality(listeners) \in Nat
      BY <3>1, <3>3, FS_Subset, FS_CardinalityType
    <3>6. /\ Cardinality(votes) <= Cardinality(voters) /\ Cardinality(votes) \in Nat
      BY <3>4, <3>5, FS_Surjection, FS_CardinalityType
    <3>7. Cardinality(votes) <= Cardinality(listeners)
      BY <3>5, <3>6
    <3> QED
      BY <3>7 DEF votes, listeners
  <2> QED
    BY <2>3, <2>4 DEF VotesOfListeners
<1>2. Inv /\ [Next]_vars => [Evaluated => VotesOfListeners]_vars
  BY <1>1
<1> QED
  BY Inductive, <1>2, PTL DEF Spec, VotesHaveListeners

\* A minority cannot outvote a majority that agrees.
THEOREM MajorityIsHeard == Spec => MajorityNeverOutvoted
<1>1. ASSUME Inv, [Next]_vars, Evaluated
      PROVE  MajorityContributes
  <2>1. TypeOK
    BY <1>1 DEF Inv
  <2>2. Evaluate
    BY <1>1, StepProperties DEF Evaluated
  <2>3. PICK S \in Selections : Voters' = S /\ result'.contributing = Contributing(S)
    BY <1>1, <2>2, EvaluateProperties
  <2>4. S \subseteq Keys /\ IsFiniteSet(S) /\ \A k \in S : Known(k)
    BY <2>1, SelectionProperties
  <2>5. \A k \in S : Anchor(k).offset \in Int
    BY <2>1, <2>4, TrackProperties, ObservationProperties
  <2>6. ASSUME NEW M \in SUBSET S, 2 * Cardinality(M) > Cardinality(S),
               \A k, other \in M :
                   2 * Abs(Anchor(k).offset - Anchor(other).offset) <= OutlierThreshold
        PROVE  M \subseteq Contributing(S)
    <3>1. \A j, k \in M : Abs(Anchor(j).offset - Anchor(k).offset) <= 1
      BY <2>5, <2>6 DEF OutlierThreshold, Abs
    <3>2. \A k \in M : Deviation(S, k) \in Int /\ Deviation(S, k) <= 2
      BY <2>4, <2>5, <2>6, <3>1, MedianOfMajority
    <3>3. \A k \in M : Deviation(S, k) <= OutlierThreshold
      BY <3>2 DEF OutlierThreshold
    <3> QED
      BY <3>3 DEF Contributing
  <2> QED
    BY <2>3, <2>6 DEF MajorityContributes
<1>2. Inv /\ [Next]_vars => [Evaluated => MajorityContributes]_vars
  BY <1>1
<1> QED
  BY Inductive, <1>2, PTL DEF Spec, MajorityNeverOutvoted

\* When the median is under a bound, so is more than half of the numbers.
LEMMA MostAreUnder ==
  ASSUME NEW S, IsFiniteSet(S), S # {}, NEW f, \A k \in S : f[k] \in Int, NEW bound \in Int,
         Nth(S, f, Cardinality(S) \div 2) < bound
  PROVE  2 * Cardinality({k \in S : f[k] < bound}) > Cardinality(S)
<1> DEFINE n == Cardinality(S)
           v == Nth(S, f, n \div 2)
           upTo == {k \in S : f[k] <= v}
           under == {k \in S : f[k] < bound}
<1>1. n \in Nat \ {0}
  BY FS_CardinalityType, FS_EmptySet
<1>2. n \div 2 \in Nat /\ n \div 2 < n
  <2> HIDE DEF n
  <2> QED
    BY <1>1
<1>3. v \in Int /\ Cardinality(upTo) > n \div 2
  BY <1>2, NthProperties
<1>4. upTo \in SUBSET under
  <2> HIDE DEF v
  <2>1. v < bound
    BY DEF v
  <2> QED
    BY <1>3, <2>1
<1>5. /\ IsFiniteSet(under) /\ Cardinality(under) \in Nat /\ Cardinality(upTo) \in Nat
      /\ Cardinality(upTo) <= Cardinality(under)
  <2>1. under \in SUBSET S
    OBVIOUS
  <2> HIDE DEF upTo, under
  <2> QED
    BY <1>4, <2>1, FS_Subset, FS_CardinalityType
<1> HIDE DEF n, upTo
<1> QED
  BY <1>1, <1>3, <1>5 DEF n

\* Keys with distinct programmes are as many as their programmes.
LEMMA AsManyProgrammes ==
  ASSUME NEW S, IsFiniteSet(S), \A j, k \in S : j.pi = k.pi => j = k
  PROVE  Cardinality({k.pi : k \in S}) = Cardinality(S)
<1> DEFINE pi == [k \in S |-> k.pi]
<1>1. pi \in Bijection(S, {k.pi : k \in S})
  BY DEF Bijection, Injection, Surjection, IsInjective
<1> QED
  BY <1>1, FS_Bijection DEF ExistsBijection

\* The confidence that is shown is earned by programmes that were confirmed and by
\* receptions that are recent: of most contributors, and of most confirmed ones unless a
\* recent unconfirmed one makes up for them.
THEOREM LevelsAreEarned == Spec => ConfidenceIsEarned
<1>1. ASSUME Inv, [Next]_vars, Evaluated
      PROVE  LevelIsEarned
  <2>1. TypeOK
    BY <1>1 DEF Inv
  <2>2. Evaluate
    BY <1>1, StepProperties DEF Evaluated
  <2>3. PICK S \in Selections :
            result'.contributing = Contributing(S) /\ result'.level = TrustLevel(S)
    BY <1>1, <2>2, EvaluateProperties
  <2> DEFINE C == Contributing(S)
             f == [k \in C |-> Age(k)]
  <2>4. /\ S \subseteq Keys /\ IsFiniteSet(S) /\ \A k \in S : Known(k)
        /\ \A j, k \in S : j.pi # NoPI /\ j.pi = k.pi => j = k
    BY <2>1, SelectionProperties
  <2>5. /\ C \in SUBSET S /\ IsFiniteSet(C)
        /\ \A k \in C : f[k] \in Int /\ f[k] = Age(k)
    <3>1. C \in SUBSET S
      BY DEF Contributing
    <3>2. \A k \in C : k \in Keys /\ Known(k)
      BY <2>4, <3>1
    <3> QED
      BY <2>1, <2>4, <3>1, <3>2, TrackProperties, FS_Subset
  <2>6. MedianAge(C) = Nth(C, f, Cardinality(C) \div 2)
    BY DEF MedianAge
  <2> HIDE DEF C, f
  <2> DEFINE confirmed == {k \in C : k.pi # NoPI}
             Under(T, bound) == {k \in T : Age(k) < bound}
  <2>7. /\ confirmed = Confirmed(C) /\ confirmed \subseteq C /\ IsFiniteSet(confirmed)
        /\ Cardinality(confirmed) \in Nat /\ Cardinality(C) \in Nat
        /\ Cardinality(confirmed) <= Cardinality(C)
    BY <2>5, FS_Subset, FS_CardinalityType DEF Confirmed
  <2>8. Cardinality({k.pi : k \in confirmed}) = Cardinality(Confirmed(C))
    <3>1. \A j, k \in confirmed : j.pi = k.pi => j = k
      BY <2>4, <2>5
    <3> QED
      BY <2>7, <3>1, AsManyProgrammes
  <2>9. ASSUME NEW bound \in Int, C # {}, MedianAge(C) < bound
        PROVE  /\ 2 * Cardinality(Under(C, bound)) > Cardinality(C)
               /\ Under(C \ confirmed, bound) = {} =>
                      2 * Cardinality(Under(confirmed, bound)) > Cardinality(confirmed)
    <3>1. \A k \in C : f[k] \in Int
      BY <2>5
    <3>2. 2 * Cardinality({k \in C : f[k] < bound}) > Cardinality(C)
      BY <2>5, <2>6, <2>9, <3>1, MostAreUnder
    <3>3. {k \in C : f[k] < bound} = Under(C, bound)
      BY <2>5
    <3>4. Under(C \ confirmed, bound) = {} => Under(confirmed, bound) = Under(C, bound)
      BY <2>7
    <3>5. Cardinality(Under(C, bound)) \in Nat
      BY <2>5, FS_Subset, FS_CardinalityType
    <3> HIDE DEF Under, confirmed
    <3> QED
      BY <2>7, <3>2, <3>3, <3>4, <3>5
  <2>10. TrustLevel(S) = "HIGH" =>
            C # {} /\ Cardinality(Confirmed(C)) >= 3 /\ MedianAge(C) < HighAge
    BY DEF TrustLevel, C
  <2>11. TrustLevel(S) = "MEDIUM" =>
            C # {} /\ Cardinality(Confirmed(C)) >= 2 /\ MedianAge(C) < MediumAge
    BY DEF TrustLevel, C
  <2>12. HighAge \in Int /\ MediumAge \in Int /\ result'.contributing = C
    BY <2>3 DEF HighAge, MediumAge, C
  <2> QED
    BY <2>3, <2>8, <2>9, <2>10, <2>11, <2>12 DEF LevelIsEarned
<1>2. Inv /\ [Next]_vars => [Evaluated => LevelIsEarned]_vars
  BY <1>1
<1> QED
  BY Inductive, <1>2, PTL DEF Spec, ConfidenceIsEarned

\* A sub-second estimate is between the minutes of at least two calibrated programmes.
THEOREM EstimatesAreOfTheirMinutes == Spec => SubSecondIsOfItsMinutes
<1>1. ASSUME Inv, [Next]_vars, Given
      PROVE  OfItsMinutes
  <2>1. TypeOK
    BY <1>1 DEF Inv
  <2>2. PICK S \in Selections : precise' = Estimate(Calibrated(S))
    BY <1>1, StepProperties, SubSecondProperties DEF Given
  <2>3. ~(Cardinality(Calibrated(S)) < 2)
    BY <1>1, <2>2 DEF Given, Estimate
  <2> DEFINE stations == Calibrated(S)
             utc == MedianInt(stations, [k \in stations |-> Boundary(k)])
  <2>4. precise'.stations = stations /\ precise'.utc = utc
    BY <2>2, <2>3 DEF Estimate
  <2>5. /\ stations \subseteq Keys /\ IsFiniteSet(stations)
        /\ Cardinality(stations) >= 2
        /\ \A k \in stations :
               /\ Len(tracks[k].observations) >= 3 /\ Known(k)
               /\ Learned(k) \in 0..Minute - 1 /\ Boundary(k) \in Int
        /\ utc \in Int
        /\ \E a, b \in stations : Boundary(a) <= utc /\ utc <= Boundary(b)
    BY <1>1, <2>3, EstimateProperties
  <2>6. Cardinality({k.pi : k \in stations}) = Cardinality(stations)
    <3>1. \A j, k \in stations : j.pi = k.pi => j = k
      BY <2>1, SelectionProperties DEF Calibrated
    <3> HIDE DEF stations
    <3> QED
      BY <2>5, <3>1, AsManyProgrammes
  <2> HIDE DEF stations, utc
  <2>7. ASSUME limits.late \subseteq Nat, NEW k \in stations
        PROVE  \E jitter \in limits.late :
                    Edge(k) - jitter <= Boundary(k) /\ Boundary(k) <= Edge(k) + jitter
    <3>1. /\ k \in Keys /\ Len(tracks[k].observations) >= 3
          /\ Learned(k) \in 0..Minute - 1 /\ Anchor(k) \in Observations
      BY <2>1, <2>5, TrackProperties
    <3>2. PICK i \in DOMAIN tracks[k].observations :
                Learned(k) <= Phase(tracks[k].observations[i])
      BY <2>1, <3>1, LearnedProperties
    <3>3. Anchor(k).late \in limits.late /\ Anchor(k).late \in Nat /\ Anchor(k).at \in Int
      BY <2>1, <2>7, <3>1, ObservationProperties
    <3> DEFINE late == tracks[k].observations[i].late
    <3>4. late \in limits.late /\ late \in Nat
      BY <2>1, <2>7, <3>1, TrackProperties, ObservationProperties
    <3>5. Phase(tracks[k].observations[i]) = late % 60
      BY DEF Phase, Minute
    <3> HIDE DEF late
    <3>6. Learned(k) \in Nat /\ Learned(k) <= late
      <4>1. late % 60 <= late /\ late % 60 \in Nat
        BY <3>4
      <4>2. Learned(k) <= late % 60
        BY <3>2, <3>5
      <4>3. Learned(k) \in Nat
        <5>1. \A x \in 0..60 - 1 : x \in Nat
          OBVIOUS
        <5>2. Learned(k) \in 0..60 - 1
          BY <3>1 DEF Minute
        <5> QED
          BY <5>1, <5>2
      <4> QED
        BY <3>4, <4>1, <4>2, <4>3
    <3>7. Boundary(k) = Edge(k) + Anchor(k).late - Learned(k) /\ Edge(k) \in Int
      BY <3>3 DEF Boundary, Edge, Minute
    <3>8. CASE late <= Anchor(k).late
      BY <3>3, <3>4, <3>6, <3>7, <3>8
    <3>9. CASE Anchor(k).late <= late
      BY <3>3, <3>4, <3>6, <3>7, <3>9
    <3> QED
      BY <3>3, <3>4, <3>8, <3>9
  <2>8. \A k \in stations : Edge(k) \in Int
    BY <2>1, <2>5, TrackProperties, ObservationProperties DEF Edge, Minute
  <2>9. ASSUME limits.late \subseteq Nat
        PROVE  /\ \E k \in stations, jitter \in limits.late : Edge(k) - jitter <= utc
               /\ \E k \in stations, jitter \in limits.late : utc <= Edge(k) + jitter
    <3>1. PICK a \in stations, b \in stations : Boundary(a) <= utc /\ utc <= Boundary(b)
      BY <2>5
    <3>2. PICK j \in limits.late : Edge(a) - j <= Boundary(a)
      BY <2>7, <2>9
    <3>3. PICK h \in limits.late : Boundary(b) <= Edge(b) + h
      BY <2>7, <2>9
    <3>4. Edge(a) - j <= utc
      BY <2>5, <2>8, <2>9, <3>1, <3>2
    <3>5. utc <= Edge(b) + h
      BY <2>5, <2>8, <2>9, <3>1, <3>3
    <3> QED
      BY <3>4, <3>5
  <2> QED
    BY <2>4, <2>5, <2>6, <2>9 DEF OfItsMinutes
<1>2. Inv /\ [Next]_vars => [Given => OfItsMinutes]_vars
  BY <1>1
<1> QED
  BY Inductive, <1>2, PTL DEF Spec, SubSecondIsOfItsMinutes

=============================================================================
