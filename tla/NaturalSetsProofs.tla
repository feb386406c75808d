-------------------------- MODULE NaturalSetsProofs --------------------------
(***************************************************************************)
(* Facts about sets of natural numbers that the proofs about pages,        *)
(* columns and histories rest on: induction in the form of a least element *)
(* (the operators of the library's induction theorems cannot be            *)
(* instantiated by the provers, those of WFMin are sets and can), and what *)
(* the ascending order of a set is.                                        *)
(***************************************************************************)
EXTENDS NaturalSets, Sequences, Functions, FiniteSetTheorems, WellFoundedInduction, TLAPS

(* A set of natural numbers has a least element.                           *)
LEMMA LeastNatural ==
    ASSUME NEW T \in SUBSET Nat, T # {}
    PROVE  \E m \in T : \A k \in T : m <= k
<1> DEFINE R == {p \in Nat \X Nat : p[1] < p[2]}
<1>1. IsWellFoundedOn(OpToRel(<, Nat), Nat)
  BY NatLessThanWellFounded
<1>2. R = OpToRel(<, Nat)
  BY DEF OpToRel
<1>3. \A x, y \in Nat : y < x => <<y, x>> \in R
  OBVIOUS
<1> HIDE DEF R
<1>4. PICK m \in T : \A y \in T : ~(<<y, m>> \in R)
  BY <1>1, <1>2, WFMin
<1>5. \A k \in T : ~(k < m)
  BY <1>3, <1>4
<1> QED
  BY <1>5

(* Induction, for a property that is a set.                                *)
LEMMA InductionOnSet ==
    ASSUME NEW S, 0 \in S, \A n \in Nat : n \in S => n + 1 \in S
    PROVE  \A n \in Nat : n \in S
<1> SUFFICES ASSUME Nat \ S # {}
             PROVE  FALSE
  OBVIOUS
<1>1. PICK m \in Nat \ S : \A k \in Nat \ S : m <= k
  BY LeastNatural
<1>2. m # 0 /\ m - 1 \in Nat /\ m - 1 \in S
  BY <1>1
<1> QED
  BY <1>2

(* A function on 1 .. n is a sequence.                                     *)
LEMMA FunctionIsSeq ==
    ASSUME NEW X, NEW n \in Nat, NEW f \in [1 .. n -> X]
    PROVE  f \in Seq(X) /\ Len(f) = n /\ DOMAIN f = 1 .. n
OBVIOUS

-----------------------------------------------------------------------------
LEMMA CountType ==
    ASSUME NEW S \in SUBSET Nat, IsFiniteSet(S), NEW i \in Nat
    PROVE  CountUpTo(S, i) \in 0 .. Cardinality(S)
<1> DEFINE below == {j \in S : j <= i}
<1>1. below \in SUBSET S
  OBVIOUS
<1>2. IsFiniteSet(below) /\ Cardinality(below) <= Cardinality(S)
  BY <1>1, FS_Subset
<1>3. Cardinality(below) \in Nat /\ Cardinality(S) \in Nat
  BY <1>2, FS_CardinalityType
<1> QED
  BY <1>2, <1>3 DEF CountUpTo

(* A rank is that of the numbers below, and one more.                      *)
LEMMA CountOfMember ==
    ASSUME NEW S \in SUBSET Nat, IsFiniteSet(S), NEW i \in S
    PROVE  /\ IsFiniteSet({j \in S : j < i})
           /\ Cardinality({j \in S : j < i}) \in Nat
           /\ CountUpTo(S, i) = Cardinality({j \in S : j < i}) + 1
<1> DEFINE below == {j \in S : j < i}
<1>1. below \in SUBSET S /\ i \notin below
  OBVIOUS
<1>2. IsFiniteSet(below)
  BY <1>1, FS_Subset
<1>3. Cardinality(below) \in Nat
  BY <1>2, FS_CardinalityType
<1>4. {j \in S : j <= i} = below \cup {i}
  <2>1. \A j \in S : j <= i <=> j < i \/ j = i
    OBVIOUS
  <2> QED
    BY <2>1
<1> HIDE DEF below
<1>5. Cardinality(below \cup {i}) = Cardinality(below) + 1
  BY <1>1, <1>2, FS_AddElement
<1> QED
  BY <1>2, <1>3, <1>4, <1>5 DEF CountUpTo, below

LEMMA CountGrows ==
    ASSUME NEW S \in SUBSET Nat, IsFiniteSet(S), NEW i \in S, NEW k \in S, i < k
    PROVE  CountUpTo(S, i) < CountUpTo(S, k)
<1> DEFINE below == {j \in S : j < k}
           upTo == {j \in S : j <= i}
<1>1. IsFiniteSet(below) /\ Cardinality(below) \in Nat /\ CountUpTo(S, k) = Cardinality(below) + 1
  BY CountOfMember
<1>2. upTo \in SUBSET below
  <2>1. \A j \in S : j <= i => j < k
    OBVIOUS
  <2> QED
    BY <2>1
<1> HIDE DEF below
<1>3. IsFiniteSet(upTo) /\ Cardinality(upTo) <= Cardinality(below)
  BY <1>1, <1>2, FS_Subset
<1>4. Cardinality(upTo) \in Nat
  BY <1>3, FS_CardinalityType
<1>5. CountUpTo(S, i) = Cardinality(upTo)
  BY DEF CountUpTo
<1> QED
  BY <1>1, <1>3, <1>4, <1>5

(* Every rank is that of a member, as they are as many.                    *)
LEMMA CountIsTaken ==
    ASSUME NEW S \in SUBSET Nat, IsFiniteSet(S), NEW k \in 1 .. Cardinality(S)
    PROVE  \E i \in S : CountUpTo(S, i) = k
<1> DEFINE n == Cardinality(S)
           rank == [i \in S |-> CountUpTo(S, i)]
<1>1. n \in Nat
  BY FS_CardinalityType
<1>2. \A i \in S : CountUpTo(S, i) \in 1 .. n
  <2> SUFFICES ASSUME NEW i \in S
               PROVE  CountUpTo(S, i) \in 1 .. n
    OBVIOUS
  <2>1. CountUpTo(S, i) \in 0 .. n
    BY CountType
  <2>2. Cardinality({j \in S : j < i}) \in Nat /\ CountUpTo(S, i) = Cardinality({j \in S : j < i}) + 1
    BY CountOfMember
  <2> QED
    BY <1>1, <2>1, <2>2
<1>3. \A i, j \in S : CountUpTo(S, i) = CountUpTo(S, j) => i = j
  <2> SUFFICES ASSUME NEW i \in S, NEW j \in S, i # j
               PROVE  CountUpTo(S, i) # CountUpTo(S, j)
    OBVIOUS
  <2>1. CountUpTo(S, i) \in Nat /\ CountUpTo(S, j) \in Nat
    BY <1>2
  <2>2. i < j \/ j < i
    OBVIOUS
  <2>3. CountUpTo(S, i) < CountUpTo(S, j) \/ CountUpTo(S, j) < CountUpTo(S, i)
    BY <2>2, CountGrows
  <2> QED
    BY <2>1, <2>3
<1> HIDE DEF n
<1>4. rank \in Injection(S, 1 .. n)
  BY <1>2, <1>3 DEF Injection, IsInjective
<1>5. IsFiniteSet(1 .. n) /\ Cardinality(1 .. n) = n
  BY <1>1, FS_Interval
<1>6. rank \in Surjection(S, 1 .. n)
  BY <1>4, <1>5, FS_Injection DEF n
<1> QED
  BY <1>6 DEF Surjection, n

(* The ascending order of a set names each member once, the lower first.   *)
LEMMA AscendingOrder ==
    ASSUME NEW S \in SUBSET Nat, IsFiniteSet(S)
    PROVE  /\ Cardinality(S) \in Nat
           /\ Ascending(S) \in [1 .. Cardinality(S) -> S]
           /\ \A i \in S : CountUpTo(S, i) \in 1 .. Cardinality(S) /\ Ascending(S)[CountUpTo(S, i)] = i
           /\ \A k \in 1 .. Cardinality(S) : CountUpTo(S, Ascending(S)[k]) = k
           /\ \A k, l \in 1 .. Cardinality(S) : k < l => Ascending(S)[k] < Ascending(S)[l]
<1> DEFINE n == Cardinality(S)
           f == Ascending(S)
<1>1. n \in Nat
  BY FS_CardinalityType
<1>2. \A k \in 1 .. n : f[k] \in S /\ CountUpTo(S, f[k]) = k
  <2> SUFFICES ASSUME NEW k \in 1 .. n
               PROVE  f[k] \in S /\ CountUpTo(S, f[k]) = k
    OBVIOUS
  <2>1. \E i \in S : CountUpTo(S, i) = k
    BY CountIsTaken
  <2>2. f[k] = CHOOSE i \in S : CountUpTo(S, i) = k
    BY DEF Ascending
  <2> QED
    BY <2>1, <2>2
<1>3. f \in [1 .. n -> S]
  <2>1. f = [k \in 1 .. n |-> f[k]]
    BY DEF Ascending
  <2> QED
    BY <1>2, <2>1
<1>4. \A i \in S : CountUpTo(S, i) \in 1 .. n
  <2> SUFFICES ASSUME NEW i \in S
               PROVE  CountUpTo(S, i) \in 1 .. n
    OBVIOUS
  <2>1. CountUpTo(S, i) \in 0 .. n
    BY CountType
  <2>2. Cardinality({j \in S : j < i}) \in Nat /\ CountUpTo(S, i) = Cardinality({j \in S : j < i}) + 1
    BY CountOfMember
  <2> QED
    BY <1>1, <2>1, <2>2
<1>5. \A i, j \in S : CountUpTo(S, i) = CountUpTo(S, j) => i = j
  <2> SUFFICES ASSUME NEW i \in S, NEW j \in S, i # j
               PROVE  CountUpTo(S, i) # CountUpTo(S, j)
    OBVIOUS
  <2>1. CountUpTo(S, i) \in Nat /\ CountUpTo(S, j) \in Nat
    BY <1>4
  <2>2. CountUpTo(S, i) < CountUpTo(S, j) \/ CountUpTo(S, j) < CountUpTo(S, i)
    BY CountGrows
  <2> QED
    BY <2>1, <2>2
<1> HIDE DEF n, f
<1>6. \A i \in S : f[CountUpTo(S, i)] = i
  BY <1>2, <1>4, <1>5
<1>7. ASSUME NEW k \in 1 .. n, NEW l \in 1 .. n, k < l
      PROVE  f[k] < f[l]
  <2>1. f[k] \in Nat /\ f[l] \in Nat /\ f[k] # f[l]
    <3>1. f[k] \in S /\ f[l] \in S /\ CountUpTo(S, f[k]) # CountUpTo(S, f[l])
      BY <1>1, <1>2, <1>7
    <3> QED
      BY <3>1
  <2>2. ASSUME f[l] < f[k]
        PROVE  FALSE
    <3>1. CountUpTo(S, f[l]) < CountUpTo(S, f[k])
      BY <1>2, <2>2, CountGrows
    <3> QED
      BY <1>1, <1>2, <1>7, <3>1
  <2> QED
    BY <2>1, <2>2
<1> QED
  BY <1>1, <1>2, <1>3, <1>4, <1>6, <1>7 DEF n, f

(* The members of the first n ranks are all of the set if they are fewer.  *)
LEMMA FirstCounts ==
    ASSUME NEW S \in SUBSET Nat, IsFiniteSet(S), NEW n \in Nat,
           Cardinality({i \in S : CountUpTo(S, i) <= n}) < n
    PROVE  {i \in S : CountUpTo(S, i) <= n} = S
<1> DEFINE first == {i \in S : CountUpTo(S, i) <= n}
<1> SUFFICES ASSUME S \ first # {}
             PROVE  FALSE
  OBVIOUS
<1>1. PICK h \in S \ first : \A k \in S \ first : h <= k
  BY LeastNatural
<1> DEFINE below == {j \in S : j < h}
<1>2. Cardinality(below) \in Nat /\ CountUpTo(S, h) = Cardinality(below) + 1
  BY CountOfMember
<1>3. below \in SUBSET first
  <2>1. \A j \in S : j < h => j \in first
    BY <1>1
  <2> QED
    BY <2>1
<1>4. first \in SUBSET S
  OBVIOUS
<1>5. IsFiniteSet(first) /\ Cardinality(first) \in Nat
  BY <1>4, FS_Subset, FS_CardinalityType
<1>6. Cardinality(below) <= Cardinality(first)
  BY <1>3, <1>5, FS_Subset
<1>7. CountUpTo(S, h) <= n
  BY <1>2, <1>5, <1>6
<1> QED
  BY <1>1, <1>7

-----------------------------------------------------------------------------
(* Sequences.                                                              *)

LEMMA ConcatRange ==
    ASSUME NEW X, NEW s \in Seq(X), NEW t \in Seq(X)
    PROVE  /\ s \o t \in Seq(X) /\ Len(s \o t) = Len(s) + Len(t)
           /\ \A i \in 1 .. Len(s) : (s \o t)[i] = s[i]
           /\ \A i \in 1 .. Len(t) : (s \o t)[Len(s) + i] = t[i]
           /\ Range(s \o t) = Range(s) \cup Range(t)
<1>1. /\ s \o t \in Seq(X) /\ Len(s \o t) = Len(s) + Len(t)
      /\ Len(s) \in Nat /\ Len(t) \in Nat
      /\ DOMAIN s = 1 .. Len(s) /\ DOMAIN t = 1 .. Len(t)
      /\ DOMAIN (s \o t) = 1 .. Len(s) + Len(t)
  OBVIOUS
<1>2. \A i \in 1 .. Len(s) : (s \o t)[i] = s[i] /\ i \in DOMAIN (s \o t)
  OBVIOUS
<1>3. \A i \in 1 .. Len(t) : (s \o t)[Len(s) + i] = t[i] /\ Len(s) + i \in DOMAIN (s \o t)
  OBVIOUS
<1>4. \A i \in DOMAIN (s \o t) :
         i \in 1 .. Len(s) \/ (i - Len(s) \in 1 .. Len(t) /\ i = Len(s) + (i - Len(s)))
  BY <1>1
<1>5. \A x : x \in Range(s \o t) <=> x \in Range(s) \/ x \in Range(t)
  <2>1. ASSUME NEW x \in Range(s \o t)
        PROVE  x \in Range(s) \/ x \in Range(t)
    <3>1. PICK i \in DOMAIN (s \o t) : x = (s \o t)[i]
      BY DEF Range
    <3>2. CASE i \in 1 .. Len(s)
      BY <1>1, <1>2, <3>1, <3>2 DEF Range
    <3>3. CASE i - Len(s) \in 1 .. Len(t) /\ i = Len(s) + (i - Len(s))
      <4>1. (s \o t)[Len(s) + (i - Len(s))] = t[i - Len(s)]
        BY <1>3, <3>3
      <4> QED
        BY <1>1, <3>1, <3>3, <4>1 DEF Range
    <3> QED
      BY <1>4, <3>1, <3>2, <3>3
  <2>2. ASSUME NEW x \in Range(s)
        PROVE  x \in Range(s \o t)
    BY <1>1, <1>2 DEF Range
  <2>3. ASSUME NEW x \in Range(t)
        PROVE  x \in Range(s \o t)
    BY <1>1, <1>3 DEF Range
  <2> QED
    BY <2>1, <2>2, <2>3
<1> QED
  BY <1>1, <1>2, <1>3, <1>5

(* The elements at some places, in the order of the places.                *)
LEMMA AtPlacesFacts ==
    ASSUME NEW X, NEW seq \in Seq(X), NEW S \in SUBSET DOMAIN seq
    PROVE  /\ IsFiniteSet(S) /\ Cardinality(S) \in Nat
           /\ AtPlaces(seq, S) \in Seq(X) /\ DOMAIN AtPlaces(seq, S) = 1 .. Cardinality(S)
           /\ Len(AtPlaces(seq, S)) = Cardinality(S)
           /\ \A i \in S : /\ CountUpTo(S, i) \in 1 .. Cardinality(S)
                           /\ AtPlaces(seq, S)[CountUpTo(S, i)] = seq[i]
           /\ \A k \in 1 .. Cardinality(S) :
                 \E i \in S : CountUpTo(S, i) = k /\ AtPlaces(seq, S)[k] = seq[i]
<1> DEFINE n == Cardinality(S)
           f == Ascending(S)
           g == AtPlaces(seq, S)
<1>1. DOMAIN seq = 1 .. Len(seq) /\ Len(seq) \in Nat
  OBVIOUS
<1>2. IsFiniteSet(DOMAIN seq)
  BY <1>1, FS_Interval
<1>3. S \in SUBSET Nat /\ IsFiniteSet(S)
  BY <1>1, <1>2, FS_Subset
<1>4. /\ n \in Nat /\ f \in [1 .. n -> S]
      /\ \A i \in S : CountUpTo(S, i) \in 1 .. n /\ f[CountUpTo(S, i)] = i
      /\ \A k \in 1 .. n : CountUpTo(S, f[k]) = k
  BY <1>3, AscendingOrder
<1>5. g = [k \in 1 .. n |-> seq[f[k]]]
  BY DEF AtPlaces
<1> HIDE DEF n, f, g
<1>6. g \in [1 .. n -> X]
  BY <1>1, <1>4, <1>5
<1>7. g \in Seq(X) /\ Len(g) = n /\ DOMAIN g = 1 .. n
  BY <1>4, <1>6, FunctionIsSeq
<1> QED
  BY <1>3, <1>4, <1>5, <1>7 DEF n, g

LEMMA AtPlacesRange ==
    ASSUME NEW X, NEW seq \in Seq(X), NEW S \in SUBSET DOMAIN seq
    PROVE  /\ Range(AtPlaces(seq, S)) = {seq[i] : i \in S}
           /\ (\A i, j \in S : seq[i] = seq[j] => i = j) => IsInjective(AtPlaces(seq, S))
<1> DEFINE n == Cardinality(S)
           g == AtPlaces(seq, S)
<1>1. /\ DOMAIN g = 1 .. n
      /\ \A i \in S : CountUpTo(S, i) \in 1 .. n /\ g[CountUpTo(S, i)] = seq[i]
      /\ \A k \in 1 .. n : \E i \in S : CountUpTo(S, i) = k /\ g[k] = seq[i]
  BY AtPlacesFacts
<1> HIDE DEF n, g
<1>2. Range(g) = {seq[i] : i \in S}
  BY <1>1 DEF Range
<1>3. ASSUME \A i, j \in S : seq[i] = seq[j] => i = j
      PROVE  IsInjective(g)
  <2> SUFFICES ASSUME NEW k \in 1 .. n, NEW l \in 1 .. n, g[k] = g[l]
               PROVE  k = l
    BY <1>1 DEF IsInjective
  <2>1. PICK i \in S : CountUpTo(S, i) = k /\ g[k] = seq[i]
    BY <1>1
  <2>2. PICK j \in S : CountUpTo(S, j) = l /\ g[l] = seq[j]
    BY <1>1
  <2> QED
    BY <1>3, <2>1, <2>2
<1> QED
  BY <1>2, <1>3 DEF g

LEMMA AtAllPlaces ==
    ASSUME NEW X, NEW seq \in Seq(X)
    PROVE  AtPlaces(seq, DOMAIN seq) = seq
<1> DEFINE S == DOMAIN seq
           g == AtPlaces(seq, S)
<1>1. S = 1 .. Len(seq) /\ Len(seq) \in Nat
  OBVIOUS
<1>2. Cardinality(S) = Len(seq)
  BY <1>1, FS_Interval
<1>3. \A i \in S : CountUpTo(S, i) = i
  <2> SUFFICES ASSUME NEW i \in S
               PROVE  CountUpTo(S, i) = i
    OBVIOUS
  <2>1. {j \in S : j <= i} = 1 .. i
    BY <1>1
  <2>2. i \in Nat /\ Cardinality(1 .. i) = i
    BY <1>1, FS_Interval
  <2> QED
    BY <2>1, <2>2 DEF CountUpTo
<1>4. /\ g \in Seq(X) /\ DOMAIN g = 1 .. Cardinality(S)
      /\ \A i \in S : g[CountUpTo(S, i)] = seq[i]
  BY AtPlacesFacts
<1> HIDE DEF g
<1>5. g \in Seq(X) /\ DOMAIN g = DOMAIN seq /\ \A i \in DOMAIN seq : g[i] = seq[i]
  BY <1>1, <1>2, <1>3, <1>4
<1>6. g = [i \in DOMAIN g |-> g[i]] /\ seq = [i \in DOMAIN seq |-> seq[i]]
  BY <1>5
<1> QED
  BY <1>5, <1>6 DEF g

LEMMA AtNoPlaces ==
    ASSUME NEW X, NEW seq \in Seq(X)
    PROVE  AtPlaces(seq, {}) = <<>>
<1>1. {} \in SUBSET DOMAIN seq /\ Cardinality({}) = 0
  BY FS_EmptySet
<1>2. AtPlaces(seq, {}) \in Seq(X) /\ Len(AtPlaces(seq, {})) = 0
  BY <1>1, AtPlacesFacts
<1> QED
  BY <1>2
=============================================================================
