------------------------ MODULE HistoryBuilderProofs ------------------------
(***************************************************************************)
(* Proofs about HistoryBuilder.                                            *)
(*                                                                         *)
(* Events are written long before or after they are read, so nothing can   *)
(* be said of the builder and the present state of an activity directly.   *)
(* The invariant compares the present with Built(history, n), the builder  *)
(* of the first n events, for every n at once:                             *)
(*   World    each Built(history, n) has the right Structure (a record for *)
(*            each item first told of, which the maps lead to) and is      *)
(*            Sound: what it says cannot become untrue any more.  The one  *)
(*            that has read the whole history is Full: it says all there   *)
(*            is to say;                                                   *)
(*   Reading  the builder of the fetch is Built(history, position);        *)
(*   Result   after Describe it is Complete.                               *)
(* An action of Temporal adds an event, which concerns only the last of    *)
(* these builders (Extend), or moves the present on, which leaves what is  *)
(* Sound sound.  CloseActivity adds two events and passes through the      *)
(* state between them.  Merging is an induction over Describe's list, as   *)
(* reading is over the events.                                             *)
(*                                                                         *)
(* Where ids are used twice, a pending item may be merged into the record  *)
(* of another: OwnIDs excludes that where the theorem needs it.            *)
(***************************************************************************)
EXTENDS HistoryBuilder, NaturalSetsProofs, TLAPS

-----------------------------------------------------------------------------
(* Reading the history: addEvents as a sequence of steps.                  *)

(* f is the sequence of builders that addEvents goes through.              *)
Adding(f, b, h, m, n) ==
    f = [k \in m .. n |-> IF k = m THEN b ELSE AddEvent(f[k - 1], k, h[k])]

(* Two readings from the same place agree as far as both go.               *)
LEMMA AddingAgrees ==
    ASSUME NEW b, NEW h, NEW m \in Nat, NEW n \in Nat, NEW p \in Nat, NEW f, NEW g,
           Adding(f, b, h, m, n), Adding(g, b, h, m, p)
    PROVE  \A k \in m .. n : k <= p => f[k] = g[k]
<1> DEFINE S == {i \in Nat : m + i <= n /\ m + i <= p => f[m + i] = g[m + i]}
<1>0. /\ \A k \in m .. n : f[k] = IF k = m THEN b ELSE AddEvent(f[k - 1], k, h[k])
      /\ \A k \in m .. p : g[k] = IF k = m THEN b ELSE AddEvent(g[k - 1], k, h[k])
  BY DEF Adding
<1>1. 0 \in S
  BY <1>0
<1>2. ASSUME NEW i \in Nat, i \in S
      PROVE  i + 1 \in S
  <2> SUFFICES ASSUME m + (i + 1) <= n, m + (i + 1) <= p
               PROVE  f[m + (i + 1)] = g[m + (i + 1)]
    OBVIOUS
  <2>1. /\ m + (i + 1) \in m .. n /\ m + (i + 1) \in m .. p /\ m + (i + 1) # m
        /\ (m + (i + 1)) - 1 = m + i
    OBVIOUS
  <2>2. f[m + i] = g[m + i]
    BY <1>2
  <2>3. f[m + (i + 1)] = AddEvent(f[m + i], m + (i + 1), h[m + (i + 1)])
    BY <1>0, <2>1
  <2>4. g[m + (i + 1)] = AddEvent(g[m + i], m + (i + 1), h[m + (i + 1)])
    BY <1>0, <2>1
  <2> QED
    BY <2>2, <2>3, <2>4
<1> HIDE DEF S
<1>3. \A i \in Nat : i \in S
  BY <1>1, <1>2, InductionOnSet
<1> SUFFICES ASSUME NEW k \in m .. n, k <= p
             PROVE  f[k] = g[k]
  OBVIOUS
<1>4. k - m \in S /\ m + (k - m) = k
  BY <1>3
<1> QED
  BY <1>4 DEF S

(* A sequence of builders exists for every number of events.               *)
LEMMA AddingExists ==
    ASSUME NEW b, NEW h, NEW m \in Nat, NEW n \in Nat, m <= n
    PROVE  \E f : Adding(f, b, h, m, n)
<1> DEFINE S == {i \in Nat : \E f : Adding(f, b, h, m, m + i)}
<1>1. 0 \in S
  <2> DEFINE f == [k \in m .. m |-> b]
  <2>1. Adding(f, b, h, m, m)
    BY DEF Adding
  <2> QED
    BY <2>1
<1>2. ASSUME NEW i \in Nat, i \in S
      PROVE  i + 1 \in S
  <2>1. PICK f : Adding(f, b, h, m, m + i)
    BY <1>2
  <2> DEFINE last == AddEvent(f[m + i], m + (i + 1), h[m + (i + 1)])
             g == [k \in m .. m + (i + 1) |-> IF k = m + (i + 1) THEN last ELSE f[k]]
  <2>2. f = [k \in m .. m + i |-> IF k = m THEN b ELSE AddEvent(f[k - 1], k, h[k])]
    BY <2>1 DEF Adding
  <2>3. ASSUME NEW k \in m .. m + (i + 1)
        PROVE  g[k] = IF k = m THEN b ELSE AddEvent(g[k - 1], k, h[k])
    <3>1. CASE k = m + (i + 1)
      <4>1. k # m /\ k - 1 = m + i /\ m + i \in m .. m + (i + 1) /\ m + i # m + (i + 1)
        BY <3>1
      <4>2. g[k - 1] = f[m + i]
        BY <4>1
      <4> QED
        BY <3>1, <4>1, <4>2
    <3>2. CASE k # m + (i + 1)
      <4>1. k \in m .. m + i
        BY <3>2
      <4>2. k # m => k - 1 \in m .. m + (i + 1) /\ k - 1 # m + (i + 1)
        BY <4>1
      <4>3. k # m => g[k - 1] = f[k - 1]
        BY <4>2
      <4>4. g[k] = f[k]
        BY <3>2
      <4>5. f[k] = IF k = m THEN b ELSE AddEvent(f[k - 1], k, h[k])
        BY <2>2, <4>1
      <4> QED
        BY <4>3, <4>4, <4>5
    <3> QED
      BY <3>1, <3>2
  <2>4. DOMAIN g = m .. m + (i + 1)
    OBVIOUS
  <2>5. g = [k \in DOMAIN g |-> g[k]]
    OBVIOUS
  <2> HIDE DEF g
  <2>6. Adding(g, b, h, m, m + (i + 1))
    BY <2>3, <2>4, <2>5 DEF Adding
  <2> QED
    BY <2>6
<1> HIDE DEF S
<1>3. n - m \in S /\ m + (n - m) = n
  BY <1>1, <1>2, InductionOnSet
<1> QED
  BY <1>3 DEF S

(* What addEvents goes through.                                            *)
LEMMA AddEventsIs ==
    ASSUME NEW b, NEW h, NEW m \in Nat, NEW n \in Nat, m <= n
    PROVE  \E f : Adding(f, b, h, m, n) /\ AddEvents(b, h, m, n) = f[n]
<1> DEFINE f == CHOOSE g : Adding(g, b, h, m, n)
<1>1. Adding(f, b, h, m, n)
  BY AddingExists
<1>2. AddEvents(b, h, m, n) = f[n]
  BY DEF AddEvents, Adding
<1> QED
  BY <1>1, <1>2

(* No events change nothing.                                               *)
LEMMA AddNone ==
    ASSUME NEW b, NEW h, NEW m \in Nat
    PROVE  AddEvents(b, h, m, m) = b
<1>1. PICK f : Adding(f, b, h, m, m) /\ AddEvents(b, h, m, m) = f[m]
  BY AddEventsIs
<1> QED
  BY <1>1 DEF Adding

(* One event more is one AddEvent more: pages of any size come to the      *)
(* same.                                                                   *)
LEMMA AddOneMore ==
    ASSUME NEW b, NEW h, NEW m \in Nat, NEW n \in Nat, m <= n
    PROVE  AddEvents(b, h, m, n + 1) = AddEvent(AddEvents(b, h, m, n), n + 1, h[n + 1])
<1>1. PICK f : Adding(f, b, h, m, n) /\ AddEvents(b, h, m, n) = f[n]
  BY AddEventsIs
<1>2. PICK g : Adding(g, b, h, m, n + 1) /\ AddEvents(b, h, m, n + 1) = g[n + 1]
  BY AddEventsIs
<1>3. f[n] = g[n]
  BY <1>1, <1>2, AddingAgrees
<1>4. g[n + 1] = AddEvent(g[n], n + 1, h[n + 1])
  <2>1. n + 1 \in m .. n + 1 /\ n + 1 # m /\ (n + 1) - 1 = n
    OBVIOUS
  <2> QED
    BY <1>2, <2>1 DEF Adding
<1> QED
  BY <1>1, <1>2, <1>3, <1>4

(* Pages that follow each other read what one page would.                  *)
LEMMA AddSplit ==
    ASSUME NEW b, NEW h, NEW m \in Nat, NEW n \in Nat, m <= n
    PROVE  AddEvents(AddEvents(b, h, 0, m), h, m, n) = AddEvents(b, h, 0, n)
<1> DEFINE c == AddEvents(b, h, 0, m)
           S == {i \in Nat : AddEvents(c, h, m, m + i) = AddEvents(b, h, 0, m + i)}
<1>1. 0 \in S
  BY AddNone
<1>2. ASSUME NEW i \in Nat, i \in S
      PROVE  i + 1 \in S
  <2>1. AddEvents(c, h, m, m + i) = AddEvents(b, h, 0, m + i)
    BY <1>2
  <2>0. m + i \in Nat /\ m <= m + i /\ 0 <= m + i
    OBVIOUS
  <2> HIDE DEF c
  <2>2. AddEvents(c, h, m, (m + i) + 1) =
          AddEvent(AddEvents(c, h, m, m + i), (m + i) + 1, h[(m + i) + 1])
    BY <2>0, AddOneMore
  <2>3. AddEvents(b, h, 0, (m + i) + 1) =
          AddEvent(AddEvents(b, h, 0, m + i), (m + i) + 1, h[(m + i) + 1])
    BY <2>0, AddOneMore
  <2>4. (m + i) + 1 = m + (i + 1)
    OBVIOUS
  <2> QED
    BY <2>1, <2>2, <2>3, <2>4
<1> HIDE DEF S
<1>3. n - m \in S /\ m + (n - m) = n
  BY <1>1, <1>2, InductionOnSet
<1> QED
  BY <1>3 DEF S

(* What was read does not depend on what is appended.                      *)
LEMMA AddPrefix ==
    ASSUME NEW b, NEW h, NEW g, NEW n \in Nat, \A k \in 1 .. n : h[k] = g[k]
    PROVE  AddEvents(b, h, 0, n) = AddEvents(b, g, 0, n)
<1> DEFINE S == {i \in Nat : i <= n => AddEvents(b, h, 0, i) = AddEvents(b, g, 0, i)}
<1>1. 0 \in S
  BY AddNone
<1>2. ASSUME NEW i \in Nat, i \in S
      PROVE  i + 1 \in S
  <2> SUFFICES ASSUME i + 1 <= n
               PROVE  AddEvents(b, h, 0, i + 1) = AddEvents(b, g, 0, i + 1)
    OBVIOUS
  <2>1. AddEvents(b, h, 0, i) = AddEvents(b, g, 0, i)
    BY <1>2
  <2>2. AddEvents(b, h, 0, i + 1) = AddEvent(AddEvents(b, h, 0, i), i + 1, h[i + 1])
    BY AddOneMore
  <2>3. AddEvents(b, g, 0, i + 1) = AddEvent(AddEvents(b, g, 0, i), i + 1, g[i + 1])
    BY AddOneMore
  <2>4. h[i + 1] = g[i + 1]
    OBVIOUS
  <2> QED
    BY <2>1, <2>2, <2>3, <2>4
<1> HIDE DEF S
<1>3. n \in S
  BY <1>1, <1>2, InductionOnSet
<1> QED
  BY <1>3 DEF S

-----------------------------------------------------------------------------
(* Messages.                                                               *)

LEMMA CountFacts ==
    ASSUME NEW s \in Seq(STRING), NEW m \in STRING
    PROVE  /\ Count(s, m) \in Nat
           /\ m \in Range(s) <=> Count(s, m) >= 1
<1> DEFINE at == {k \in DOMAIN s : s[k] = m}
<1>1. DOMAIN s = 1 .. Len(s) /\ Len(s) \in Nat
  OBVIOUS
<1>2. IsFiniteSet(at)
  <2>1. IsFiniteSet(DOMAIN s)
    BY <1>1, FS_Interval
  <2>2. at \in SUBSET DOMAIN s
    OBVIOUS
  <2> QED
    BY <2>1, <2>2, FS_Subset
<1>3. Cardinality(at) \in Nat /\ (Cardinality(at) = 0 <=> at = {})
  BY <1>2, FS_CardinalityType, FS_EmptySet
<1>4. m \in Range(s) <=> at # {}
  BY DEF Range
<1>5. Count(s, m) = Cardinality(at)
  BY DEF Count
<1> HIDE DEF at
<1>6. Cardinality(at) = 0 \/ Cardinality(at) >= 1
  BY <1>3
<1>7. ~(Cardinality(at) = 0 /\ Cardinality(at) >= 1)
  OBVIOUS
<1> QED
  BY <1>3, <1>4, <1>5, <1>6, <1>7, Zenon

(* There are no members in an empty list.                                  *)
LEMMA CountOfNone ==
    \A m : Count(<<>>, m) = 0
<1> SUFFICES ASSUME NEW m
             PROVE  Count(<<>>, m) = 0
  OBVIOUS
<1>1. {k \in DOMAIN <<>> : <<>>[k] = m} = {}
  OBVIOUS
<1> QED
  BY <1>1, FS_EmptySet DEF Count

(* The members of a list are those of its two parts.                       *)
LEMMA CountOfParts ==
    ASSUME NEW s, NEW t, NEW c, NEW n \in Nat, NEW p \in Nat, NEW m,
           DOMAIN s = 1 .. n, DOMAIN t = 1 .. p, DOMAIN c = 1 .. n + p,
           \A k \in 1 .. n : c[k] = s[k], \A k \in 1 .. p : c[n + k] = t[k]
    PROVE  Count(c, m) = Count(s, m) + Count(t, m)
<1> DEFINE left == {k \in 1 .. n : s[k] = m}
           right == {k \in 1 .. p : t[k] = m}
           shifted == {k \in n + 1 .. n + p : c[k] = m}
           all == {k \in 1 .. n + p : c[k] = m}
<1>1. IsFiniteSet(left) /\ IsFiniteSet(right) /\ IsFiniteSet(shifted)
  <2>1. IsFiniteSet(1 .. n) /\ IsFiniteSet(1 .. p) /\ IsFiniteSet(n + 1 .. n + p)
    BY FS_Interval
  <2>2. left \in SUBSET (1 .. n) /\ right \in SUBSET (1 .. p) /\ shifted \in SUBSET (n + 1 .. n + p)
    OBVIOUS
  <2> QED
    BY <2>1, <2>2, FS_Subset
<1>2. \A k : k \in all <=> k \in left \/ k \in shifted
  OBVIOUS
<1>3. all = left \cup shifted
  BY <1>2
<1>4. \A k : ~(k \in left /\ k \in shifted)
  OBVIOUS
<1>5. left \cap shifted = {}
  BY <1>4
<1>6. Cardinality(shifted) = Cardinality(right)
  <2> DEFINE f == [k \in right |-> n + k]
  <2>1. \A k \in right : f[k] \in shifted
    OBVIOUS
  <2>2. \A k, l \in right : f[k] = f[l] => k = l
    OBVIOUS
  <2>3. ASSUME NEW k \in shifted
        PROVE  \E l \in right : f[l] = k
    <3>1. k - n \in 1 .. p /\ n + (k - n) = k
      OBVIOUS
    <3>2. c[n + (k - n)] = t[k - n]
      BY <3>1
    <3>3. k - n \in right
      BY <3>1, <3>2
    <3> QED
      BY <3>1, <3>3
  <2>4. DOMAIN f = right
    OBVIOUS
  <2>5. f = [k \in right |-> f[k]]
    OBVIOUS
  <2> HIDE DEF right, shifted, f
  <2>6. f \in [right -> shifted]
    BY <2>1, <2>5
  <2>7. f \in Injection(right, shifted)
    BY <2>2, <2>4, <2>6 DEF Injection, IsInjective
  <2>8. f \in Surjection(right, shifted)
    BY <2>3, <2>6 DEF Surjection
  <2>9. ExistsBijection(right, shifted)
    BY <2>7, <2>8 DEF ExistsBijection, Bijection
  <2> QED
    BY <1>1, <2>9, FS_Bijection
<1>7. /\ Count(s, m) = Cardinality(left) /\ Count(t, m) = Cardinality(right)
      /\ Count(c, m) = Cardinality(all)
  BY DEF Count
<1> HIDE DEF left, right, shifted, all
<1>8. Cardinality(all) = Cardinality(left) + Cardinality(shifted) - Cardinality(left \cap shifted)
  BY <1>1, <1>3, FS_Union
<1>9. Cardinality(left \cap shifted) = 0 /\ Cardinality(left) \in Nat /\ Cardinality(right) \in Nat
  BY <1>1, <1>5, FS_EmptySet, FS_CardinalityType
<1> QED
  BY <1>6, <1>7, <1>8, <1>9

(* Concatenation adds the counts up.                                       *)
LEMMA CountOfConcat ==
    ASSUME NEW X, NEW s \in Seq(X), NEW t \in Seq(X), NEW m
    PROVE  Count(s \o t, m) = Count(s, m) + Count(t, m)
<1> DEFINE c == s \o t
           n == Len(s)
           p == Len(t)
<1>1. n \in Nat /\ p \in Nat
  OBVIOUS
<1>2. DOMAIN s = 1 .. n /\ DOMAIN t = 1 .. p /\ DOMAIN c = 1 .. n + p
  OBVIOUS
<1>3. \A k \in 1 .. n : c[k] = s[k]
  OBVIOUS
<1>4. \A k \in 1 .. p : c[n + k] = t[k]
  OBVIOUS
<1> HIDE DEF c, n, p
<1>5. Count(c, m) = Count(s, m) + Count(t, m)
  BY <1>1, <1>2, <1>3, <1>4, CountOfParts, SMTT(30)
<1> QED
  BY <1>5 DEF c

(* An appended member counts for itself only.                              *)
LEMMA CountOfAppend ==
    ASSUME NEW X, NEW s \in Seq(X), NEW x \in X, NEW m
    PROVE  /\ x = m => Count(Append(s, x), m) = Count(s, m) + 1
           /\ x # m => Count(Append(s, x), m) = Count(s, m)
<1> DEFINE c == Append(s, x)
           t == <<x>>
           n == Len(s)
           p == 1
<1>1. n \in Nat /\ p \in Nat
  OBVIOUS
<1>2. DOMAIN s = 1 .. n /\ DOMAIN t = 1 .. p /\ DOMAIN c = 1 .. n + p
  OBVIOUS
<1>3. \A k \in 1 .. n : c[k] = s[k]
  OBVIOUS
<1>4. \A k \in 1 .. p : c[n + k] = t[k]
  OBVIOUS
<1>5. {k \in 1 .. p : t[k] = m} = IF x = m THEN {1} ELSE {}
  OBVIOUS
<1> HIDE DEF c, t, n, p
<1>6. Count(c, m) = Count(s, m) + Count(t, m)
  BY <1>1, <1>2, <1>3, <1>4, CountOfParts, SMTT(30)
<1>7. (x = m => Count(t, m) = 1) /\ (x # m => Count(t, m) = 0)
  BY <1>2, <1>5, FS_EmptySet, FS_Singleton DEF Count
<1>8. Count(s, m) \in Nat
  <2>1. {k \in 1 .. n : s[k] = m} \in SUBSET (1 .. n) /\ IsFiniteSet(1 .. n)
    BY <1>1, FS_Interval
  <2>2. Cardinality({k \in 1 .. n : s[k] = m}) \in Nat
    BY <2>1, FS_Subset, FS_CardinalityType
  <2> QED
    BY <1>2, <2>2 DEF Count
<1> QED
  BY <1>6, <1>7, <1>8 DEF c

(* Appending adds one member.                                              *)
LEMMA RangeOfAppend ==
    ASSUME NEW X, NEW s \in Seq(X), NEW x \in X
    PROVE  Range(Append(s, x)) = Range(s) \cup {x}
<1> DEFINE c == Append(s, x)
           n == Len(s)
<1>1. n \in Nat /\ DOMAIN s = 1 .. n /\ DOMAIN c = 1 .. n + 1
  OBVIOUS
<1>2. (\A k \in 1 .. n : c[k] = s[k]) /\ c[n + 1] = x
  OBVIOUS
<1> HIDE DEF c, n
<1>3. \A y : y \in Range(c) <=> \E k \in 1 .. n + 1 : y = c[k]
  BY <1>1 DEF Range
<1>4. \A y : y \in Range(s) <=> \E k \in 1 .. n : y = s[k]
  BY <1>1 DEF Range
<1>5. \A k \in 1 .. n + 1 : k \in 1 .. n \/ k = n + 1
  BY <1>1
<1>6. \A k \in 1 .. n : k \in 1 .. n + 1
  BY <1>1
<1>7. n + 1 \in 1 .. n + 1
  BY <1>1
<1>8. \A y : y \in Range(c) <=> y \in Range(s) \cup {x}
  BY <1>2, <1>3, <1>4, <1>5, <1>6, <1>7
<1> QED
  BY <1>8 DEF c

(* f is the sequence of lists that appendFailureMessages goes through.     *)
Appending(f, s, t, n) ==
    f = [k \in 0 .. n |->
           IF k = 0 THEN s
           ELSE IF t[k] \in Range(f[k - 1]) THEN f[k - 1]
           ELSE Append(f[k - 1], t[k])]

(* The recursion of AppendUnseen has a value at every length.              *)
LEMMA AppendingExists ==
    ASSUME NEW s, NEW t, NEW n \in Nat
    PROVE  \E f : Appending(f, s, t, n)
<1> DEFINE S == {i \in Nat : \E f : Appending(f, s, t, i)}
<1>1. 0 \in S
  <2> DEFINE f == [k \in 0 .. 0 |-> s]
  <2>1. Appending(f, s, t, 0)
    BY DEF Appending
  <2> QED
    BY <2>1
<1>2. ASSUME NEW i \in Nat, i \in S
      PROVE  i + 1 \in S
  <2>1. PICK f : Appending(f, s, t, i)
    BY <1>2
  <2> DEFINE last == IF t[i + 1] \in Range(f[i]) THEN f[i] ELSE Append(f[i], t[i + 1])
             g == [k \in 0 .. i + 1 |-> IF k = i + 1 THEN last ELSE f[k]]
  <2>2. \A k \in 0 .. i :
          f[k] = IF k = 0 THEN s
                 ELSE IF t[k] \in Range(f[k - 1]) THEN f[k - 1]
                 ELSE Append(f[k - 1], t[k])
    BY <2>1 DEF Appending
  <2>3. ASSUME NEW k \in 0 .. i + 1
        PROVE  g[k] = IF k = 0 THEN s
                      ELSE IF t[k] \in Range(g[k - 1]) THEN g[k - 1]
                      ELSE Append(g[k - 1], t[k])
    <3>1. CASE k = i + 1
      <4>1. k # 0 /\ k - 1 = i /\ i \in 0 .. i + 1 /\ i # i + 1
        BY <3>1
      <4>2. g[k - 1] = f[i]
        BY <4>1
      <4> QED
        BY <3>1, <4>1, <4>2
    <3>2. CASE k # i + 1
      <4>1. k \in 0 .. i
        BY <3>2
      <4>2. k # 0 => k - 1 \in 0 .. i + 1 /\ k - 1 # i + 1
        BY <4>1
      <4>3. k # 0 => g[k - 1] = f[k - 1]
        BY <4>2
      <4>4. g[k] = f[k]
        BY <3>2
      <4> QED
        BY <2>2, <4>1, <4>3, <4>4
    <3> QED
      BY <3>1, <3>2
  <2>4. DOMAIN g = 0 .. i + 1 /\ g = [k \in DOMAIN g |-> g[k]]
    OBVIOUS
  <2> HIDE DEF g
  <2>5. Appending(g, s, t, i + 1)
    BY <2>3, <2>4 DEF Appending
  <2> QED
    BY <2>5
<1> HIDE DEF S
<1>3. n \in S
  BY <1>1, <1>2, InductionOnSet
<1> QED
  BY <1>3 DEF S

(* A message is counted as before or, when it was not there, once.         *)
LEMMA AppendUnseenFacts ==
    ASSUME NEW s \in Seq(STRING), NEW t \in Seq(STRING)
    PROVE  /\ AppendUnseen(s, t) \in Seq(STRING)
           /\ Range(s) \subseteq Range(AppendUnseen(s, t))
           /\ Range(t) \subseteq Range(AppendUnseen(s, t))
           /\ \A m \in STRING : \/ Count(AppendUnseen(s, t), m) = Count(s, m)
                                \/ m \in Range(t) /\ Count(AppendUnseen(s, t), m) = 1
<1> DEFINE n == Len(t)
           f == CHOOSE g : Appending(g, s, t, n)
<1>1. n \in Nat /\ DOMAIN t = 1 .. n /\ \A k \in 1 .. n : t[k] \in STRING
  OBVIOUS
<1>2. Appending(f, s, t, n)
  BY <1>1, AppendingExists
<1>3. AppendUnseen(s, t) = f[n]
  BY DEF AppendUnseen, Appending
<1> HIDE DEF n, f
<1>4. /\ f[0] = s
      /\ \A k \in 1 .. n : f[k] = IF t[k] \in Range(f[k - 1]) THEN f[k - 1]
                                  ELSE Append(f[k - 1], t[k])
  <2>1. \A k \in 0 .. n :
          f[k] = IF k = 0 THEN s
                 ELSE IF t[k] \in Range(f[k - 1]) THEN f[k - 1]
                 ELSE Append(f[k - 1], t[k])
    BY <1>2 DEF Appending
  <2> QED
    BY <1>1, <2>1
<1> DEFINE OK(k) ==
             /\ f[k] \in Seq(STRING)
             /\ Range(s) \subseteq Range(f[k])
             /\ \A j \in 1 .. k : t[j] \in Range(f[k])
             /\ \A m \in STRING : \/ Count(f[k], m) = Count(s, m)
                                  \/ m \in Range(t) /\ Count(f[k], m) = 1
           S == {k \in Nat : k <= n => OK(k)}
<1>10. OK(0)
  <2>1. \A j \in 1 .. 0 : FALSE
    OBVIOUS
  <2>2. f[0] = s
    BY <1>4
  <2> QED
    BY <2>1, <2>2
<1> HIDE DEF OK
<1>5. 0 \in S
  BY <1>10
<1>6. ASSUME NEW k \in Nat, k \in S
      PROVE  k + 1 \in S
  <2> SUFFICES ASSUME k + 1 <= n
               PROVE  OK(k + 1)
    OBVIOUS
  <2>0. OK(k) /\ k + 1 \in 1 .. n /\ (k + 1) - 1 = k
    BY <1>1, <1>6
  <2> USE DEF OK
  <2>1. OK(k) /\ k + 1 \in 1 .. n /\ (k + 1) - 1 = k
    BY <2>0
  <2>2. f[k + 1] = IF t[k + 1] \in Range(f[k]) THEN f[k] ELSE Append(f[k], t[k + 1])
    BY <1>4, <2>1
  <2>3. \A j \in 1 .. k + 1 : j \in 1 .. k \/ j = k + 1
    OBVIOUS
  <2>4. CASE t[k + 1] \in Range(f[k])
    <3>1. f[k + 1] = f[k]
      BY <2>2, <2>4
    <3> QED
      BY <2>1, <2>3, <2>4, <3>1
  <2>5. CASE t[k + 1] \notin Range(f[k])
    <3> DEFINE x == t[k + 1]
    <3>1. f[k + 1] = Append(f[k], x) /\ x \in STRING /\ f[k] \in Seq(STRING)
      BY <1>1, <2>1, <2>2, <2>5
    <3>2. Range(f[k + 1]) = Range(f[k]) \cup {x} /\ f[k + 1] \in Seq(STRING)
      BY <3>1, RangeOfAppend
    <3>3. \A j \in 1 .. k + 1 : t[j] \in Range(f[k + 1])
      BY <2>1, <2>3, <3>2
    <3>4. ASSUME NEW m \in STRING
          PROVE  \/ Count(f[k + 1], m) = Count(s, m)
                 \/ m \in Range(t) /\ Count(f[k + 1], m) = 1
      <4> DEFINE a == f[k]
                 d == Append(a, x)
      <4>0. a \in Seq(STRING) /\ x \in STRING /\ f[k + 1] = d
        BY <3>1
      <4> HIDE DEF a, x
      <4>5. (x = m => Count(d, m) = Count(a, m) + 1) /\ (x # m => Count(d, m) = Count(a, m))
        BY <4>0, CountOfAppend
      <4>6. Count(a, m) \in Nat /\ (m \in Range(a) <=> Count(a, m) >= 1)
        BY <4>0, CountFacts
      <4> HIDE DEF d
      <4>1. /\ x = m => Count(f[k + 1], m) = Count(f[k], m) + 1
            /\ x # m => Count(f[k + 1], m) = Count(f[k], m)
            /\ Count(f[k], m) \in Nat
            /\ m \in Range(f[k]) <=> Count(f[k], m) >= 1
        BY <4>0, <4>5, <4>6 DEF a
      <4>2. CASE x = m
        <5>0. ~(Count(f[k], m) >= 1)
          BY <2>5, <4>1, <4>2 DEF x
        <5>3. \A i \in Nat : ~(i >= 1) => i + 1 = 1
          OBVIOUS
        <5>4. Count(f[k], m) + 1 = 1
          BY <4>1, <5>0, <5>3, Zenon
        <5>1. Count(f[k + 1], m) = 1
          BY <4>1, <4>2, <5>4, Zenon
        <5>2. m \in Range(t)
          BY <1>1, <2>1, <4>2 DEF Range, x
        <5> QED
          BY <5>1, <5>2
      <4>3. CASE x # m
        <5>1. Count(f[k + 1], m) = Count(f[k], m)
          BY <4>1, <4>3
        <5> QED
          BY <2>1, <5>1
      <4> QED
        BY <4>2, <4>3
    <3> QED
      BY <2>1, <3>2, <3>3, <3>4
  <2> QED
    BY <2>4, <2>5
<1> HIDE DEF S
<1>7. n \in S
  BY <1>1, <1>5, <1>6, InductionOnSet
<1>8. OK(n)
  BY <1>1, <1>7 DEF S
<1> USE DEF OK
<1>9. Range(t) \subseteq Range(f[n])
  BY <1>1, <1>8 DEF Range
<1> QED
  BY <1>3, <1>8, <1>9

-----------------------------------------------------------------------------
(* The builder.                                                            *)

ActivityRecords ==
    [of : Activities, attempts : Nat, started : BOOLEAN, ended : BOOLEAN, outputs : BOOLEAN,
     errors : Seq(STRING), paused : BOOLEAN]
ChildRecords ==
    [of : Children, started : BOOLEAN, ended : BOOLEAN, outputs : BOOLEAN, errors : Seq(STRING)]
WorkflowTypes == {"WorkflowStarted", "WorkflowClosed"}
ActivityTypes == {"ActivityStarted", "ActivityCompleted", "ActivityFailed"}
ChildTypes == {"ChildStarted", "ChildCompleted", "ChildFailed"}
EventTypes == WorkflowTypes \cup {"ActivityScheduled", "ChildInitiated"} \cup ActivityTypes \cup ChildTypes
Events ==
    [type : EventTypes, of : Activities \cup Children \cup {"workflow"}, ref : Nat, attempt : Nat,
     messages : Seq(STRING)]

BuilderOf(inputs, errors, activities, children, byID, byEvent, childByEvent) ==
    [inputs |-> inputs, errors |-> errors, activities |-> activities, children |-> children,
     activityByID |-> byID, activityByEvent |-> byEvent, childByEvent |-> childByEvent]

IsBuilder(b) ==
    /\ b = BuilderOf(b.inputs, b.errors, b.activities, b.children, b.activityByID,
                     b.activityByEvent, b.childByEvent)
    /\ b.inputs \in BOOLEAN /\ b.errors \in Seq(STRING)
    /\ b.activities \in Seq(ActivityRecords) /\ b.children \in Seq(ChildRecords)

(* The builder after the first n events of h: one record for an activity   *)
(* and for a child, which the maps lead to.                                *)
ActivityStructure(b, h, n) ==
    /\ \A k, l \in DOMAIN b.activities : b.activities[k].of = b.activities[l].of => k = l
    /\ \A k \in DOMAIN b.activityByEvent :
          /\ b.activityByEvent[k] \in DOMAIN b.activities
          /\ b.activities[b.activityByEvent[k]].of = h[k].of
    /\ \A k \in 1 .. n : h[k].of \in Activities /\ h[k].ref = 0 => k \in DOMAIN b.activityByEvent
    /\ DOMAIN b.activityByEvent \subseteq 1 .. n
    /\ \A id \in DOMAIN b.activityByID :
          /\ b.activityByID[id] \in DOMAIN b.activities
          /\ ActivityID[b.activities[b.activityByID[id]].of] = id
    /\ \A k \in DOMAIN b.activities : ActivityID[b.activities[k].of] \in DOMAIN b.activityByID
ChildStructure(b, h, n) ==
    /\ \A k, l \in DOMAIN b.children : b.children[k].of = b.children[l].of => k = l
    /\ \A k \in DOMAIN b.childByEvent :
          /\ b.childByEvent[k] \in DOMAIN b.children
          /\ b.children[b.childByEvent[k]].of = h[k].of
    /\ \A k \in 1 .. n : h[k].of \in Children /\ h[k].ref = 0 => k \in DOMAIN b.childByEvent
    /\ DOMAIN b.childByEvent \subseteq 1 .. n
Structure(b, h, n) == IsBuilder(b) /\ ActivityStructure(b, h, n) /\ ChildStructure(b, h, n)

(* Put adds its key,                                                       *)
LEMMA PutDomain ==
    ASSUME NEW f, NEW x, NEW y
    PROVE  DOMAIN Put(f, x, y) = DOMAIN f \cup {x}
BY DEF Put

(* leads from its key to its value                                         *)
LEMMA PutValue ==
    ASSUME NEW f, NEW x, NEW y
    PROVE  Put(f, x, y)[x] = y
BY DEF Put

(* and leaves the other keys alone.                                        *)
LEMMA PutElsewhere ==
    ASSUME NEW f, NEW x, NEW y
    PROVE  \A z \in DOMAIN f : z # x => Put(f, x, y)[z] = f[z]
BY DEF Put

(* The fields of a builder written out.                                    *)
LEMMA Fields ==
    ASSUME NEW c, NEW inputs, NEW errors, NEW activities, NEW children, NEW byID, NEW byEvent,
           NEW childByEvent,
           c = BuilderOf(inputs, errors, activities, children, byID, byEvent, childByEvent)
    PROVE  /\ c.inputs = inputs /\ c.errors = errors /\ c.activities = activities
           /\ c.children = children /\ c.activityByID = byID /\ c.activityByEvent = byEvent
           /\ c.childByEvent = childByEvent
BY DEF BuilderOf

(* The elements of a list with one more,                                   *)
LEMMA AppendFacts ==
    ASSUME NEW X, NEW s \in Seq(X), NEW x \in X
    PROVE  /\ Append(s, x) \in Seq(X) /\ Len(s) \in Nat
           /\ DOMAIN s = 1 .. Len(s) /\ DOMAIN Append(s, x) = 1 .. Len(s) + 1
           /\ Len(Append(s, x)) = Len(s) + 1
           /\ \A k \in 1 .. Len(s) : Append(s, x)[k] = s[k]
           /\ Append(s, x)[Len(s) + 1] = x
OBVIOUS

(* and of a list with one replaced.                                        *)
LEMMA ReplaceFacts ==
    ASSUME NEW X, NEW s \in Seq(X), NEW i \in DOMAIN s, NEW x \in X
    PROVE  /\ [s EXCEPT ![i] = x] \in Seq(X)
           /\ DOMAIN [s EXCEPT ![i] = x] = DOMAIN s
           /\ [s EXCEPT ![i] = x][i] = x
           /\ \A k \in DOMAIN s : k # i => [s EXCEPT ![i] = x][k] = s[k]
OBVIOUS

(* A new record is a record of its item.                                   *)
LEMMA NewRecords ==
    /\ \A a \in Activities : NewActivity(a) \in ActivityRecords /\ NewActivity(a).of = a
    /\ \A c \in Children : NewChild(c) \in ChildRecords /\ NewChild(c).of = c
BY DEF NewActivity, NewChild, ActivityRecords, ChildRecords

(* A new builder is well formed for a history of which nothing is read.    *)
LEMMA NewBuilderStructure ==
    ASSUME NEW h
    PROVE  Structure(NewBuilder, h, 0)
<1>1. IsBuilder(NewBuilder)
  BY DEF IsBuilder, BuilderOf, NewBuilder
<1>2. /\ DOMAIN NewBuilder.activities = {} /\ DOMAIN NewBuilder.children = {}
      /\ DOMAIN NewBuilder.activityByID = {} /\ DOMAIN NewBuilder.activityByEvent = {}
      /\ DOMAIN NewBuilder.childByEvent = {} /\ 1 .. 0 = {}
  BY DEF NewBuilder
<1> QED
  BY <1>1, <1>2 DEF Structure, ActivityStructure, ChildStructure

(* The fields after a record is replaced.                                  *)
WithActivity(b, i, r) == [b EXCEPT !.activities[i] = r]
WithChild(b, i, r) == [b EXCEPT !.children[i] = r]

SameButActivity(b, c) ==
    /\ c.inputs = b.inputs /\ c.errors = b.errors /\ c.children = b.children
    /\ c.activityByID = b.activityByID /\ c.activityByEvent = b.activityByEvent
    /\ c.childByEvent = b.childByEvent
SameButChild(b, c) ==
    /\ c.inputs = b.inputs /\ c.errors = b.errors /\ c.activities = b.activities
    /\ c.activityByID = b.activityByID /\ c.activityByEvent = b.activityByEvent
    /\ c.childByEvent = b.childByEvent

(* Replacing the record of an activity touches nothing else.               *)
LEMMA SetActivity ==
    ASSUME NEW b, IsBuilder(b), NEW i \in DOMAIN b.activities, NEW r \in ActivityRecords
    PROVE  /\ IsBuilder(WithActivity(b, i, r))
           /\ WithActivity(b, i, r).activities = [b.activities EXCEPT ![i] = r]
           /\ SameButActivity(b, WithActivity(b, i, r))
<1> DEFINE new == [b.activities EXCEPT ![i] = r]
           c == WithActivity(b, i, r)
<1>1. new \in Seq(ActivityRecords)
  BY ReplaceFacts DEF IsBuilder
<1>2. c = [b EXCEPT !.activities = new]
  BY DEF WithActivity
<1> HIDE DEF new, c
<1>3. c = BuilderOf(b.inputs, b.errors, new, b.children, b.activityByID,
                    b.activityByEvent, b.childByEvent)
  BY <1>2 DEF IsBuilder, BuilderOf
<1>4. /\ c.inputs = b.inputs /\ c.errors = b.errors /\ c.children = b.children
      /\ c.activityByID = b.activityByID /\ c.activityByEvent = b.activityByEvent
      /\ c.childByEvent = b.childByEvent /\ c.activities = new
  BY <1>3, Fields
<1>5. IsBuilder(c)
  BY <1>1, <1>3, <1>4 DEF IsBuilder
<1> QED
  BY <1>4, <1>5 DEF SameButActivity, c, new

(* The same for a child.                                                   *)
LEMMA SetChild ==
    ASSUME NEW b, IsBuilder(b), NEW i \in DOMAIN b.children, NEW r \in ChildRecords
    PROVE  /\ IsBuilder(WithChild(b, i, r))
           /\ WithChild(b, i, r).children = [b.children EXCEPT ![i] = r]
           /\ SameButChild(b, WithChild(b, i, r))
<1> DEFINE new == [b.children EXCEPT ![i] = r]
           c == WithChild(b, i, r)
<1>1. new \in Seq(ChildRecords)
  BY ReplaceFacts DEF IsBuilder
<1>2. c = [b EXCEPT !.children = new]
  BY DEF WithChild
<1> HIDE DEF new, c
<1>3. c = BuilderOf(b.inputs, b.errors, b.activities, new, b.activityByID,
                    b.activityByEvent, b.childByEvent)
  BY <1>2 DEF IsBuilder, BuilderOf
<1>4. /\ c.inputs = b.inputs /\ c.errors = b.errors /\ c.activities = b.activities
      /\ c.activityByID = b.activityByID /\ c.activityByEvent = b.activityByEvent
      /\ c.childByEvent = b.childByEvent /\ c.children = new
  BY <1>3, Fields
<1>5. IsBuilder(c)
  BY <1>1, <1>3, <1>4 DEF IsBuilder
<1> QED
  BY <1>4, <1>5 DEF SameButChild, c, new

(* What a history goes on with does not matter to what was read of it.     *)
LEMMA StructureOfPrefix ==
    ASSUME NEW b, NEW h, NEW g, NEW n \in Nat, Structure(b, h, n), \A k \in 1 .. n : g[k] = h[k]
    PROVE  Structure(b, g, n)
<1>1. \A k \in DOMAIN b.activityByEvent : g[k] = h[k]
  BY DEF Structure, ActivityStructure, ChildStructure
<1>2. \A k \in DOMAIN b.childByEvent : g[k] = h[k]
  BY DEF Structure, ActivityStructure, ChildStructure
<1> QED
  BY <1>1, <1>2 DEF Structure, ActivityStructure, ChildStructure

(* An event that neither schedules nor initiates leaves the structure as   *)
(* it is.                                                                  *)
LEMMA StructureSkips ==
    ASSUME NEW b, NEW h, NEW n \in Nat, Structure(b, h, n),
           h[n + 1].of = "workflow" \/ h[n + 1].ref # 0
    PROVE  Structure(b, h, n + 1)
<1>1. \A k \in 1 .. n + 1 : k \in 1 .. n \/ k = n + 1
  OBVIOUS
<1>2. \A k \in 1 .. n : k \in 1 .. n + 1
  OBVIOUS
<1>3. "workflow" \notin Activities /\ "workflow" \notin Children
  BY ItemAssumption
<1>4. \A k \in 1 .. n + 1 : h[k].of \in Activities /\ h[k].ref = 0 => k \in DOMAIN b.activityByEvent
  BY <1>1, <1>3 DEF Structure, ActivityStructure, ChildStructure
<1>5. \A k \in 1 .. n + 1 : h[k].of \in Children /\ h[k].ref = 0 => k \in DOMAIN b.childByEvent
  BY <1>1, <1>3 DEF Structure, ActivityStructure, ChildStructure
<1>6. DOMAIN b.activityByEvent \subseteq 1 .. n + 1 /\ DOMAIN b.childByEvent \subseteq 1 .. n + 1
  BY <1>2 DEF Structure, ActivityStructure, ChildStructure
<1> QED
  BY <1>4, <1>5, <1>6 DEF Structure, ActivityStructure, ChildStructure

(* So does replacing a record by one of the same activity                  *)
LEMMA StructureWithActivity ==
    ASSUME NEW b, NEW h, NEW n \in Nat, Structure(b, h, n), NEW i \in DOMAIN b.activities,
           NEW r \in ActivityRecords, r.of = b.activities[i].of
    PROVE  Structure(WithActivity(b, i, r), h, n)
<1> DEFINE c == WithActivity(b, i, r)
<1>1. IsBuilder(b)
  BY DEF Structure, ActivityStructure, ChildStructure
<1>2. IsBuilder(c) /\ c.activities = [b.activities EXCEPT ![i] = r] /\ SameButActivity(b, c)
  BY <1>1, SetActivity
<1> HIDE DEF c
<1>3. DOMAIN c.activities = DOMAIN b.activities
      /\ \A k \in DOMAIN b.activities : c.activities[k].of = b.activities[k].of
  BY <1>1, <1>2, ReplaceFacts DEF IsBuilder
<1>4. Structure(c, h, n)
  BY <1>2, <1>3 DEF Structure, ActivityStructure, ChildStructure, SameButActivity
<1> QED
  BY <1>4 DEF c

(* or of the same child.                                                   *)
LEMMA StructureWithChild ==
    ASSUME NEW b, NEW h, NEW n \in Nat, Structure(b, h, n), NEW i \in DOMAIN b.children,
           NEW r \in ChildRecords, r.of = b.children[i].of
    PROVE  Structure(WithChild(b, i, r), h, n)
<1> DEFINE c == WithChild(b, i, r)
<1>1. IsBuilder(b)
  BY DEF Structure, ActivityStructure, ChildStructure
<1>2. IsBuilder(c) /\ c.children = [b.children EXCEPT ![i] = r] /\ SameButChild(b, c)
  BY <1>1, SetChild
<1> HIDE DEF c
<1>3. DOMAIN c.children = DOMAIN b.children
      /\ \A k \in DOMAIN b.children : c.children[k].of = b.children[k].of
  BY <1>1, <1>2, ReplaceFacts DEF IsBuilder
<1>4. Structure(c, h, n)
  BY <1>2, <1>3 DEF Structure, ActivityStructure, ChildStructure, SameButChild
<1> QED
  BY <1>4 DEF c

(* Event k is the first of item i.                                         *)
Starts(h, k, i) == h[k].of = i /\ h[k].ref = 0

HasActivity(b, a) == \E k \in DOMAIN b.activities : b.activities[k].of = a
HasChild(b, c) == \E k \in DOMAIN b.children : b.children[k].of = c

(* A scheduled event gives an activity without a record one.               *)
LEMMA Schedules ==
    ASSUME NEW b, NEW h, NEW n \in Nat, Structure(b, h, n), NEW a \in Activities,
           Starts(h, n + 1, a), ~HasActivity(b, a)
    PROVE  LET c == AddScheduledActivity(b, n + 1, h[n + 1])
           IN  /\ Structure(c, h, n + 1)
               /\ c.activities = Append(b.activities, NewActivity(a))
               /\ c.inputs = b.inputs /\ c.errors = b.errors /\ c.children = b.children
<1> DEFINE c == AddScheduledActivity(b, n + 1, h[n + 1])
           as == Append(b.activities, NewActivity(a))
           index == Len(b.activities) + 1
           byID == Put(b.activityByID, ActivityID[a], index)
           byEvent == Put(b.activityByEvent, n + 1, index)
<1>1. IsBuilder(b) /\ b.activities \in Seq(ActivityRecords)
  BY DEF Structure, ActivityStructure, ChildStructure, IsBuilder
<1>2. NewActivity(a) \in ActivityRecords /\ NewActivity(a).of = a
  BY NewRecords
<1>3. /\ as \in Seq(ActivityRecords) /\ DOMAIN as = 1 .. index
      /\ DOMAIN b.activities = 1 .. index - 1 /\ index \in Nat \ {0}
      /\ \A k \in DOMAIN b.activities : as[k] = b.activities[k]
      /\ as[index] = NewActivity(a)
  BY <1>1, <1>2, AppendFacts
<1>a. c = [b EXCEPT !.activities = as, !.activityByEvent = byEvent, !.activityByID = byID]
  BY DEF AddScheduledActivity, Starts
<1>f. /\ byID = Put(b.activityByID, ActivityID[a], index)
      /\ byEvent = Put(b.activityByEvent, n + 1, index)
  OBVIOUS
<1> HIDE DEF c, as, byID, byEvent, index
<1>4. c = BuilderOf(b.inputs, b.errors, as, b.children, byID, byEvent, b.childByEvent)
  BY <1>1, <1>a DEF IsBuilder, BuilderOf
<1>5. /\ c.inputs = b.inputs /\ c.errors = b.errors /\ c.children = b.children
      /\ c.childByEvent = b.childByEvent /\ c.activities = as
      /\ c.activityByID = byID /\ c.activityByEvent = byEvent
  BY <1>4 DEF BuilderOf
<1>6. IsBuilder(c)
  BY <1>1, <1>3, <1>4, <1>5 DEF IsBuilder
<1>7. /\ DOMAIN byID = DOMAIN b.activityByID \cup {ActivityID[a]} /\ byID[ActivityID[a]] = index
      /\ \A id \in DOMAIN b.activityByID : id # ActivityID[a] => byID[id] = b.activityByID[id]
  <2>1. DOMAIN byID = DOMAIN b.activityByID \cup {ActivityID[a]}
    BY <1>f, PutDomain
  <2>2. byID[ActivityID[a]] = index
    BY <1>f, PutValue
  <2>3. \A id \in DOMAIN b.activityByID : id # ActivityID[a] => byID[id] = b.activityByID[id]
    BY <1>f, PutElsewhere
  <2> QED
    BY <2>1, <2>2, <2>3
<1>8. /\ DOMAIN byEvent = DOMAIN b.activityByEvent \cup {n + 1} /\ byEvent[n + 1] = index
      /\ \A k \in DOMAIN b.activityByEvent : k # n + 1 => byEvent[k] = b.activityByEvent[k]
  <2>1. DOMAIN byEvent = DOMAIN b.activityByEvent \cup {n + 1}
    BY <1>f, PutDomain
  <2>2. byEvent[n + 1] = index
    BY <1>f, PutValue
  <2>3. \A k \in DOMAIN b.activityByEvent : k # n + 1 => byEvent[k] = b.activityByEvent[k]
    BY <1>f, PutElsewhere
  <2> QED
    BY <2>1, <2>2, <2>3
<1>b. /\ \A k, l \in DOMAIN b.activities : b.activities[k].of = b.activities[l].of => k = l
      /\ \A k \in DOMAIN b.activities : ActivityID[b.activities[k].of] \in DOMAIN b.activityByID
  BY DEF Structure, ActivityStructure, ChildStructure
<1>c. \A k \in DOMAIN b.activityByEvent :
         /\ b.activityByEvent[k] \in DOMAIN b.activities
         /\ b.activities[b.activityByEvent[k]].of = h[k].of
  BY DEF Structure, ActivityStructure, ChildStructure
<1>d. \A id \in DOMAIN b.activityByID :
         /\ b.activityByID[id] \in DOMAIN b.activities
         /\ ActivityID[b.activities[b.activityByID[id]].of] = id
  BY DEF Structure, ActivityStructure, ChildStructure
<1>e. /\ \A k, l \in DOMAIN b.children : b.children[k].of = b.children[l].of => k = l
      /\ \A k \in DOMAIN b.childByEvent :
            /\ b.childByEvent[k] \in DOMAIN b.children
            /\ b.children[b.childByEvent[k]].of = h[k].of
  BY DEF Structure, ActivityStructure, ChildStructure
<1>9. \A k \in DOMAIN as : k \in DOMAIN b.activities \/ k = index
  BY <1>3
<1>10. index \in DOMAIN as /\ \A k \in DOMAIN b.activities : k \in DOMAIN as
  BY <1>3
<1>11. \A k \in 1 .. n + 1 : k \in 1 .. n \/ k = n + 1
  OBVIOUS
<1>12. \A k \in 1 .. n : k \in 1 .. n + 1 /\ k # n + 1
  OBVIOUS
<1>13. \A k, l \in DOMAIN as : as[k].of = as[l].of => k = l
  BY <1>2, <1>3, <1>9, <1>b DEF HasActivity
<1>14. ASSUME NEW k \in DOMAIN byEvent
       PROVE  byEvent[k] \in DOMAIN as /\ as[byEvent[k]].of = h[k].of
  <2>1. CASE k = n + 1
    BY <1>2, <1>3, <1>8, <1>10, <2>1 DEF Starts
  <2>2. CASE k \in DOMAIN b.activityByEvent /\ k # n + 1
    BY <1>3, <1>8, <1>10, <1>c, <2>2
  <2> QED
    BY <1>8, <2>1, <2>2
<1>15. \A k \in 1 .. n + 1 : h[k].of \in Activities /\ h[k].ref = 0 => k \in DOMAIN byEvent
  BY <1>8, <1>11 DEF Structure, ActivityStructure, ChildStructure
<1>16. DOMAIN byEvent \subseteq 1 .. n + 1
  BY <1>8, <1>12 DEF Structure, ActivityStructure, ChildStructure
<1>17. ASSUME NEW id \in DOMAIN byID
       PROVE  byID[id] \in DOMAIN as /\ ActivityID[as[byID[id]].of] = id
  <2>1. CASE id = ActivityID[a]
    BY <1>2, <1>3, <1>7, <1>10, <2>1
  <2>2. CASE id \in DOMAIN b.activityByID /\ id # ActivityID[a]
    <3> DEFINE j == b.activityByID[id]
    <3>1. byID[id] = j /\ j \in DOMAIN b.activities /\ ActivityID[b.activities[j].of] = id
      BY <1>7, <1>d, <2>2
    <3> HIDE DEF j
    <3>2. as[j] = b.activities[j] /\ j \in DOMAIN as
      BY <1>3, <1>10, <3>1
    <3> QED
      BY <3>1, <3>2
  <2> QED
    BY <1>7, <2>1, <2>2
<1>18. \A k \in DOMAIN as : ActivityID[as[k].of] \in DOMAIN byID
  BY <1>2, <1>3, <1>7, <1>9, <1>b
<1>19. h[n + 1].of \notin Children
  BY ItemAssumption DEF Starts
<1>20. \A k \in 1 .. n + 1 : h[k].of \in Children /\ h[k].ref = 0 => k \in DOMAIN c.childByEvent
  BY <1>5, <1>11, <1>19 DEF Structure, ActivityStructure, ChildStructure
<1>21. DOMAIN c.childByEvent \subseteq 1 .. n + 1
  BY <1>5, <1>12 DEF Structure, ActivityStructure, ChildStructure
<1>22. Structure(c, h, n + 1)
  <2>1. ActivityStructure(c, h, n + 1)
    BY <1>5, <1>13, <1>14, <1>15, <1>16, <1>17, <1>18 DEF ActivityStructure
  <2>2. ChildStructure(c, h, n + 1)
    BY <1>e, <1>5, <1>20, <1>21 DEF ChildStructure
  <2> QED
    BY <1>6, <2>1, <2>2 DEF Structure
<1> QED
  BY <1>5, <1>22 DEF c, as

(* An initiated event gives a child without a record one.                  *)
LEMMA Initiates ==
    ASSUME NEW b, NEW h, NEW n \in Nat, Structure(b, h, n), NEW a \in Children,
           Starts(h, n + 1, a), ~HasChild(b, a)
    PROVE  LET c == AddInitiatedChild(b, n + 1, h[n + 1])
           IN  /\ Structure(c, h, n + 1)
               /\ c.children = Append(b.children, NewChild(a))
               /\ c.inputs = b.inputs /\ c.errors = b.errors /\ c.activities = b.activities
<1> DEFINE c == AddInitiatedChild(b, n + 1, h[n + 1])
           cs == Append(b.children, NewChild(a))
           index == Len(b.children) + 1
           byEvent == Put(b.childByEvent, n + 1, index)
<1>1. IsBuilder(b) /\ b.children \in Seq(ChildRecords)
  BY DEF Structure, ActivityStructure, ChildStructure, IsBuilder
<1>2. NewChild(a) \in ChildRecords /\ NewChild(a).of = a
  BY NewRecords
<1>3. /\ cs \in Seq(ChildRecords) /\ DOMAIN cs = 1 .. index
      /\ DOMAIN b.children = 1 .. index - 1 /\ index \in Nat \ {0}
      /\ \A k \in DOMAIN b.children : cs[k] = b.children[k]
      /\ cs[index] = NewChild(a)
  BY <1>1, <1>2, AppendFacts
<1>a. c = [b EXCEPT !.children = cs, !.childByEvent = byEvent]
  BY DEF AddInitiatedChild, Starts
<1>f. byEvent = Put(b.childByEvent, n + 1, index)
  OBVIOUS
<1> HIDE DEF c, cs, byEvent, index
<1>4. c = BuilderOf(b.inputs, b.errors, b.activities, cs, b.activityByID, b.activityByEvent,
                    byEvent)
  BY <1>1, <1>a DEF IsBuilder, BuilderOf
<1>5. /\ c.inputs = b.inputs /\ c.errors = b.errors /\ c.activities = b.activities
      /\ c.childByEvent = byEvent /\ c.children = cs
      /\ c.activityByID = b.activityByID /\ c.activityByEvent = b.activityByEvent
  BY <1>4 DEF BuilderOf
<1>6. IsBuilder(c)
  BY <1>1, <1>3, <1>4, <1>5 DEF IsBuilder
<1>8. /\ DOMAIN byEvent = DOMAIN b.childByEvent \cup {n + 1} /\ byEvent[n + 1] = index
      /\ \A k \in DOMAIN b.childByEvent : k # n + 1 => byEvent[k] = b.childByEvent[k]
  <2>1. DOMAIN byEvent = DOMAIN b.childByEvent \cup {n + 1}
    BY <1>f, PutDomain
  <2>2. byEvent[n + 1] = index
    BY <1>f, PutValue
  <2>3. \A k \in DOMAIN b.childByEvent : k # n + 1 => byEvent[k] = b.childByEvent[k]
    BY <1>f, PutElsewhere
  <2> QED
    BY <2>1, <2>2, <2>3
<1>9. \A k \in DOMAIN cs : k \in DOMAIN b.children \/ k = index
  BY <1>3
<1>10. index \in DOMAIN cs /\ \A k \in DOMAIN b.children : k \in DOMAIN cs
  BY <1>3
<1>11. \A k \in 1 .. n + 1 : k \in 1 .. n \/ k = n + 1
  OBVIOUS
<1>12. \A k \in 1 .. n : k \in 1 .. n + 1 /\ k # n + 1
  OBVIOUS
<1>13. \A k, l \in DOMAIN cs : cs[k].of = cs[l].of => k = l
  BY <1>2, <1>3, <1>9 DEF Structure, ActivityStructure, ChildStructure, HasChild
<1>14. ASSUME NEW k \in DOMAIN byEvent
       PROVE  byEvent[k] \in DOMAIN cs /\ cs[byEvent[k]].of = h[k].of
  <2>1. CASE k = n + 1
    BY <1>2, <1>3, <1>8, <1>10, <2>1 DEF Starts
  <2>2. CASE k \in DOMAIN b.childByEvent /\ k # n + 1
    BY <1>3, <1>8, <1>10, <2>2 DEF Structure, ActivityStructure, ChildStructure
  <2> QED
    BY <1>8, <2>1, <2>2
<1>15. \A k \in 1 .. n + 1 : h[k].of \in Children /\ h[k].ref = 0 => k \in DOMAIN byEvent
  BY <1>8, <1>11 DEF Structure, ActivityStructure, ChildStructure
<1>16. DOMAIN byEvent \subseteq 1 .. n + 1
  BY <1>8, <1>12 DEF Structure, ActivityStructure, ChildStructure
<1>19. h[n + 1].of \notin Activities
  BY ItemAssumption DEF Starts
<1>20. \A k \in 1 .. n + 1 : h[k].of \in Activities /\ h[k].ref = 0 => k \in DOMAIN c.activityByEvent
  BY <1>5, <1>11, <1>19 DEF Structure, ActivityStructure, ChildStructure
<1>21. DOMAIN c.activityByEvent \subseteq 1 .. n + 1
  BY <1>5, <1>12 DEF Structure, ActivityStructure, ChildStructure
<1>22. Structure(c, h, n + 1)
  <2>1. ChildStructure(c, h, n + 1)
    BY <1>5, <1>13, <1>14, <1>15, <1>16 DEF ChildStructure
  <2>2. ActivityStructure(c, h, n + 1)
    BY <1>5, <1>20, <1>21 DEF Structure, ActivityStructure
  <2> QED
    BY <1>6, <2>1, <2>2 DEF Structure
<1> QED
  BY <1>5, <1>22 DEF c, cs

(* The structure is a matter of the records and the maps.                  *)
LEMMA StructureOfSame ==
    ASSUME NEW b, NEW c, NEW h, NEW n, Structure(b, h, n), IsBuilder(c),
           c.activities = b.activities, c.children = b.children,
           c.activityByID = b.activityByID, c.activityByEvent = b.activityByEvent,
           c.childByEvent = b.childByEvent
    PROVE  Structure(c, h, n)
<1>1. ActivityStructure(c, h, n)
  BY DEF Structure, ActivityStructure
<1>2. ChildStructure(c, h, n)
  BY DEF Structure, ChildStructure
<1> QED
  BY <1>1, <1>2 DEF Structure

SameItems(b, c) ==
    /\ c.activities = b.activities /\ c.children = b.children
    /\ c.activityByID = b.activityByID /\ c.activityByEvent = b.activityByEvent
    /\ c.childByEvent = b.childByEvent

(* The first event brings the inputs,                                      *)
LEMMA WorkflowStarts ==
    ASSUME NEW b, IsBuilder(b), NEW e, e.type = "WorkflowStarted"
    PROVE  /\ IsBuilder(AddWorkflowEvent(b, e)) /\ SameItems(b, AddWorkflowEvent(b, e))
           /\ AddWorkflowEvent(b, e).inputs = TRUE
           /\ AddWorkflowEvent(b, e).errors = b.errors
<1> DEFINE c == AddWorkflowEvent(b, e)
<1>1. c = [b EXCEPT !.inputs = TRUE]
  BY DEF AddWorkflowEvent
<1> HIDE DEF c
<1>2. c = BuilderOf(TRUE, b.errors, b.activities, b.children, b.activityByID,
                    b.activityByEvent, b.childByEvent)
  BY <1>1 DEF IsBuilder, BuilderOf
<1>3. /\ c.inputs = TRUE /\ c.errors = b.errors /\ c.children = b.children
      /\ c.activityByID = b.activityByID /\ c.activityByEvent = b.activityByEvent
      /\ c.childByEvent = b.childByEvent /\ c.activities = b.activities
  BY <1>2 DEF BuilderOf
<1>4. IsBuilder(c)
  BY <1>2, <1>3 DEF IsBuilder
<1> QED
  BY <1>3, <1>4 DEF SameItems, c

(* the closing event its failure.                                          *)
LEMMA WorkflowCloses ==
    ASSUME NEW b, IsBuilder(b), NEW e, e.type # "WorkflowStarted", e.messages \in Seq(STRING)
    PROVE  /\ IsBuilder(AddWorkflowEvent(b, e)) /\ SameItems(b, AddWorkflowEvent(b, e))
           /\ AddWorkflowEvent(b, e).inputs = b.inputs
           /\ AddWorkflowEvent(b, e).errors = b.errors \o e.messages
<1> DEFINE c == AddWorkflowEvent(b, e)
           errors == b.errors \o e.messages
<1>1. c = [b EXCEPT !.errors = errors]
  BY DEF AddWorkflowEvent
<1>2. errors \in Seq(STRING)
  BY DEF IsBuilder
<1> HIDE DEF c, errors
<1>3. c = BuilderOf(b.inputs, errors, b.activities, b.children, b.activityByID,
                    b.activityByEvent, b.childByEvent)
  BY <1>1 DEF IsBuilder, BuilderOf
<1>4. /\ c.inputs = b.inputs /\ c.errors = errors /\ c.children = b.children
      /\ c.activityByID = b.activityByID /\ c.activityByEvent = b.activityByEvent
      /\ c.childByEvent = b.childByEvent /\ c.activities = b.activities
  BY <1>3 DEF BuilderOf
<1>5. IsBuilder(c)
  BY <1>2, <1>3, <1>4 DEF IsBuilder
<1> QED
  BY <1>4, <1>5 DEF SameItems, c, errors

(* Which part of addEvents an event reaches.                               *)
LEMMA Dispatch ==
    ASSUME NEW b, NEW id, NEW e
    PROVE  /\ e.of = "workflow" /\ e.type \in WorkflowTypes => AddEvent(b, id, e) = AddWorkflowEvent(b, e)
           /\ e.of \in Activities /\ e.type = "ActivityScheduled" /\ e.ref = 0 =>
                 AddEvent(b, id, e) = AddScheduledActivity(b, id, e)
           /\ e.of \in Children /\ e.type = "ChildInitiated" /\ e.ref = 0 =>
                 AddEvent(b, id, e) = AddInitiatedChild(b, id, e)
           /\ e.of \in Activities /\ e.type \in ActivityTypes /\ e.ref # 0 =>
                 AddEvent(b, id, e) = AddActivityEvent(b, e)
           /\ e.of \in Children /\ e.type \in ChildTypes /\ e.ref # 0 =>
                 AddEvent(b, id, e) = AddChildEvent(b, e)
<1>1. /\ "workflow" \notin Activities /\ "workflow" \notin Children
      /\ \A a \in Activities : a \notin Children
  BY ItemAssumption
<1>2. ASSUME e.of = "workflow", e.type \in WorkflowTypes
      PROVE  AddEvent(b, id, e) = AddWorkflowEvent(b, e)
  <2>1. e.type # "ActivityScheduled" /\ e.type # "ChildInitiated"
    BY <1>2 DEF WorkflowTypes
  <2> QED
    BY <1>1, <1>2, <2>1 DEF AddEvent
<1>3. ASSUME e.of \in Activities, e.type = "ActivityScheduled", e.ref = 0
      PROVE  AddEvent(b, id, e) = AddScheduledActivity(b, id, e)
  BY <1>1, <1>3 DEF AddEvent
<1>4. ASSUME e.of \in Children, e.type = "ChildInitiated", e.ref = 0
      PROVE  AddEvent(b, id, e) = AddInitiatedChild(b, id, e)
  BY <1>1, <1>4 DEF AddEvent
<1>5. ASSUME e.of \in Activities, e.type \in ActivityTypes, e.ref # 0
      PROVE  AddEvent(b, id, e) = AddActivityEvent(b, e)
  <2>1. e.type # "ActivityScheduled" /\ e.type # "ChildInitiated" /\ e.of # "workflow"
    BY <1>1, <1>5 DEF ActivityTypes
  <2> QED
    BY <1>1, <1>5, <2>1 DEF AddEvent
<1>6. ASSUME e.of \in Children, e.type \in ChildTypes, e.ref # 0
      PROVE  AddEvent(b, id, e) = AddChildEvent(b, e)
  <2>1. e.type # "ActivityScheduled" /\ e.type # "ChildInitiated" /\ e.of # "workflow"
    BY <1>1, <1>6 DEF ChildTypes
  <2> QED
    BY <1>1, <1>6, <2>1 DEF AddEvent
<1> QED
  BY <1>2, <1>3, <1>4, <1>5, <1>6

-----------------------------------------------------------------------------
(* What the records say of the execution.                                  *)

ActivityStates ==
    [state : {"none", "scheduled", "running", "closed"}, attempt : Nat, failure : Seq(STRING),
     recorded : BOOLEAN, paused : BOOLEAN]
ChildStates == {"none", "initiated", "started", "closed"}
Items == Activities \cup Children

(* The execution, seen by itself.                                          *)
ItemsOK(act, chl, fl) ==
    /\ act \in [Activities -> ActivityStates] /\ chl \in [Children -> ChildStates]
    /\ fl \in [Items -> Seq(STRING)]
    /\ \A a \in Activities : \A m \in STRING : Count(act[a].failure, m) <= Count(fl[a], m)
    /\ \A c \in Children : chl[c] # "closed" => fl[c] = <<>>
HistoryOK(h, act, chl) ==
    /\ h \in Seq(Events) /\ Len(h) > 0
    /\ \A a \in Activities : act[a].state # "none" => \E k \in DOMAIN h : Starts(h, k, a)
    /\ \A c \in Children : chl[c] # "none" => \E k \in DOMAIN h : Starts(h, k, c)

(* What remains true of a record when the execution goes on.               *)
ActivitySound(r, s, f) ==
    /\ s.state # "none"
    /\ r.ended => s.state = "closed" \/ s.failure # <<>>
    /\ \A m \in STRING : Count(r.errors, m) <= Count(f, m)
ChildSound(r, s, f) ==
    /\ s # "none"
    /\ r.ended => s = "closed"
    /\ \A m \in STRING : Count(r.errors, m) <= Count(f, m)

(* What a record has when the whole history is read.                       *)
ActivityFull(r, s) ==
    /\ s.state = "closed" => r.ended
    /\ r.outputs => s.state = "closed"
    /\ r.outputs \/ (s.state = "running" /\ s.recorded) =>
          r.attempts = s.attempt /\ Range(s.failure) \subseteq Range(r.errors)
ChildFull(r, s, f) ==
    /\ s = "closed" => r.ended
    /\ r.errors = f

Sound(b, act, chl, fl) ==
    /\ \A k \in DOMAIN b.activities :
          ActivitySound(b.activities[k], act[b.activities[k].of], fl[b.activities[k].of])
    /\ \A k \in DOMAIN b.children :
          ChildSound(b.children[k], chl[b.children[k].of], fl[b.children[k].of])
Full(b, act, chl, fl) ==
    /\ \A k \in DOMAIN b.activities : ActivityFull(b.activities[k], act[b.activities[k].of])
    /\ \A k \in DOMAIN b.children :
          ChildFull(b.children[k], chl[b.children[k].of], fl[b.children[k].of])
WorkflowFull(b, h, op) ==
    /\ b.inputs
    /\ IF op THEN b.errors = <<>> ELSE b.errors = h[Len(h)].messages

Built(h, n) == AddEvents(NewBuilder, h, 0, n)

(* The execution and what reading its history gives.                       *)
Consistent(op, act, chl, h, fl) ==
    /\ ItemsOK(act, chl, fl) /\ HistoryOK(h, act, chl)
    /\ \A n \in 0 .. Len(h) : Structure(Built(h, n), h, n) /\ Sound(Built(h, n), act, chl, fl)
    /\ Full(Built(h, Len(h)), act, chl, fl) /\ WorkflowFull(Built(h, Len(h)), h, op)

Later(act, chl, fl, act2, chl2, fl2) ==
    /\ \A a \in Activities :
          /\ act[a].state # "none" => act2[a].state # "none"
          /\ act[a].state = "closed" => act2[a].state = "closed"
          /\ act[a].failure # <<>> => act2[a].failure # <<>>
    /\ \A c \in Children :
          /\ chl[c] # "none" => chl2[c] # "none"
          /\ chl[c] = "closed" => chl2[c] = "closed"
    /\ \A i \in Items : \A m \in STRING : Count(fl[i], m) <= Count(fl2[i], m)

(* The records of a builder are records of activities and of children.     *)
LEMMA RecordTypes ==
    ASSUME NEW b, IsBuilder(b)
    PROVE  /\ \A k \in DOMAIN b.activities :
                 /\ b.activities[k] \in ActivityRecords /\ b.activities[k].of \in Activities
                 /\ b.activities[k].errors \in Seq(STRING)
           /\ \A k \in DOMAIN b.children :
                 /\ b.children[k] \in ChildRecords /\ b.children[k].of \in Children
                 /\ b.children[k].errors \in Seq(STRING)
<1>1. \A k \in DOMAIN b.activities : b.activities[k] \in ActivityRecords
  BY DEF IsBuilder
<1>2. \A k \in DOMAIN b.children : b.children[k] \in ChildRecords
  BY DEF IsBuilder
<1>3. \A r \in ActivityRecords : r.of \in Activities /\ r.errors \in Seq(STRING)
  BY DEF ActivityRecords
<1>4. \A r \in ChildRecords : r.of \in Children /\ r.errors \in Seq(STRING)
  BY DEF ChildRecords
<1> QED
  BY <1>1, <1>2, <1>3, <1>4

(* What a builder tells stays true while the execution goes on.            *)
LEMMA SoundLater ==
    ASSUME NEW b, IsBuilder(b), NEW act, NEW chl, NEW fl, NEW act2, NEW chl2, NEW fl2,
           ItemsOK(act, chl, fl), ItemsOK(act2, chl2, fl2),
           Later(act, chl, fl, act2, chl2, fl2), Sound(b, act, chl, fl)
    PROVE  Sound(b, act2, chl2, fl2)
<1>1. \A i \in Items : fl[i] \in Seq(STRING) /\ fl2[i] \in Seq(STRING)
  BY DEF ItemsOK
<1>2. ASSUME NEW i \in Items, NEW s \in Seq(STRING),
             \A m \in STRING : Count(s, m) <= Count(fl[i], m)
      PROVE  \A m \in STRING : Count(s, m) <= Count(fl2[i], m)
  <2> SUFFICES ASSUME NEW m \in STRING
               PROVE  Count(s, m) <= Count(fl2[i], m)
    OBVIOUS
  <2>1. Count(s, m) \in Nat /\ Count(fl[i], m) \in Nat /\ Count(fl2[i], m) \in Nat
    BY <1>1, CountFacts
  <2>2. Count(s, m) <= Count(fl[i], m) /\ Count(fl[i], m) <= Count(fl2[i], m)
    BY <1>2 DEF Later
  <2>3. \A x, y, z \in Nat : x <= y /\ y <= z => x <= z
    OBVIOUS
  <2> QED
    BY <2>1, <2>2, <2>3, Zenon
<1>3. ASSUME NEW k \in DOMAIN b.activities
      PROVE  ActivitySound(b.activities[k], act2[b.activities[k].of], fl2[b.activities[k].of])
  <2> DEFINE r == b.activities[k]
             a == r.of
  <2>1. a \in Activities /\ a \in Items /\ r.errors \in Seq(STRING)
    BY RecordTypes DEF Items
  <2>2. ActivitySound(r, act[a], fl[a])
    BY DEF Sound
  <2> HIDE DEF r, a
  <2>3. \A m \in STRING : Count(r.errors, m) <= Count(fl2[a], m)
    BY <1>2, <2>1, <2>2 DEF ActivitySound
  <2>4. /\ act[a].state # "none" => act2[a].state # "none"
        /\ act[a].state = "closed" => act2[a].state = "closed"
        /\ act[a].failure # <<>> => act2[a].failure # <<>>
    BY <2>1 DEF Later
  <2>5. ActivitySound(r, act2[a], fl2[a])
    BY <2>2, <2>3, <2>4 DEF ActivitySound
  <2> QED
    BY <2>5 DEF r, a
<1>4. ASSUME NEW k \in DOMAIN b.children
      PROVE  ChildSound(b.children[k], chl2[b.children[k].of], fl2[b.children[k].of])
  <2> DEFINE r == b.children[k]
             a == r.of
  <2>1. a \in Children /\ a \in Items /\ r.errors \in Seq(STRING)
    BY RecordTypes DEF Items
  <2>2. ChildSound(r, chl[a], fl[a])
    BY DEF Sound
  <2> HIDE DEF r, a
  <2>3. \A m \in STRING : Count(r.errors, m) <= Count(fl2[a], m)
    BY <1>2, <2>1, <2>2 DEF ChildSound
  <2>4. /\ chl[a] # "none" => chl2[a] # "none"
        /\ chl[a] = "closed" => chl2[a] = "closed"
    BY <2>1 DEF Later
  <2>5. ChildSound(r, chl2[a], fl2[a])
    BY <2>2, <2>3, <2>4 DEF ChildSound
  <2> QED
    BY <2>5 DEF r, a
<1> QED
  BY <1>3, <1>4 DEF Sound

-----------------------------------------------------------------------------
(* One more event.                                                         *)

LEMMA OneMoreEvent ==
    ASSUME NEW h \in Seq(Events), NEW e \in Events
    PROVE  LET g == Append(h, e)
               n == Len(h)
           IN  /\ n \in Nat /\ g \in Seq(Events) /\ Len(g) = n + 1
               /\ DOMAIN h = 1 .. n /\ DOMAIN g = 1 .. n + 1
               /\ \A k \in 1 .. n : g[k] = h[k]
               /\ g[n + 1] = e
               /\ \A k \in DOMAIN h : \A i : Starts(h, k, i) => k \in DOMAIN g /\ Starts(g, k, i)
               /\ \A k \in 0 .. n : Built(g, k) = Built(h, k)
               /\ Built(g, n + 1) = AddEvent(Built(h, n), n + 1, e)
<1> DEFINE g == Append(h, e)
           n == Len(h)
<1>1. /\ n \in Nat /\ g \in Seq(Events) /\ Len(g) = n + 1
      /\ DOMAIN h = 1 .. n /\ DOMAIN g = 1 .. n + 1
      /\ \A k \in 1 .. n : g[k] = h[k]
      /\ g[n + 1] = e
  BY AppendFacts
<1> HIDE DEF g, n
<1>2. \A k \in DOMAIN h : \A i : Starts(h, k, i) => k \in DOMAIN g /\ Starts(g, k, i)
  BY <1>1 DEF Starts
<1>3. ASSUME NEW k \in 0 .. n
      PROVE  Built(g, k) = Built(h, k)
  <2>1. k \in Nat /\ \A j \in 1 .. k : g[j] = h[j]
    BY <1>1
  <2> QED
    BY <2>1, AddPrefix DEF Built
<1>4. Built(g, n + 1) = AddEvent(Built(g, n), n + 1, g[n + 1])
  <2>1. n \in Nat /\ 0 \in Nat /\ 0 <= n
    BY <1>1
  <2> QED
    BY <2>1, AddOneMore DEF Built
<1>5. Built(g, n) = Built(h, n)
  BY <1>1, <1>3
<1>6. Built(g, n + 1) = AddEvent(Built(h, n), n + 1, e)
  BY <1>1, <1>4, <1>5
<1> QED
  BY <1>1, <1>2, <1>3, <1>6 DEF g, n

(* It is enough to look at the builder that has read all.                  *)
LEMMA Extend ==
    ASSUME NEW op, NEW act, NEW chl, NEW h, NEW fl, NEW op2, NEW act2, NEW chl2, NEW fl2,
           NEW e \in Events, NEW c,
           Consistent(op, act, chl, h, fl),
           ItemsOK(act2, chl2, fl2), HistoryOK(Append(h, e), act2, chl2),
           Later(act, chl, fl, act2, chl2, fl2),
           c = AddEvent(Built(h, Len(h)), Len(h) + 1, e),
           Structure(c, Append(h, e), Len(h) + 1), Sound(c, act2, chl2, fl2),
           Full(c, act2, chl2, fl2), WorkflowFull(c, Append(h, e), op2)
    PROVE  Consistent(op2, act2, chl2, Append(h, e), fl2)
<1> DEFINE g == Append(h, e)
           n == Len(h)
<1>1. h \in Seq(Events) /\ ItemsOK(act, chl, fl)
  BY DEF Consistent, HistoryOK
<1>2. n \in Nat /\ Len(g) = n + 1
  BY <1>1, OneMoreEvent
<1>3. \A k \in 1 .. n : g[k] = h[k]
  BY <1>1, OneMoreEvent
<1>4. \A k \in 0 .. n : Built(g, k) = Built(h, k)
  BY <1>1, OneMoreEvent
<1>5. Built(g, n + 1) = c
  BY <1>1, OneMoreEvent
<1> HIDE DEF g, n
<1>6. ASSUME NEW k \in 0 .. n + 1
      PROVE  Structure(Built(g, k), g, k) /\ Sound(Built(g, k), act2, chl2, fl2)
  <2>1. CASE k = n + 1
    <3>1. Structure(c, g, n + 1)
      BY DEF g, n
    <3> QED
      BY <1>5, <2>1, <3>1
  <2>2. CASE k # n + 1
    <3>1. k \in 0 .. n /\ k \in Nat
      BY <1>2, <2>2
    <3>2. Structure(Built(h, k), h, k) /\ Sound(Built(h, k), act, chl, fl)
      BY <3>1 DEF Consistent, n
    <3>3. \A j \in 1 .. k : g[j] = h[j]
      BY <1>2, <1>3, <3>1
    <3>4. Structure(Built(h, k), g, k)
      BY <3>1, <3>2, <3>3, StructureOfPrefix
    <3>5. IsBuilder(Built(h, k))
      BY <3>2 DEF Structure
    <3>6. Sound(Built(h, k), act2, chl2, fl2)
      BY <1>1, <3>2, <3>5, SoundLater
    <3> QED
      BY <1>4, <3>1, <3>4, <3>6
  <2> QED
    BY <2>1, <2>2
<1>7. Full(Built(g, n + 1), act2, chl2, fl2) /\ WorkflowFull(Built(g, n + 1), g, op2)
  BY <1>5 DEF g
<1>8. HistoryOK(g, act2, chl2)
  BY DEF g
<1>9. Consistent(op2, act2, chl2, g, fl2)
  BY <1>2, <1>6, <1>7, <1>8 DEF Consistent
<1> QED
  BY <1>9 DEF g

(* The record of a changes as r to r2; nothing else does.                  *)
OnlyActivity(a, act, fl, act2, fl2) ==
    /\ \A x \in Activities \ {a} : act2[x] = act[x]
    /\ \A x \in Items \ {a} : fl2[x] = fl[x]

(* A builder whose record of one activity follows that activity stays      *)
(* sound and full.                                                         *)
LEMMA ActivityRecordChanges ==
    ASSUME NEW b, NEW act, NEW chl, NEW fl, NEW act2, NEW fl2, NEW h, NEW n \in Nat,
           Structure(b, h, n), Sound(b, act2, chl, fl2), Full(b, act, chl, fl),
           NEW i \in DOMAIN b.activities, NEW a \in Activities, b.activities[i].of = a,
           OnlyActivity(a, act, fl, act2, fl2),
           NEW r \in ActivityRecords, r.of = a,
           ActivitySound(r, act2[a], fl2[a]), ActivityFull(r, act2[a])
    PROVE  /\ Structure(WithActivity(b, i, r), h, n)
           /\ Sound(WithActivity(b, i, r), act2, chl, fl2)
           /\ Full(WithActivity(b, i, r), act2, chl, fl2)
<1> DEFINE c == WithActivity(b, i, r)
<1>1. IsBuilder(b)
  BY DEF Structure
<1>2. c.activities = [b.activities EXCEPT ![i] = r] /\ SameButActivity(b, c)
  BY <1>1, SetActivity
<1>3. Structure(c, h, n)
  BY StructureWithActivity
<1> HIDE DEF c
<1>4. /\ DOMAIN c.activities = DOMAIN b.activities /\ c.activities[i] = r
      /\ \A k \in DOMAIN b.activities : k # i => c.activities[k] = b.activities[k]
  BY <1>1, <1>2, ReplaceFacts DEF IsBuilder
<1>5. c.children = b.children
  BY <1>2 DEF SameButActivity
<1>6. ASSUME NEW k \in DOMAIN b.activities, k # i
      PROVE  b.activities[k].of \in Activities \ {a}
  <2>1. b.activities[k].of # b.activities[i].of
    BY <1>6 DEF Structure, ActivityStructure
  <2>2. b.activities[k].of \in Activities
    BY <1>1, RecordTypes
  <2> QED
    BY <2>1, <2>2
<1>7. ASSUME NEW k \in DOMAIN c.activities
      PROVE  /\ ActivitySound(c.activities[k], act2[c.activities[k].of], fl2[c.activities[k].of])
             /\ ActivityFull(c.activities[k], act2[c.activities[k].of])
  <2>1. CASE k = i
    BY <1>4, <2>1
  <2>2. CASE k # i
    <3>1. c.activities[k] = b.activities[k] /\ k \in DOMAIN b.activities
      BY <1>4, <2>2
    <3>2. act2[b.activities[k].of] = act[b.activities[k].of]
      BY <1>6, <2>2, <3>1 DEF OnlyActivity
    <3>3. ActivitySound(b.activities[k], act2[b.activities[k].of], fl2[b.activities[k].of])
      BY <3>1 DEF Sound
    <3>4. ActivityFull(b.activities[k], act[b.activities[k].of])
      BY <3>1 DEF Full
    <3> QED
      BY <3>1, <3>2, <3>3, <3>4
  <2> QED
    BY <2>1, <2>2
<1>8. ASSUME NEW k \in DOMAIN c.children
      PROVE  /\ ChildSound(c.children[k], chl[c.children[k].of], fl2[c.children[k].of])
             /\ ChildFull(c.children[k], chl[c.children[k].of], fl2[c.children[k].of])
  <2>1. k \in DOMAIN b.children /\ c.children[k] = b.children[k]
    BY <1>5
  <2>2. b.children[k].of \in Children
    BY <1>1, <2>1, RecordTypes
  <2>3. b.children[k].of \in Items \ {a}
    BY <2>2, ItemAssumption DEF Items
  <2>4. fl2[b.children[k].of] = fl[b.children[k].of]
    BY <2>3 DEF OnlyActivity
  <2>5. ChildSound(b.children[k], chl[b.children[k].of], fl2[b.children[k].of])
    BY <2>1 DEF Sound
  <2>6. ChildFull(b.children[k], chl[b.children[k].of], fl[b.children[k].of])
    BY <2>1 DEF Full
  <2> QED
    BY <2>1, <2>4, <2>5, <2>6
<1>9. Sound(c, act2, chl, fl2)
  BY <1>7, <1>8 DEF Sound
<1>10. Full(c, act2, chl, fl2)
  BY <1>7, <1>8 DEF Full
<1> QED
  BY <1>3, <1>9, <1>10 DEF c

(* The fields of a record after an event of its activity.                  *)
LEMMA ActivityAfterFacts ==
    ASSUME NEW r \in ActivityRecords, NEW e \in Events
    PROVE  /\ e.type = "ActivityStarted" =>
                 /\ ActivityAfter(r, e) \in ActivityRecords /\ ActivityAfter(r, e).of = r.of
                 /\ ActivityAfter(r, e).attempts = e.attempt
                 /\ ActivityAfter(r, e).ended = FALSE /\ ActivityAfter(r, e).outputs = r.outputs
                 /\ ActivityAfter(r, e).errors = AppendUnseen(r.errors, e.messages)
           /\ e.type = "ActivityCompleted" =>
                 /\ ActivityAfter(r, e) \in ActivityRecords /\ ActivityAfter(r, e).of = r.of
                 /\ ActivityAfter(r, e).attempts = r.attempts
                 /\ ActivityAfter(r, e).ended = TRUE /\ ActivityAfter(r, e).outputs = TRUE
                 /\ ActivityAfter(r, e).errors = r.errors
           /\ e.type = "ActivityFailed" =>
                 /\ ActivityAfter(r, e) \in ActivityRecords /\ ActivityAfter(r, e).of = r.of
                 /\ ActivityAfter(r, e).attempts = r.attempts
                 /\ ActivityAfter(r, e).ended = TRUE /\ ActivityAfter(r, e).outputs = r.outputs
                 /\ ActivityAfter(r, e).errors = r.errors \o e.messages
<1>1. r.errors \in Seq(STRING) /\ e.messages \in Seq(STRING) /\ e.attempt \in Nat
  BY DEF ActivityRecords, Events
<1>2. /\ AppendUnseen(r.errors, e.messages) \in Seq(STRING)
      /\ r.errors \o e.messages \in Seq(STRING)
  BY <1>1, AppendUnseenFacts
<1>3. ASSUME e.type = "ActivityStarted"
      PROVE  ActivityAfter(r, e) = [r EXCEPT !.attempts = e.attempt, !.started = TRUE,
                    !.ended = FALSE, !.errors = AppendUnseen(r.errors, e.messages)]
  BY <1>3 DEF ActivityAfter, ActivityRecords
<1>4. ASSUME e.type = "ActivityCompleted"
      PROVE  ActivityAfter(r, e) = [r EXCEPT !.outputs = TRUE, !.ended = TRUE]
  BY <1>4 DEF ActivityAfter
<1>5. ASSUME e.type = "ActivityFailed"
      PROVE  ActivityAfter(r, e) = [r EXCEPT !.errors = r.errors \o e.messages, !.ended = TRUE]
  BY <1>5 DEF ActivityAfter
<1> QED
  BY <1>1, <1>2, <1>3, <1>4, <1>5 DEF ActivityRecords

(* The fields of a record after an event of its child.                     *)
LEMMA ChildAfterFacts ==
    ASSUME NEW r \in ChildRecords, NEW e \in Events
    PROVE  /\ e.type = "ChildStarted" =>
                 /\ ChildAfter(r, e) \in ChildRecords /\ ChildAfter(r, e).of = r.of
                 /\ ChildAfter(r, e).ended = r.ended /\ ChildAfter(r, e).errors = r.errors
           /\ e.type = "ChildCompleted" =>
                 /\ ChildAfter(r, e) \in ChildRecords /\ ChildAfter(r, e).of = r.of
                 /\ ChildAfter(r, e).ended = TRUE /\ ChildAfter(r, e).errors = r.errors
           /\ e.type = "ChildFailed" =>
                 /\ ChildAfter(r, e) \in ChildRecords /\ ChildAfter(r, e).of = r.of
                 /\ ChildAfter(r, e).ended = TRUE
                 /\ ChildAfter(r, e).errors = r.errors \o e.messages
<1>1. r.errors \in Seq(STRING) /\ e.messages \in Seq(STRING)
  BY DEF ChildRecords, Events
<1>2. r.errors \o e.messages \in Seq(STRING)
  BY <1>1
<1>3. ASSUME e.type = "ChildStarted"
      PROVE  ChildAfter(r, e) = [r EXCEPT !.started = TRUE]
  BY <1>3 DEF ChildAfter
<1>4. ASSUME e.type = "ChildCompleted"
      PROVE  ChildAfter(r, e) = [r EXCEPT !.outputs = TRUE, !.ended = TRUE]
  BY <1>4 DEF ChildAfter
<1>5. ASSUME e.type = "ChildFailed"
      PROVE  ChildAfter(r, e) = [r EXCEPT !.errors = r.errors \o e.messages, !.ended = TRUE]
  BY <1>5 DEF ChildAfter
<1> QED
  BY <1>1, <1>2, <1>3, <1>4, <1>5 DEF ChildRecords

(* An event of a scheduled activity changes the record of that activity.   *)
ActivityFollows(a, e, h) ==
    /\ e \in Events /\ e.of = a /\ e.type \in ActivityTypes
    /\ e.ref \in DOMAIN h /\ Starts(h, e.ref, a)

(* What the event tells keeps the record right.                            *)
KeepsActivity(a, e, act, fl, act2, fl2) ==
    \A r \in ActivityRecords :
        r.of = a /\ ActivitySound(r, act[a], fl[a]) /\ ActivityFull(r, act[a]) =>
            /\ ActivitySound(ActivityAfter(r, e), act2[a], fl2[a])
            /\ ActivityFull(ActivityAfter(r, e), act2[a])

(* An event of a scheduled activity keeps the builder of the history       *)
(* consistent, if the record it changes stays right.                       *)
LEMMA ActivityEvent ==
    ASSUME NEW act, NEW chl, NEW h, NEW fl, NEW act2, NEW fl2, NEW a \in Activities, NEW e,
           Consistent(TRUE, act, chl, h, fl),
           ActivityFollows(a, e, h),
           ItemsOK(act2, chl, fl2), Later(act, chl, fl, act2, chl, fl2),
           OnlyActivity(a, act, fl, act2, fl2),
           KeepsActivity(a, e, act, fl, act2, fl2)
    PROVE  Consistent(TRUE, act2, chl, Append(h, e), fl2)
<1> DEFINE g == Append(h, e)
           n == Len(h)
           b == Built(h, n)
           ref == e.ref
           i == b.activityByEvent[ref]
           r == b.activities[i]
           r2 == ActivityAfter(r, e)
           c == AddEvent(b, n + 1, e)
<1>1. /\ e \in Events /\ e.of = a /\ e.type \in ActivityTypes
      /\ ref \in DOMAIN h /\ Starts(h, ref, a)
  BY DEF ActivityFollows
<1>2. h \in Seq(Events) /\ ItemsOK(act, chl, fl) /\ HistoryOK(h, act, chl)
  BY DEF Consistent, HistoryOK
<1>3. /\ n \in Nat /\ DOMAIN h = 1 .. n /\ \A k \in 1 .. n : g[k] = h[k]
      /\ g[n + 1] = e
  BY <1>1, <1>2, OneMoreEvent
<1>4. n \in 0 .. n
  BY <1>3
<1>5. /\ Structure(b, h, n) /\ Sound(b, act, chl, fl) /\ Full(b, act, chl, fl)
      /\ WorkflowFull(b, h, TRUE)
  BY <1>4 DEF Consistent
<1>6. g \in Seq(Events) /\ Len(g) = n + 1
  BY <1>1, <1>2, OneMoreEvent
<1>7. \A k \in DOMAIN h : \A x : Starts(h, k, x) => k \in DOMAIN g /\ Starts(g, k, x)
  BY <1>1, <1>2, OneMoreEvent
<1> HIDE DEF g, n, b
<1>8. IsBuilder(b)
  BY <1>5 DEF Structure
<1>9. ref \in DOMAIN b.activityByEvent
  BY <1>1, <1>3, <1>5 DEF Structure, ActivityStructure, Starts
<1>10. i \in DOMAIN b.activities /\ r.of = a
  BY <1>1, <1>5, <1>9 DEF Structure, ActivityStructure, Starts
<1>11. ref # 0
  BY <1>1, <1>3
<1>12. c = AddActivityEvent(b, e)
  BY <1>1, <1>11, Dispatch
<1>13. c = WithActivity(b, i, r2)
  BY <1>9, <1>12 DEF AddActivityEvent, WithActivity
<1> HIDE DEF ref, c, i
<1>14. r \in ActivityRecords
  BY <1>8, <1>10, RecordTypes
<1>15. ActivitySound(r, act[a], fl[a]) /\ ActivityFull(r, act[a])
  <2>1. ActivitySound(r, act[r.of], fl[r.of]) /\ ActivityFull(r, act[r.of])
    BY <1>5, <1>10 DEF Sound, Full
  <2> QED
    BY <1>10, <2>1
<1> HIDE DEF r
<1>16. ActivitySound(r2, act2[a], fl2[a]) /\ ActivityFull(r2, act2[a])
  BY <1>10, <1>14, <1>15 DEF KeepsActivity
<1>17. r2 \in ActivityRecords /\ r2.of = a
  BY <1>1, <1>10, <1>14, ActivityAfterFacts DEF ActivityTypes
<1> HIDE DEF r2
<1>18. Sound(b, act2, chl, fl2)
  BY <1>2, <1>5, <1>8, SoundLater
<1>19. Structure(b, g, n)
  BY <1>3, <1>5, StructureOfPrefix
<1>20. b.activities[i].of = a
  BY <1>10 DEF r
<1>21. Structure(c, g, n) /\ Sound(c, act2, chl, fl2) /\ Full(c, act2, chl, fl2)
  BY <1>3, <1>5, <1>10, <1>13, <1>16, <1>17, <1>18, <1>19, <1>20, ActivityRecordChanges
<1>22. Structure(c, g, n + 1)
  <2>1. g[n + 1].ref # 0
    BY <1>3, <1>11 DEF ref
  <2> QED
    BY <1>3, <1>21, <2>1, StructureSkips
<1>23. WorkflowFull(c, g, TRUE)
  <2>1. c.inputs = b.inputs /\ c.errors = b.errors
    BY <1>8, <1>10, <1>13, <1>17, SetActivity DEF SameButActivity
  <2> QED
    BY <1>5, <2>1 DEF WorkflowFull
<1>24. HistoryOK(g, act2, chl)
  <2>1. ASSUME NEW x \in Activities, act2[x].state # "none"
        PROVE  \E k \in DOMAIN h : Starts(h, k, x)
    <3>1. CASE x = a
      BY <1>1, <3>1
    <3>2. CASE x # a
      BY <1>2, <2>1, <3>2 DEF HistoryOK, OnlyActivity
    <3> QED
      BY <3>1, <3>2
  <2>2. \A x \in Activities : act2[x].state # "none" => \E k \in DOMAIN g : Starts(g, k, x)
    BY <1>7, <2>1
  <2>3. \A x \in Children : chl[x] # "none" => \E k \in DOMAIN g : Starts(g, k, x)
    BY <1>2, <1>7 DEF HistoryOK
  <2> QED
    BY <1>3, <1>6, <2>2, <2>3 DEF HistoryOK
<1> QED
  BY <1>1, <1>21, <1>22, <1>23, <1>24, Extend DEF g, c, b, n

OnlyChild(d, chl, fl, chl2, fl2) ==
    /\ \A x \in Children \ {d} : chl2[x] = chl[x]
    /\ \A x \in Items \ {d} : fl2[x] = fl[x]

(* A builder whose record of one child follows that child stays sound and  *)
(* full.                                                                   *)
LEMMA ChildRecordChanges ==
    ASSUME NEW b, NEW act, NEW chl, NEW fl, NEW chl2, NEW fl2, NEW h, NEW n \in Nat,
           Structure(b, h, n), Sound(b, act, chl2, fl2), Full(b, act, chl, fl),
           NEW i \in DOMAIN b.children, NEW d \in Children, b.children[i].of = d,
           OnlyChild(d, chl, fl, chl2, fl2),
           NEW r \in ChildRecords, r.of = d,
           ChildSound(r, chl2[d], fl2[d]), ChildFull(r, chl2[d], fl2[d])
    PROVE  /\ Structure(WithChild(b, i, r), h, n)
           /\ Sound(WithChild(b, i, r), act, chl2, fl2)
           /\ Full(WithChild(b, i, r), act, chl2, fl2)
<1> DEFINE c == WithChild(b, i, r)
<1>1. IsBuilder(b)
  BY DEF Structure
<1>2. c.children = [b.children EXCEPT ![i] = r] /\ SameButChild(b, c)
  BY <1>1, SetChild
<1>3. Structure(c, h, n)
  BY StructureWithChild
<1> HIDE DEF c
<1>4. /\ DOMAIN c.children = DOMAIN b.children /\ c.children[i] = r
      /\ \A k \in DOMAIN b.children : k # i => c.children[k] = b.children[k]
  BY <1>1, <1>2, ReplaceFacts DEF IsBuilder
<1>5. c.activities = b.activities
  BY <1>2 DEF SameButChild
<1>6. ASSUME NEW k \in DOMAIN b.children, k # i
      PROVE  b.children[k].of \in Children \ {d}
  <2>1. b.children[k].of # b.children[i].of
    BY <1>6 DEF Structure, ChildStructure
  <2>2. b.children[k].of \in Children
    BY <1>1, RecordTypes
  <2> QED
    BY <2>1, <2>2
<1>7. ASSUME NEW k \in DOMAIN c.children
      PROVE  /\ ChildSound(c.children[k], chl2[c.children[k].of], fl2[c.children[k].of])
             /\ ChildFull(c.children[k], chl2[c.children[k].of], fl2[c.children[k].of])
  <2>1. CASE k = i
    BY <1>4, <2>1
  <2>2. CASE k # i
    <3>1. c.children[k] = b.children[k] /\ k \in DOMAIN b.children
      BY <1>4, <2>2
    <3>2. /\ chl2[b.children[k].of] = chl[b.children[k].of]
          /\ fl2[b.children[k].of] = fl[b.children[k].of]
      BY <1>6, <2>2, <3>1 DEF OnlyChild, Items
    <3>3. ChildSound(b.children[k], chl2[b.children[k].of], fl2[b.children[k].of])
      BY <3>1 DEF Sound
    <3>4. ChildFull(b.children[k], chl[b.children[k].of], fl[b.children[k].of])
      BY <3>1 DEF Full
    <3> QED
      BY <3>1, <3>2, <3>3, <3>4
  <2> QED
    BY <2>1, <2>2
<1>8. ASSUME NEW k \in DOMAIN c.activities
      PROVE  /\ ActivitySound(c.activities[k], act[c.activities[k].of], fl2[c.activities[k].of])
             /\ ActivityFull(c.activities[k], act[c.activities[k].of])
  <2>1. k \in DOMAIN b.activities /\ c.activities[k] = b.activities[k]
    BY <1>5
  <2>2. b.activities[k].of \in Activities
    BY <1>1, <2>1, RecordTypes
  <2>3. b.activities[k].of \in Items \ {d}
    BY <2>2, ItemAssumption DEF Items
  <2>4. fl2[b.activities[k].of] = fl[b.activities[k].of]
    BY <2>3 DEF OnlyChild
  <2>5. ActivitySound(b.activities[k], act[b.activities[k].of], fl2[b.activities[k].of])
    BY <2>1 DEF Sound
  <2>6. ActivityFull(b.activities[k], act[b.activities[k].of])
    BY <2>1 DEF Full
  <2> QED
    BY <2>1, <2>4, <2>5, <2>6
<1>9. Sound(c, act, chl2, fl2)
  BY <1>7, <1>8 DEF Sound
<1>10. Full(c, act, chl2, fl2)
  BY <1>7, <1>8 DEF Full
<1> QED
  BY <1>3, <1>9, <1>10 DEF c

(* The same for d child.                                                   *)
ChildFollows(d, e, h) ==
    /\ e \in Events /\ e.of = d /\ e.type \in ChildTypes
    /\ e.ref \in DOMAIN h /\ Starts(h, e.ref, d)

KeepsChild(d, e, chl, fl, chl2, fl2) ==
    \A r \in ChildRecords :
        r.of = d /\ ChildSound(r, chl[d], fl[d]) /\ ChildFull(r, chl[d], fl[d]) =>
            /\ ChildSound(ChildAfter(r, e), chl2[d], fl2[d])
            /\ ChildFull(ChildAfter(r, e), chl2[d], fl2[d])

(* An event of an initiated child, likewise.                               *)
LEMMA ChildEvent ==
    ASSUME NEW act, NEW chl, NEW h, NEW fl, NEW chl2, NEW fl2, NEW d \in Children, NEW e,
           Consistent(TRUE, act, chl, h, fl),
           ChildFollows(d, e, h),
           ItemsOK(act, chl2, fl2), Later(act, chl, fl, act, chl2, fl2),
           OnlyChild(d, chl, fl, chl2, fl2),
           KeepsChild(d, e, chl, fl, chl2, fl2)
    PROVE  Consistent(TRUE, act, chl2, Append(h, e), fl2)
<1> DEFINE g == Append(h, e)
           n == Len(h)
           b == Built(h, n)
           ref == e.ref
           i == b.childByEvent[ref]
           r == b.children[i]
           r2 == ChildAfter(r, e)
           c == AddEvent(b, n + 1, e)
<1>1. /\ e \in Events /\ e.of = d /\ e.type \in ChildTypes
      /\ ref \in DOMAIN h /\ Starts(h, ref, d)
  BY DEF ChildFollows
<1>2. h \in Seq(Events) /\ ItemsOK(act, chl, fl) /\ HistoryOK(h, act, chl)
  BY DEF Consistent, HistoryOK
<1>3. /\ n \in Nat /\ DOMAIN h = 1 .. n /\ \A k \in 1 .. n : g[k] = h[k]
      /\ g[n + 1] = e
  BY <1>1, <1>2, OneMoreEvent
<1>4. n \in 0 .. n
  BY <1>3
<1>5. /\ Structure(b, h, n) /\ Sound(b, act, chl, fl) /\ Full(b, act, chl, fl)
      /\ WorkflowFull(b, h, TRUE)
  BY <1>4 DEF Consistent
<1>6. g \in Seq(Events) /\ Len(g) = n + 1
  BY <1>1, <1>2, OneMoreEvent
<1>7. \A k \in DOMAIN h : \A x : Starts(h, k, x) => k \in DOMAIN g /\ Starts(g, k, x)
  BY <1>1, <1>2, OneMoreEvent
<1> HIDE DEF g, n, b
<1>8. IsBuilder(b)
  BY <1>5 DEF Structure
<1>9. ref \in DOMAIN b.childByEvent
  BY <1>1, <1>3, <1>5 DEF Structure, ChildStructure, Starts
<1>10. i \in DOMAIN b.children /\ r.of = d
  BY <1>1, <1>5, <1>9 DEF Structure, ChildStructure, Starts
<1>11. ref # 0
  BY <1>1, <1>3
<1>12. c = AddChildEvent(b, e)
  BY <1>1, <1>11, Dispatch
<1>13. c = WithChild(b, i, r2)
  BY <1>9, <1>12 DEF AddChildEvent, WithChild
<1> HIDE DEF ref, c, i
<1>14. r \in ChildRecords
  BY <1>8, <1>10, RecordTypes
<1>15. ChildSound(r, chl[d], fl[d]) /\ ChildFull(r, chl[d], fl[d])
  <2>1. ChildSound(r, chl[r.of], fl[r.of]) /\ ChildFull(r, chl[r.of], fl[r.of])
    BY <1>5, <1>10 DEF Sound, Full
  <2> QED
    BY <1>10, <2>1
<1> HIDE DEF r
<1>16. ChildSound(r2, chl2[d], fl2[d]) /\ ChildFull(r2, chl2[d], fl2[d])
  BY <1>10, <1>14, <1>15 DEF KeepsChild
<1>17. r2 \in ChildRecords /\ r2.of = d
  BY <1>1, <1>10, <1>14, ChildAfterFacts DEF ChildTypes
<1> HIDE DEF r2
<1>18. Sound(b, act, chl2, fl2)
  BY <1>2, <1>5, <1>8, SoundLater
<1>19. Structure(b, g, n)
  BY <1>3, <1>5, StructureOfPrefix
<1>20. b.children[i].of = d
  BY <1>10 DEF r
<1>21. Structure(c, g, n) /\ Sound(c, act, chl2, fl2) /\ Full(c, act, chl2, fl2)
  BY <1>3, <1>5, <1>10, <1>13, <1>16, <1>17, <1>18, <1>19, <1>20, ChildRecordChanges
<1>22. Structure(c, g, n + 1)
  <2>1. g[n + 1].ref # 0
    BY <1>3, <1>11 DEF ref
  <2> QED
    BY <1>3, <1>21, <2>1, StructureSkips
<1>23. WorkflowFull(c, g, TRUE)
  <2>1. c.inputs = b.inputs /\ c.errors = b.errors
    BY <1>8, <1>10, <1>13, <1>17, SetChild DEF SameButChild
  <2> QED
    BY <1>5, <2>1 DEF WorkflowFull
<1>24. HistoryOK(g, act, chl2)
  <2>1. ASSUME NEW x \in Children, chl2[x] # "none"
        PROVE  \E k \in DOMAIN h : Starts(h, k, x)
    <3>1. CASE x = d
      BY <1>1, <3>1
    <3>2. CASE x # d
      BY <1>2, <2>1, <3>2 DEF HistoryOK, OnlyChild
    <3> QED
      BY <3>1, <3>2
  <2>2. \A x \in Children : chl2[x] # "none" => \E k \in DOMAIN g : Starts(g, k, x)
    BY <1>7, <2>1
  <2>3. \A x \in Activities : act[x].state # "none" => \E k \in DOMAIN g : Starts(g, k, x)
    BY <1>2, <1>7 DEF HistoryOK
  <2> QED
    BY <1>3, <1>6, <2>2, <2>3 DEF HistoryOK
<1> QED
  BY <1>1, <1>21, <1>22, <1>23, <1>24, Extend DEF g, c, b, n

(* The fields of an event.                                                 *)
LEMMA EventFacts ==
    ASSUME NEW type \in EventTypes, NEW of \in Activities \cup Children \cup {"workflow"},
           NEW ref \in Nat, NEW attempt \in Nat, NEW messages \in Seq(STRING),
           NEW e, e = Event(type, of, ref, attempt, messages)
    PROVE  /\ e \in Events
           /\ e.type = type /\ e.of = of /\ e.ref = ref /\ e.attempt = attempt
           /\ e.messages = messages
BY DEF Event, Events

(* The execution may change without an event.                              *)
QuietActivity(a, act, fl, act2, fl2) ==
    /\ OnlyActivity(a, act, fl, act2, fl2)
    /\ act[a].state # "none"
    /\ \A r \in ActivityRecords : ActivityFull(r, act[a]) => ActivityFull(r, act2[a])

(* An activity may change without an event: an attempt starts unwritten,   *)
(* fails without a trace or is paused.                                     *)
LEMMA ActivityQuiet ==
    ASSUME NEW op, NEW act, NEW chl, NEW h, NEW fl, NEW act2, NEW fl2, NEW a \in Activities,
           Consistent(op, act, chl, h, fl),
           ItemsOK(act2, chl, fl2), Later(act, chl, fl, act2, chl, fl2),
           QuietActivity(a, act, fl, act2, fl2)
    PROVE  Consistent(op, act2, chl, h, fl2)
<1> DEFINE n == Len(h)
           b == Built(h, n)
<1>1. /\ ItemsOK(act, chl, fl) /\ HistoryOK(h, act, chl) /\ n \in 0 .. n
      /\ Full(b, act, chl, fl) /\ WorkflowFull(b, h, op)
  <2>1. h \in Seq(Events)
    BY DEF Consistent, HistoryOK
  <2>2. n \in Nat
    BY <2>1
  <2> QED
    BY <2>2 DEF Consistent
<1>2. ASSUME NEW k \in 0 .. n
      PROVE  Structure(Built(h, k), h, k) /\ Sound(Built(h, k), act2, chl, fl2)
  <2>1. Structure(Built(h, k), h, k) /\ Sound(Built(h, k), act, chl, fl)
    BY DEF Consistent
  <2>2. IsBuilder(Built(h, k))
    BY <2>1 DEF Structure
  <2> QED
    BY <1>1, <2>1, <2>2, SoundLater
<1> HIDE DEF n, b
<1>3. Structure(b, h, n)
  BY <1>1, <1>2 DEF b
<1>4. IsBuilder(b)
  BY <1>3 DEF Structure
<1>5. ASSUME NEW k \in DOMAIN b.activities
      PROVE  ActivityFull(b.activities[k], act2[b.activities[k].of])
  <2> DEFINE r == b.activities[k]
             x == r.of
  <2>1. r \in ActivityRecords /\ x \in Activities /\ ActivityFull(r, act[x])
    BY <1>1, <1>4, RecordTypes DEF Full
  <2> HIDE DEF r, x
  <2>4. ActivityFull(r, act2[x])
    <3>1. CASE x = a
      BY <2>1, <3>1 DEF QuietActivity
    <3>2. CASE x # a
      BY <2>1, <3>2 DEF QuietActivity, OnlyActivity
    <3> QED
      BY <3>1, <3>2
  <2> QED
    BY <2>4 DEF r, x
<1>6. ASSUME NEW k \in DOMAIN b.children
      PROVE  ChildFull(b.children[k], chl[b.children[k].of], fl2[b.children[k].of])
  <2>1. b.children[k].of \in Items \ {a}
    BY <1>4, RecordTypes, ItemAssumption DEF Items
  <2>2. fl2[b.children[k].of] = fl[b.children[k].of]
    BY <2>1 DEF QuietActivity, OnlyActivity
  <2> QED
    BY <1>1, <2>2 DEF Full
<1>7. Full(b, act2, chl, fl2)
  BY <1>5, <1>6 DEF Full
<1>8. HistoryOK(h, act2, chl)
  <2>1. \A x \in Activities : act2[x].state # "none" => act[x].state # "none"
    BY DEF QuietActivity, OnlyActivity
  <2> QED
    BY <1>1, <2>1 DEF HistoryOK
<1> QED
  BY <1>1, <1>2, <1>7, <1>8 DEF Consistent, n, b

(* An activity is scheduled: the builder gets a record of it.              *)
LEMMA ScheduledEvent ==
    ASSUME NEW act, NEW chl, NEW h, NEW fl, NEW act2, NEW a \in Activities, NEW e,
           Consistent(TRUE, act, chl, h, fl),
           e = Event("ActivityScheduled", a, 0, 0, <<>>),
           ItemsOK(act2, chl, fl), Later(act, chl, fl, act2, chl, fl),
           OnlyActivity(a, act, fl, act2, fl),
           act[a].state = "none", act2[a].state = "scheduled"
    PROVE  Consistent(TRUE, act2, chl, Append(h, e), fl)
<1> DEFINE g == Append(h, e)
           n == Len(h)
           b == Built(h, n)
           c == AddEvent(b, n + 1, e)
<1>1. e \in Events /\ e.of = a /\ e.type = "ActivityScheduled" /\ e.ref = 0
  <2>1. /\ "ActivityScheduled" \in EventTypes /\ a \in Activities \cup Children \cup {"workflow"}
        /\ 0 \in Nat /\ 0 \in Nat /\ <<>> \in Seq(STRING)
    BY DEF EventTypes, WorkflowTypes, ActivityTypes, ChildTypes
  <2> QED
    BY <2>1 DEF Event, Events
<1>2. h \in Seq(Events) /\ ItemsOK(act, chl, fl) /\ HistoryOK(h, act, chl)
  BY DEF Consistent, HistoryOK
<1>3. /\ n \in Nat /\ DOMAIN h = 1 .. n /\ \A k \in 1 .. n : g[k] = h[k]
      /\ g[n + 1] = e
  BY <1>1, <1>2, OneMoreEvent
<1>4. n \in 0 .. n
  BY <1>3
<1>5. /\ Structure(b, h, n) /\ Sound(b, act, chl, fl) /\ Full(b, act, chl, fl)
      /\ WorkflowFull(b, h, TRUE)
  BY <1>4 DEF Consistent
<1>6. g \in Seq(Events) /\ Len(g) = n + 1 /\ DOMAIN g = 1 .. n + 1
  BY <1>1, <1>2, OneMoreEvent
<1>7. \A k \in DOMAIN h : \A x : Starts(h, k, x) => k \in DOMAIN g /\ Starts(g, k, x)
  BY <1>1, <1>2, OneMoreEvent
<1> HIDE DEF g, n, b
<1>8. IsBuilder(b)
  BY <1>5 DEF Structure
<1>9. ~HasActivity(b, a)
  BY <1>5 DEF HasActivity, Sound, ActivitySound
<1>10. Starts(g, n + 1, a)
  BY <1>1, <1>3 DEF Starts
<1>11. c = AddScheduledActivity(b, n + 1, g[n + 1])
  BY <1>1, <1>3, Dispatch
<1> HIDE DEF c
<1>12. Structure(b, g, n)
  BY <1>3, <1>5, StructureOfPrefix
<1>13. /\ Structure(c, g, n + 1)
       /\ c.activities = Append(b.activities, NewActivity(a))
       /\ c.inputs = b.inputs /\ c.errors = b.errors /\ c.children = b.children
  BY <1>3, <1>9, <1>10, <1>11, <1>12, Schedules
<1>14. Sound(b, act2, chl, fl)
  BY <1>2, <1>5, <1>8, SoundLater
<1>15. \A k \in DOMAIN c.activities :
          \/ k \in DOMAIN b.activities /\ c.activities[k] = b.activities[k]
          \/ c.activities[k] = NewActivity(a)
  <2>1. b.activities \in Seq(ActivityRecords) /\ NewActivity(a) \in ActivityRecords
    BY <1>8, NewRecords DEF IsBuilder
  <2> QED
    BY <1>13, <2>1, AppendFacts
<1>16. /\ NewActivity(a).of = a /\ ActivitySound(NewActivity(a), act2[a], fl[a])
       /\ ActivityFull(NewActivity(a), act2[a])
  <2>1. /\ NewActivity(a).of = a /\ NewActivity(a).ended = FALSE
        /\ NewActivity(a).outputs = FALSE /\ NewActivity(a).errors = <<>>
    BY DEF NewActivity
  <2>2. fl[a] \in Seq(STRING)
    BY <1>2 DEF ItemsOK, Items
  <2>3. \A m \in STRING : Count(<<>>, m) <= Count(fl[a], m)
    BY <2>2, CountOfNone, CountFacts
  <2> QED
    BY <2>1, <2>3 DEF ActivitySound, ActivityFull
<1>17. ASSUME NEW k \in DOMAIN c.activities
       PROVE  /\ ActivitySound(c.activities[k], act2[c.activities[k].of], fl[c.activities[k].of])
              /\ ActivityFull(c.activities[k], act2[c.activities[k].of])
  <2>1. CASE k \in DOMAIN b.activities /\ c.activities[k] = b.activities[k]
    <3>1. b.activities[k].of \in Activities \ {a}
      BY <1>8, <1>9, <2>1, RecordTypes DEF HasActivity
    <3>2. act2[b.activities[k].of] = act[b.activities[k].of]
      BY <3>1 DEF OnlyActivity
    <3>3. ActivitySound(b.activities[k], act2[b.activities[k].of], fl[b.activities[k].of])
      BY <1>14, <2>1 DEF Sound
    <3>4. ActivityFull(b.activities[k], act[b.activities[k].of])
      BY <1>5, <2>1 DEF Full
    <3> QED
      BY <2>1, <3>2, <3>3, <3>4
  <2>2. CASE c.activities[k] = NewActivity(a)
    BY <1>16, <2>2
  <2> QED
    BY <1>15, <2>1, <2>2
<1>18. Sound(c, act2, chl, fl)
  BY <1>13, <1>14, <1>17 DEF Sound
<1>19. Full(c, act2, chl, fl)
  BY <1>5, <1>13, <1>17 DEF Full
<1>20. WorkflowFull(c, g, TRUE)
  BY <1>5, <1>13 DEF WorkflowFull
<1>21. HistoryOK(g, act2, chl)
  <2>1. ASSUME NEW x \in Activities, act2[x].state # "none"
        PROVE  \E k \in DOMAIN g : Starts(g, k, x)
    <3>1. CASE x = a
      <4>1. n + 1 \in DOMAIN g
        BY <1>3, <1>6
      <4> QED
        BY <1>10, <3>1, <4>1
    <3>2. CASE x # a
      BY <1>2, <1>7, <2>1, <3>2 DEF HistoryOK, OnlyActivity
    <3> QED
      BY <3>1, <3>2
  <2>2. \A x \in Children : chl[x] # "none" => \E k \in DOMAIN g : Starts(g, k, x)
    BY <1>2, <1>7 DEF HistoryOK
  <2> QED
    BY <1>3, <1>6, <2>1, <2>2 DEF HistoryOK
<1> QED
  BY <1>1, <1>13, <1>18, <1>19, <1>20, <1>21, Extend DEF g, c, b, n

(* A child is initiated: the builder gets a record of it.                  *)
LEMMA InitiatedEvent ==
    ASSUME NEW act, NEW chl, NEW h, NEW fl, NEW chl2, NEW d \in Children, NEW e,
           Consistent(TRUE, act, chl, h, fl),
           e = Event("ChildInitiated", d, 0, 0, <<>>),
           ItemsOK(act, chl2, fl), Later(act, chl, fl, act, chl2, fl),
           OnlyChild(d, chl, fl, chl2, fl),
           chl[d] = "none", chl2[d] = "initiated"
    PROVE  Consistent(TRUE, act, chl2, Append(h, e), fl)
<1> DEFINE g == Append(h, e)
           n == Len(h)
           b == Built(h, n)
           c == AddEvent(b, n + 1, e)
<1>1. e \in Events /\ e.of = d /\ e.type = "ChildInitiated" /\ e.ref = 0
  <2>1. /\ "ChildInitiated" \in EventTypes /\ d \in Activities \cup Children \cup {"workflow"}
        /\ 0 \in Nat /\ 0 \in Nat /\ <<>> \in Seq(STRING)
    BY DEF EventTypes, WorkflowTypes, ActivityTypes, ChildTypes
  <2> QED
    BY <2>1 DEF Event, Events
<1>2. h \in Seq(Events) /\ ItemsOK(act, chl, fl) /\ HistoryOK(h, act, chl)
  BY DEF Consistent, HistoryOK
<1>3. /\ n \in Nat /\ DOMAIN h = 1 .. n /\ \A k \in 1 .. n : g[k] = h[k]
      /\ g[n + 1] = e
  BY <1>1, <1>2, OneMoreEvent
<1>4. n \in 0 .. n
  BY <1>3
<1>5. /\ Structure(b, h, n) /\ Sound(b, act, chl, fl) /\ Full(b, act, chl, fl)
      /\ WorkflowFull(b, h, TRUE)
  BY <1>4 DEF Consistent
<1>6. g \in Seq(Events) /\ Len(g) = n + 1 /\ DOMAIN g = 1 .. n + 1
  BY <1>1, <1>2, OneMoreEvent
<1>7. \A k \in DOMAIN h : \A x : Starts(h, k, x) => k \in DOMAIN g /\ Starts(g, k, x)
  BY <1>1, <1>2, OneMoreEvent
<1> HIDE DEF g, n, b
<1>8. IsBuilder(b)
  BY <1>5 DEF Structure
<1>9. ~HasChild(b, d)
  BY <1>5 DEF HasChild, Sound, ChildSound
<1>10. Starts(g, n + 1, d)
  BY <1>1, <1>3 DEF Starts
<1>11. c = AddInitiatedChild(b, n + 1, g[n + 1])
  BY <1>1, <1>3, Dispatch
<1> HIDE DEF c
<1>12. Structure(b, g, n)
  BY <1>3, <1>5, StructureOfPrefix
<1>13. /\ Structure(c, g, n + 1)
       /\ c.children = Append(b.children, NewChild(d))
       /\ c.inputs = b.inputs /\ c.errors = b.errors /\ c.activities = b.activities
  BY <1>3, <1>9, <1>10, <1>11, <1>12, Initiates
<1>14. Sound(b, act, chl2, fl)
  BY <1>2, <1>5, <1>8, SoundLater
<1>15. \A k \in DOMAIN c.children :
          \/ k \in DOMAIN b.children /\ c.children[k] = b.children[k]
          \/ c.children[k] = NewChild(d)
  <2>1. b.children \in Seq(ChildRecords) /\ NewChild(d) \in ChildRecords
    BY <1>8, NewRecords DEF IsBuilder
  <2> QED
    BY <1>13, <2>1, AppendFacts
<1>16. /\ NewChild(d).of = d /\ ChildSound(NewChild(d), chl2[d], fl[d])
       /\ ChildFull(NewChild(d), chl2[d], fl[d])
  <2>1. /\ NewChild(d).of = d /\ NewChild(d).ended = FALSE /\ NewChild(d).errors = <<>>
    BY DEF NewChild
  <2>2. fl[d] = <<>>
    BY <1>2 DEF ItemsOK
  <2>3. \A m \in STRING : Count(<<>>, m) <= Count(<<>>, m)
    BY CountOfNone
  <2> QED
    BY <2>1, <2>2, <2>3 DEF ChildSound, ChildFull
<1>17. ASSUME NEW k \in DOMAIN c.children
       PROVE  /\ ChildSound(c.children[k], chl2[c.children[k].of], fl[c.children[k].of])
              /\ ChildFull(c.children[k], chl2[c.children[k].of], fl[c.children[k].of])
  <2>1. CASE k \in DOMAIN b.children /\ c.children[k] = b.children[k]
    <3>1. b.children[k].of \in Children \ {d}
      BY <1>8, <1>9, <2>1, RecordTypes DEF HasChild
    <3>2. chl2[b.children[k].of] = chl[b.children[k].of]
      BY <3>1 DEF OnlyChild
    <3>3. ChildSound(b.children[k], chl2[b.children[k].of], fl[b.children[k].of])
      BY <1>14, <2>1 DEF Sound
    <3>4. ChildFull(b.children[k], chl[b.children[k].of], fl[b.children[k].of])
      BY <1>5, <2>1 DEF Full
    <3> QED
      BY <2>1, <3>2, <3>3, <3>4
  <2>2. CASE c.children[k] = NewChild(d)
    BY <1>16, <2>2
  <2> QED
    BY <1>15, <2>1, <2>2
<1>18. Sound(c, act, chl2, fl)
  BY <1>13, <1>14, <1>17 DEF Sound
<1>19. Full(c, act, chl2, fl)
  BY <1>5, <1>13, <1>17 DEF Full
<1>20. WorkflowFull(c, g, TRUE)
  BY <1>5, <1>13 DEF WorkflowFull
<1>21. HistoryOK(g, act, chl2)
  <2>1. ASSUME NEW x \in Children, chl2[x] # "none"
        PROVE  \E k \in DOMAIN g : Starts(g, k, x)
    <3>1. CASE x = d
      <4>1. n + 1 \in DOMAIN g
        BY <1>3, <1>6
      <4> QED
        BY <1>10, <3>1, <4>1
    <3>2. CASE x # d
      BY <1>2, <1>7, <2>1, <3>2 DEF HistoryOK, OnlyChild
    <3> QED
      BY <3>1, <3>2
  <2>2. \A x \in Activities : act[x].state # "none" => \E k \in DOMAIN g : Starts(g, k, x)
    BY <1>2, <1>7 DEF HistoryOK
  <2> QED
    BY <1>3, <1>6, <2>1, <2>2 DEF HistoryOK
<1> QED
  BY <1>1, <1>13, <1>18, <1>19, <1>20, <1>21, Extend DEF g, c, b, n

(* The workflow is closed: nothing happens after that.                     *)
LEMMA ClosedEvent ==
    ASSUME NEW act, NEW chl, NEW h, NEW fl, NEW f \in Seq(STRING), NEW e,
           Consistent(TRUE, act, chl, h, fl),
           e = Event("WorkflowClosed", "workflow", 1, 0, f)
    PROVE  Consistent(FALSE, act, chl, Append(h, e), fl)
<1> DEFINE g == Append(h, e)
           n == Len(h)
           b == Built(h, n)
           c == AddEvent(b, n + 1, e)
<1>1. /\ e \in Events /\ e.of = "workflow" /\ e.type = "WorkflowClosed" /\ e.ref = 1
      /\ e.messages = f
  <2>1. /\ "WorkflowClosed" \in EventTypes /\ "workflow" \in Activities \cup Children \cup {"workflow"}
        /\ 1 \in Nat /\ 0 \in Nat /\ f \in Seq(STRING)
    BY DEF EventTypes, WorkflowTypes, ActivityTypes, ChildTypes
  <2> QED
    BY <2>1, EventFacts
<1>2. h \in Seq(Events) /\ ItemsOK(act, chl, fl) /\ HistoryOK(h, act, chl)
  BY DEF Consistent, HistoryOK
<1>3. /\ n \in Nat /\ DOMAIN h = 1 .. n /\ \A k \in 1 .. n : g[k] = h[k]
      /\ g[n + 1] = e
  BY <1>1, <1>2, OneMoreEvent
<1>4. n \in 0 .. n
  BY <1>3
<1>5. /\ Structure(b, h, n) /\ Sound(b, act, chl, fl) /\ Full(b, act, chl, fl)
      /\ WorkflowFull(b, h, TRUE)
  BY <1>4 DEF Consistent
<1>6. g \in Seq(Events) /\ Len(g) = n + 1
  BY <1>1, <1>2, OneMoreEvent
<1>7. \A k \in DOMAIN h : \A x : Starts(h, k, x) => k \in DOMAIN g /\ Starts(g, k, x)
  BY <1>1, <1>2, OneMoreEvent
<1> HIDE DEF g, n, b
<1>8. IsBuilder(b)
  BY <1>5 DEF Structure
<1>9. c = AddWorkflowEvent(b, e)
  BY <1>1, Dispatch DEF WorkflowTypes
<1> HIDE DEF c
<1>10. IsBuilder(c) /\ SameItems(b, c) /\ c.inputs = b.inputs /\ c.errors = b.errors \o f
  BY <1>1, <1>8, <1>9, WorkflowCloses
<1>11. Structure(b, g, n)
  BY <1>3, <1>5, StructureOfPrefix
<1>12. Structure(c, g, n)
  BY <1>10, <1>11, StructureOfSame DEF SameItems
<1>13. Structure(c, g, n + 1)
  BY <1>1, <1>3, <1>12, StructureSkips
<1>14. Sound(c, act, chl, fl) /\ Full(c, act, chl, fl)
  BY <1>5, <1>10 DEF Sound, Full, SameItems
<1>15. WorkflowFull(c, g, FALSE)
  <2>1. b.errors = <<>> /\ b.inputs
    BY <1>5 DEF WorkflowFull
  <2>2. <<>> \o f = f
    OBVIOUS
  <2>3. c.errors = f
    BY <1>10, <2>1, <2>2
  <2> QED
    BY <1>1, <1>3, <1>6, <1>10, <2>1, <2>3 DEF WorkflowFull
<1>16. HistoryOK(g, act, chl)
  <2>1. \A x \in Activities : act[x].state # "none" => \E k \in DOMAIN g : Starts(g, k, x)
    BY <1>2, <1>7 DEF HistoryOK
  <2>2. \A x \in Children : chl[x] # "none" => \E k \in DOMAIN g : Starts(g, k, x)
    BY <1>2, <1>7 DEF HistoryOK
  <2> QED
    BY <1>3, <1>6, <2>1, <2>2 DEF HistoryOK
<1>17. Later(act, chl, fl, act, chl, fl)
  <2>1. \A i \in Items : fl[i] \in Seq(STRING)
    BY <1>2 DEF ItemsOK
  <2>2. \A i \in Items : \A m \in STRING : Count(fl[i], m) \in Nat
    BY <2>1, CountFacts
  <2>3. \A x \in Nat : x <= x
    OBVIOUS
  <2>4. \A i \in Items : \A m \in STRING : Count(fl[i], m) <= Count(fl[i], m)
    BY <2>2, <2>3, Zenon
  <2> QED
    BY <2>4 DEF Later
<1> QED
  BY <1>1, <1>2, <1>13, <1>14, <1>15, <1>16, <1>17, Extend DEF g, c, b, n

-----------------------------------------------------------------------------
(* What the events of an activity and of a child tell.                     *)

LEMMA CountOrder ==
    ASSUME NEW s \in Seq(STRING), NEW t \in Seq(STRING), NEW m \in STRING
    PROVE  /\ Count(s, m) <= Count(s, m)
           /\ Count(s, m) <= Count(s \o t, m) /\ Count(t, m) <= Count(s \o t, m)
<1>1. Count(s, m) \in Nat /\ Count(t, m) \in Nat
  BY CountFacts
<1>2. Count(s \o t, m) = Count(s, m) + Count(t, m)
  BY CountOfConcat
<1>3. \A x, y \in Nat : x <= x /\ x <= x + y /\ y <= x + y
  OBVIOUS
<1> QED
  BY <1>1, <1>2, <1>3, Zenon

(* AppendUnseen records no message more often than it happened.            *)
LEMMA UnseenCount ==
    ASSUME NEW s \in Seq(STRING), NEW t \in Seq(STRING), NEW f \in Seq(STRING), NEW m \in STRING,
           Count(s, m) <= Count(f, m), Count(t, m) <= Count(f, m)
    PROVE  Count(AppendUnseen(s, t), m) <= Count(f, m)
<1>1. CASE Count(AppendUnseen(s, t), m) = Count(s, m)
  BY <1>1
<1>2. CASE m \in Range(t) /\ Count(AppendUnseen(s, t), m) = 1
  <2>1. Count(t, m) \in Nat /\ Count(f, m) \in Nat /\ Count(t, m) >= 1
    BY <1>2, CountFacts
  <2>2. \A x, y \in Nat : x >= 1 /\ x <= y => 1 <= y
    OBVIOUS
  <2> QED
    BY <1>2, <2>1, <2>2, Zenon
<1> QED
  BY <1>1, <1>2, AppendUnseenFacts

(* A started event repeats a failure that is known already; the record     *)
(* stays right.                                                            *)
LEMMA KeepsStarted ==
    ASSUME NEW act, NEW chl, NEW fl, NEW act2, NEW a \in Activities, NEW e \in Events,
           ItemsOK(act, chl, fl), e.type = "ActivityStarted",
           e.attempt = act[a].attempt, e.messages = act[a].failure,
           act[a].state # "closed", act2[a].state \notin {"none", "closed"},
           act2[a].attempt = act[a].attempt, act2[a].failure = act[a].failure
    PROVE  KeepsActivity(a, e, act, fl, act2, fl)
<1> SUFFICES ASSUME NEW r \in ActivityRecords, r.of = a,
                    ActivitySound(r, act[a], fl[a]), ActivityFull(r, act[a])
             PROVE  /\ ActivitySound(ActivityAfter(r, e), act2[a], fl[a])
                    /\ ActivityFull(ActivityAfter(r, e), act2[a])
  BY DEF KeepsActivity
<1> DEFINE r2 == ActivityAfter(r, e)
           s == act[a].failure
           f == fl[a]
<1>0. /\ r2.attempts = e.attempt /\ r2.ended = FALSE /\ r2.outputs = r.outputs
      /\ r2.errors = AppendUnseen(r.errors, e.messages)
  BY ActivityAfterFacts
<1>1. /\ r2.attempts = e.attempt /\ r2.ended = FALSE /\ r2.outputs = r.outputs
      /\ r2.errors = AppendUnseen(r.errors, s)
  <2> HIDE DEF r2
  <2> QED
    BY <1>0
<1>2. r.errors \in Seq(STRING)
  BY DEF ActivityRecords
<1>3. act[a] \in ActivityStates /\ f \in Seq(STRING)
  BY DEF ItemsOK, Items
<1>4. s \in Seq(STRING)
  BY <1>3 DEF ActivityStates
<1>5. \A m \in STRING : Count(s, m) <= Count(f, m) /\ Count(r.errors, m) <= Count(f, m)
  BY DEF ItemsOK, ActivitySound
<1>6. r.outputs = FALSE
  BY DEF ActivityFull, ActivityRecords
<1> HIDE DEF r2, s, f
<1>7. ASSUME NEW m \in STRING
      PROVE  Count(r2.errors, m) <= Count(f, m)
  BY <1>1, <1>2, <1>3, <1>4, <1>5, UnseenCount
<1>8. Range(s) \subseteq Range(r2.errors)
  BY <1>1, <1>2, <1>4, AppendUnseenFacts
<1>9. ActivitySound(r2, act2[a], f)
  BY <1>1, <1>7 DEF ActivitySound
<1>10. ActivityFull(r2, act2[a])
  BY <1>1, <1>6, <1>8 DEF ActivityFull, s
<1> QED
  BY <1>9, <1>10 DEF r2, f

(* A failed event tells of a failure once.                                 *)
LEMMA KeepsFailed ==
    ASSUME NEW act, NEW chl, NEW fl, NEW act2, NEW fl2, NEW a \in Activities, NEW e \in Events,
           ItemsOK(act, chl, fl), e.type = "ActivityFailed",
           act[a].state # "closed",
           act2[a].state = "closed" \/ (act2[a].state = "scheduled" /\ act2[a].failure # <<>>),
           fl2[a] = fl[a] \o e.messages
    PROVE  KeepsActivity(a, e, act, fl, act2, fl2)
<1> SUFFICES ASSUME NEW r \in ActivityRecords, r.of = a,
                    ActivitySound(r, act[a], fl[a]), ActivityFull(r, act[a])
             PROVE  /\ ActivitySound(ActivityAfter(r, e), act2[a], fl2[a])
                    /\ ActivityFull(ActivityAfter(r, e), act2[a])
  BY DEF KeepsActivity
<1> DEFINE r2 == ActivityAfter(r, e)
           f == e.messages
           old == fl[a]
<1>1. r2.ended = TRUE /\ r2.outputs = r.outputs /\ r2.errors = r.errors \o f
  BY ActivityAfterFacts
<1>2. r.errors \in Seq(STRING) /\ f \in Seq(STRING)
  BY DEF ActivityRecords, Events
<1>3. old \in Seq(STRING)
  BY DEF ItemsOK, Items
<1>4. \A m \in STRING : Count(r.errors, m) <= Count(old, m)
  BY DEF ActivitySound
<1>5. r.outputs = FALSE
  BY DEF ActivityFull, ActivityRecords
<1> HIDE DEF r2, f, old
<1>6. ASSUME NEW m \in STRING
      PROVE  Count(r2.errors, m) <= Count(old \o f, m)
  <2>1. /\ Count(r.errors \o f, m) = Count(r.errors, m) + Count(f, m)
        /\ Count(old \o f, m) = Count(old, m) + Count(f, m)
    BY <1>2, <1>3, CountOfConcat
  <2>2. Count(r.errors, m) \in Nat /\ Count(f, m) \in Nat /\ Count(old, m) \in Nat
    BY <1>2, <1>3, CountFacts
  <2>3. \A x, y, z \in Nat : x <= y => x + z <= y + z
    OBVIOUS
  <2> QED
    BY <1>1, <1>4, <2>1, <2>2, <2>3, Zenon
<1>7. fl2[a] = old \o f
  BY DEF old, f
<1>8. ActivitySound(r2, act2[a], fl2[a])
  BY <1>1, <1>6, <1>7 DEF ActivitySound
<1>9. ActivityFull(r2, act2[a])
  BY <1>1, <1>5 DEF ActivityFull
<1> QED
  BY <1>8, <1>9 DEF r2

(* A completed event follows the start of the last attempt, whose failure  *)
(* the record then has.                                                    *)
LEMMA KeepsCompleted ==
    ASSUME NEW act, NEW chl, NEW fl, NEW act2, NEW a \in Activities, NEW e \in Events,
           e.type = "ActivityCompleted",
           act[a].state = "running", act[a].recorded, act2[a].state = "closed",
           act2[a].attempt = act[a].attempt, act2[a].failure = act[a].failure
    PROVE  KeepsActivity(a, e, act, fl, act2, fl)
<1> SUFFICES ASSUME NEW r \in ActivityRecords, r.of = a,
                    ActivitySound(r, act[a], fl[a]), ActivityFull(r, act[a])
             PROVE  /\ ActivitySound(ActivityAfter(r, e), act2[a], fl[a])
                    /\ ActivityFull(ActivityAfter(r, e), act2[a])
  BY DEF KeepsActivity
<1> DEFINE r2 == ActivityAfter(r, e)
<1>1. /\ r2.ended = TRUE /\ r2.outputs = TRUE /\ r2.errors = r.errors
      /\ r2.attempts = r.attempts
  BY ActivityAfterFacts
<1> HIDE DEF r2
<1>2. ActivitySound(r2, act2[a], fl[a])
  BY <1>1 DEF ActivitySound
<1>3. ActivityFull(r2, act2[a])
  BY <1>1 DEF ActivityFull
<1> QED
  BY <1>2, <1>3 DEF r2

(* The start of a child leaves its record right.                           *)
LEMMA KeepsChildStarted ==
    ASSUME NEW chl, NEW fl, NEW chl2, NEW d \in Children, NEW e \in Events,
           e.type = "ChildStarted", chl[d] # "closed", chl2[d] = "started"
    PROVE  KeepsChild(d, e, chl, fl, chl2, fl)
<1> SUFFICES ASSUME NEW r \in ChildRecords, r.of = d,
                    ChildSound(r, chl[d], fl[d]), ChildFull(r, chl[d], fl[d])
             PROVE  /\ ChildSound(ChildAfter(r, e), chl2[d], fl[d])
                    /\ ChildFull(ChildAfter(r, e), chl2[d], fl[d])
  BY DEF KeepsChild
<1> DEFINE r2 == ChildAfter(r, e)
<1>1. r2.ended = r.ended /\ r2.errors = r.errors
  BY ChildAfterFacts
<1> HIDE DEF r2
<1>2. ChildSound(r2, chl2[d], fl[d])
  BY <1>1 DEF ChildSound
<1>3. ChildFull(r2, chl2[d], fl[d])
  BY <1>1 DEF ChildFull
<1> QED
  BY <1>2, <1>3 DEF r2

(* A child has one end, so that its errors are those of that end.          *)
LEMMA KeepsChildClosed ==
    ASSUME NEW act, NEW chl, NEW fl, NEW chl2, NEW fl2, NEW d \in Children, NEW e \in Events,
           ItemsOK(act, chl, fl), chl[d] # "closed", chl2[d] = "closed",
           \/ e.type = "ChildCompleted" /\ e.messages = <<>>
           \/ e.type = "ChildFailed",
           fl2[d] = fl[d] \o e.messages
    PROVE  KeepsChild(d, e, chl, fl, chl2, fl2)
<1> SUFFICES ASSUME NEW r \in ChildRecords, r.of = d,
                    ChildSound(r, chl[d], fl[d]), ChildFull(r, chl[d], fl[d])
             PROVE  /\ ChildSound(ChildAfter(r, e), chl2[d], fl2[d])
                    /\ ChildFull(ChildAfter(r, e), chl2[d], fl2[d])
  BY DEF KeepsChild
<1> DEFINE r2 == ChildAfter(r, e)
           f == e.messages
<1>1. f \in Seq(STRING) /\ fl[d] = <<>> /\ r.errors = <<>>
  BY DEF Events, ItemsOK, ChildFull
<1>2. fl2[d] = f
  <2>1. \A s \in Seq(STRING) : <<>> \o s = s
    OBVIOUS
  <2> QED
    BY <1>1, <2>1
<1>3. r2.ended = TRUE /\ r2.errors = f
  <2>1. CASE e.type = "ChildCompleted" /\ e.messages = <<>>
    <3>1. r2.ended = TRUE /\ r2.errors = r.errors
      BY <2>1, ChildAfterFacts
    <3> HIDE DEF r2
    <3> QED
      BY <1>1, <2>1, <3>1
  <2>2. CASE e.type = "ChildFailed"
    <3>1. r2.ended = TRUE /\ r2.errors = r.errors \o f
      BY <2>2, ChildAfterFacts
    <3>2. r2.errors = <<>> \o f
      <4> HIDE DEF r2, f
      <4> QED
        BY <1>1, <3>1
    <3>3. \A s \in Seq(STRING) : <<>> \o s = s
      OBVIOUS
    <3> HIDE DEF r2, f
    <3> QED
      BY <1>1, <3>1, <3>2, <3>3
  <2> QED
    BY <2>1, <2>2
<1> HIDE DEF r2, f
<1>4. \A m \in STRING : Count(f, m) <= Count(f, m)
  BY <1>1, CountOrder
<1>5. ChildSound(r2, chl2[d], fl2[d])
  BY <1>2, <1>3, <1>4 DEF ChildSound
<1>6. ChildFull(r2, chl2[d], fl2[d])
  BY <1>2, <1>3 DEF ChildFull
<1> QED
  BY <1>5, <1>6 DEF r2

-----------------------------------------------------------------------------
(* The steps of the execution.                                             *)

Moved(act, a, s) == [act EXCEPT ![a] = s]
Grown(fl, i, f) == [fl EXCEPT ![i] = @ \o f]

(* Messages are only added to what failed.                                 *)
LEMMA GrownFacts ==
    ASSUME NEW fl \in [Items -> Seq(STRING)], NEW i \in Items, NEW f \in Seq(STRING)
    PROVE  /\ Grown(fl, i, f) \in [Items -> Seq(STRING)]
           /\ Grown(fl, i, f)[i] = fl[i] \o f
           /\ \A j \in Items \ {i} : Grown(fl, i, f)[j] = fl[j]
           /\ \A j \in Items : \A m \in STRING : Count(fl[j], m) <= Count(Grown(fl, i, f)[j], m)
           /\ \A m \in STRING : Count(f, m) <= Count(Grown(fl, i, f)[i], m)
<1> DEFINE g == Grown(fl, i, f)
<1>1. g \in [Items -> Seq(STRING)] /\ g[i] = fl[i] \o f /\ \A j \in Items \ {i} : g[j] = fl[j]
  <2>1. fl[i] \o f \in Seq(STRING)
    OBVIOUS
  <2> QED
    BY <2>1 DEF Grown
<1> HIDE DEF g
<1>2. ASSUME NEW j \in Items, NEW m \in STRING
      PROVE  Count(fl[j], m) <= Count(g[j], m)
  <2>1. CASE j = i
    BY <1>1, <2>1, CountOrder
  <2>2. CASE j # i
    <3>1. g[j] = fl[j] /\ fl[j] \in Seq(STRING)
      BY <1>1, <2>2
    <3> QED
      BY <3>1, CountOrder
  <2> QED
    BY <2>1, <2>2
<1>3. ASSUME NEW m \in STRING
      PROVE  Count(f, m) <= Count(g[i], m)
  BY <1>1, CountOrder
<1> QED
  BY <1>1, <1>2, <1>3 DEF g

(* An attempt without messages adds nothing.                               *)
LEMMA GrownByNone ==
    ASSUME NEW fl \in [Items -> Seq(STRING)], NEW i \in Items
    PROVE  Grown(fl, i, <<>>) = fl
<1>1. fl[i] \o <<>> = fl[i]
  <2>1. \A s \in Seq(STRING) : s \o <<>> = s
    OBVIOUS
  <2> QED
    BY <2>1
<1> QED
  BY <1>1 DEF Grown

(* An activity goes on: its failure stays or is the one that is added.     *)
ActivityGoesOn(s, s2, f) ==
    /\ s2 \in ActivityStates /\ f \in Seq(STRING)
    /\ s.state # "closed" /\ s2.state # "none"
    /\ s.failure # <<>> => s2.failure # <<>>
    /\ s2.failure = s.failure \/ s2.failure = f

ActivityMoves(act, chl, fl, act2, fl2, a) ==
    /\ ItemsOK(act2, chl, fl2) /\ Later(act, chl, fl, act2, chl, fl2)
    /\ OnlyActivity(a, act, fl, act2, fl2)

(* A step of an activity moves that activity on and no other.              *)
LEMMA ActivityMove ==
    ASSUME NEW act, NEW chl, NEW fl, NEW a \in Activities, NEW s, NEW f,
           ItemsOK(act, chl, fl), ActivityGoesOn(act[a], s, f)
    PROVE  ActivityMoves(act, chl, fl, Moved(act, a, s), Grown(fl, a, f), a)
<1> DEFINE act2 == Moved(act, a, s)
           fl2 == Grown(fl, a, f)
<1>1. /\ act \in [Activities -> ActivityStates] /\ s \in ActivityStates
      /\ fl \in [Items -> Seq(STRING)] /\ f \in Seq(STRING) /\ a \in Items
  BY DEF ItemsOK, ActivityGoesOn, Items
<1>2. /\ act2 \in [Activities -> ActivityStates] /\ act2[a] = s
      /\ \A x \in Activities \ {a} : act2[x] = act[x]
  BY <1>1 DEF Moved
<1>3. /\ fl2 \in [Items -> Seq(STRING)]
      /\ \A j \in Items \ {a} : fl2[j] = fl[j]
      /\ \A j \in Items : \A m \in STRING : Count(fl[j], m) <= Count(fl2[j], m)
      /\ \A m \in STRING : Count(f, m) <= Count(fl2[a], m)
  BY <1>1, GrownFacts
<1> HIDE DEF act2, fl2
<1>4. ASSUME NEW x \in Activities, NEW m \in STRING
      PROVE  Count(act2[x].failure, m) <= Count(fl2[x], m)
  <2>0. Count(act[x].failure, m) <= Count(fl[x], m)
    BY DEF ItemsOK
  <2>1. Count(act[x].failure, m) <= Count(fl2[x], m)
    <3>1. /\ act[x].failure \in Seq(STRING) /\ fl[x] \in Seq(STRING) /\ fl2[x] \in Seq(STRING)
          /\ x \in Items
      BY <1>1, <1>3 DEF ActivityStates, Items
    <3>2. /\ Count(act[x].failure, m) \in Nat /\ Count(fl[x], m) \in Nat
          /\ Count(fl2[x], m) \in Nat
      BY <3>1, CountFacts
    <3>3. \A i, j, k \in Nat : i <= j /\ j <= k => i <= k
      OBVIOUS
    <3>4. Count(fl[x], m) <= Count(fl2[x], m)
      BY <1>3, <3>1
    <3> QED
      BY <2>0, <3>2, <3>3, <3>4, Zenon
  <2>2. CASE x = a
    BY <1>2, <1>3, <2>1, <2>2 DEF ActivityGoesOn
  <2>3. CASE x # a
    BY <1>2, <2>1, <2>3
  <2> QED
    BY <2>2, <2>3
<1>5. \A c \in Children : chl[c] # "closed" => fl2[c] = <<>>
  <2>1. \A c \in Children : c \in Items \ {a}
    BY ItemAssumption DEF Items
  <2> QED
    BY <1>3, <2>1 DEF ItemsOK
<1>6. ItemsOK(act2, chl, fl2)
  BY <1>2, <1>3, <1>4, <1>5 DEF ItemsOK
<1>7. ASSUME NEW x \in Activities
      PROVE  /\ act[x].state # "none" => act2[x].state # "none"
             /\ act[x].state = "closed" => act2[x].state = "closed"
             /\ act[x].failure # <<>> => act2[x].failure # <<>>
  <2>1. CASE x = a
    BY <1>2, <2>1 DEF ActivityGoesOn
  <2>2. CASE x # a
    BY <1>2, <2>2
  <2> QED
    BY <2>1, <2>2
<1>8. Later(act, chl, fl, act2, chl, fl2)
  BY <1>3, <1>7 DEF Later
<1>9. OnlyActivity(a, act, fl, act2, fl2)
  BY <1>2, <1>3 DEF OnlyActivity
<1>10. ActivityMoves(act, chl, fl, act2, fl2, a)
  BY <1>6, <1>8, <1>9 DEF ActivityMoves
<1> QED
  BY <1>2, <1>10 DEF act2, fl2

ChildMoves(act, chl, fl, chl2, fl2, d) ==
    /\ ItemsOK(act, chl2, fl2) /\ Later(act, chl, fl, act, chl2, fl2)
    /\ OnlyChild(d, chl, fl, chl2, fl2)

(* The same for a child.                                                   *)
LEMMA ChildMove ==
    ASSUME NEW act, NEW chl, NEW fl, NEW d \in Children, NEW s \in ChildStates,
           NEW f \in Seq(STRING), ItemsOK(act, chl, fl),
           chl[d] # "closed", s # "none", s = "closed" \/ f = <<>>
    PROVE  ChildMoves(act, chl, fl, Moved(chl, d, s), Grown(fl, d, f), d)
<1> DEFINE chl2 == Moved(chl, d, s)
           fl2 == Grown(fl, d, f)
<1>1. chl \in [Children -> ChildStates] /\ fl \in [Items -> Seq(STRING)] /\ d \in Items
  BY DEF ItemsOK, Items
<1>2. /\ chl2 \in [Children -> ChildStates] /\ chl2[d] = s
      /\ \A x \in Children \ {d} : chl2[x] = chl[x]
  BY <1>1 DEF Moved
<1>3. /\ fl2 \in [Items -> Seq(STRING)] /\ fl2[d] = fl[d] \o f
      /\ \A j \in Items \ {d} : fl2[j] = fl[j]
      /\ \A j \in Items : \A m \in STRING : Count(fl[j], m) <= Count(fl2[j], m)
  BY <1>1, GrownFacts
<1>4. s # "closed" => fl2[d] = <<>>
  <2>1. ASSUME f = <<>>
        PROVE  fl2 = fl
    BY <1>1, <2>1, GrownByNone
  <2> QED
    BY <2>1 DEF ItemsOK
<1> HIDE DEF chl2, fl2
<1>5. ASSUME NEW x \in Activities, NEW m \in STRING
      PROVE  Count(act[x].failure, m) <= Count(fl2[x], m)
  <2>1. x \in Items \ {d}
    BY ItemAssumption DEF Items
  <2> QED
    BY <1>3, <2>1 DEF ItemsOK
<1>6. ASSUME NEW c \in Children, chl2[c] # "closed"
      PROVE  fl2[c] = <<>>
  <2>1. CASE c = d
    BY <1>2, <1>4, <1>6, <2>1
  <2>2. CASE c # d
    BY <1>2, <1>3, <1>6, <2>2 DEF ItemsOK, Items
  <2> QED
    BY <2>1, <2>2
<1>7. ItemsOK(act, chl2, fl2)
  BY <1>2, <1>3, <1>5, <1>6 DEF ItemsOK
<1>8. ASSUME NEW x \in Children
      PROVE  /\ chl[x] # "none" => chl2[x] # "none"
             /\ chl[x] = "closed" => chl2[x] = "closed"
  <2>1. CASE x = d
    BY <1>2, <2>1
  <2>2. CASE x # d
    BY <1>2, <2>2
  <2> QED
    BY <2>1, <2>2
<1>9. Later(act, chl, fl, act, chl2, fl2)
  BY <1>3, <1>8 DEF Later
<1>10. OnlyChild(d, chl, fl, chl2, fl2)
  BY <1>2, <1>3 DEF OnlyChild
<1>11. ChildMoves(act, chl, fl, chl2, fl2, d)
  BY <1>7, <1>9, <1>10 DEF ChildMoves
<1> QED
  BY <1>2, <1>11 DEF chl2, fl2

(* Every scheduled activity and initiated child has its first event.       *)
LEMMA FirstFacts ==
    ASSUME HistoryOK(history, activity, child), NEW i,
           \/ i \in Activities /\ activity[i].state # "none"
           \/ i \in Children /\ child[i] # "none"
    PROVE  First(i) \in DOMAIN history /\ First(i) \in Nat /\ Starts(history, First(i), i)
<1>1. \E k \in DOMAIN history : Starts(history, k, i)
  BY DEF HistoryOK
<1>2. First(i) \in DOMAIN history /\ Starts(history, First(i), i)
  BY <1>1 DEF First, Starts
<1>3. history \in Seq(Events)
  BY DEF HistoryOK
<1> QED
  BY <1>2, <1>3

World == open \in BOOLEAN /\ Consistent(open, activity, child, history, failed)

(* The types of the execution.                                             *)
LEMMA WorldTypes ==
    ASSUME World
    PROVE  /\ ItemsOK(activity, child, failed) /\ HistoryOK(history, activity, child)
           /\ history \in Seq(Events)
           /\ activity \in [Activities -> ActivityStates] /\ child \in [Children -> ChildStates]
           /\ failed \in [Items -> Seq(STRING)]
           /\ \A a \in Activities : a \in Items /\ activity[a] \in ActivityStates
           /\ \A c \in Children : c \in Items
           /\ open => Consistent(TRUE, activity, child, history, failed)
BY DEF World, Consistent, ItemsOK, HistoryOK, Items

(* A step of the execution that is one of an activity,                     *)
LEMMA ActivityStep ==
    ASSUME World, NEW a \in Activities, NEW s, NEW f, ActivityGoesOn(activity[a], s, f),
           activity' = Moved(activity, a, s), failed' = Grown(failed, a, f)
    PROVE  ActivityMoves(activity, child, failed, activity', failed', a) /\ activity'[a] = s
<1>1. ItemsOK(activity, child, failed)
  BY WorldTypes
<1>2. ActivityMoves(activity, child, failed, Moved(activity, a, s), Grown(failed, a, f), a)
  BY <1>1, ActivityMove
<1>3. Moved(activity, a, s)[a] = s
  BY WorldTypes DEF Moved
<1> QED
  BY <1>2, <1>3

(* and one that is of a child.                                             *)
LEMMA ChildStep ==
    ASSUME World, NEW d \in Children, NEW s \in ChildStates, NEW f \in Seq(STRING),
           child[d] # "closed", s # "none", s = "closed" \/ f = <<>>,
           child' = Moved(child, d, s), failed' = Grown(failed, d, f)
    PROVE  ChildMoves(activity, child, failed, child', failed', d) /\ child'[d] = s
<1>1. ItemsOK(activity, child, failed)
  BY WorldTypes
<1>2. ChildMoves(activity, child, failed, Moved(child, d, s), Grown(failed, d, f), d)
  BY <1>1, ChildMove
<1>3. Moved(child, d, s)[d] = s
  BY WorldTypes DEF Moved
<1> QED
  BY <1>2, <1>3

(* The actions of Temporal preserve World, one by one.                     *)
LEMMA ScheduleActivityStep ==
    ASSUME World, NEW a \in Activities, ScheduleActivity(a)
    PROVE  World'
<1> DEFINE s == [activity[a] EXCEPT !.state = "scheduled", !.attempt = 1]
           e == Event("ActivityScheduled", a, 0, 0, <<>>)
<1>1. /\ open /\ activity[a].state = "none" /\ history' = Append(history, e)
      /\ open' = open /\ child' = child /\ failed' = failed
  BY DEF ScheduleActivity
<1>2. activity[a] \in ActivityStates /\ s.state = "scheduled" /\ s.failure = activity[a].failure
  BY WorldTypes DEF ActivityStates
<1>3. activity' = Moved(activity, a, s)
  BY WorldTypes DEF ScheduleActivity, Moved
<1>4. ActivityGoesOn(activity[a], s, <<>>)
  <2>0. s \in ActivityStates
    BY <1>2 DEF ActivityStates
  <2>1. s \in ActivityStates /\ <<>> \in Seq(STRING)
    BY <2>0
  <2> HIDE DEF s
  <2> QED
    BY <1>1, <1>2, <2>1 DEF ActivityGoesOn
<1>5. failed' = Grown(failed, a, <<>>)
  BY <1>1, WorldTypes, GrownByNone
<1> HIDE DEF s
<1>6. ActivityMoves(activity, child, failed, activity', failed', a) /\ activity'[a] = s
  BY <1>3, <1>4, <1>5, ActivityStep
<1>7. /\ ItemsOK(activity', child, failed) /\ Later(activity, child, failed, activity', child, failed)
      /\ OnlyActivity(a, activity, failed, activity', failed)
  BY <1>1, <1>6 DEF ActivityMoves
<1>8. Consistent(TRUE, activity', child, Append(history, e), failed)
  BY <1>1, <1>2, <1>6, <1>7, WorldTypes, ScheduledEvent
<1> QED
  BY <1>1, <1>8, WorldTypes DEF World

(* A started event refers to the scheduled one,                            *)
LEMMA StartedEvent ==
    ASSUME World, NEW a \in Activities, activity[a].state # "none"
    PROVE  /\ ActivityFollows(a, Started(a), history)
           /\ Started(a) \in Events /\ Started(a).type = "ActivityStarted"
           /\ Started(a).attempt = activity[a].attempt
           /\ Started(a).messages = activity[a].failure
<1> DEFINE e == Started(a)
<1>1. First(a) \in DOMAIN history /\ First(a) \in Nat /\ Starts(history, First(a), a)
  BY WorldTypes, FirstFacts
<1>2. /\ "ActivityStarted" \in EventTypes /\ "ActivityStarted" \in ActivityTypes
      /\ a \in Activities \cup Children \cup {"workflow"}
      /\ activity[a].attempt \in Nat /\ activity[a].failure \in Seq(STRING)
  BY WorldTypes DEF EventTypes, ActivityTypes, ActivityStates
<1>3. e = Event("ActivityStarted", a, First(a), activity[a].attempt, activity[a].failure)
  BY DEF Started
<1>4. /\ e \in Events /\ e.type = "ActivityStarted" /\ e.of = a /\ e.ref = First(a)
      /\ e.attempt = activity[a].attempt /\ e.messages = activity[a].failure
  BY <1>1, <1>2, <1>3, EventFacts
<1> QED
  BY <1>1, <1>2, <1>4 DEF ActivityFollows

(* and so does the event that ends an attempt.                             *)
LEMMA EndedEvent ==
    ASSUME World, NEW a \in Activities, activity[a].state # "none",
           NEW type \in {"ActivityCompleted", "ActivityFailed"}, NEW f \in Seq(STRING),
           NEW e, e = Event(type, a, First(a), 0, f)
    PROVE  /\ ActivityFollows(a, e, history)
           /\ e \in Events /\ e.type = type /\ e.messages = f
<1>1. First(a) \in DOMAIN history /\ First(a) \in Nat /\ Starts(history, First(a), a)
  BY WorldTypes, FirstFacts
<1>2. /\ type \in EventTypes /\ type \in ActivityTypes
      /\ a \in Activities \cup Children \cup {"workflow"} /\ 0 \in Nat
  BY DEF EventTypes, ActivityTypes
<1>3. /\ e \in Events /\ e.type = type /\ e.of = a /\ e.ref = First(a) /\ e.messages = f
  BY <1>1, <1>2 DEF Event, Events
<1> QED
  BY <1>1, <1>2, <1>3 DEF ActivityFollows

(* An attempt starts, written or not.                                      *)
LEMMA StartActivityStep ==
    ASSUME World, NEW a \in Activities, StartActivity(a)
    PROVE  World'
<1>1. PICK now \in BOOLEAN :
        /\ activity' = [activity EXCEPT ![a].state = "running", ![a].recorded = now]
        /\ history' = IF now THEN Append(history, Started(a)) ELSE history
  BY DEF StartActivity
<1>2. /\ open /\ activity[a].state = "scheduled"
      /\ open' = open /\ child' = child /\ failed' = failed
  BY DEF StartActivity
<1> DEFINE s == [activity[a] EXCEPT !.state = "running", !.recorded = now]
<1>3. /\ activity[a] \in ActivityStates /\ s.state = "running" /\ s.failure = activity[a].failure
      /\ s.attempt = activity[a].attempt /\ s.recorded = now
  BY WorldTypes DEF ActivityStates
<1>4. activity' = Moved(activity, a, s)
  BY <1>1, WorldTypes DEF Moved
<1>5. ActivityGoesOn(activity[a], s, <<>>)
  <2>0. s \in ActivityStates
    BY <1>3 DEF ActivityStates
  <2>1. s \in ActivityStates /\ <<>> \in Seq(STRING)
    BY <2>0
  <2> HIDE DEF s
  <2> QED
    BY <1>2, <1>3, <2>1 DEF ActivityGoesOn
<1>6. failed' = Grown(failed, a, <<>>)
  BY <1>2, WorldTypes, GrownByNone
<1> HIDE DEF s
<1>7. ActivityMoves(activity, child, failed, activity', failed', a) /\ activity'[a] = s
  BY <1>4, <1>5, <1>6, ActivityStep
<1>8. CASE now
  <2> DEFINE e == Started(a)
  <2>1. /\ ActivityFollows(a, e, history) /\ e \in Events /\ e.type = "ActivityStarted"
        /\ e.attempt = activity[a].attempt /\ e.messages = activity[a].failure
    BY <1>2, StartedEvent
  <2>2. history' = Append(history, e)
    BY <1>1, <1>8
  <2> HIDE DEF e
  <2>3. KeepsActivity(a, e, activity, failed, activity', failed)
    <3>1. ItemsOK(activity, child, failed)
      BY WorldTypes
    <3>2. /\ activity[a].state # "closed" /\ activity'[a].state \notin {"none", "closed"}
          /\ activity'[a].attempt = activity[a].attempt
          /\ activity'[a].failure = activity[a].failure
      BY <1>2, <1>3, <1>7
    <3> QED
      BY <2>1, <3>1, <3>2, KeepsStarted
  <2>4. Consistent(TRUE, activity', child, Append(history, e), failed')
    BY <1>2, <1>7, <2>1, <2>3, WorldTypes, ActivityEvent DEF ActivityMoves
  <2> QED
    BY <1>2, <2>2, <2>4, WorldTypes DEF World
<1>9. CASE ~now
  <2>1. history' = history
    BY <1>1, <1>9
  <2>2. ASSUME NEW r \in ActivityRecords, ActivityFull(r, activity[a])
        PROVE  ActivityFull(r, activity'[a])
    <3>1. r.outputs = FALSE
      BY <1>2, <2>2 DEF ActivityFull, ActivityRecords
    <3>2. s.recorded = FALSE
      BY <1>3, <1>9
    <3> QED
      BY <1>3, <1>7, <3>1, <3>2 DEF ActivityFull
  <2>3. QuietActivity(a, activity, failed, activity', failed')
    BY <1>2, <1>7, <2>2 DEF QuietActivity, ActivityMoves
  <2>4. Consistent(TRUE, activity', child, history, failed')
    BY <1>2, <1>7, <2>3, WorldTypes, ActivityQuiet DEF ActivityMoves
  <2> QED
    BY <1>2, <2>1, <2>4, WorldTypes DEF World
<1> QED
  BY <1>8, <1>9

(* Failures have messages.                                                 *)
LEMMA FailureTypes ==
    /\ \A f \in Failures : f \in Seq(STRING) /\ f # <<>>
    /\ \A f \in Failures \cup {<<>>} : f \in Seq(STRING)
<1>1. <<>> \in Seq(STRING)
  OBVIOUS
<1>2. \A f \in Failures : f \in Seq(STRING) /\ f # <<>>
  BY BuilderAssumption
<1> QED
  BY <1>1, <1>2

(* An attempt fails and is retried.                                        *)
LEMMA RetryActivityStep ==
    ASSUME World, NEW a \in Activities, NEW f \in Failures, RetryActivity(a, f)
    PROVE  World'
<1>1. /\ open /\ activity[a].state = "running"
      /\ open' = open /\ child' = child /\ failed' = Grown(failed, a, f)
      /\ history' = IF activity[a].recorded
                      THEN Append(history, Event("ActivityFailed", a, First(a), 0, f))
                      ELSE history
  BY DEF RetryActivity, Grown
<1>2. f \in Seq(STRING) /\ f # <<>>
  BY FailureTypes
<1> DEFINE s == [activity[a] EXCEPT !.state = "scheduled", !.failure = f, !.attempt = @ + 1]
<1>3. /\ activity[a] \in ActivityStates /\ s.state = "scheduled" /\ s.failure = f
      /\ s \in ActivityStates
  <2>1. activity[a] \in ActivityStates
    BY WorldTypes
  <2>2. activity[a].attempt + 1 \in Nat
    BY <2>1 DEF ActivityStates
  <2> QED
    BY <1>2, <2>1, <2>2 DEF ActivityStates
<1>4. activity' = Moved(activity, a, s)
  BY WorldTypes DEF RetryActivity, Moved
<1> HIDE DEF s
<1>5. ActivityGoesOn(activity[a], s, f)
  BY <1>1, <1>2, <1>3 DEF ActivityGoesOn
<1>6. ActivityMoves(activity, child, failed, activity', failed', a) /\ activity'[a] = s
  BY <1>1, <1>4, <1>5, ActivityStep
<1>7. CASE activity[a].recorded
  <2> DEFINE e == Event("ActivityFailed", a, First(a), 0, f)
  <2>1. /\ ActivityFollows(a, e, history) /\ e \in Events /\ e.type = "ActivityFailed"
        /\ e.messages = f
    BY <1>1, <1>2, EndedEvent
  <2>2. history' = Append(history, e)
    BY <1>1, <1>7
  <2> HIDE DEF e
  <2>3. KeepsActivity(a, e, activity, failed, activity', failed')
    <3>1. ItemsOK(activity, child, failed) /\ failed \in [Items -> Seq(STRING)] /\ a \in Items
      BY WorldTypes
    <3>2. failed'[a] = failed[a] \o e.messages
      BY <1>1, <1>2, <2>1, <3>1, GrownFacts
    <3>3. /\ activity[a].state # "closed"
          /\ activity'[a].state = "scheduled" /\ activity'[a].failure # <<>>
      BY <1>1, <1>2, <1>3, <1>6
    <3> QED
      BY <2>1, <3>1, <3>2, <3>3, KeepsFailed
  <2>4. Consistent(TRUE, activity', child, Append(history, e), failed')
    BY <1>1, <1>6, <2>1, <2>3, WorldTypes, ActivityEvent DEF ActivityMoves
  <2> QED
    BY <1>1, <2>2, <2>4, WorldTypes DEF World
<1>8. CASE ~activity[a].recorded
  <2>1. history' = history
    BY <1>1, <1>8
  <2>2. ASSUME NEW r \in ActivityRecords, ActivityFull(r, activity[a])
        PROVE  ActivityFull(r, activity'[a])
    <3>1. r.outputs = FALSE
      BY <1>1, <2>2 DEF ActivityFull, ActivityRecords
    <3> QED
      BY <1>3, <1>6, <3>1 DEF ActivityFull
  <2>3. QuietActivity(a, activity, failed, activity', failed')
    BY <1>1, <1>6, <2>2 DEF QuietActivity, ActivityMoves
  <2>4. Consistent(TRUE, activity', child, history, failed')
    BY <1>1, <1>6, <2>3, WorldTypes, ActivityQuiet DEF ActivityMoves
  <2> QED
    BY <1>1, <2>1, <2>4, WorldTypes DEF World
<1> QED
  BY <1>7, <1>8

(* An activity is paused or resumed.                                       *)
LEMMA PauseActivityStep ==
    ASSUME World, NEW a \in Activities, PauseActivity(a)
    PROVE  World'
<1>1. /\ open /\ activity[a].state \in {"scheduled", "running"}
      /\ open' = open /\ child' = child /\ failed' = failed /\ history' = history
  BY DEF PauseActivity, Pending
<1> DEFINE s == [activity[a] EXCEPT !.paused = ~@]
<1>2. /\ activity[a] \in ActivityStates /\ s \in ActivityStates
      /\ s.state = activity[a].state /\ s.failure = activity[a].failure
      /\ s.attempt = activity[a].attempt /\ s.recorded = activity[a].recorded
  BY WorldTypes DEF ActivityStates
<1>3. activity' = Moved(activity, a, s)
  BY WorldTypes DEF PauseActivity, Moved
<1> HIDE DEF s
<1>4. ActivityGoesOn(activity[a], s, <<>>)
  <2>1. <<>> \in Seq(STRING)
    OBVIOUS
  <2> QED
    BY <1>1, <1>2, <2>1 DEF ActivityGoesOn
<1>5. failed' = Grown(failed, a, <<>>)
  BY <1>1, WorldTypes, GrownByNone
<1>6. ActivityMoves(activity, child, failed, activity', failed', a) /\ activity'[a] = s
  BY <1>3, <1>4, <1>5, ActivityStep
<1>7. ASSUME NEW r \in ActivityRecords, ActivityFull(r, activity[a])
      PROVE  ActivityFull(r, activity'[a])
  BY <1>2, <1>6, <1>7 DEF ActivityFull
<1>8. QuietActivity(a, activity, failed, activity', failed')
  BY <1>1, <1>6, <1>7 DEF QuietActivity, ActivityMoves
<1>9. Consistent(TRUE, activity', child, history, failed')
  BY <1>1, <1>6, <1>8, WorldTypes, ActivityQuiet DEF ActivityMoves
<1> QED
  BY <1>1, <1>9, WorldTypes DEF World

(* A child is initiated.                                                   *)
LEMMA InitiateChildStep ==
    ASSUME World, NEW d \in Children, InitiateChild(d)
    PROVE  World'
<1> DEFINE e == Event("ChildInitiated", d, 0, 0, <<>>)
<1>1. /\ open /\ child[d] = "none" /\ history' = Append(history, e)
      /\ open' = open /\ activity' = activity /\ failed' = failed
  BY DEF InitiateChild
<1>2. child' = Moved(child, d, "initiated")
  BY WorldTypes DEF InitiateChild, Moved
<1>3. failed' = Grown(failed, d, <<>>)
  BY <1>1, WorldTypes, GrownByNone
<1>4. "initiated" \in ChildStates /\ <<>> \in Seq(STRING)
  BY DEF ChildStates
<1>5. ChildMoves(activity, child, failed, child', failed', d) /\ child'[d] = "initiated"
  BY <1>1, <1>2, <1>3, <1>4, ChildStep
<1>6. /\ ItemsOK(activity, child', failed) /\ Later(activity, child, failed, activity, child', failed)
      /\ OnlyChild(d, child, failed, child', failed)
  BY <1>1, <1>5 DEF ChildMoves
<1>7. Consistent(TRUE, activity, child', Append(history, e), failed)
  BY <1>1, <1>5, <1>6, WorldTypes, InitiatedEvent
<1> QED
  BY <1>1, <1>7, WorldTypes DEF World

(* The later events of a child refer to the initiated one.                 *)
LEMMA ChildFollowing ==
    ASSUME World, NEW d \in Children, child[d] # "none", NEW type \in ChildTypes,
           NEW f \in Seq(STRING), NEW e, e = Event(type, d, First(d), 0, f)
    PROVE  /\ ChildFollows(d, e, history)
           /\ e \in Events /\ e.type = type /\ e.messages = f
<1>1. First(d) \in DOMAIN history /\ First(d) \in Nat /\ Starts(history, First(d), d)
  BY WorldTypes, FirstFacts
<1>2. type \in EventTypes /\ d \in Activities \cup Children \cup {"workflow"} /\ 0 \in Nat
  BY DEF EventTypes
<1>3. /\ e \in Events /\ e.type = type /\ e.of = d /\ e.ref = First(d) /\ e.messages = f
  BY <1>1, <1>2 DEF Event, Events
<1> QED
  BY <1>1, <1>2, <1>3 DEF ChildFollows

(* A child starts.                                                         *)
LEMMA StartChildStep ==
    ASSUME World, NEW d \in Children, StartChild(d)
    PROVE  World'
<1> DEFINE e == Event("ChildStarted", d, First(d), 0, <<>>)
<1>1. /\ open /\ child[d] = "initiated" /\ history' = Append(history, e)
      /\ open' = open /\ activity' = activity /\ failed' = failed
  BY DEF StartChild
<1>2. child' = Moved(child, d, "started")
  BY WorldTypes DEF StartChild, Moved
<1>3. failed' = Grown(failed, d, <<>>)
  BY <1>1, WorldTypes, GrownByNone
<1>4. "started" \in ChildStates /\ <<>> \in Seq(STRING) /\ "ChildStarted" \in ChildTypes
  BY DEF ChildStates, ChildTypes
<1>5. ChildMoves(activity, child, failed, child', failed', d) /\ child'[d] = "started"
  BY <1>1, <1>2, <1>3, <1>4, ChildStep
<1>6. ChildFollows(d, e, history) /\ e \in Events /\ e.type = "ChildStarted"
  <2>1. child[d] # "none" /\ e = Event("ChildStarted", d, First(d), 0, <<>>)
    BY <1>1
  <2>2. ASSUME NEW f \in Seq(STRING), NEW x, x = Event("ChildStarted", d, First(d), 0, f)
        PROVE  ChildFollows(d, x, history) /\ x \in Events /\ x.type = "ChildStarted"
    BY <1>4, <2>1, <2>2, ChildFollowing
  <2> HIDE DEF e
  <2> QED
    BY <1>4, <2>1, <2>2, Zenon
<1> HIDE DEF e
<1>7. KeepsChild(d, e, child, failed, child', failed)
  BY <1>1, <1>5, <1>6, KeepsChildStarted
<1>8. KeepsChild(d, e, child, failed, child', failed')
  BY <1>1, <1>7
<1>9. Consistent(TRUE, activity, child', Append(history, e), failed')
  BY <1>1, <1>5, <1>6, <1>8, WorldTypes, ChildEvent DEF ChildMoves
<1> QED
  BY <1>1, <1>9, WorldTypes DEF World

(* A child closes.                                                         *)
LEMMA CloseChildStep ==
    ASSUME World, NEW d \in Children, NEW f \in Failures \cup {<<>>}, CloseChild(d, f)
    PROVE  World'
<1> DEFINE type == IF f = <<>> THEN "ChildCompleted" ELSE "ChildFailed"
           e == Event(type, d, First(d), 0, f)
<1>1. /\ open /\ child[d] \in {"initiated", "started"} /\ history' = Append(history, e)
      /\ open' = open /\ activity' = activity /\ failed' = Grown(failed, d, f)
  BY DEF CloseChild, PendingChild, Grown
<1>2. child' = Moved(child, d, "closed")
  BY WorldTypes DEF CloseChild, Moved
<1>3. "closed" \in ChildStates /\ f \in Seq(STRING) /\ type \in ChildTypes
  BY FailureTypes DEF ChildStates, ChildTypes
<1>4. ChildMoves(activity, child, failed, child', failed', d) /\ child'[d] = "closed"
  BY <1>1, <1>2, <1>3, ChildStep
<1>5. ChildFollows(d, e, history) /\ e \in Events /\ e.type = type /\ e.messages = f
  BY <1>1, <1>3, ChildFollowing
<1> HIDE DEF e
<1>6. KeepsChild(d, e, child, failed, child', failed')
  <2>1. ItemsOK(activity, child, failed) /\ failed \in [Items -> Seq(STRING)] /\ d \in Items
    BY WorldTypes
  <2>2. failed'[d] = failed[d] \o e.messages
    BY <1>1, <1>3, <1>5, <2>1, GrownFacts
  <2>3. \/ e.type = "ChildCompleted" /\ e.messages = <<>>
        \/ e.type = "ChildFailed"
    BY <1>5
  <2>4. child[d] # "closed" /\ child'[d] = "closed"
    BY <1>1, <1>4
  <2> HIDE DEF type
  <2> QED
    BY <1>5, <2>1, <2>2, <2>3, <2>4, KeepsChildClosed
<1>7. Consistent(TRUE, activity, child', Append(history, e), failed')
  BY <1>1, <1>4, <1>5, <1>6, WorldTypes, ChildEvent DEF ChildMoves
<1> QED
  BY <1>1, <1>7, WorldTypes DEF World

(* The workflow closes.                                                    *)
LEMMA CloseWorkflowStep ==
    ASSUME World, NEW f \in Failures \cup {<<>>}, CloseWorkflow(f)
    PROVE  World'
<1> DEFINE e == Event("WorkflowClosed", "workflow", 1, 0, f)
<1>1. /\ open /\ open' = FALSE /\ history' = Append(history, e)
      /\ activity' = activity /\ child' = child /\ failed' = failed
  BY DEF CloseWorkflow
<1>2. f \in Seq(STRING)
  BY FailureTypes
<1>3. Consistent(FALSE, activity, child, Append(history, e), failed)
  BY <1>1, <1>2, WorldTypes, ClosedEvent
<1> QED
  BY <1>1, <1>3 DEF World

(* An activity closes with an event of its own.                            *)
ActivityCloses(s, s2, f) ==
    /\ s2 \in ActivityStates /\ s2.state = "closed"
    /\ s2.failure = s.failure /\ s2.attempt = s.attempt
    /\ \/ s.state = "running" /\ s.recorded
       \/ s.state \in {"running", "scheduled"} /\ f # <<>>

(* The last event of an activity, when the start of its last attempt is    *)
(* written.                                                                *)
LEMMA ActivityClosed ==
    ASSUME NEW act, NEW chl, NEW h, NEW fl, NEW a \in Activities, NEW s, NEW f \in Seq(STRING),
           NEW e \in Events,
           Consistent(TRUE, act, chl, h, fl), ActivityFollows(a, e, h),
           e.type = IF f = <<>> THEN "ActivityCompleted" ELSE "ActivityFailed", e.messages = f,
           ActivityCloses(act[a], s, f)
    PROVE  Consistent(TRUE, Moved(act, a, s), chl, Append(h, e), Grown(fl, a, f))
<1> DEFINE act2 == Moved(act, a, s)
           fl2 == Grown(fl, a, f)
<1>1. /\ ItemsOK(act, chl, fl) /\ fl \in [Items -> Seq(STRING)] /\ a \in Items
      /\ act \in [Activities -> ActivityStates]
  BY DEF Consistent, ItemsOK, Items
<1>2. ActivityGoesOn(act[a], s, f)
  BY DEF ActivityCloses, ActivityGoesOn
<1>3. ActivityMoves(act, chl, fl, act2, fl2, a)
  BY <1>1, <1>2, ActivityMove
<1>4. act2[a] = s
  BY <1>1 DEF Moved
<1>5. fl2[a] = fl[a] \o f
  BY <1>1, GrownFacts
<1>6. f = <<>> => fl2 = fl
  BY <1>1, GrownByNone
<1> HIDE DEF act2, fl2
<1>7. KeepsActivity(a, e, act, fl, act2, fl2)
  <2>1. CASE f = <<>>
    <3>1. /\ e.type = "ActivityCompleted" /\ act[a].state = "running" /\ act[a].recorded
          /\ act2[a].state = "closed" /\ act2[a].attempt = act[a].attempt
          /\ act2[a].failure = act[a].failure
      BY <1>4, <2>1 DEF ActivityCloses
    <3>2. KeepsActivity(a, e, act, fl, act2, fl)
      BY <3>1, KeepsCompleted
    <3> QED
      BY <1>6, <2>1, <3>2
  <2>2. CASE f # <<>>
    <3>1. /\ e.type = "ActivityFailed" /\ act[a].state # "closed" /\ act2[a].state = "closed"
          /\ fl2[a] = fl[a] \o e.messages
      BY <1>4, <1>5, <2>2 DEF ActivityCloses
    <3> QED
      BY <1>1, <3>1, KeepsFailed
  <2> QED
    BY <2>1, <2>2
<1>8. Consistent(TRUE, act2, chl, Append(h, e), fl2)
  BY <1>3, <1>7, ActivityEvent DEF ActivityMoves
<1> QED
  BY <1>8 DEF act2, fl2

(* The start that is written with the end is a step of its own first.      *)
LEMMA CloseActivityStep ==
    ASSUME World, NEW a \in Activities, NEW f \in Failures \cup {<<>>}, CloseActivity(a, f)
    PROVE  World'
<1> DEFINE type == IF f = <<>> THEN "ActivityCompleted" ELSE "ActivityFailed"
           e == Event(type, a, First(a), 0, f)
           s == [activity[a] EXCEPT !.state = "closed"]
           running == activity[a].state = "running"
           events == IF running /\ ~activity[a].recorded THEN <<Started(a)>> ELSE <<>>
<1>1. /\ open /\ open' = open /\ child' = child /\ failed' = Grown(failed, a, f)
      /\ running \/ (activity[a].state = "scheduled" /\ f # <<>>)
      /\ history' = history \o Append(events, e)
  BY DEF CloseActivity, Grown
<1>2. /\ activity[a] \in ActivityStates /\ s \in ActivityStates /\ s.state = "closed"
      /\ s.failure = activity[a].failure /\ s.attempt = activity[a].attempt
  BY WorldTypes DEF ActivityStates
<1>3. activity' = Moved(activity, a, s)
  BY WorldTypes DEF CloseActivity, Moved
<1> HIDE DEF s
<1>4. f \in Seq(STRING) /\ type \in {"ActivityCompleted", "ActivityFailed"}
  BY FailureTypes
<1>5. ActivityFollows(a, e, history) /\ e \in Events /\ e.type = type /\ e.messages = f
  BY <1>1, <1>4, EndedEvent
<1>6. Consistent(TRUE, activity, child, history, failed) /\ history \in Seq(Events)
  BY <1>1, WorldTypes
<1>7. CASE running /\ ~activity[a].recorded
  <2> DEFINE start == Started(a)
             s1 == [activity[a] EXCEPT !.recorded = TRUE]
             act1 == Moved(activity, a, s1)
             h1 == Append(history, start)
  <2>1. /\ ActivityFollows(a, start, history) /\ start \in Events
        /\ start.type = "ActivityStarted" /\ start.attempt = activity[a].attempt
        /\ start.messages = activity[a].failure
    BY <1>7, StartedEvent
  <2>2. history' = Append(h1, e)
    <3>1. history' = history \o Append(<<start>>, e)
      BY <1>1, <1>7
    <3> HIDE DEF start, e
    <3> QED
      BY <1>5, <1>6, <2>1, <3>1
  <2> HIDE DEF start
  <2>3. /\ s1 \in ActivityStates /\ s1.state = "running" /\ s1.recorded = TRUE
        /\ s1.failure = activity[a].failure /\ s1.attempt = activity[a].attempt
    BY <1>2, <1>7 DEF ActivityStates
  <2> HIDE DEF s1
  <2>4. ActivityGoesOn(activity[a], s1, <<>>)
    <3>1. <<>> \in Seq(STRING)
      OBVIOUS
    <3> QED
      BY <1>7, <2>3, <3>1 DEF ActivityGoesOn
  <2>5. /\ ItemsOK(activity, child, failed) /\ failed \in [Items -> Seq(STRING)] /\ a \in Items
        /\ activity \in [Activities -> ActivityStates]
    BY WorldTypes
  <2>6. ActivityMoves(activity, child, failed, act1, failed, a)
    <3>1. Grown(failed, a, <<>>) = failed
      BY <2>5, GrownByNone
    <3>2. ActivityMoves(activity, child, failed, act1, Grown(failed, a, <<>>), a)
      BY <2>4, <2>5, ActivityMove
    <3> QED
      BY <3>1, <3>2
  <2>7. act1[a] = s1 /\ activity' = Moved(act1, a, s)
    BY <1>3, <2>5 DEF Moved
  <2> HIDE DEF act1
  <2>8. KeepsActivity(a, start, activity, failed, act1, failed)
    <3>1. /\ activity[a].state # "closed" /\ act1[a].state \notin {"none", "closed"}
          /\ act1[a].attempt = activity[a].attempt /\ act1[a].failure = activity[a].failure
      BY <1>7, <2>3, <2>7
    <3> QED
      BY <2>1, <2>5, <3>1, KeepsStarted
  <2>9. Consistent(TRUE, act1, child, h1, failed)
    BY <1>6, <2>1, <2>6, <2>8, ActivityEvent DEF ActivityMoves
  <2>10. ActivityFollows(a, e, h1)
    <3>1. \A k \in DOMAIN history : \A x :
             Starts(history, k, x) => k \in DOMAIN h1 /\ Starts(h1, k, x)
      BY <1>6, <2>1, OneMoreEvent
    <3> HIDE DEF h1, e
    <3> QED
      BY <1>5, <3>1 DEF ActivityFollows
  <2>11. ActivityCloses(act1[a], s, f)
    BY <1>2, <2>3, <2>7 DEF ActivityCloses
  <2> HIDE DEF e, h1
  <2>12. Consistent(TRUE, Moved(act1, a, s), child, Append(h1, e), Grown(failed, a, f))
    BY <1>4, <1>5, <2>9, <2>10, <2>11, ActivityClosed
  <2> QED
    BY <1>1, <2>2, <2>7, <2>12, WorldTypes DEF World
<1>8. CASE ~(running /\ ~activity[a].recorded)
  <2>1. history' = Append(history, e)
    <3>1. history' = history \o Append(<<>>, e)
      BY <1>1, <1>8
    <3> HIDE DEF e
    <3> QED
      BY <1>5, <1>6, <3>1
  <2>2. ActivityCloses(activity[a], s, f)
    BY <1>1, <1>2, <1>8 DEF ActivityCloses, ActivityStates
  <2> HIDE DEF e
  <2>3. Consistent(TRUE, Moved(activity, a, s), child, Append(history, e), Grown(failed, a, f))
    BY <1>4, <1>5, <1>6, <2>2, ActivityClosed
  <2> QED
    BY <1>1, <1>3, <2>1, <2>3, WorldTypes DEF World
<1> QED
  BY <1>7, <1>8

(* Every step of the execution preserves World.                            *)
LEMMA TemporalStep ==
    ASSUME World, Temporal
    PROVE  World'
<1>1. CASE \E a \in Activities : ScheduleActivity(a)
  BY <1>1, ScheduleActivityStep
<1>2. CASE \E a \in Activities : StartActivity(a)
  BY <1>2, StartActivityStep
<1>3. CASE \E a \in Activities : PauseActivity(a)
  BY <1>3, PauseActivityStep
<1>4. CASE \E a \in Activities : \E f \in Failures : RetryActivity(a, f)
  BY <1>4, RetryActivityStep
<1>5. CASE \E a \in Activities : \E f \in Failures \cup {<<>>} : CloseActivity(a, f)
  BY <1>5, CloseActivityStep
<1>6. CASE \E c \in Children : InitiateChild(c)
  BY <1>6, InitiateChildStep
<1>7. CASE \E c \in Children : StartChild(c)
  BY <1>7, StartChildStep
<1>8. CASE \E c \in Children : \E f \in Failures \cup {<<>>} : CloseChild(c, f)
  BY <1>8, CloseChildStep
<1>9. CASE \E f \in Failures \cup {<<>>} : CloseWorkflow(f)
  BY <1>9, CloseWorkflowStep
<1> QED
  BY <1>1, <1>2, <1>3, <1>4, <1>5, <1>6, <1>7, <1>8, <1>9 DEF Temporal

(* World holds of an execution that has just started.                      *)
LEMMA InitWorld ==
    ASSUME Init
    PROVE  World
<1> DEFINE e == Event("WorkflowStarted", "workflow", 0, 0, <<>>)
           c == AddWorkflowEvent(NewBuilder, e)
<1>1. open = TRUE /\ history = <<e>>
  BY DEF Init, Event
<1>2. /\ activity \in [Activities -> ActivityStates] /\ child \in [Children -> ChildStates]
      /\ failed \in [Items -> Seq(STRING)]
      /\ \A a \in Activities : activity[a].state = "none" /\ activity[a].failure = <<>>
      /\ \A d \in Children : child[d] = "none"
      /\ \A i \in Items : failed[i] = <<>>
  <2>1. <<>> \in Seq(STRING) /\ 0 \in Nat
    OBVIOUS
  <2>2. activity \in [Activities -> ActivityStates]
    BY <2>1 DEF Init, ActivityStates
  <2>3. child \in [Children -> ChildStates]
    BY DEF Init, ChildStates
  <2>4. failed \in [Items -> Seq(STRING)]
    BY <2>1 DEF Init, Items
  <2> QED
    BY <2>2, <2>3, <2>4 DEF Init, Items
<1>3. /\ e \in Events /\ e.type = "WorkflowStarted" /\ e.of = "workflow" /\ e.ref = 0
      /\ e.messages = <<>>
  <2>1. "WorkflowStarted" \in EventTypes /\ 0 \in Nat /\ <<>> \in Seq(STRING)
    BY DEF EventTypes, WorkflowTypes
  <2> QED
    BY <2>1 DEF Event, Events
<1> HIDE DEF e
<1>4. /\ history \in Seq(Events) /\ Len(history) = 1 /\ DOMAIN history = 1 .. 1
      /\ history[1] = e
  BY <1>1, <1>3
<1>5. ItemsOK(activity, child, failed)
  <2>1. \A a \in Activities : \A m \in STRING : Count(activity[a].failure, m) <= Count(failed[a], m)
    <3>1. \A m \in STRING : Count(<<>>, m) <= Count(<<>>, m)
      <4>1. 0 <= 0
        OBVIOUS
      <4> QED
        BY <4>1, CountOfNone, Zenon
    <3> QED
      BY <1>2, <3>1 DEF Items
  <2>2. \A d \in Children : failed[d] = <<>>
    BY <1>2 DEF Items
  <2> QED
    BY <1>2, <2>1, <2>2 DEF ItemsOK
<1>6. HistoryOK(history, activity, child)
  BY <1>2, <1>4 DEF HistoryOK
<1>7. Structure(NewBuilder, history, 0) /\ IsBuilder(NewBuilder)
  BY NewBuilderStructure DEF Structure
<1>8. /\ IsBuilder(c) /\ SameItems(NewBuilder, c) /\ c.inputs = TRUE
      /\ c.errors = NewBuilder.errors
  BY <1>3, <1>7, WorkflowStarts
<1>9. Built(history, 0) = NewBuilder
  BY AddNone DEF Built
<1>10. Built(history, 1) = c
  <2>1. 0 \in Nat /\ 0 <= 0 /\ 0 + 1 = 1
    OBVIOUS
  <2>2. AddEvents(NewBuilder, history, 0, 0 + 1)
          = AddEvent(AddEvents(NewBuilder, history, 0, 0), 0 + 1, history[0 + 1])
    BY <2>1, AddOneMore
  <2>3. Built(history, 1) = AddEvent(NewBuilder, 1, e)
    BY <1>4, <1>9, <2>1, <2>2 DEF Built
  <2> QED
    BY <1>3, <2>3, Dispatch DEF WorkflowTypes
<1>11. Structure(c, history, 1)
  <2>1. Structure(c, history, 0)
    BY <1>7, <1>8, StructureOfSame DEF SameItems
  <2>2. history[0 + 1].of = "workflow" /\ 0 \in Nat /\ 0 + 1 = 1
    BY <1>3, <1>4
  <2>3. Structure(c, history, 0 + 1)
    BY <2>1, <2>2, StructureSkips
  <2> QED
    BY <2>2, <2>3
<1>12. /\ NewBuilder.activities = <<>> /\ NewBuilder.children = <<>> /\ NewBuilder.errors = <<>>
       /\ DOMAIN <<>> = {}
  BY DEF NewBuilder
<1>13. /\ Sound(NewBuilder, activity, child, failed) /\ Sound(c, activity, child, failed)
       /\ Full(c, activity, child, failed)
  BY <1>8, <1>12 DEF Sound, Full, SameItems
<1> HIDE DEF c
<1>14. WorkflowFull(c, history, TRUE)
  BY <1>8, <1>12 DEF WorkflowFull
<1>15. ASSUME NEW n \in 0 .. Len(history)
       PROVE  /\ Structure(Built(history, n), history, n)
              /\ Sound(Built(history, n), activity, child, failed)
  <2>1. n = 0 \/ n = 1
    BY <1>4
  <2>2. CASE n = 0
    BY <1>7, <1>9, <1>13, <2>2
  <2>3. CASE n = 1
    BY <1>10, <1>11, <1>13, <2>3
  <2> QED
    BY <2>1, <2>2, <2>3
<1>16. Consistent(TRUE, activity, child, history, failed)
  BY <1>4, <1>5, <1>6, <1>10, <1>13, <1>14, <1>15 DEF Consistent
<1> QED
  BY <1>1, <1>16 DEF World

(* The history only grows, and only while the execution is open.           *)
Grows(h, g) == Len(h) <= Len(g) /\ \A k \in 1 .. Len(h) : g[k] = h[k]

(* A history only grows,                                                   *)
LEMMA AppendGrows ==
    ASSUME NEW h \in Seq(Events), NEW e
    PROVE  Grows(h, h) /\ Grows(h, Append(h, e))
<1>1. h \in Seq(Events \cup {e}) /\ e \in Events \cup {e}
  OBVIOUS
<1> QED
  BY <1>1 DEF Grows

(* and only while the execution is open.                                   *)
LEMMA HistoryGrows ==
    ASSUME World, Temporal
    PROVE  open /\ Grows(history, history')
<1>1. history \in Seq(Events)
  BY WorldTypes
<1>2. ASSUME NEW a \in Activities, NEW f \in Failures \cup {<<>>}, CloseActivity(a, f)
      PROVE  open /\ Grows(history, history')
  <2> DEFINE e == Event(IF f = <<>> THEN "ActivityCompleted" ELSE "ActivityFailed",
                        a, First(a), 0, f)
             s == Started(a)
  <2>1. \/ history' = history \o Append(<<s>>, e)
        \/ history' = history \o Append(<<>>, e)
    BY <1>2 DEF CloseActivity
  <2> HIDE DEF e, s
  <2>2. history \in Seq(Events \cup {e, s}) /\ e \in Events \cup {e, s} /\ s \in Events \cup {e, s}
    BY <1>1
  <2>3. Grows(history, history')
    BY <2>1, <2>2 DEF Grows
  <2> QED
    BY <1>2, <2>3 DEF CloseActivity
<1>3. ASSUME NEW a \in Activities,
             \/ ScheduleActivity(a) \/ StartActivity(a) \/ PauseActivity(a)
             \/ \E f \in Failures : RetryActivity(a, f)
      PROVE  open /\ (history' = history \/ \E e : history' = Append(history, e))
  BY <1>3 DEF ScheduleActivity, StartActivity, PauseActivity, RetryActivity, Pending
<1>4. ASSUME NEW c \in Children,
             \/ InitiateChild(c) \/ StartChild(c)
             \/ \E f \in Failures \cup {<<>>} : CloseChild(c, f)
      PROVE  open /\ \E e : history' = Append(history, e)
  BY <1>4 DEF InitiateChild, StartChild, CloseChild, PendingChild
<1>5. ASSUME NEW f \in Failures \cup {<<>>}, CloseWorkflow(f)
      PROVE  open /\ \E e : history' = Append(history, e)
  BY <1>5 DEF CloseWorkflow
<1>6. ASSUME history' = history \/ \E e : history' = Append(history, e)
      PROVE  Grows(history, history')
  BY <1>1, <1>6, AppendGrows
<1>7. CASE \E a \in Activities : \E f \in Failures \cup {<<>>} : CloseActivity(a, f)
  BY <1>2, <1>7
<1>8. CASE \E a \in Activities : \/ ScheduleActivity(a) \/ StartActivity(a) \/ PauseActivity(a)
                                 \/ \E f \in Failures : RetryActivity(a, f)
  BY <1>3, <1>6, <1>8
<1>9. CASE \E c \in Children : \/ InitiateChild(c) \/ StartChild(c)
                               \/ \E f \in Failures \cup {<<>>} : CloseChild(c, f)
  BY <1>4, <1>6, <1>9
<1>10. CASE \E f \in Failures \cup {<<>>} : CloseWorkflow(f)
  BY <1>5, <1>6, <1>10
<1> QED
  BY <1>7, <1>8, <1>9, <1>10 DEF Temporal

-----------------------------------------------------------------------------
(* What is pending is merged into what the history told.                   *)

(* Nobody uses an id for two activities, nor for two children.             *)
OwnIDs ==
    /\ \A a, b \in Activities : ActivityID[a] = ActivityID[b] => a = b
    /\ \A c, d \in Children : WorkflowID[c] = WorkflowID[d] => c = d

AddRecord(b, r) == [b EXCEPT !.activities = Append(b.activities, r)]
AddChildRecord(b, r) == [b EXCEPT !.children = Append(b.children, r)]

(* A record more of an activity                                            *)
LEMMA AddRecordFacts ==
    ASSUME NEW b, IsBuilder(b), NEW r \in ActivityRecords
    PROVE  /\ IsBuilder(AddRecord(b, r)) /\ SameButActivity(b, AddRecord(b, r))
           /\ AddRecord(b, r).activities = Append(b.activities, r)
<1> DEFINE new == Append(b.activities, r)
           c == AddRecord(b, r)
<1>1. new \in Seq(ActivityRecords)
  BY AppendFacts DEF IsBuilder
<1>2. c = [b EXCEPT !.activities = new]
  BY DEF AddRecord
<1> HIDE DEF new, c
<1>3. c = BuilderOf(b.inputs, b.errors, new, b.children, b.activityByID,
                    b.activityByEvent, b.childByEvent)
  BY <1>2 DEF IsBuilder, BuilderOf
<1>4. /\ c.inputs = b.inputs /\ c.errors = b.errors /\ c.children = b.children
      /\ c.activityByID = b.activityByID /\ c.activityByEvent = b.activityByEvent
      /\ c.childByEvent = b.childByEvent /\ c.activities = new
  BY <1>3, Fields
<1>5. IsBuilder(c)
  BY <1>1, <1>3, <1>4 DEF IsBuilder
<1> QED
  BY <1>4, <1>5 DEF SameButActivity, c, new

(* or of a child.                                                          *)
LEMMA AddChildRecordFacts ==
    ASSUME NEW b, IsBuilder(b), NEW r \in ChildRecords
    PROVE  /\ IsBuilder(AddChildRecord(b, r)) /\ SameButChild(b, AddChildRecord(b, r))
           /\ AddChildRecord(b, r).children = Append(b.children, r)
<1> DEFINE new == Append(b.children, r)
           c == AddChildRecord(b, r)
<1>1. new \in Seq(ChildRecords)
  BY AppendFacts DEF IsBuilder
<1>2. c = [b EXCEPT !.children = new]
  BY DEF AddChildRecord
<1> HIDE DEF new, c
<1>3. c = BuilderOf(b.inputs, b.errors, b.activities, new, b.activityByID,
                    b.activityByEvent, b.childByEvent)
  BY <1>2 DEF IsBuilder, BuilderOf
<1>4. /\ c.inputs = b.inputs /\ c.errors = b.errors /\ c.activities = b.activities
      /\ c.activityByID = b.activityByID /\ c.activityByEvent = b.activityByEvent
      /\ c.childByEvent = b.childByEvent /\ c.children = new
  BY <1>3, Fields
<1>5. IsBuilder(c)
  BY <1>1, <1>3, <1>4 DEF IsBuilder
<1> QED
  BY <1>4, <1>5 DEF SameButChild, c, new

(* An activity that Describe lists, as the execution is.                   *)
PendingOf(p, act, fl) ==
    /\ p.of \in Activities /\ p.id = ActivityID[p.of] /\ p.attempt \in Nat
    /\ p.failure \in Seq(STRING) /\ p.paused \in BOOLEAN /\ p.started \in BOOLEAN
    /\ act[p.of].state \in {"scheduled", "running"} /\ p.failure = act[p.of].failure
    /\ fl[p.of] \in Seq(STRING)
    /\ \A m \in STRING : Count(p.failure, m) <= Count(fl[p.of], m)

PendingList(ps, act, fl) ==
    /\ Len(ps) \in Nat
    /\ \A k \in 1 .. Len(ps) : PendingOf(ps[k], act, fl)
    /\ \A k, l \in 1 .. Len(ps) : ps[k].of = ps[l].of => k = l

(* A record that shows what Describe says.                                 *)
Shows(r, p) == r.of = p.of /\ r.paused = p.paused /\ Range(p.failure) \subseteq Range(r.errors)

(* The records stay sound, each of another activity, and the activities    *)
(* merged so far are shown.                                                *)
Merged(first, b, ps, k, act, fl) ==
    /\ IsBuilder(b) /\ b.children = first.children /\ b.activityByID = first.activityByID
    /\ \A i, j \in DOMAIN b.activities : b.activities[i].of = b.activities[j].of => i = j
    /\ \A i \in DOMAIN first.activities :
          i \in DOMAIN b.activities /\ b.activities[i].of = first.activities[i].of
    /\ \A i \in DOMAIN b.activities :
          i \in DOMAIN first.activities \/ \E j \in 1 .. k : b.activities[i].of = ps[j].of
    /\ \A i \in DOMAIN b.activities :
          ActivitySound(b.activities[i], act[b.activities[i].of], fl[b.activities[i].of])
    /\ \A j \in 1 .. k : \E i \in DOMAIN b.activities : Shows(b.activities[i], ps[j])

(* A record that Describe was merged into shows what Describe tells and    *)
(* stays sound.                                                            *)
LEMMA MergedRecordFacts ==
    ASSUME NEW act, NEW fl, NEW p, PendingOf(p, act, fl), NEW r \in ActivityRecords, r.of = p.of,
           ActivitySound(r, act[p.of], fl[p.of])
    PROVE  /\ MergedRecord(r, p) \in ActivityRecords /\ Shows(MergedRecord(r, p), p)
           /\ ActivitySound(MergedRecord(r, p), act[p.of], fl[p.of])
<1> DEFINE r2 == MergedRecord(r, p)
           s == p.failure
           f == fl[p.of]
<1>1. r.errors \in Seq(STRING) /\ s \in Seq(STRING) /\ f \in Seq(STRING) /\ p.paused \in BOOLEAN
  BY DEF PendingOf, ActivityRecords
<1>2. AppendUnseen(r.errors, s) \in Seq(STRING) /\ Range(s) \subseteq Range(AppendUnseen(r.errors, s))
  BY <1>1, AppendUnseenFacts
<1>3. /\ r2 \in ActivityRecords /\ r2.of = r.of /\ r2.ended = r.ended /\ r2.paused = p.paused
      /\ r2.errors = AppendUnseen(r.errors, s)
  BY <1>1, <1>2 DEF MergedRecord, ActivityRecords
<1>4. \A m \in STRING : Count(s, m) <= Count(f, m) /\ Count(r.errors, m) <= Count(f, m)
  BY DEF PendingOf, ActivitySound
<1> HIDE DEF r2, s, f
<1>5. \A m \in STRING : Count(r2.errors, m) <= Count(f, m)
  BY <1>1, <1>3, <1>4, UnseenCount
<1>6. Shows(r2, p)
  BY <1>2, <1>3 DEF Shows, s
<1>7. ActivitySound(r2, act[p.of], f)
  BY <1>3, <1>5 DEF ActivitySound
<1> QED
  BY <1>3, <1>6, <1>7 DEF r2, f

(* So does a record made of what Describe tells.                           *)
LEMMA PendingRecordFacts ==
    ASSUME NEW act, NEW fl, NEW p, PendingOf(p, act, fl)
    PROVE  /\ PendingRecord(p) \in ActivityRecords /\ Shows(PendingRecord(p), p)
           /\ ActivitySound(PendingRecord(p), act[p.of], fl[p.of])
<1> DEFINE r == PendingRecord(p)
<1>1. NewActivity(p.of) \in ActivityRecords
  BY NewRecords DEF PendingOf
<1>2. /\ r \in ActivityRecords /\ r.of = p.of /\ r.ended = FALSE /\ r.paused = p.paused
      /\ r.errors = p.failure
  BY <1>1 DEF PendingRecord, NewActivity, ActivityRecords, PendingOf
<1> HIDE DEF r
<1>3. Shows(r, p)
  BY <1>2 DEF Shows
<1>4. ActivitySound(r, act[p.of], fl[p.of])
  BY <1>2 DEF ActivitySound, PendingOf
<1> QED
  BY <1>2, <1>3, <1>4 DEF r

(* The map of ids leads to the records the history told of.                *)
IDsLead(b) ==
    /\ \A id \in DOMAIN b.activityByID :
          /\ b.activityByID[id] \in DOMAIN b.activities
          /\ ActivityID[b.activities[b.activityByID[id]].of] = id
    /\ \A k \in DOMAIN b.activities : ActivityID[b.activities[k].of] \in DOMAIN b.activityByID

(* Merging one item more, of which the history tells                       *)
LEMMA MergeKnown ==
    ASSUME OwnIDs, NEW first, IsBuilder(first), IDsLead(first), NEW b, NEW ps, NEW k \in Nat,
           k + 1 \in 1 .. Len(ps), NEW act, NEW fl, PendingList(ps, act, fl),
           Merged(first, b, ps, k, act, fl), ps[k + 1].id \in DOMAIN b.activityByID
    PROVE  Merged(first, MergeActivity(b, ps[k + 1]), ps, k + 1, act, fl)
<1> DEFINE p == ps[k + 1]
           i == b.activityByID[p.id]
           r == b.activities[i]
           r2 == MergedRecord(r, p)
           c == MergeActivity(b, p)
<1>1. PendingOf(p, act, fl)
  BY DEF PendingList
<1>2. c = WithActivity(b, i, r2)
  BY DEF MergeActivity, WithActivity
<1>3. i \in DOMAIN first.activities /\ ActivityID[first.activities[i].of] = p.id
  BY DEF Merged, IDsLead
<1>4. i \in DOMAIN b.activities /\ r.of = first.activities[i].of
  BY <1>3 DEF Merged
<1>5. r.of = p.of
  <2>1. r.of \in Activities
    BY <1>3, <1>4, RecordTypes
  <2> QED
    BY <1>1, <1>3, <1>4, <2>1 DEF OwnIDs, PendingOf
<1>6. IsBuilder(b)
  BY DEF Merged
<1>7. r \in ActivityRecords
  BY <1>4, <1>6, RecordTypes
<1>8. ActivitySound(r, act[p.of], fl[p.of])
  <2>1. ActivitySound(r, act[r.of], fl[r.of])
    BY <1>4 DEF Merged
  <2> QED
    BY <1>5, <2>1
<1> HIDE DEF r
<1>9. r2 \in ActivityRecords /\ Shows(r2, p) /\ ActivitySound(r2, act[p.of], fl[p.of])
  BY <1>1, <1>5, <1>7, <1>8, MergedRecordFacts
<1>10. r2.of = p.of
  BY <1>9 DEF Shows
<1> HIDE DEF r2, c, i
<1>11. /\ IsBuilder(c) /\ c.activities = [b.activities EXCEPT ![i] = r2] /\ SameButActivity(b, c)
  BY <1>2, <1>4, <1>6, <1>9, SetActivity
<1>12. /\ DOMAIN c.activities = DOMAIN b.activities /\ c.activities[i] = r2
       /\ \A j \in DOMAIN b.activities : j # i => c.activities[j] = b.activities[j]
  BY <1>4, <1>6, <1>9, <1>11, ReplaceFacts DEF IsBuilder
<1>13. \A j \in DOMAIN b.activities : c.activities[j].of = b.activities[j].of
  BY <1>5, <1>10, <1>12 DEF r
<1>14. c.children = first.children /\ c.activityByID = first.activityByID
  BY <1>11 DEF Merged, SameButActivity
<1>15. \A j, l \in DOMAIN c.activities : c.activities[j].of = c.activities[l].of => j = l
  BY <1>12, <1>13 DEF Merged
<1>16. \A j \in DOMAIN first.activities :
          j \in DOMAIN c.activities /\ c.activities[j].of = first.activities[j].of
  BY <1>12, <1>13 DEF Merged
<1>17. \A j \in DOMAIN c.activities :
          j \in DOMAIN first.activities \/ \E l \in 1 .. k + 1 : c.activities[j].of = ps[l].of
  <2>1. \A l \in 1 .. k : l \in 1 .. k + 1
    OBVIOUS
  <2> QED
    BY <1>12, <1>13, <2>1 DEF Merged
<1>18. ASSUME NEW j \in DOMAIN c.activities
       PROVE  ActivitySound(c.activities[j], act[c.activities[j].of], fl[c.activities[j].of])
  <2>1. CASE j = i
    BY <1>9, <1>10, <1>12, <2>1
  <2>2. CASE j # i
    BY <1>12, <2>2 DEF Merged
  <2> QED
    BY <2>1, <2>2
<1>19. ASSUME NEW j \in 1 .. k + 1
       PROVE  \E l \in DOMAIN c.activities : Shows(c.activities[l], ps[j])
  <2>1. CASE j = k + 1
    <3>1. Shows(c.activities[i], ps[j]) /\ i \in DOMAIN c.activities
      BY <1>4, <1>9, <1>12, <2>1
    <3> QED
      BY <3>1
  <2>2. CASE j # k + 1
    <3>1. j \in 1 .. k /\ j \in 1 .. Len(ps)
      BY <2>2 DEF PendingList
    <3>2. PICK l \in DOMAIN b.activities : Shows(b.activities[l], ps[j])
      BY <3>1 DEF Merged
    <3>3. ps[j].of # p.of
      BY <2>2, <3>1 DEF PendingList
    <3>4. l # i
      BY <1>5, <3>2, <3>3 DEF Shows, r
    <3>5. Shows(c.activities[l], ps[j])
      BY <1>12, <3>2, <3>4
    <3> QED
      BY <1>12, <3>5
  <2> QED
    BY <2>1, <2>2
<1>20. Merged(first, c, ps, k + 1, act, fl)
  BY <1>11, <1>14, <1>15, <1>16, <1>17, <1>18, <1>19 DEF Merged
<1> QED
  BY <1>20 DEF c

(* or does not tell.                                                       *)
LEMMA MergeNew ==
    ASSUME NEW first, IsBuilder(first), IDsLead(first), NEW b, NEW ps, NEW k \in Nat,
           k + 1 \in 1 .. Len(ps), NEW act, NEW fl, PendingList(ps, act, fl),
           Merged(first, b, ps, k, act, fl), ps[k + 1].id \notin DOMAIN b.activityByID
    PROVE  Merged(first, MergeActivity(b, ps[k + 1]), ps, k + 1, act, fl)
<1> DEFINE p == ps[k + 1]
           r == PendingRecord(p)
           c == MergeActivity(b, p)
           n == Len(b.activities)
<1>1. PendingOf(p, act, fl)
  BY DEF PendingList
<1>2. c = AddRecord(b, r)
  BY DEF MergeActivity, AddRecord
<1>3. IsBuilder(b)
  BY DEF Merged
<1>4. r \in ActivityRecords /\ Shows(r, p) /\ ActivitySound(r, act[p.of], fl[p.of])
  BY <1>1, PendingRecordFacts
<1>5. r.of = p.of
  BY <1>4 DEF Shows
<1>6. ASSUME NEW j \in DOMAIN b.activities
      PROVE  b.activities[j].of # p.of
  <2>1. CASE j \in DOMAIN first.activities
    <3>1. ActivityID[b.activities[j].of] \in DOMAIN b.activityByID
      BY <2>1 DEF Merged, IDsLead
    <3> QED
      BY <1>1, <3>1 DEF PendingOf
  <2>2. CASE \E l \in 1 .. k : b.activities[j].of = ps[l].of
    <3>1. PICK l \in 1 .. k : b.activities[j].of = ps[l].of
      BY <2>2
    <3>2. l \in 1 .. Len(ps) /\ l # k + 1
      BY DEF PendingList
    <3>3. ps[l].of # ps[k + 1].of
      BY <3>2 DEF PendingList
    <3> QED
      BY <3>1, <3>3
  <2> QED
    BY <2>1, <2>2 DEF Merged
<1> HIDE DEF r, c
<1>7. IsBuilder(c) /\ SameButActivity(b, c) /\ c.activities = Append(b.activities, r)
  BY <1>2, <1>3, <1>4, AddRecordFacts
<1>8. /\ n \in Nat /\ DOMAIN b.activities = 1 .. n /\ DOMAIN c.activities = 1 .. n + 1
      /\ \A j \in DOMAIN b.activities : c.activities[j] = b.activities[j]
      /\ c.activities[n + 1] = r
  BY <1>3, <1>4, <1>7, AppendFacts DEF IsBuilder
<1> HIDE DEF n
<1>9. /\ \A j \in DOMAIN c.activities : j \in DOMAIN b.activities \/ j = n + 1
      /\ \A j \in DOMAIN b.activities : j \in DOMAIN c.activities
      /\ n + 1 \in DOMAIN c.activities
  BY <1>8
<1>10. c.children = first.children /\ c.activityByID = first.activityByID
  BY <1>7 DEF Merged, SameButActivity
<1>11. \A j, l \in DOMAIN c.activities : c.activities[j].of = c.activities[l].of => j = l
  <2>1. \A j, l \in DOMAIN b.activities : b.activities[j].of = b.activities[l].of => j = l
    BY DEF Merged
  <2> QED
    BY <1>5, <1>6, <1>8, <1>9, <2>1
<1>12. \A j \in DOMAIN first.activities :
          j \in DOMAIN c.activities /\ c.activities[j].of = first.activities[j].of
  BY <1>8, <1>9 DEF Merged
<1>13. ASSUME NEW j \in DOMAIN c.activities
       PROVE  j \in DOMAIN first.activities \/ \E l \in 1 .. k + 1 : c.activities[j].of = ps[l].of
  <2>1. CASE j \in DOMAIN b.activities
    <3>1. \A l \in 1 .. k : l \in 1 .. k + 1
      OBVIOUS
    <3> QED
      BY <1>8, <2>1, <3>1 DEF Merged
  <2>2. CASE j = n + 1
    <3>1. k + 1 \in 1 .. k + 1 /\ c.activities[j].of = ps[k + 1].of
      BY <1>5, <1>8, <2>2
    <3> QED
      BY <3>1
  <2> QED
    BY <1>9, <2>1, <2>2
<1>14. ASSUME NEW j \in DOMAIN c.activities
       PROVE  ActivitySound(c.activities[j], act[c.activities[j].of], fl[c.activities[j].of])
  <2>1. CASE j = n + 1
    BY <1>4, <1>5, <1>8, <2>1
  <2>2. CASE j \in DOMAIN b.activities
    BY <1>8, <2>2 DEF Merged
  <2> QED
    BY <1>9, <2>1, <2>2
<1>15. ASSUME NEW j \in 1 .. k + 1
       PROVE  \E l \in DOMAIN c.activities : Shows(c.activities[l], ps[j])
  <2>1. CASE j = k + 1
    <3>1. Shows(c.activities[n + 1], ps[j])
      BY <1>4, <1>8, <2>1
    <3> QED
      BY <1>9, <3>1
  <2>2. CASE j # k + 1
    <3>1. j \in 1 .. k
      BY <2>2
    <3>2. PICK l \in DOMAIN b.activities : Shows(b.activities[l], ps[j])
      BY <3>1 DEF Merged
    <3> QED
      BY <1>8, <1>9, <3>2
  <2> QED
    BY <2>1, <2>2
<1>16. Merged(first, c, ps, k + 1, act, fl)
  BY <1>7, <1>10, <1>11, <1>12, <1>13, <1>14, <1>15 DEF Merged
<1> QED
  BY <1>16 DEF c

(* f is the sequence of builders that the merging of ps goes through.      *)
MergingActivities(f, b, ps, n) ==
    f = [k \in 0 .. n |-> IF k = 0 THEN b ELSE MergeActivity(f[k - 1], ps[k])]

(* The recursion of MergeActivities has a value at every length.           *)
LEMMA MergingActivitiesExists ==
    ASSUME NEW b, NEW ps, NEW n \in Nat
    PROVE  \E f : MergingActivities(f, b, ps, n)
<1> DEFINE S == {i \in Nat : \E f : MergingActivities(f, b, ps, i)}
<1>1. 0 \in S
  <2> DEFINE f == [k \in 0 .. 0 |-> b]
  <2>1. MergingActivities(f, b, ps, 0)
    BY DEF MergingActivities
  <2> QED
    BY <2>1
<1>2. ASSUME NEW i \in Nat, i \in S
      PROVE  i + 1 \in S
  <2>1. PICK f : MergingActivities(f, b, ps, i)
    BY <1>2
  <2> DEFINE last == MergeActivity(f[i], ps[i + 1])
             g == [k \in 0 .. i + 1 |-> IF k = i + 1 THEN last ELSE f[k]]
  <2>2. \A k \in 0 .. i : f[k] = IF k = 0 THEN b ELSE MergeActivity(f[k - 1], ps[k])
    BY <2>1 DEF MergingActivities
  <2>3. ASSUME NEW k \in 0 .. i + 1
        PROVE  g[k] = IF k = 0 THEN b ELSE MergeActivity(g[k - 1], ps[k])
    <3>1. CASE k = i + 1
      <4>1. k # 0 /\ k - 1 = i /\ i \in 0 .. i + 1 /\ i # i + 1
        BY <3>1
      <4>2. g[k - 1] = f[i]
        BY <4>1
      <4> QED
        BY <3>1, <4>1, <4>2
    <3>2. CASE k # i + 1
      <4>1. k \in 0 .. i
        BY <3>2
      <4>2. k # 0 => k - 1 \in 0 .. i + 1 /\ k - 1 # i + 1
        BY <4>1
      <4>3. k # 0 => g[k - 1] = f[k - 1]
        BY <4>2
      <4>4. g[k] = f[k]
        BY <3>2
      <4> QED
        BY <2>2, <4>1, <4>3, <4>4
    <3> QED
      BY <3>1, <3>2
  <2>4. DOMAIN g = 0 .. i + 1 /\ g = [k \in DOMAIN g |-> g[k]]
    OBVIOUS
  <2> HIDE DEF g
  <2>5. MergingActivities(g, b, ps, i + 1)
    BY <2>3, <2>4 DEF MergingActivities
  <2> QED
    BY <2>5
<1> HIDE DEF S
<1>3. n \in S
  BY <1>1, <1>2, InductionOnSet
<1> QED
  BY <1>3 DEF S

(* MergeActivities as a sequence of steps.                                 *)
LEMMA MergingActivitiesSteps ==
    ASSUME NEW b, NEW ps, Len(ps) \in Nat
    PROVE  \E f : /\ f[0] = b /\ MergeActivities(b, ps) = f[Len(ps)]
                  /\ \A k \in 1 .. Len(ps) : f[k] = MergeActivity(f[k - 1], ps[k])
<1> DEFINE n == Len(ps)
           f == CHOOSE g : MergingActivities(g, b, ps, n)
<1>1. MergingActivities(f, b, ps, n)
  BY MergingActivitiesExists
<1>2. MergeActivities(b, ps) = f[n]
  BY DEF MergeActivities, MergingActivities
<1> HIDE DEF n, f
<1>3. n \in Nat
  BY DEF n
<1>4. \A k \in 0 .. n : f[k] = IF k = 0 THEN b ELSE MergeActivity(f[k - 1], ps[k])
  BY <1>1 DEF MergingActivities
<1>5. f[0] = b /\ \A k \in 1 .. n : f[k] = MergeActivity(f[k - 1], ps[k])
  BY <1>3, <1>4
<1> QED
  BY <1>2, <1>5 DEF n

(* All pending activities are merged, in any order.                        *)
LEMMA MergeAllActivities ==
    ASSUME OwnIDs, NEW first, NEW ps, NEW act, NEW fl, IsBuilder(first), IDsLead(first),
           PendingList(ps, act, fl), Merged(first, first, ps, 0, act, fl)
    PROVE  Merged(first, MergeActivities(first, ps), ps, Len(ps), act, fl)
<1>1. Len(ps) \in Nat
  BY DEF PendingList
<1>2. PICK f : /\ f[0] = first /\ MergeActivities(first, ps) = f[Len(ps)]
               /\ \A k \in 1 .. Len(ps) : f[k] = MergeActivity(f[k - 1], ps[k])
  BY <1>1, MergingActivitiesSteps
<1> DEFINE S == {k \in Nat : k <= Len(ps) => Merged(first, f[k], ps, k, act, fl)}
<1>3. 0 \in S
  BY <1>2
<1>4. ASSUME NEW k \in Nat, k \in S
      PROVE  k + 1 \in S
  <2> SUFFICES ASSUME k + 1 <= Len(ps)
               PROVE  Merged(first, f[k + 1], ps, k + 1, act, fl)
    OBVIOUS
  <2>1. k + 1 \in 1 .. Len(ps) /\ k <= Len(ps) /\ (k + 1) - 1 = k
    BY <1>1
  <2>2. Merged(first, f[k], ps, k, act, fl)
    BY <1>4, <2>1
  <2>3. f[k + 1] = MergeActivity(f[k], ps[k + 1])
    BY <1>2, <2>1
  <2> HIDE DEF S
  <2>4. CASE ps[k + 1].id \in DOMAIN f[k].activityByID
    BY <2>1, <2>2, <2>3, <2>4, MergeKnown
  <2>5. CASE ps[k + 1].id \notin DOMAIN f[k].activityByID
    BY <2>1, <2>2, <2>3, <2>5, MergeNew
  <2> QED
    BY <2>4, <2>5
<1> HIDE DEF S
<1>5. Len(ps) \in S
  BY <1>1, <1>3, <1>4, InductionOnSet
<1>6. Merged(first, f[Len(ps)], ps, Len(ps), act, fl)
  <2>1. Len(ps) <= Len(ps)
    BY <1>1
  <2> QED
    BY <1>5, <2>1 DEF S
<1> QED
  BY <1>2, <1>6

(* f is the sequence of builders that the merging of ps goes through.      *)
MergingChildren(f, b, ps, n) ==
    f = [k \in 0 .. n |-> IF k = 0 THEN b ELSE MergeChild(f[k - 1], ps[k])]

(* The recursion of MergeChildren has a value at every length.             *)
LEMMA MergingChildrenExists ==
    ASSUME NEW b, NEW ps, NEW n \in Nat
    PROVE  \E f : MergingChildren(f, b, ps, n)
<1> DEFINE S == {i \in Nat : \E f : MergingChildren(f, b, ps, i)}
<1>1. 0 \in S
  <2> DEFINE f == [k \in 0 .. 0 |-> b]
  <2>1. MergingChildren(f, b, ps, 0)
    BY DEF MergingChildren
  <2> QED
    BY <2>1
<1>2. ASSUME NEW i \in Nat, i \in S
      PROVE  i + 1 \in S
  <2>1. PICK f : MergingChildren(f, b, ps, i)
    BY <1>2
  <2> DEFINE last == MergeChild(f[i], ps[i + 1])
             g == [k \in 0 .. i + 1 |-> IF k = i + 1 THEN last ELSE f[k]]
  <2>2. \A k \in 0 .. i : f[k] = IF k = 0 THEN b ELSE MergeChild(f[k - 1], ps[k])
    BY <2>1 DEF MergingChildren
  <2>3. ASSUME NEW k \in 0 .. i + 1
        PROVE  g[k] = IF k = 0 THEN b ELSE MergeChild(g[k - 1], ps[k])
    <3>1. CASE k = i + 1
      <4>1. k # 0 /\ k - 1 = i /\ i \in 0 .. i + 1 /\ i # i + 1
        BY <3>1
      <4>2. g[k - 1] = f[i]
        BY <4>1
      <4> QED
        BY <3>1, <4>1, <4>2
    <3>2. CASE k # i + 1
      <4>1. k \in 0 .. i
        BY <3>2
      <4>2. k # 0 => k - 1 \in 0 .. i + 1 /\ k - 1 # i + 1
        BY <4>1
      <4>3. k # 0 => g[k - 1] = f[k - 1]
        BY <4>2
      <4>4. g[k] = f[k]
        BY <3>2
      <4> QED
        BY <2>2, <4>1, <4>3, <4>4
    <3> QED
      BY <3>1, <3>2
  <2>4. DOMAIN g = 0 .. i + 1 /\ g = [k \in DOMAIN g |-> g[k]]
    OBVIOUS
  <2> HIDE DEF g
  <2>5. MergingChildren(g, b, ps, i + 1)
    BY <2>3, <2>4 DEF MergingChildren
  <2> QED
    BY <2>5
<1> HIDE DEF S
<1>3. n \in S
  BY <1>1, <1>2, InductionOnSet
<1> QED
  BY <1>3 DEF S

(* MergeChildren as a sequence of steps.                                   *)
LEMMA MergingChildrenSteps ==
    ASSUME NEW b, NEW ps, Len(ps) \in Nat
    PROVE  \E f : /\ f[0] = b /\ MergeChildren(b, ps) = f[Len(ps)]
                  /\ \A k \in 1 .. Len(ps) : f[k] = MergeChild(f[k - 1], ps[k])
<1> DEFINE n == Len(ps)
           f == CHOOSE g : MergingChildren(g, b, ps, n)
<1>1. MergingChildren(f, b, ps, n)
  BY MergingChildrenExists
<1>2. MergeChildren(b, ps) = f[n]
  BY DEF MergeChildren, MergingChildren
<1> HIDE DEF n, f
<1>3. n \in Nat
  BY DEF n
<1>4. \A k \in 0 .. n : f[k] = IF k = 0 THEN b ELSE MergeChild(f[k - 1], ps[k])
  BY <1>1 DEF MergingChildren
<1>5. f[0] = b /\ \A k \in 1 .. n : f[k] = MergeChild(f[k - 1], ps[k])
  BY <1>3, <1>4
<1> QED
  BY <1>2, <1>5 DEF n

(* A child that Describe lists.                                            *)
PendingChildOf(p, chl) ==
    p.of \in Children /\ p.id = WorkflowID[p.of] /\ chl[p.of] \in {"initiated", "started"}

ShowsChild(b, p) == \E i \in DOMAIN b.children : b.children[i].of = p.of

MergedChildren(first, b, ps, k, chl, fl) ==
    /\ IsBuilder(b) /\ b.activities = first.activities
    /\ \A i, j \in DOMAIN b.children : b.children[i].of = b.children[j].of => i = j
    /\ \A i \in DOMAIN b.children :
          ChildSound(b.children[i], chl[b.children[i].of], fl[b.children[i].of])
    /\ \A j \in 1 .. k : ShowsChild(b, ps[j])

(* Merging one child more.                                                 *)
LEMMA MergeChildStep ==
    ASSUME OwnIDs, NEW first, NEW b, NEW ps, NEW k \in Nat, NEW chl, NEW fl,
           fl \in [Items -> Seq(STRING)],
           PendingChildOf(ps[k + 1], chl), MergedChildren(first, b, ps, k, chl, fl)
    PROVE  MergedChildren(first, MergeChild(b, ps[k + 1]), ps, k + 1, chl, fl)
<1> DEFINE p == ps[k + 1]
           c == MergeChild(b, p)
           r == NewChild(p.of)
           n == Len(b.children)
<1>1. p.of \in Children /\ p.id = WorkflowID[p.of] /\ chl[p.of] \in {"initiated", "started"}
  BY DEF PendingChildOf
<1>2. IsBuilder(b)
  BY DEF MergedChildren
<1>3. \A j \in 1 .. k + 1 : j \in 1 .. k \/ j = k + 1
  OBVIOUS
<1>4. CASE \E i \in DOMAIN b.children : WorkflowID[b.children[i].of] = p.id
  <2>1. PICK i \in DOMAIN b.children : WorkflowID[b.children[i].of] = p.id
    BY <1>4
  <2>2. b.children[i].of \in Children
    BY <1>2, RecordTypes
  <2>3. b.children[i].of = p.of
    BY <1>1, <2>1, <2>2 DEF OwnIDs
  <2>4. c = b
    BY <1>4 DEF MergeChild
  <2>5. ShowsChild(b, p)
    BY <2>3 DEF ShowsChild
  <2> HIDE DEF c
  <2>6. MergedChildren(first, b, ps, k + 1, chl, fl)
    BY <1>3, <2>5 DEF MergedChildren
  <2> QED
    BY <2>4, <2>6 DEF c
<1>5. CASE ~\E i \in DOMAIN b.children : WorkflowID[b.children[i].of] = p.id
  <2>1. c = AddChildRecord(b, r)
    BY <1>5 DEF MergeChild, AddChildRecord
  <2>2. r \in ChildRecords /\ r.of = p.of /\ r.ended = FALSE /\ r.errors = <<>>
    BY <1>1 DEF NewChild, ChildRecords
  <2>3. \A i \in DOMAIN b.children : b.children[i].of # p.of
    BY <1>1, <1>5
  <2> HIDE DEF c, r
  <2>4. IsBuilder(c) /\ SameButChild(b, c) /\ c.children = Append(b.children, r)
    BY <1>2, <2>1, <2>2, AddChildRecordFacts
  <2>5. /\ n \in Nat /\ DOMAIN b.children = 1 .. n /\ DOMAIN c.children = 1 .. n + 1
        /\ \A j \in DOMAIN b.children : c.children[j] = b.children[j]
        /\ c.children[n + 1] = r
    BY <1>2, <2>2, <2>4, AppendFacts DEF IsBuilder
  <2> HIDE DEF n
  <2>6. /\ \A j \in DOMAIN c.children : j \in DOMAIN b.children \/ j = n + 1
        /\ \A j \in DOMAIN b.children : j \in DOMAIN c.children
        /\ n + 1 \in DOMAIN c.children
    BY <2>5
  <2>7. \A i, j \in DOMAIN c.children : c.children[i].of = c.children[j].of => i = j
    <3>1. \A i, j \in DOMAIN b.children : b.children[i].of = b.children[j].of => i = j
      BY DEF MergedChildren
    <3> QED
      BY <2>2, <2>3, <2>5, <2>6, <3>1
  <2>8. ChildSound(r, chl[p.of], fl[p.of])
    <3>1. fl[p.of] \in Seq(STRING)
      BY <1>1 DEF Items
    <3>2. \A m \in STRING : Count(<<>>, m) <= Count(fl[p.of], m)
      BY <3>1, CountOfNone, CountFacts
    <3> QED
      BY <1>1, <2>2, <3>2 DEF ChildSound
  <2>9. ASSUME NEW j \in DOMAIN c.children
        PROVE  ChildSound(c.children[j], chl[c.children[j].of], fl[c.children[j].of])
    <3>1. CASE j = n + 1
      BY <2>2, <2>5, <2>8, <3>1
    <3>2. CASE j \in DOMAIN b.children
      BY <2>5, <3>2 DEF MergedChildren
    <3> QED
      BY <2>6, <3>1, <3>2
  <2>10. ASSUME NEW j \in 1 .. k + 1
         PROVE  ShowsChild(c, ps[j])
    <3>1. CASE j = k + 1
      BY <2>2, <2>5, <2>6, <3>1 DEF ShowsChild
    <3>2. CASE j \in 1 .. k
      <4>1. PICK i \in DOMAIN b.children : b.children[i].of = ps[j].of
        BY <3>2 DEF MergedChildren, ShowsChild
      <4> QED
        BY <2>5, <2>6, <4>1 DEF ShowsChild
    <3> QED
      BY <1>3, <3>1, <3>2
  <2>11. c.activities = first.activities
    BY <2>4 DEF MergedChildren, SameButChild
  <2>12. MergedChildren(first, c, ps, k + 1, chl, fl)
    BY <2>4, <2>7, <2>9, <2>10, <2>11 DEF MergedChildren
  <2> QED
    BY <2>12 DEF c
<1> QED
  BY <1>4, <1>5

(* All pending children are merged, in any order.                          *)
LEMMA MergeAllChildren ==
    ASSUME OwnIDs, NEW first, NEW ps, NEW chl, NEW fl, fl \in [Items -> Seq(STRING)],
           Len(ps) \in Nat, \A k \in 1 .. Len(ps) : PendingChildOf(ps[k], chl),
           MergedChildren(first, first, ps, 0, chl, fl)
    PROVE  MergedChildren(first, MergeChildren(first, ps), ps, Len(ps), chl, fl)
<1>2. PICK f : /\ f[0] = first /\ MergeChildren(first, ps) = f[Len(ps)]
               /\ \A k \in 1 .. Len(ps) : f[k] = MergeChild(f[k - 1], ps[k])
  BY MergingChildrenSteps
<1> DEFINE S == {k \in Nat : k <= Len(ps) => MergedChildren(first, f[k], ps, k, chl, fl)}
<1>3. 0 \in S
  BY <1>2
<1>4. ASSUME NEW k \in Nat, k \in S
      PROVE  k + 1 \in S
  <2> SUFFICES ASSUME k + 1 <= Len(ps)
               PROVE  MergedChildren(first, f[k + 1], ps, k + 1, chl, fl)
    OBVIOUS
  <2>1. k + 1 \in 1 .. Len(ps) /\ k <= Len(ps) /\ (k + 1) - 1 = k
    OBVIOUS
  <2>2. MergedChildren(first, f[k], ps, k, chl, fl)
    BY <1>4, <2>1
  <2>3. f[k + 1] = MergeChild(f[k], ps[k + 1])
    BY <1>2, <2>1
  <2>4. PendingChildOf(ps[k + 1], chl)
    BY <2>1
  <2> HIDE DEF S
  <2> QED
    BY <2>2, <2>3, <2>4, MergeChildStep
<1> HIDE DEF S
<1>5. Len(ps) \in S
  BY <1>3, <1>4, InductionOnSet
<1>6. MergedChildren(first, f[Len(ps)], ps, Len(ps), chl, fl)
  <2>1. Len(ps) <= Len(ps)
    OBVIOUS
  <2> QED
    BY <1>5, <2>1 DEF S
<1> QED
  BY <1>2, <1>6

-----------------------------------------------------------------------------
(* The Describe answer.                                                    *)

(* A list of the items of a finite set has each of them once.              *)
LEMMA ListFacts ==
    ASSUME NEW S, IsFiniteSet(S), NEW ps \in SetToSeqs(S)
    PROVE  /\ Len(ps) \in Nat
           /\ \A k \in 1 .. Len(ps) : ps[k] \in S
           /\ \A k, l \in 1 .. Len(ps) : ps[k] = ps[l] => k = l
           /\ \A x \in S : \E k \in 1 .. Len(ps) : ps[k] = x
           /\ S = {} => Len(ps) = 0
<1> DEFINE n == Cardinality(S)
           D == 1 .. n
<1>1. n \in Nat
  BY FS_CardinalityType
<1>2. ps \in [D -> S] /\ \A i, j \in D : i # j => ps[i] # ps[j]
  BY DEF SetToSeqs
<1>3. S = {} => n = 0
  BY FS_EmptySet
<1>4. IsFiniteSet(D) /\ Cardinality(D) = n
  <2>1. 1 \in Int /\ n \in Int /\ (1 > n => n = 0) /\ (1 <= n => n - 1 + 1 = n)
    BY <1>1
  <2>2. IsFiniteSet(D) /\ Cardinality(D) = IF 1 > n THEN 0 ELSE n - 1 + 1
    BY <2>1, FS_Interval
  <2> HIDE DEF D
  <2> QED
    BY <1>1, <2>1, <2>2
<1> HIDE DEF n
<1>5. ps \in Injection(D, S)
  BY <1>2 DEF Injection, IsInjective
<1>6. ps \in Surjection(D, S)
  BY <1>4, <1>5, FS_Injection DEF n
<1>7. \A x \in S : \E k \in D : ps[k] = x
  BY <1>6 DEF Surjection
<1>8. Len(ps) = n
  <2>1. DOMAIN ps = 1 .. n /\ ps \in Seq(S)
    BY <1>1, <1>2, FunctionIsSeq
  <2> QED
    BY <1>1, <2>1
<1> QED
  BY <1>1, <1>2, <1>3, <1>7, <1>8

(* What Describe tells of an activity is so.                               *)
LEMMA PendingElement ==
    ASSUME World, NEW p \in PendingActivities
    PROVE  PendingOf(p, activity, failed)
<1>1. PICK a \in Activities :
        /\ Pending(a)
        /\ p = [of |-> a, id |-> ActivityID[a], attempt |-> activity[a].attempt,
                failure |-> activity[a].failure, paused |-> activity[a].paused,
                started |-> activity[a].state = "running" \/ activity[a].attempt > 1]
  BY DEF PendingActivities
<1>2. activity[a] \in ActivityStates /\ a \in Items /\ failed[a] \in Seq(STRING)
  BY WorldTypes
<1>3. \A m \in STRING : Count(activity[a].failure, m) <= Count(failed[a], m)
  BY WorldTypes DEF ItemsOK
<1>4. activity[a].state \in {"scheduled", "running"}
  BY <1>1 DEF Pending
<1>5. p.started \in BOOLEAN
  BY <1>1
<1>6. /\ p.of = a /\ p.id = ActivityID[a] /\ p.attempt = activity[a].attempt
      /\ p.failure = activity[a].failure /\ p.paused = activity[a].paused
  BY <1>1
<1> QED
  BY <1>2, <1>3, <1>4, <1>5, <1>6 DEF PendingOf, ActivityStates

(* Describe tells of an activity once                                      *)
LEMMA PendingActivityOnce ==
    ASSUME NEW p \in PendingActivities, NEW q \in PendingActivities, p.of = q.of
    PROVE  p = q
BY DEF PendingActivities

(* and of a child once.                                                    *)
LEMMA PendingChildOnce ==
    ASSUME NEW p \in PendingChildren, NEW q \in PendingChildren, p.of = q.of
    PROVE  p = q
BY DEF PendingChildren

(* What Describe tells of a child is so.                                   *)
LEMMA PendingChildElement ==
    ASSUME NEW p \in PendingChildren
    PROVE  PendingChildOf(p, child)
BY DEF PendingChildren, PendingChildOf, PendingChild

(* Describe tells of finitely many.                                        *)
LEMMA PendingIsFinite ==
    ASSUME World
    PROVE  IsFiniteSet(PendingActivities) /\ IsFiniteSet(PendingChildren)
<1>1. IsFiniteSet(PendingActivities)
  <2> DEFINE F == [p \in PendingActivities |-> p.of]
  <2>1. F \in [PendingActivities -> Activities]
    BY PendingElement DEF PendingOf
  <2>2. F \in Injection(PendingActivities, Activities)
    BY <2>1, PendingActivityOnce DEF Injection, IsInjective
  <2> QED
    BY <2>2, FS_Injection, ItemAssumption
<1>2. IsFiniteSet(PendingChildren)
  <2> DEFINE F == [p \in PendingChildren |-> p.of]
  <2>1. F \in [PendingChildren -> Children]
    BY PendingChildElement DEF PendingChildOf
  <2>2. F \in Injection(PendingChildren, Children)
    BY <2>1, PendingChildOnce DEF Injection, IsInjective
  <2> QED
    BY <2>2, FS_Injection, ItemAssumption
<1> QED
  BY <1>1, <1>2

(* What the answer makes of the builder.                                   *)
Complete(b, ds, act, chl, fl) ==
    /\ IsBuilder(b)
    /\ \A i, j \in DOMAIN b.activities : b.activities[i].of = b.activities[j].of => i = j
    /\ \A i, j \in DOMAIN b.children : b.children[i].of = b.children[j].of => i = j
    /\ Sound(b, act, chl, fl)
    /\ \A d \in ds :
          \/ /\ PendingOf(d, act, fl)
             /\ \E i \in DOMAIN b.activities : Shows(b.activities[i], d)
          \/ PendingChildOf(d, chl) /\ ShowsChild(b, d)

(* mergePending completes the builder of any part of the history: what was *)
(* read may be older than Describe by any number of events.                *)
LEMMA MergePending ==
    ASSUME OwnIDs, World, NEW n \in 0 .. Len(history),
           NEW as \in SetToSeqs(PendingActivities), NEW cs \in SetToSeqs(PendingChildren)
    PROVE  Complete(MergeChildren(MergeActivities(Built(history, n), as), cs),
                    PendingActivities \cup PendingChildren, activity, child, failed)
<1> DEFINE b == Built(history, n)
           c == MergeActivities(b, as)
           d == MergeChildren(c, cs)
<1>1. Structure(b, history, n) /\ Sound(b, activity, child, failed)
  BY DEF World, Consistent
<1> HIDE DEF b
<1>2. IsBuilder(b) /\ IDsLead(b)
  BY <1>1 DEF Structure, ActivityStructure, IDsLead
<1>3. /\ Len(as) \in Nat
      /\ \A k \in 1 .. Len(as) : as[k] \in PendingActivities
      /\ \A k, l \in 1 .. Len(as) : as[k] = as[l] => k = l
      /\ \A x \in PendingActivities : \E k \in 1 .. Len(as) : as[k] = x
  BY PendingIsFinite, ListFacts
<1>4. /\ Len(cs) \in Nat
      /\ \A k \in 1 .. Len(cs) : cs[k] \in PendingChildren
      /\ \A x \in PendingChildren : \E k \in 1 .. Len(cs) : cs[k] = x
  BY PendingIsFinite, ListFacts
<1>5. PendingList(as, activity, failed)
  BY <1>3, PendingElement, PendingActivityOnce DEF PendingList
<1>6. 1 .. 0 = {}
  OBVIOUS
<1>7. Merged(b, b, as, 0, activity, failed)
  BY <1>1, <1>2, <1>6 DEF Merged, Structure, ActivityStructure, Sound
<1>8. Merged(b, c, as, Len(as), activity, failed)
  BY <1>2, <1>5, <1>7, MergeAllActivities
<1> HIDE DEF c
<1>9. MergedChildren(c, c, cs, 0, child, failed)
  <2>1. IsBuilder(c) /\ c.children = b.children
    BY <1>8 DEF Merged
  <2> QED
    BY <1>1, <1>6, <2>1 DEF MergedChildren, Structure, ChildStructure, Sound
<1>10. MergedChildren(c, d, cs, Len(cs), child, failed)
  <2>1. \A k \in 1 .. Len(cs) : PendingChildOf(cs[k], child)
    BY <1>4, PendingChildElement
  <2> QED
    BY <1>4, <1>9, <2>1, WorldTypes, MergeAllChildren
<1> HIDE DEF d
<1>11. IsBuilder(d) /\ d.activities = c.activities
  BY <1>10 DEF MergedChildren
<1>12. /\ \A i, j \in DOMAIN d.activities : d.activities[i].of = d.activities[j].of => i = j
       /\ \A i, j \in DOMAIN d.children : d.children[i].of = d.children[j].of => i = j
  BY <1>8, <1>10, <1>11 DEF Merged, MergedChildren
<1>13. Sound(d, activity, child, failed)
  BY <1>8, <1>10, <1>11 DEF Merged, MergedChildren, Sound
<1>14. ASSUME NEW p \in PendingActivities
       PROVE  /\ PendingOf(p, activity, failed)
              /\ \E i \in DOMAIN d.activities : Shows(d.activities[i], p)
  <2>1. PICK k \in 1 .. Len(as) : as[k] = p
    BY <1>3
  <2>2. \E i \in DOMAIN c.activities : Shows(c.activities[i], as[k])
    BY <1>8 DEF Merged
  <2> QED
    BY <1>11, <2>1, <2>2, PendingElement
<1>15. ASSUME NEW p \in PendingChildren
       PROVE  PendingChildOf(p, child) /\ ShowsChild(d, p)
  <2>1. PICK k \in 1 .. Len(cs) : cs[k] = p
    BY <1>4
  <2>2. ShowsChild(d, cs[k])
    BY <1>10 DEF MergedChildren
  <2> QED
    BY <2>1, <2>2, PendingChildElement
<1>16. Complete(d, PendingActivities \cup PendingChildren, activity, child, failed)
  BY <1>11, <1>12, <1>13, <1>14, <1>15 DEF Complete
<1> QED
  BY <1>16 DEF d, c, b

(* Nothing is pending once the execution is closed.                        *)
LEMMA MergeNothing ==
    ASSUME ~open, NEW b,
           NEW as \in SetToSeqs(PendingActivities), NEW cs \in SetToSeqs(PendingChildren)
    PROVE  MergeChildren(MergeActivities(b, as), cs) = b
<1>1. PendingActivities = {} /\ PendingChildren = {}
  BY DEF PendingActivities, PendingChildren, Pending, PendingChild
<1>2. Len(as) = 0 /\ Len(cs) = 0
  BY <1>1, FS_EmptySet, ListFacts
<1>3. MergeActivities(b, as) = b
  <2>1. Len(as) \in Nat
    BY <1>2
  <2> QED
    BY <1>2, <2>1, MergingActivitiesSteps
<1>4. MergeChildren(b, cs) = b
  <2>1. Len(cs) \in Nat
    BY <1>2
  <2> QED
    BY <1>2, <2>1, MergingChildrenSteps
<1> QED
  BY <1>3, <1>4

-----------------------------------------------------------------------------
(* The fetch.                                                              *)

(* While the history is read the builder is what the events read so far    *)
(* give, of a history that may have grown.  A fetch that began with the    *)
(* execution closed has read the whole of it.                              *)
Reading ==
    /\ phase \in {"idle", "history", "describe", "done", "failed"}
    /\ horizon \in Nat /\ horizon <= Len(history)
    /\ phase \in {"idle", "history", "describe"} =>
          position \in 0 .. Len(history) /\ builder = Built(history, position)
    /\ phase = "idle" => position = 0
    /\ phase = "describe" => position >= horizon
    /\ phase = "failed" => builder = NewBuilder
    /\ final => ~open /\ horizon = Len(history)

Result ==
    phase = "done" =>
        /\ final => position = Len(history) /\ builder = Built(history, position)
        /\ OwnIDs => Complete(builder, described, activity, child, failed)

Inv == World /\ Reading /\ Result

(* The invariant holds initially,                                          *)
LEMMA InitInv ==
    ASSUME Init
    PROVE  Inv
<1>1. World
  BY InitWorld
<1>2. Built(history, 0) = NewBuilder
  BY AddNone DEF Built
<1>3. Len(history) \in Nat
  BY <1>1, WorldTypes
<1>4. Reading
  BY <1>2, <1>3 DEF Init, Reading
<1>5. Result
  BY DEF Init, Result
<1> QED
  BY <1>1, <1>4, <1>5 DEF Inv

(* Temporal does not touch the fetch.                                      *)
LEMMA TemporalLeavesFetch ==
    ASSUME Temporal
    PROVE  UNCHANGED fetch
BY DEF Temporal, ScheduleActivity, StartActivity, RetryActivity, PauseActivity, CloseActivity,
       InitiateChild, StartChild, CloseChild, CloseWorkflow

(* and the execution preserves it: what a fetch has read stays the reading *)
(* of a part of the history.                                               *)
LEMMA TemporalInv ==
    ASSUME Inv, phase \notin {"done", "failed"}, Temporal
    PROVE  Inv'
<1>1. World'
  BY TemporalStep DEF Inv
<1>2. open /\ Grows(history, history')
  BY HistoryGrows DEF Inv
<1>3. /\ phase' = phase /\ position' = position /\ horizon' = horizon /\ final' = final
      /\ builder' = builder
  BY TemporalLeavesFetch DEF fetch
<1>4. Len(history) \in Nat /\ Len(history') \in Nat
  <2>1. history \in Seq(Events)
    BY WorldTypes DEF Inv
  <2>2. history' \in Seq(Events)
    BY <1>1 DEF World, Consistent, HistoryOK
  <2> QED
    BY <2>1, <2>2
<1>5. ~final /\ position \in 0 .. Len(history) /\ builder = Built(history, position)
  BY <1>2 DEF Inv, Reading
<1>6. position \in 0 .. Len(history') /\ Built(history', position) = Built(history, position)
  <2>1. position \in Nat /\ position \in 0 .. Len(history')
    BY <1>2, <1>4, <1>5 DEF Grows
  <2>2. \A k \in 1 .. position : history[k] = history'[k]
    BY <1>2, <1>4, <1>5 DEF Grows
  <2> QED
    BY <2>1, <2>2, AddPrefix DEF Built
<1>7. horizon' <= Len(history')
  BY <1>2, <1>3, <1>4 DEF Grows, Inv, Reading
<1>8. Reading'
  BY <1>3, <1>5, <1>6, <1>7 DEF Inv, Reading
<1>9. Result'
  BY <1>3 DEF Result
<1> QED
  BY <1>1, <1>8, <1>9 DEF Inv

(* The fetch does not touch Temporal.                                      *)
LEMMA WorldStays ==
    ASSUME World, UNCHANGED temporal
    PROVE  World'
BY DEF World, temporal

(* A fetch begins before the first event,                                  *)
LEMMA BeginInv ==
    ASSUME Inv, Begin
    PROVE  Inv'
<1>1. World'
  BY WorldStays DEF Inv, Begin
<1>2. /\ phase = "idle" /\ phase' = "history" /\ horizon' = Len(history) /\ final' = ~open
      /\ open' = open /\ history' = history /\ position' = position /\ builder' = builder
  BY DEF Begin, temporal
<1>3. Len(history) \in Nat
  BY WorldTypes DEF Inv
<1>4. Reading'
  <2>1. final' => ~open'
    BY <1>2
  <2>2. position \in 0 .. Len(history) /\ builder = Built(history, position)
    BY <1>2 DEF Inv, Reading
  <2>3. /\ phase' \in {"idle", "history", "describe", "done", "failed"}
        /\ phase' # "idle" /\ phase' # "describe" /\ phase' # "failed"
        /\ horizon' \in Nat /\ horizon' <= Len(history') /\ horizon' = Len(history')
        /\ position' \in 0 .. Len(history') /\ builder' = Built(history', position')
    BY <1>2, <1>3, <2>2
  <2> QED
    BY <2>1, <2>3 DEF Reading
<1>5. Result'
  BY <1>2 DEF Result
<1> QED
  BY <1>1, <1>4, <1>5 DEF Inv

(* reads on where it was,                                                  *)
LEMMA HistoryPageInv ==
    ASSUME Inv, HistoryPage
    PROVE  Inv'
<1> DEFINE end == IF position + PageSize < Len(history) THEN position + PageSize
                                                       ELSE Len(history)
<1>1. World'
  BY WorldStays DEF Inv, HistoryPage
<1>2. /\ phase = "history" /\ builder' = AddEvents(builder, history, position, end)
      /\ position' = end /\ phase' \in {"history", "describe"}
      /\ phase' = "describe" => end >= horizon
      /\ open' = open /\ history' = history /\ horizon' = horizon /\ final' = final
  BY DEF HistoryPage, LastPage, temporal
<1>3. Len(history) \in Nat
  BY WorldTypes DEF Inv
<1>4. position \in 0 .. Len(history) /\ builder = Built(history, position)
  BY <1>2 DEF Inv, Reading
<1>5. end \in 0 .. Len(history) /\ position <= end
  BY <1>3, <1>4, BuilderAssumption
<1> HIDE DEF end
<1>6. builder' = Built(history, end)
  <2>1. position \in Nat /\ end \in Nat
    BY <1>3, <1>4, <1>5
  <2> QED
    BY <1>2, <1>4, <1>5, <2>1, AddSplit DEF Built
<1>7. Reading'
  BY <1>2, <1>5, <1>6 DEF Inv, Reading
<1>8. Result'
  BY <1>2 DEF Result
<1> QED
  BY <1>1, <1>7, <1>8 DEF Inv

(* merges what is pending                                                  *)
LEMMA DescribeInv ==
    ASSUME Inv, Describe
    PROVE  Inv'
<1>1. World' /\ World
  BY WorldStays DEF Inv, Describe
<1>2. /\ phase = "describe" /\ phase' = "done"
      /\ described' = PendingActivities \cup PendingChildren
      /\ open' = open /\ history' = history /\ horizon' = horizon /\ final' = final
      /\ activity' = activity /\ child' = child /\ failed' = failed /\ position' = position
  BY DEF Describe, temporal
<1>3. PICK as \in SetToSeqs(PendingActivities), cs \in SetToSeqs(PendingChildren) :
        builder' = MergeChildren(MergeActivities(builder, as), cs)
  BY DEF Describe
<1>4. Len(history) \in Nat
  BY <1>1, WorldTypes
<1>5. /\ position \in 0 .. Len(history) /\ builder = Built(history, position)
      /\ position >= horizon
  BY <1>2 DEF Inv, Reading
<1>6. Reading'
  BY <1>2 DEF Inv, Reading
<1>7. ASSUME final
      PROVE  position = Len(history) /\ builder' = Built(history, position)
  <2>1. ~open /\ position = Len(history)
    BY <1>4, <1>5, <1>7 DEF Inv, Reading
  <2>2. builder' = builder
    BY <1>3, <2>1, MergeNothing
  <2> QED
    BY <1>5, <2>1, <2>2
<1>8. ASSUME OwnIDs
      PROVE  Complete(builder', PendingActivities \cup PendingChildren, activity, child, failed)
  BY <1>1, <1>3, <1>5, <1>8, MergePending
<1>9. Result'
  <2>1. final' => position' = Len(history') /\ builder' = Built(history', position')
    BY <1>2, <1>7
  <2>2. OwnIDs => Complete(builder', described', activity', child', failed')
    BY <1>2, <1>8
  <2> QED
    BY <2>1, <2>2 DEF Result
<1> QED
  BY <1>1, <1>6, <1>9 DEF Inv

(* or drops everything.                                                    *)
LEMMA FetchFailsInv ==
    ASSUME Inv, FetchFails
    PROVE  Inv'
<1>1. World'
  BY WorldStays DEF Inv, FetchFails
<1>2. /\ phase' = "failed" /\ builder' = NewBuilder
      /\ open' = open /\ history' = history /\ horizon' = horizon /\ final' = final
  BY DEF FetchFails, temporal
<1>3. Reading'
  BY <1>2 DEF Inv, Reading
<1>4. Result'
  BY <1>2 DEF Result
<1> QED
  BY <1>1, <1>3, <1>4 DEF Inv

(* What holds of the execution and of the fetch in every reachable state.  *)
THEOREM BuilderInvariant == Spec => []Inv
<1>1. Init => Inv
  BY InitInv
<1>2. Inv /\ [Next]_vars => Inv'
  <2> SUFFICES ASSUME Inv, [Next]_vars
               PROVE  Inv'
    OBVIOUS
  <2>1. CASE phase \notin {"done", "failed"} /\ Len(history) < MaxEvents /\ Temporal
    BY <2>1, TemporalInv
  <2>2. CASE Begin
    BY <2>2, BeginInv
  <2>3. CASE HistoryPage
    BY <2>3, HistoryPageInv
  <2>4. CASE Describe
    BY <2>4, DescribeInv
  <2>5. CASE FetchFails
    BY <2>5, FetchFailsInv
  <2>6. CASE UNCHANGED vars
    <3>1. World'
      BY <2>6, WorldStays DEF Inv, vars
    <3>2. Reading' /\ Result'
      BY <2>6 DEF Inv, Reading, Result, vars, temporal, fetch
    <3> QED
      BY <3>1, <3>2 DEF Inv
  <2> QED
    BY <2>1, <2>2, <2>3, <2>4, <2>5, <2>6 DEF Next
<1> QED
  BY <1>1, <1>2, PTL DEF Spec

-----------------------------------------------------------------------------
(* The properties of the records.                                          *)

LEMMA RecordsFacts ==
    ASSUME IsBuilder(builder)
    PROVE  /\ Len(builder.activities) \in Nat /\ Len(builder.children) \in Nat
           /\ DOMAIN builder.activities = 1 .. Len(builder.activities)
           /\ DOMAIN builder.children = 1 .. Len(builder.children)
           /\ DOMAIN Records = 1 .. Len(builder.activities) + Len(builder.children)
           /\ \A i \in DOMAIN builder.activities : Records[i] = builder.activities[i]
           /\ \A i \in DOMAIN builder.children :
                 Records[Len(builder.activities) + i] = builder.children[i]
<1> DEFINE X == ActivityRecords \cup ChildRecords
           s == builder.activities
           t == builder.children
<1>1. s \in Seq(ActivityRecords) /\ t \in Seq(ChildRecords)
  BY DEF IsBuilder
<1>2. s \in Seq(X) /\ t \in Seq(X)
  BY <1>1
<1>3. Records = s \o t
  BY DEF Records
<1> HIDE DEF X, s, t
<1>4. /\ s \o t \in Seq(X) /\ Len(s \o t) = Len(s) + Len(t)
      /\ Len(s) \in Nat /\ Len(t) \in Nat
      /\ DOMAIN s = 1 .. Len(s) /\ DOMAIN t = 1 .. Len(t)
      /\ DOMAIN (s \o t) = 1 .. Len(s \o t)
  BY <1>2
<1>5. /\ \A i \in 1 .. Len(s) : (s \o t)[i] = s[i]
      /\ \A i \in 1 .. Len(t) : (s \o t)[Len(s) + i] = t[i]
  BY <1>2, ConcatRange
<1> QED
  BY <1>3, <1>4, <1>5 DEF s, t

(* A record is one of an activity or one of a child.                       *)
LEMMA RecordCases ==
    ASSUME IsBuilder(builder), NEW k \in DOMAIN Records
    PROVE  \/ /\ k \in DOMAIN builder.activities /\ Records[k] = builder.activities[k]
              /\ Records[k].of \in Activities
           \/ /\ k - Len(builder.activities) \in DOMAIN builder.children
              /\ Records[k] = builder.children[k - Len(builder.activities)]
              /\ Records[k].of \in Children
<1> DEFINE m == Len(builder.activities)
           n == Len(builder.children)
<1>1. /\ m \in Nat /\ n \in Nat /\ k \in 1 .. m + n
      /\ DOMAIN builder.activities = 1 .. m /\ DOMAIN builder.children = 1 .. n
  BY RecordsFacts
<1>2. CASE k <= m
  <2>1. k \in DOMAIN builder.activities
    BY <1>1, <1>2
  <2> QED
    BY <2>1, RecordsFacts, RecordTypes
<1>3. CASE ~(k <= m)
  <2> DEFINE j == k - m
  <2>1. j \in 1 .. n /\ m + j = k
    <3> HIDE DEF m, n
    <3> QED
      BY <1>1, <1>3
  <2>2. j \in DOMAIN builder.children
    BY <1>1, <2>1
  <2>3. Records[m + j] = builder.children[j]
    BY <2>2, RecordsFacts
  <2>4. Records[k] = builder.children[j]
    BY <2>1, <2>3
  <2>5. builder.children[j].of \in Children
    BY <2>2, RecordTypes
  <2> QED
    BY <2>2, <2>4, <2>5
<1> QED
  BY <1>2, <1>3

(* What every builder keeps.                                               *)
Kept(b, act, chl, fl) ==
    /\ IsBuilder(b)
    /\ \A i, j \in DOMAIN b.activities : b.activities[i].of = b.activities[j].of => i = j
    /\ \A i, j \in DOMAIN b.children : b.children[i].of = b.children[j].of => i = j
    /\ Sound(b, act, chl, fl)

(* At every moment of a fetch the builder has one sound record of an item. *)
LEMMA BuilderIsKept ==
    ASSUME OwnIDs, Inv
    PROVE  Kept(builder, activity, child, failed)
<1>1. CASE phase \in {"idle", "history", "describe"}
  <2>1. position \in 0 .. Len(history) /\ builder = Built(history, position)
    BY <1>1 DEF Inv, Reading
  <2>2. Structure(builder, history, position) /\ Sound(builder, activity, child, failed)
    BY <2>1 DEF Inv, World, Consistent
  <2> QED
    BY <2>2 DEF Kept, Structure, ActivityStructure, ChildStructure
<1>2. CASE phase = "done"
  <2>1. Complete(builder, described, activity, child, failed)
    BY <1>2 DEF Inv, Result
  <2> QED
    BY <2>1 DEF Kept, Complete
<1>3. CASE phase = "failed"
  <2>1. builder = NewBuilder
    BY <1>3 DEF Inv, Reading
  <2>2. Structure(builder, history, 0)
    BY <2>1, NewBuilderStructure
  <2>3. Sound(builder, activity, child, failed)
    BY <2>1 DEF NewBuilder, Sound
  <2> QED
    BY <2>2, <2>3 DEF Kept, Structure, ActivityStructure, ChildStructure
<1> QED
  BY <1>1, <1>2, <1>3 DEF Inv, Reading

(* No two records, of whichever kind, are of one item.                     *)
LEMMA RecordsAreOfDifferentItems ==
    ASSUME Kept(builder, activity, child, failed)
    PROVE  \A k, l \in DOMAIN Records : Records[k].of = Records[l].of => k = l
<1> SUFFICES ASSUME NEW k \in DOMAIN Records, NEW l \in DOMAIN Records,
                    Records[k].of = Records[l].of
             PROVE  k = l
  OBVIOUS
<1> DEFINE m == Len(builder.activities)
<1>1. IsBuilder(builder)
  BY DEF Kept
<1>2. Activities \cap Children = {}
  BY ItemAssumption
<1>3. m \in Nat /\ k \in Nat /\ l \in Nat
  BY <1>1, RecordsFacts
<1>4. \A i, j, p \in Nat : i - p = j - p => i = j
  OBVIOUS
<1>5. CASE k \in DOMAIN builder.activities /\ l \in DOMAIN builder.activities
  BY <1>1, <1>5, RecordsFacts DEF Kept
<1>6. CASE k - m \in DOMAIN builder.children /\ l - m \in DOMAIN builder.children
           /\ Records[k] = builder.children[k - m] /\ Records[l] = builder.children[l - m]
  <2>1. k - m = l - m
    BY <1>6 DEF Kept
  <2> QED
    BY <1>3, <1>4, <2>1
<1> QED
  BY <1>1, <1>2, <1>5, <1>6, RecordCases

(* The record of an item is the only one it has.                           *)
LEMMA ActivityRecordOf ==
    ASSUME Kept(builder, activity, child, failed), NEW i \in DOMAIN builder.activities
    PROVE  /\ builder.activities[i] \in Range(Records)
           /\ RecordOf(builder.activities[i].of) = builder.activities[i]
<1>1. IsBuilder(builder)
  BY DEF Kept
<1>2. i \in DOMAIN Records /\ Records[i] = builder.activities[i]
  <2> DEFINE m == Len(builder.activities)
             n == Len(builder.children)
  <2>1. m \in Nat /\ n \in Nat /\ i \in 1 .. m /\ DOMAIN Records = 1 .. m + n
    BY <1>1, RecordsFacts
  <2>2. Records[i] = builder.activities[i]
    BY <1>1, RecordsFacts
  <2> HIDE DEF m, n
  <2> QED
    BY <2>1, <2>2
<1>3. builder.activities[i] \in Range(Records)
  BY <1>2 DEF Range
<1>4. \A r \in Range(Records) : r.of = builder.activities[i].of => r = builder.activities[i]
  BY <1>2, RecordsAreOfDifferentItems DEF Range
<1> QED
  BY <1>3, <1>4 DEF RecordOf

(* RecordOf finds the record of a child.                                   *)
LEMMA ChildRecordOf ==
    ASSUME Kept(builder, activity, child, failed), NEW i \in DOMAIN builder.children
    PROVE  /\ builder.children[i] \in Range(Records)
           /\ RecordOf(builder.children[i].of) = builder.children[i]
<1> DEFINE k == Len(builder.activities) + i
<1>1. IsBuilder(builder)
  BY DEF Kept
<1>2. k \in DOMAIN Records /\ Records[k] = builder.children[i]
  <2> DEFINE m == Len(builder.activities)
             n == Len(builder.children)
  <2>1. m \in Nat /\ n \in Nat /\ i \in 1 .. n /\ DOMAIN Records = 1 .. m + n /\ k = m + i
    BY <1>1, RecordsFacts
  <2>2. Records[m + i] = builder.children[i]
    BY <1>1, RecordsFacts
  <2> HIDE DEF m, n, k
  <2> QED
    BY <2>1, <2>2
<1> HIDE DEF k
<1>3. builder.children[i] \in Range(Records)
  BY <1>2 DEF Range
<1>4. \A r \in Range(Records) : r.of = builder.children[i].of => r = builder.children[i]
  BY <1>2, RecordsAreOfDifferentItems DEF Range
<1> QED
  BY <1>3, <1>4 DEF RecordOf

(* The properties follow from the invariant, the first three if no id is   *)
(* used twice.                                                             *)
LEMMA InvOneRecordEach ==
    ASSUME OwnIDs, Inv
    PROVE  OneRecordEach
<1>1. Kept(builder, activity, child, failed)
  BY BuilderIsKept
<1>2. ASSUME phase = "done", NEW d \in described
      PROVE  \E r \in Range(Records) : r.of = d.of
  <2>1. Complete(builder, described, activity, child, failed)
    BY <1>2 DEF Inv, Result
  <2>2. CASE \E i \in DOMAIN builder.activities : Shows(builder.activities[i], d)
    BY <1>1, <2>2, ActivityRecordOf DEF Shows
  <2>3. CASE ShowsChild(builder, d)
    BY <1>1, <2>3, ChildRecordOf DEF ShowsChild
  <2> QED
    BY <2>1, <2>2, <2>3 DEF Complete
<1> QED
  BY <1>1, <1>2, RecordsAreOfDifferentItems DEF OneRecordEach

(* What Describe told is what the records show.                            *)
LEMMA InvPendingIsCurrent ==
    ASSUME OwnIDs, Inv
    PROVE  PendingIsCurrent
<1> SUFFICES ASSUME phase = "done", NEW d \in described
             PROVE  IF d.of \in Activities
                      THEN /\ RecordOf(d.of).ended => d.failure # <<>>
                           /\ RecordOf(d.of).paused = d.paused
                           /\ Range(d.failure) \subseteq Range(RecordOf(d.of).errors)
                      ELSE ~RecordOf(d.of).ended
  BY DEF PendingIsCurrent
<1>1. Kept(builder, activity, child, failed)
  BY BuilderIsKept
<1>2. Complete(builder, described, activity, child, failed)
  BY DEF Inv, Result
<1>3. CASE /\ PendingOf(d, activity, failed)
           /\ \E i \in DOMAIN builder.activities : Shows(builder.activities[i], d)
  <2>1. PICK i \in DOMAIN builder.activities : Shows(builder.activities[i], d)
    BY <1>3
  <2> DEFINE r == builder.activities[i]
  <2>2. r.of = d.of /\ r.paused = d.paused /\ Range(d.failure) \subseteq Range(r.errors)
    BY <2>1 DEF Shows
  <2>3. RecordOf(d.of) = r
    BY <1>1, <2>2, ActivityRecordOf
  <2>4. ActivitySound(r, activity[d.of], failed[d.of])
    BY <1>1, <2>2 DEF Kept, Sound
  <2> HIDE DEF r
  <2>5. r.ended => d.failure # <<>>
    BY <1>3, <2>4 DEF ActivitySound, PendingOf
  <2>6. d.of \in Activities
    BY <1>3 DEF PendingOf
  <2> QED
    BY <2>2, <2>3, <2>5, <2>6
<1>4. CASE PendingChildOf(d, child) /\ ShowsChild(builder, d)
  <2>1. PICK i \in DOMAIN builder.children : builder.children[i].of = d.of
    BY <1>4 DEF ShowsChild
  <2> DEFINE r == builder.children[i]
  <2>2. RecordOf(d.of) = r
    BY <1>1, <2>1, ChildRecordOf
  <2>3. ChildSound(r, child[d.of], failed[d.of])
    BY <1>1, <2>1 DEF Kept, Sound
  <2> HIDE DEF r
  <2>4. ~r.ended
    BY <1>4, <2>3 DEF ChildSound, PendingChildOf
  <2>5. d.of \notin Activities
    BY <1>4, ItemAssumption DEF PendingChildOf
  <2> QED
    BY <2>2, <2>4, <2>5
<1> QED
  BY <1>2, <1>3, <1>4 DEF Complete

(* The messages of a record are those of its item.                         *)
LEMMA InvErrorsHappened ==
    ASSUME OwnIDs, Inv
    PROVE  ErrorsHappened
<1>1. Kept(builder, activity, child, failed)
  BY BuilderIsKept
<1>2. IsBuilder(builder)
  BY <1>1 DEF Kept
<1> SUFFICES ASSUME NEW r \in Range(Records), NEW m \in Range(r.errors)
             PROVE  Count(r.errors, m) <= Count(failed[r.of], m)
  BY DEF ErrorsHappened
<1>3. PICK k \in DOMAIN Records : r = Records[k]
  BY DEF Range
<1>4. CASE k \in DOMAIN builder.activities /\ r = builder.activities[k]
  <2>1. ActivitySound(r, activity[r.of], failed[r.of]) /\ r.errors \in Seq(STRING)
    BY <1>1, <1>2, <1>4, RecordTypes DEF Kept, Sound
  <2>2. m \in STRING
    BY <2>1 DEF Range
  <2> QED
    BY <2>1, <2>2 DEF ActivitySound
<1>5. CASE \E j \in DOMAIN builder.children : r = builder.children[j]
  <2>1. ChildSound(r, child[r.of], failed[r.of]) /\ r.errors \in Seq(STRING)
    BY <1>1, <1>2, <1>5, RecordTypes DEF Kept, Sound
  <2>2. m \in STRING
    BY <2>1 DEF Range
  <2> QED
    BY <2>1, <2>2 DEF ChildSound
<1> QED
  BY <1>2, <1>3, <1>4, <1>5, RecordCases

(* Nothing happens after the close, and all before it was read.            *)
LEMMA InvTerminalDataIsComplete ==
    ASSUME Inv
    PROVE  TerminalDataIsComplete
<1> SUFFICES ASSUME phase = "done", final
             PROVE  /\ builder.inputs /\ position = Len(history)
                    /\ builder.errors = history[Len(history)].messages
                    /\ \A a \in Activities : activity[a].state # "none" =>
                          LET r == RecordOf(a)
                          IN  /\ \E s \in Range(Records) : s.of = a
                              /\ activity[a].state = "closed" => r.ended
                              /\ r.ended => activity[a].state = "closed" \/ activity[a].failure # <<>>
                              /\ r.outputs => /\ r.attempts = activity[a].attempt
                                              /\ Range(activity[a].failure) \subseteq Range(r.errors)
                    /\ \A c \in Children : child[c] # "none" =>
                          /\ \E r \in Range(Records) : r.of = c
                          /\ RecordOf(c).ended <=> child[c] = "closed"
                          /\ RecordOf(c).errors = failed[c]
  BY DEF TerminalDataIsComplete
<1> DEFINE n == Len(history)
<1>1. position = n /\ builder = Built(history, n) /\ ~open
  BY DEF Inv, Result, Reading
<1>2. n \in Nat /\ DOMAIN history = 1 .. n
  <2>1. history \in Seq(Events)
    BY WorldTypes DEF Inv
  <2> QED
    BY <2>1
<1>3. /\ Structure(builder, history, n) /\ Sound(builder, activity, child, failed)
      /\ Full(builder, activity, child, failed) /\ WorkflowFull(builder, history, FALSE)
  <2>1. n \in 0 .. n
    BY <1>2
  <2>2. /\ Structure(builder, history, n) /\ Sound(builder, activity, child, failed)
        /\ Full(builder, activity, child, failed) /\ WorkflowFull(builder, history, open)
    BY <1>1, <2>1 DEF Inv, World, Consistent
  <2> QED
    BY <1>1, <2>2 DEF WorkflowFull
<1>4. Kept(builder, activity, child, failed)
  BY <1>3 DEF Kept, Structure, ActivityStructure, ChildStructure
<1>5. HistoryOK(history, activity, child)
  BY WorldTypes DEF Inv
<1> HIDE DEF n
<1>6. ASSUME NEW a \in Activities, activity[a].state # "none"
      PROVE  /\ \E s \in Range(Records) : s.of = a
             /\ activity[a].state = "closed" => RecordOf(a).ended
             /\ RecordOf(a).ended => activity[a].state = "closed" \/ activity[a].failure # <<>>
             /\ RecordOf(a).outputs =>
                   /\ RecordOf(a).attempts = activity[a].attempt
                   /\ Range(activity[a].failure) \subseteq Range(RecordOf(a).errors)
  <2>1. PICK k \in 1 .. n : Starts(history, k, a)
    BY <1>2, <1>5, <1>6 DEF HistoryOK
  <2> DEFINE i == builder.activityByEvent[k]
             r == builder.activities[i]
  <2>2. i \in DOMAIN builder.activities /\ r.of = a
    BY <1>3, <2>1 DEF Structure, ActivityStructure, Starts
  <2>3. r \in Range(Records) /\ RecordOf(a) = r
    BY <1>4, <2>2, ActivityRecordOf
  <2>4. ActivitySound(r, activity[a], failed[a]) /\ ActivityFull(r, activity[a])
    BY <1>3, <2>2 DEF Sound, Full
  <2> HIDE DEF r, i
  <2> QED
    BY <2>2, <2>3, <2>4 DEF ActivitySound, ActivityFull
<1>7. ASSUME NEW c \in Children, child[c] # "none"
      PROVE  /\ \E r \in Range(Records) : r.of = c
             /\ RecordOf(c).ended <=> child[c] = "closed"
             /\ RecordOf(c).errors = failed[c]
  <2>1. PICK k \in 1 .. n : Starts(history, k, c)
    BY <1>2, <1>5, <1>7 DEF HistoryOK
  <2> DEFINE i == builder.childByEvent[k]
             r == builder.children[i]
  <2>2. i \in DOMAIN builder.children /\ r.of = c
    BY <1>3, <2>1 DEF Structure, ChildStructure, Starts
  <2>3. r \in Range(Records) /\ RecordOf(c) = r
    BY <1>4, <2>2, ChildRecordOf
  <2>4. ChildSound(r, child[c], failed[c]) /\ ChildFull(r, child[c], failed[c])
    BY <1>3, <2>2 DEF Sound, Full
  <2> HIDE DEF r, i
  <2> QED
    BY <2>2, <2>3, <2>4 DEF ChildSound, ChildFull
<1>8. builder.inputs /\ builder.errors = history[Len(history)].messages
  BY <1>3 DEF WorkflowFull
<1> QED
  BY <1>1, <1>6, <1>7, <1>8 DEF n

(* "Without duplicating items already in history": an activity or child    *)
(* has one record, and what Describe calls pending has one, unless an id   *)
(* is used for two items.                                                  *)
THEOREM RecordsAreUnique ==
    ASSUME OwnIDs
    PROVE  Spec => []OneRecordEach
<1>1. Inv => OneRecordEach
  BY InvOneRecordEach
<1> QED
  BY <1>1, BuilderInvariant, PTL

(* A pending activity is shown paused exactly if it is and with its latest *)
(* failure, however much later than the history Describe is asked.         *)
THEOREM PendingIsShown ==
    ASSUME OwnIDs
    PROVE  Spec => []PendingIsCurrent
<1>1. Inv => PendingIsCurrent
  BY InvPendingIsCurrent
<1> QED
  BY <1>1, BuilderInvariant, PTL

(* A failure that the failed event, the next started event and Describe    *)
(* all carry is recorded no more often than it happened.                   *)
THEOREM ErrorsAreOfFailures ==
    ASSUME OwnIDs
    PROVE  Spec => []ErrorsHappened
<1>1. Inv => ErrorsHappened
  BY InvErrorsHappened
<1> QED
  BY <1>1, BuilderInvariant, PTL

(* The data of an execution that was closed when its history was first     *)
(* asked for is complete, whatever ids its activities have.                *)
THEOREM TerminalData == Spec => []TerminalDataIsComplete
<1>1. Inv => TerminalDataIsComplete
  BY InvTerminalDataIsComplete
<1> QED
  BY <1>1, BuilderInvariant, PTL
=============================================================================
