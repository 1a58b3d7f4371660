------------------------- MODULE ParkingStore_proofs -------------------------
(***************************************************************************)
(* Lemmas about the operators of ParkingStore, for any records and any     *)
(* calendar: the numbers of a finite set and their ranks, the lists that   *)
(* hold them in their order, the pages of the exports, and what an import  *)
(* does to the rows. The proofs about the modules that use the store rest  *)
(* on them.                                                                *)
(***************************************************************************)
EXTENDS ParkingStore, FiniteSetTheorems, FunctionTheorems, SequenceTheorems,
        WellFoundedInduction, TLAPS

-----------------------------------------------------------------------------
(* Finite sets of numbers, and the rank of an element                      *)

\* A set of naturals that is not empty has a least element: the intervals up to its
\* elements are finite sets, which strict inclusion orders well.
LEMMA NatMin ==
    ASSUME NEW T, T \subseteq Nat, T # {}
    PROVE  \E n \in T : \A m \in T : n <= m
<1> DEFINE U == {0 .. n : n \in T}
           R == StrictSubsetOrdering(Nat)
<1>1. U \subseteq FiniteSubsetsOf(Nat) /\ U # {}
    <2>1. \A n \in T : 0 .. n \subseteq Nat /\ IsFiniteSet(0 .. n)
        BY FS_Interval
    <2> QED
        BY <2>1 DEF FiniteSubsetsOf
<1>2. IsWellFoundedOn(R, FiniteSubsetsOf(Nat))
    BY FS_StrictSubsetOrderingWellFounded
<1>3. PICK u \in U : \A y \in U : ~(<<y, u>> \in R)
    <2> HIDE DEF U, R
    <2> QED
        BY <1>1, <1>2, WFMin
<1>4. PICK n \in T : u = 0 .. n
    OBVIOUS
<1>5. ASSUME NEW m \in T
      PROVE  n <= m
    <2>1. SUFFICES ASSUME m < n PROVE FALSE
        BY <1>4
    <2>2. ~(<<0 .. m, 0 .. n>> \in R)
        BY <1>3, <1>4
    <2>3. /\ 0 .. m \subseteq 0 .. n /\ 0 .. m \subseteq Nat /\ 0 .. n \subseteq Nat
          /\ n \in 0 .. n /\ n \notin 0 .. m
        BY <2>1
    <2> QED
        BY <2>2, <2>3 DEF StrictSubsetOrdering
<1> QED
    BY <1>5

\* A part of a finite set has no more elements, and fewer if it is not all of it.
LEMMA PartCounts ==
    ASSUME NEW S, IsFiniteSet(S), NEW T, T \subseteq S
    PROVE  /\ Cardinality(S) \in Nat /\ Cardinality(T) \in Nat
           /\ Cardinality(T) <= Cardinality(S)
           /\ T # S => Cardinality(T) < Cardinality(S)
<1>1. /\ IsFiniteSet(T) /\ Cardinality(T) <= Cardinality(S)
      /\ Cardinality(S) = Cardinality(T) => S = T
    BY FS_Subset
<1>2. Cardinality(S) \in Nat /\ Cardinality(T) \in Nat
    BY <1>1, FS_CardinalityType
<1> QED
    BY <1>1, <1>2

\* Max is the greatest element of a finite set of naturals: the one that has the
\* fewest above it.
LEMMA MaxOfFinite ==
    ASSUME NEW S, S \subseteq Nat, S # {}, IsFiniteSet(S)
    PROVE  Max(S) \in S /\ \A x \in S : x <= Max(S)
<1> DEFINE Above(x) == {d \in S : x < d}
           T == {Cardinality(Above(x)) : x \in S}
<1>1. T \subseteq Nat /\ T # {}
    <2>1. \A x \in S : Cardinality(Above(x)) \in Nat
        BY PartCounts
    <2> QED
        BY <2>1
<1>2. PICK x \in S : \A y \in S : Cardinality(Above(x)) <= Cardinality(Above(y))
    <2>1. PICK n \in T : \A m \in T : n <= m
        <3> HIDE DEF T
        <3> QED
            BY <1>1, NatMin
    <2> QED
        BY <2>1
<1>3. ASSUME NEW y \in S, x < y
      PROVE  FALSE
    <2>1. Above(y) \subseteq Above(x) /\ y \in Above(x) /\ y \notin Above(y)
        <3>1. x \in Nat /\ y \in Nat /\ ~(y < y)
            OBVIOUS
        <3>2. ASSUME NEW d \in S, y < d
              PROVE  x < d
            <4>1. d \in Nat
                OBVIOUS
            <4> QED
                BY <1>3, <3>1, <3>2, <4>1
        <3> QED
            BY <1>3, <3>1, <3>2
    <2>2. IsFiniteSet(Above(x))
        BY FS_Subset
    <2>3. Cardinality(Above(y)) < Cardinality(Above(x))
        <3> HIDE DEF Above
        <3> QED
            BY <2>1, <2>2, PartCounts
    <2>4. Cardinality(Above(y)) \in Nat /\ Cardinality(Above(x)) \in Nat
        BY PartCounts
    <2>5. Cardinality(Above(x)) <= Cardinality(Above(y))
        BY <1>2
    <2> HIDE DEF Above
    <2> QED
        BY <2>3, <2>4, <2>5
<1>4. \E m \in S : \A y \in S : m >= y
    BY <1>3
<1> QED
    BY <1>4 DEF Max

NoRepeats(s) == \A i, j \in DOMAIN s : i # j => s[i] # s[j]

\* The ranks of the numbers in a finite set: below their number, in their order, and
\* without gaps.
LEMMA NumberRanks ==
    ASSUME NEW rs, rs \subseteq Nat, IsFiniteSet(rs)
    PROVE  /\ Cardinality(rs) \in Nat
           /\ \A r \in rs : NumberRank(rs, r) \in Nat /\ NumberRank(rs, r) < Cardinality(rs)
           /\ \A q, r \in rs : q < r => NumberRank(rs, q) < NumberRank(rs, r)
           /\ \A k \in Nat : k < Cardinality(rs) => \E r \in rs : NumberRank(rs, r) = k
<1> DEFINE Less(r) == {q \in rs : q < r}
<1>1. /\ Cardinality(rs) \in Nat
      /\ \A r : NumberRank(rs, r) = Cardinality(Less(r))
      /\ \A r : Less(r) \subseteq rs /\ IsFiniteSet(Less(r))
    BY FS_Subset, FS_CardinalityType DEF NumberRank
<1>2. \A r \in rs : NumberRank(rs, r) \in Nat /\ NumberRank(rs, r) < Cardinality(rs)
    <2>1. \A r \in rs : Less(r) # rs
        OBVIOUS
    <2> HIDE DEF Less
    <2> QED
        BY <1>1, <2>1, PartCounts
<1>3. ASSUME NEW q \in rs, NEW r \in rs, q < r
      PROVE  NumberRank(rs, q) < NumberRank(rs, r)
    <2>1. q \in Less(r) /\ q \notin Less(q)
        BY <1>3
    <2>2. Less(q) \subseteq Less(r)
        <3>1. \A p \in rs : p < q => p < r
            BY <1>3
        <3> QED
            BY <3>1
    <2> HIDE DEF Less
    <2> QED
        BY <2>1, <2>2, <1>1, PartCounts
<1>4. \A q, r \in rs : NumberRank(rs, q) = NumberRank(rs, r) => q = r
    <2>1. \A q, r \in rs : q < r \/ r < q \/ q = r
        OBVIOUS
    <2>2. \A r \in rs : ~(NumberRank(rs, r) < NumberRank(rs, r))
        BY <1>2
    <2> QED
        BY <2>1, <2>2, <1>3
<1>5. \* Elements with ranks below k are no more than k.
      ASSUME NEW part, part \subseteq rs, NEW k \in Nat,
             \A r \in part : NumberRank(rs, r) < k
      PROVE  Cardinality(part) <= k
    <2> DEFINE f == [r \in part |-> NumberRank(rs, r)]
    <2>1. f \in Injection(part, 0 .. k - 1)
        <3>1. \A r \in part : NumberRank(rs, r) \in 0 .. k - 1
            BY <1>2, <1>5
        <3>2. \A q, r \in part : f[q] = f[r] => q = r
            BY <1>4, <1>5
        <3>3. f \in [part -> 0 .. k - 1] /\ DOMAIN f = part
            BY <3>1
        <3> HIDE DEF f
        <3> QED
            BY <3>2, <3>3 DEF Injection, IsInjective
    <2>2. IsFiniteSet(0 .. k - 1) /\ Cardinality(0 .. k - 1) = k
        BY FS_Interval
    <2> QED
        BY <2>1, <2>2, FS_Injection
<1>6. ASSUME NEW k \in Nat, k < Cardinality(rs)
      PROVE  \E r \in rs : NumberRank(rs, r) = k
    <2> DEFINE T == {NumberRank(rs, r) : r \in {r \in rs : ~(NumberRank(rs, r) < k)}}
    <2>1. \E r \in rs : ~(NumberRank(rs, r) < k)
        <3>1. SUFFICES ASSUME \A r \in rs : NumberRank(rs, r) < k PROVE FALSE
            OBVIOUS
        <3>2. Cardinality(rs) <= k
            BY <3>1, <1>5
        <3> QED
            BY <3>2, <1>1, <1>6
    <2>2. T \subseteq Nat
        BY <1>2
    <2>3. PICK n \in T : \A m \in T : n <= m
        <3>1. T # {}
            BY <2>1
        <3> HIDE DEF T
        <3> QED
            BY <3>1, <2>2, NatMin
    <2>4. PICK r \in rs : NumberRank(rs, r) = n /\ ~(n < k)
        BY <2>3
    <2>5. \A q \in Less(r) : NumberRank(rs, q) < k
        <3>1. ASSUME NEW q \in Less(r), ~(NumberRank(rs, q) < k)
              PROVE  FALSE
            <4>1. q \in rs /\ NumberRank(rs, q) < n
                BY <3>1, <2>4, <1>3
            <4>2. n <= NumberRank(rs, q)
                BY <4>1, <3>1, <2>3
            <4>3. n \in Nat /\ NumberRank(rs, q) \in Nat
                BY <2>4, <4>1, <1>2
            <4> QED
                BY <4>1, <4>2, <4>3
        <3> QED
            BY <3>1
    <2>6. n <= k
        <3>1. Cardinality(Less(r)) <= k
            BY <2>5, <1>5
        <3> QED
            BY <3>1, <2>4, <1>1
    <2>7. n \in Nat
        BY <2>4, <1>2
    <2> HIDE DEF T
    <2> QED
        BY <2>4, <2>6, <2>7
<1> QED
    BY <1>1, <1>2, <1>3, <1>6

\* InOrder lists each number of a finite set once, in their order.
LEMMA InOrderLists ==
    ASSUME NEW rs, rs \subseteq Nat, IsFiniteSet(rs)
    PROVE  /\ InOrder(rs) \in Seq(rs)
           /\ DOMAIN InOrder(rs) = 1 .. Cardinality(rs) /\ Cardinality(rs) \in Nat
           /\ Range(InOrder(rs)) = rs
           /\ \A i, j \in DOMAIN InOrder(rs) : i < j => InOrder(rs)[i] < InOrder(rs)[j]
           /\ NoRepeats(InOrder(rs))
<1> DEFINE n == Cardinality(rs)
           s == InOrder(rs)
<1>1. n \in Nat
    BY NumberRanks
<1>2. s = [i \in 1 .. n |-> CHOOSE r \in rs : NumberRank(rs, r) = i - 1]
    BY DEF InOrder
<1> HIDE DEF n, s
<1>3. ASSUME NEW i \in 1 .. n
      PROVE  s[i] \in rs /\ NumberRank(rs, s[i]) = i - 1
    <2>1. i - 1 \in Nat /\ i - 1 < Cardinality(rs)
        BY <1>1 DEF n
    <2>2. \E r \in rs : NumberRank(rs, r) = i - 1
        BY <2>1, NumberRanks
    <2> QED
        BY <1>2, <2>2
<1>4. DOMAIN s = 1 .. n
    BY <1>2
<1>5. s \in Seq(rs)
    <2>1. s \in [1 .. n -> rs]
        BY <1>2, <1>3
    <2> QED
        BY <2>1, <1>1, SeqDef
<1>6. ASSUME NEW i \in 1 .. n, NEW j \in 1 .. n, i < j
      PROVE  s[i] < s[j]
    <2>1. /\ s[i] \in rs /\ s[j] \in rs /\ s[i] \in Nat /\ s[j] \in Nat
          /\ NumberRank(rs, s[i]) = i - 1 /\ NumberRank(rs, s[j]) = j - 1
        BY <1>3
    <2>2. s[j] < s[i] => NumberRank(rs, s[j]) < NumberRank(rs, s[i])
        BY <2>1, NumberRanks
    <2>3. ~(s[j] < s[i])
        BY <2>1, <2>2, <1>6
    <2>4. s[i] # s[j]
        BY <2>1, <1>6
    <2> QED
        BY <2>1, <2>3, <2>4
<1>7. ASSUME NEW r \in rs
      PROVE  \E i \in 1 .. n : s[i] = r
    <2>1. NumberRank(rs, r) \in Nat /\ NumberRank(rs, r) < n
        BY NumberRanks DEF n
    <2> DEFINE i == NumberRank(rs, r) + 1
    <2>2. i \in 1 .. n /\ i - 1 = NumberRank(rs, r)
        BY <2>1, <1>1
    <2>3. s[i] \in rs /\ NumberRank(rs, s[i]) = NumberRank(rs, r)
        <3> HIDE DEF i
        <3> QED
            BY <2>2, <1>3
    <2>4. s[i] = r
        <3> HIDE DEF i
        <3>1. s[i] \in Nat /\ r \in Nat
            BY <2>3
        <3>2. s[i] < r => NumberRank(rs, s[i]) < NumberRank(rs, r)
            BY <2>3, NumberRanks
        <3>3. r < s[i] => NumberRank(rs, r) < NumberRank(rs, s[i])
            BY <2>3, NumberRanks
        <3> QED
            BY <3>1, <3>2, <3>3, <2>1, <2>3
    <2> QED
        BY <2>2, <2>4
<1>8. Range(s) = rs
    BY <1>3, <1>4, <1>7 DEF Range
<1>9. NoRepeats(s)
    <2>1. ASSUME NEW i \in 1 .. n, NEW j \in 1 .. n, i # j
          PROVE  s[i] # s[j]
        <3>1. i < j \/ j < i
            BY <2>1
        <3>2. s[i] \in Nat /\ s[j] \in Nat
            BY <1>3
        <3> QED
            BY <3>1, <3>2, <1>6
    <2> QED
        BY <1>4, <2>1 DEF NoRepeats
<1> QED
    BY <1>1, <1>4, <1>5, <1>6, <1>8, <1>9 DEF s, n

-----------------------------------------------------------------------------
(* Lists                                                                   *)

\* The range of a sequence, by its places.
LEMMA RangeOf ==
    ASSUME NEW S, NEW s \in Seq(S)
    PROVE  /\ Range(s) \subseteq S
           /\ \A r : r \in Range(s) <=> \E i \in 1 .. Len(s) : s[i] = r
           /\ DOMAIN s = 1 .. Len(s) /\ Len(s) \in Nat
           /\ \A i \in 1 .. Len(s) : s[i] \in S
BY RangeEquality, RangeOfSeq, LenProperties, ElementOfSeq

\* A sequence that is cut in two.
LEMMA CutLines ==
    ASSUME NEW S, NEW s \in Seq(S), NEW n \in Nat, n <= Len(s)
    PROVE  LET a == SubSeq(s, 1, n)
               b == SubSeq(s, n + 1, Len(s))
           IN  /\ a \in Seq(S) /\ b \in Seq(S)
               /\ Len(b) = Len(s) - n
               /\ \A i \in 1 .. Len(b) : b[i] = s[n + i]
               /\ Range(s) = Range(a) \cup Range(b)
               /\ NoRepeats(s) => NoRepeats(b) /\ Range(a) \cap Range(b) = {}
<1> DEFINE a == SubSeq(s, 1, n)
           b == SubSeq(s, n + 1, Len(s))
<1>1. Len(s) \in Nat /\ DOMAIN s = 1 .. Len(s) /\ \A i \in 1 .. Len(s) : s[i] \in S
    BY RangeOf
<1>2. a \in Seq(S) /\ Len(a) = n /\ \A i \in 1 .. n : a[i] = s[i]
    <2>1. \A i \in 1 .. n : s[i] \in S
        BY <1>1
    <2>2. /\ SubSeq(s, 1, n) \in Seq(S)
          /\ Len(SubSeq(s, 1, n)) = IF 1 <= n THEN n - 1 + 1 ELSE 0
          /\ \A i \in 1 .. n - 1 + 1 : SubSeq(s, 1, n)[i] = s[1 + i - 1]
        BY <2>1, SubSeqProperties
    <2> QED
        BY <2>2
<1>3. /\ b \in Seq(S) /\ Len(b) = Len(s) - n
      /\ \A i \in 1 .. Len(s) - n : b[i] = s[n + i]
    <2>1. \A i \in n + 1 .. Len(s) : s[i] \in S
        BY <1>1
    <2>2. /\ SubSeq(s, n + 1, Len(s)) \in Seq(S)
          /\ Len(SubSeq(s, n + 1, Len(s))) =
                 IF n + 1 <= Len(s) THEN Len(s) - (n + 1) + 1 ELSE 0
          /\ \A i \in 1 .. Len(s) - (n + 1) + 1 :
                 SubSeq(s, n + 1, Len(s))[i] = s[n + 1 + i - 1]
        BY <2>1, <1>1, SubSeqProperties
    <2>3. \A i \in 1 .. Len(s) - n : i \in 1 .. Len(s) - (n + 1) + 1 /\ n + 1 + i - 1 = n + i
        BY <1>1
    <2>4. (IF n + 1 <= Len(s) THEN Len(s) - (n + 1) + 1 ELSE 0) = Len(s) - n
        <3>1. \A m \in Nat : n <= m => (IF n + 1 <= m THEN m - (n + 1) + 1 ELSE 0) = m - n
            OBVIOUS
        <3> QED
            BY <3>1, <1>1
    <2>5. b \in Seq(S) /\ Len(b) = Len(s) - n
        BY <2>2, <2>4
    <2>6. \A i \in 1 .. Len(s) - n : b[i] = s[n + 1 + i - 1]
        BY <2>2, <2>3
    <2> QED
        BY <2>3, <2>5, <2>6
<1> HIDE DEF a, b
<1>4. DOMAIN b = 1 .. Len(s) - n
    BY <1>3, RangeOf
<1>5. \A r : r \in Range(a) <=> \E i \in 1 .. n : s[i] = r
    <2>1. \A r : r \in Range(a) <=> \E i \in 1 .. Len(a) : a[i] = r
        BY <1>2, RangeOf
    <2> QED
        BY <2>1, <1>2
<1>6. \A r : r \in Range(b) <=> \E i \in 1 .. Len(s) : n < i /\ s[i] = r
    <2>1. \A r : r \in Range(b) <=> \E i \in 1 .. Len(b) : b[i] = r
        BY <1>3, RangeOf
    <2>2. \A i \in 1 .. Len(s) - n : n + i \in 1 .. Len(s) /\ n < n + i
        BY <1>1
    <2>3. ASSUME NEW i \in 1 .. Len(s), n < i
          PROVE  i - n \in 1 .. Len(s) - n /\ n + (i - n) = i
        BY <2>3, <1>1
    <2>4. ASSUME NEW i \in 1 .. Len(s), n < i
          PROVE  b[i - n] = s[i]
        BY <2>3, <2>4, <1>3
    <2>5. ASSUME NEW r \in Range(b)
          PROVE  \E i \in 1 .. Len(s) : n < i /\ s[i] = r
        <3>1. PICK i \in 1 .. Len(s) - n : b[i] = r
            BY <2>1, <1>3
        <3>2. s[n + i] = r
            BY <3>1, <1>3
        <3> QED
            BY <3>2, <2>2
    <2> QED
        BY <2>1, <2>3, <2>4, <2>5, <1>3
<1>7. Range(s) = Range(a) \cup Range(b)
    <2>1. \A r : r \in Range(s) <=> \E i \in 1 .. Len(s) : s[i] = r
        BY RangeOf
    <2>2. \A i \in 1 .. Len(s) : i \in 1 .. n \/ n < i
        BY <1>1
    <2>3. \A i \in 1 .. n : i \in 1 .. Len(s)
        BY <1>1
    <2> QED
        BY <2>1, <2>2, <2>3, <1>5, <1>6
<1>8. ASSUME NoRepeats(s)
      PROVE  NoRepeats(b) /\ Range(a) \cap Range(b) = {}
    <2>1. \A i, j \in 1 .. Len(s) : s[i] = s[j] => i = j
        BY <1>1, <1>8 DEF NoRepeats
    <2>2. ASSUME NEW i \in 1 .. Len(s) - n, NEW j \in 1 .. Len(s) - n, i # j
          PROVE  b[i] # b[j]
        <3>1. n + i \in 1 .. Len(s) /\ n + j \in 1 .. Len(s) /\ n + i # n + j
            BY <1>1, <2>2
        <3> QED
            BY <3>1, <2>1, <1>3
    <2>3. Range(a) \cap Range(b) = {}
        <3>1. \A i \in 1 .. n : i \in 1 .. Len(s) /\ ~(n < i)
            BY <1>1
        <3> QED
            BY <3>1, <2>1, <1>5, <1>6
    <2> QED
        BY <2>2, <2>3, <1>4 DEF NoRepeats
<1> QED
    BY <1>2, <1>3, <1>7, <1>8 DEF a, b

\* Two lists of records, one after the other.
LEMMA JoinedLines ==
    ASSUME NEW S, NEW s \in Seq(S), NEW t \in Seq(S)
    PROVE  /\ s \o t \in Seq(S) /\ Len(s \o t) \in Nat
           /\ Range(s \o t) = Range(s) \cup Range(t)
           /\ NoRepeats(s) /\ NoRepeats(t) /\ Range(s) \cap Range(t) = {} => NoRepeats(s \o t)
<1>1. /\ s \o t \in Seq(S) /\ Len(s \o t) \in Nat /\ Len(s \o t) = Len(s) + Len(t)
      /\ Range(s \o t) = Range(s) \cup Range(t)
    BY ConcatProperties, RangeConcatenation, RangeOf
<1>2. ASSUME NoRepeats(s), NoRepeats(t), Range(s) \cap Range(t) = {}
      PROVE  NoRepeats(s \o t)
    <2> DEFINE u == s \o t
    <2>1. /\ \A i \in 1 .. Len(s) : u[i] = s[i] /\ s[i] \in Range(s)
          /\ \A i \in 1 .. Len(t) : t[i] \in Range(t)
          /\ DOMAIN s = 1 .. Len(s) /\ Len(s) \in Nat
          /\ DOMAIN t = 1 .. Len(t) /\ Len(t) \in Nat
          /\ DOMAIN u = 1 .. Len(s) + Len(t)
        BY <1>1, RangeOf, ConcatProperties
    <2>2. ASSUME NEW i \in 1 .. Len(s) + Len(t), ~(i <= Len(s))
          PROVE  u[i] = t[i - Len(s)] /\ i - Len(s) \in 1 .. Len(t)
        BY <2>1, <2>2, ConcatProperties
    <2>3. ASSUME NEW i \in DOMAIN u, NEW j \in DOMAIN u, i # j
          PROVE  u[i] # u[j]
        <3>0. i \in 1 .. Len(s) + Len(t) /\ j \in 1 .. Len(s) + Len(t)
            BY <2>1
        <3>1. CASE i <= Len(s) /\ j <= Len(s)
            <4>1. i \in DOMAIN s /\ j \in DOMAIN s
                BY <3>0, <3>1, <2>1
            <4> QED
                BY <4>1, <2>1, <2>3, <1>2 DEF NoRepeats
        <3>2. CASE ~(i <= Len(s)) /\ ~(j <= Len(s))
            <4>1. i - Len(s) \in DOMAIN t /\ j - Len(s) \in DOMAIN t
                BY <3>0, <3>2, <2>1, <2>2
            <4>2. i - Len(s) # j - Len(s)
                BY <3>0, <2>1, <2>3
            <4> QED
                BY <3>0, <3>2, <4>1, <4>2, <2>2, <1>2 DEF NoRepeats
        <3>3. CASE i <= Len(s) /\ ~(j <= Len(s))
            <4>1. u[i] \in Range(s)
                BY <3>0, <3>3, <2>1
            <4>2. u[j] \in Range(t)
                BY <3>0, <3>3, <2>1, <2>2
            <4> QED
                BY <4>1, <4>2, <1>2
        <3>4. CASE ~(i <= Len(s)) /\ j <= Len(s)
            <4>1. u[j] \in Range(s)
                BY <3>0, <3>4, <2>1
            <4>2. u[i] \in Range(t)
                BY <3>0, <3>4, <2>1, <2>2
            <4> QED
                BY <4>1, <4>2, <1>2
        <3> QED
            BY <3>1, <3>2, <3>3, <3>4
    <2> HIDE DEF u
    <2>4. NoRepeats(u)
        BY <2>3 DEF NoRepeats
    <2> QED
        BY <2>4 DEF u
<1> QED
    BY <1>1, <1>2

-----------------------------------------------------------------------------
(* Records by number                                                       *)

\* Fewer than `limit' records, or those of the least rank: the page of an export
\* leaves out no record up to its next cursor, and none at all if it has none.
LEMMA PageOfRecords ==
    ASSUME NEW store, store.rows \subseteq Records, NEW after \in Nat,
           NEW limit \in Nat \ {0}
    PROVE  LET page == ExportInfringements(store, after, limit)
           IN  /\ page.records \subseteq store.rows
               /\ \A r \in page.records : after < r
               /\ page.nextCursor \in Nat
               /\ page.records = {} => page.nextCursor = 0
               /\ page.nextCursor # 0 =>
                      after <= page.nextCursor /\ \A r \in page.records : r <= page.nextCursor
               /\ page.nextCursor = 0 =>
                      \A r \in store.rows : after < r => r \in page.records
               /\ page.nextCursor # 0 =>
                      \A r \in store.rows :
                          after < r /\ r <= page.nextCursor => r \in page.records
<1> DEFINE later   == {r \in store.rows : r > after}
           Less(r) == {d \in later : d < r}
           page    == {r \in later : Cardinality(Less(r)) < limit}
           next    == IF Cardinality(page) < limit THEN 0 ELSE Max(page)
<1>1. ExportInfringements(store, after, limit) = [records |-> page, nextCursor |-> next]
    BY DEF ExportInfringements, NumberRank
<1>2. IsFiniteSet(later) /\ later \subseteq Nat \ {0}
    BY StoreAssumption, FS_Subset
<1>3. /\ IsFiniteSet(page) /\ page \subseteq later /\ Cardinality(page) \in Nat
      /\ \A r : IsFiniteSet(Less(r)) /\ Cardinality(Less(r)) \in Nat
    <2> HIDE DEF later
    <2>1. \A r : Less(r) \subseteq later
        OBVIOUS
    <2>2. page \subseteq later
        OBVIOUS
    <2> QED
        BY <1>2, <2>1, <2>2, FS_Subset, PartCounts
<1>4. ASSUME Cardinality(page) < limit
      PROVE  later \subseteq page
    <2>1. SUFFICES ASSUME later \ page # {} PROVE FALSE
        OBVIOUS
    <2>2. PICK m \in later \ page : \A r \in later \ page : m <= r
        <3> HIDE DEF later, page
        <3> QED
            BY <2>1, <1>2, NatMin
    <2>3. Less(m) \subseteq page
        <3> HIDE DEF page
        <3> QED
            BY <2>2, <1>2
    <2>4. Cardinality(Less(m)) <= Cardinality(page)
        <3> HIDE DEF page, Less
        <3> QED
            BY <2>3, <1>3, PartCounts
    <2>5. Cardinality(Less(m)) < limit
        <3> HIDE DEF page, Less
        <3> QED
            BY <2>4, <1>3, <1>4
    <2> QED
        BY <2>5, <2>2
<1>5. ASSUME ~(Cardinality(page) < limit)
      PROVE  /\ Max(page) \in page /\ \A r \in page : r <= Max(page)
             /\ \A r \in later : r <= Max(page) => r \in page
    <2>1. page # {}
        <3> HIDE DEF page
        <3> QED
            BY <1>5, FS_EmptySet
    <2>2. Max(page) \in page /\ \A r \in page : r <= Max(page)
        <3> HIDE DEF page
        <3> QED
            BY <1>2, <1>3, <2>1, MaxOfFinite
    <2>3. ASSUME NEW r \in later, r <= Max(page)
          PROVE  r \in page
        <3> DEFINE m == Max(page)
        <3>1. m \in Nat /\ m \in later /\ Cardinality(Less(m)) < limit
            BY <2>2, <1>2
        <3> HIDE DEF m
        <3>2. Less(r) \subseteq Less(m)
            <4>1. r \in Nat /\ r <= m /\ \A d \in later : d \in Nat
                BY <2>3, <1>2 DEF m
            <4>2. \A d \in later : d < r => d < m
                BY <3>1, <4>1
            <4> QED
                BY <4>2
        <3>3. Cardinality(Less(r)) <= Cardinality(Less(m))
            <4> HIDE DEF Less
            <4> QED
                BY <3>2, <1>3, PartCounts
        <3>4. Cardinality(Less(r)) < limit
            <4> HIDE DEF Less
            <4> QED
                BY <3>1, <3>3, <1>3
        <3> QED
            BY <3>4
    <2> QED
        BY <2>2, <2>3
<1>6. page = {} => Cardinality(page) < limit
    <2> HIDE DEF page
    <2> QED
        BY FS_EmptySet
<1>7. next \in Nat /\ (next = 0 <=> Cardinality(page) < limit)
    <2> HIDE DEF page
    <2> QED
        BY <1>2, <1>3, <1>5
<1>8. /\ page \subseteq store.rows
      /\ \A r \in page : after < r
      /\ next # 0 => after <= next /\ \A r \in page : r <= next
      /\ next = 0 => \A r \in store.rows : after < r => r \in page
      /\ next # 0 => \A r \in store.rows : after < r /\ r <= next => r \in page
    <2>1. \A r \in store.rows : after < r => r \in later
        BY StoreAssumption
    <2>2. next # 0 => next = Max(page)
        <3> HIDE DEF page
        <3> QED
            BY <1>7
    <2>3. \A r \in page : r \in Nat /\ after < r
        BY <1>2, <1>3
    <2> HIDE DEF page, next
    <2> QED
        BY <1>3, <1>4, <1>5, <1>7, <2>1, <2>2, <2>3
<1> HIDE DEF page, next, Less, later
<1> QED
    BY <1>1, <1>6, <1>7, <1>8

-----------------------------------------------------------------------------
(* Watermarks by offset                                                    *)

WindowsBefore(marks, w) == {v \in marks : WindowBefore(v, w)}

LEMMA WindowsFinite == IsFiniteSet(Windows)
<1>1. IsFiniteSet(Days)
    BY StoreAssumption, FS_Interval DEF Days
<1>2. IsFiniteSet(Days \X Days)
    BY <1>1, FS_Product
<1> QED
    BY <1>2, FS_Subset DEF Windows

\* The windows are in a linear order.
LEMMA WindowOrder ==
    ASSUME NEW u \in Windows, NEW v \in Windows, NEW w \in Windows
    PROVE  /\ ~WindowBefore(w, w)
           /\ WindowBefore(u, v) /\ WindowBefore(v, w) => WindowBefore(u, w)
           /\ u = v \/ WindowBefore(u, v) \/ WindowBefore(v, u)
<1>1. /\ u[1] \in Int /\ u[2] \in Int /\ v[1] \in Int /\ v[2] \in Int
      /\ w[1] \in Int /\ w[2] \in Int /\ u = <<u[1], u[2]>> /\ v = <<v[1], v[2]>>
    BY DEF Windows, Days
<1>2. u[1] = v[1] /\ u[2] = v[2] => u = v
    BY <1>1
<1> QED
    BY <1>1, <1>2 DEF WindowBefore

\* A rank is below the number of watermarks, no two watermarks have the same one,
\* and what comes before has a smaller one.
LEMMA Ranks ==
    ASSUME NEW marks, marks \subseteq Windows
    PROVE  /\ IsFiniteSet(marks) /\ Cardinality(marks) \in Nat
           /\ \A w \in Windows : WindowRank(marks, w) = Cardinality(WindowsBefore(marks, w))
           /\ \A w \in Windows : WindowRank(marks, w) \in Nat
           /\ \A w \in marks : WindowRank(marks, w) < Cardinality(marks)
           /\ \A v, w \in marks : WindowBefore(v, w) => WindowRank(marks, v) < WindowRank(marks, w)
           /\ \A v, w \in marks : WindowRank(marks, v) = WindowRank(marks, w) => v = w
<1>1. IsFiniteSet(marks) /\ Cardinality(marks) \in Nat
    BY WindowsFinite, FS_Subset, FS_CardinalityType
<1>2. \A w \in Windows : /\ IsFiniteSet(WindowsBefore(marks, w))
                         /\ WindowsBefore(marks, w) \subseteq marks
    BY <1>1, FS_Subset DEF WindowsBefore
<1>3. \A w \in Windows : WindowRank(marks, w) = Cardinality(WindowsBefore(marks, w))
    BY DEF WindowRank, WindowsBefore
<1>4. \A w \in Windows : WindowRank(marks, w) \in Nat
    BY <1>1, <1>2, <1>3, PartCounts
<1>5. \A w \in marks : WindowRank(marks, w) < Cardinality(marks)
    <2>1. \A w \in marks : WindowsBefore(marks, w) # marks
        BY WindowOrder DEF WindowsBefore
    <2> QED
        BY <2>1, <1>1, <1>2, <1>3, PartCounts
<1>6. ASSUME NEW v \in marks, NEW w \in marks, WindowBefore(v, w)
      PROVE  WindowRank(marks, v) < WindowRank(marks, w)
    <2>1. \A u \in WindowsBefore(marks, v) : u \in WindowsBefore(marks, w)
        BY <1>6, WindowOrder DEF WindowsBefore
    <2>2. v \in WindowsBefore(marks, w) /\ v \notin WindowsBefore(marks, v)
        BY <1>6, WindowOrder DEF WindowsBefore
    <2> QED
        BY <2>1, <2>2, <1>2, <1>3, PartCounts
<1>7. ASSUME NEW v \in marks, NEW w \in marks, WindowRank(marks, v) = WindowRank(marks, w)
      PROVE  v = w
    <2>1. WindowRank(marks, v) \in Nat /\ WindowRank(marks, w) \in Nat
        BY <1>4
    <2>2. v = w \/ WindowBefore(v, w) \/ WindowBefore(w, v)
        BY WindowOrder
    <2> QED
        BY <2>1, <2>2, <1>6, <1>7
<1> QED
    BY <1>1, <1>3, <1>4, <1>5, <1>6, <1>7

\* Watermarks with ranks in an interval are no more than it has numbers.
LEMMA RanksCount ==
    ASSUME NEW marks, marks \subseteq Windows, NEW part, part \subseteq marks,
           NEW from \in Nat, NEW to \in Int, from <= to + 1,
           \A w \in part : WindowRank(marks, w) \in from .. to
    PROVE  Cardinality(part) \in Nat /\ Cardinality(part) <= to - from + 1
<1> DEFINE f == [w \in part |-> WindowRank(marks, w)]
<1>1. f \in Injection(part, from .. to)
    BY Ranks DEF Injection, IsInjective
<1>2. /\ IsFiniteSet(from .. to)
      /\ Cardinality(from .. to) = to - from + 1
    BY FS_Interval
<1>3. Cardinality(part) <= Cardinality(from .. to) /\ IsFiniteSet(part)
    BY <1>1, <1>2, FS_Injection
<1> QED
    BY <1>2, <1>3, FS_CardinalityType

\* The ranks have no gaps: below one that is at least k there is k itself.
LEMMA RanksAreDense ==
    ASSUME NEW marks, marks \subseteq Windows, NEW k \in Nat,
           NEW w \in marks, WindowRank(marks, w) >= k
    PROVE  \E v \in marks : WindowRank(marks, v) = k
<1> DEFINE T == {WindowRank(marks, v) : v \in {v \in marks : WindowRank(marks, v) >= k}}
<1>1. T \subseteq Nat /\ T # {}
    BY Ranks
<1>2. PICK n \in T : \A m \in T : n <= m
    <2> HIDE DEF T
    <2> QED
        BY <1>1, NatMin
<1>3. PICK v \in marks : WindowRank(marks, v) = n /\ n >= k /\ n \in Nat
    <2>1. PICK v \in {v \in marks : WindowRank(marks, v) >= k} : WindowRank(marks, v) = n
        BY <1>2
    <2>2. v \in marks /\ v \in Windows /\ WindowRank(marks, v) >= k
        BY <2>1
    <2>3. n \in Nat
        <3> HIDE DEF T
        <3> QED
            BY <1>1, <1>2
    <2> QED
        BY <2>1, <2>2, <2>3
<1>4. ASSUME NEW u \in WindowsBefore(marks, v)
      PROVE  u \in marks /\ WindowRank(marks, u) \in 0 .. k - 1
    <2>1. u \in marks /\ WindowRank(marks, u) < n /\ WindowRank(marks, u) \in Nat
        BY <1>3, <1>4, Ranks DEF WindowsBefore
    <2>2. ~(WindowRank(marks, u) >= k)
        BY <2>1, <1>2, <1>3
    <2> QED
        BY <2>1, <2>2
<1>5. Cardinality(WindowsBefore(marks, v)) <= k - 1 - 0 + 1
    <2>1. WindowsBefore(marks, v) \subseteq marks
        BY DEF WindowsBefore
    <2>2. k - 1 \in Int /\ 0 <= (k - 1) + 1
        OBVIOUS
    <2>3. \A u \in WindowsBefore(marks, v) : WindowRank(marks, u) \in 0 .. k - 1
        BY <1>4
    <2> HIDE DEF T
    <2> QED
        BY <2>1, <2>2, <2>3, RanksCount
<1>6. n <= k
    BY <1>3, <1>5, Ranks
<1> QED
    BY <1>3, <1>6

\* A page of watermarks: those before its next offset that the pages before it
\* did not have are in it, and all of them if it has no next offset.
LEMMA PageOfMarks ==
    ASSUME NEW store, store.marks \subseteq Windows, NEW offset \in Nat,
           NEW limit \in Nat \ {0}
    PROVE  LET page    == ExportWatermarks(store, offset, limit)
               Rank(w) == WindowRank(store.marks, w)
           IN  /\ page.watermarks \subseteq store.marks
               /\ page.nextOffset \in Nat
               /\ page.watermarks = {} => \A w \in store.marks : Rank(w) < offset
               /\ page.nextOffset = 0 =>
                      \A w \in store.marks : Rank(w) < offset \/ w \in page.watermarks
               /\ page.nextOffset # 0 =>
                      \A w \in store.marks :
                          Rank(w) < page.nextOffset => Rank(w) < offset \/ w \in page.watermarks
<1> DEFINE marks == store.marks
           page  == {w \in marks : WindowRank(marks, w) \in offset .. offset + limit - 1}
           next  == offset + Cardinality(page)
<1>1. ExportWatermarks(store, offset, limit) =
          [watermarks |-> page,
           nextOffset |-> IF next >= Cardinality(marks) THEN 0 ELSE next]
    BY DEF ExportWatermarks
<1>2. \A w \in marks : WindowRank(marks, w) \in Nat /\ WindowRank(marks, w) < Cardinality(marks)
    BY Ranks
<1>3. Cardinality(marks) \in Nat
    BY Ranks
<1>4. Cardinality(page) \in Nat /\ Cardinality(page) <= limit
    <2>1. Cardinality(page) \in Nat /\ Cardinality(page) <= (offset + limit - 1) - offset + 1
        <3>1. page \subseteq marks /\ \A w \in page : WindowRank(marks, w) \in offset .. offset + limit - 1
            OBVIOUS
        <3>2. offset + limit - 1 \in Int /\ offset <= (offset + limit - 1) + 1
            OBVIOUS
        <3> HIDE DEF page, marks
        <3>3. marks \subseteq Windows
            BY DEF marks
        <3> QED
            BY <3>1, <3>2, <3>3, RanksCount
    <2> QED
        BY <2>1
<1>5. ASSUME page = {}
      PROVE  \A w \in marks : WindowRank(marks, w) < offset
    <2>1. SUFFICES ASSUME NEW w \in marks, WindowRank(marks, w) >= offset PROVE FALSE
        BY <1>2
    <2>2. PICK v \in marks : WindowRank(marks, v) = offset
        BY <2>1, RanksAreDense
    <2>3. offset \in offset .. offset + limit - 1
        OBVIOUS
    <2> QED
        BY <2>2, <2>3, <1>5
<1>6. ASSUME NEW w \in marks, WindowRank(marks, w) < next
      PROVE  WindowRank(marks, w) < offset \/ w \in page
    <2>1. WindowRank(marks, w) < offset + limit
        <3> HIDE DEF page, marks
        <3> QED
            BY <1>2, <1>4, <1>6
    <2> QED
        BY <2>1, <1>2
<1>7. ASSUME next >= Cardinality(marks), NEW w \in marks
      PROVE  WindowRank(marks, w) < offset \/ w \in page
    <2>1. WindowRank(marks, w) < next
        <3> HIDE DEF page, marks
        <3> QED
            BY <1>2, <1>3, <1>4, <1>7
    <2> QED
        BY <2>1, <1>6
<1>8. ASSUME next = 0, NEW w \in marks
      PROVE  WindowRank(marks, w) < offset \/ w \in page
    <2>1. Cardinality(page) = 0
        <3> HIDE DEF page, marks
        <3> QED
            BY <1>4, <1>8
    <2>2. page = {}
        <3>1. IsFiniteSet(page)
            BY Ranks, FS_Subset
        <3> HIDE DEF page
        <3> QED
            BY <3>1, <2>1, FS_EmptySet
    <2> QED
        BY <2>2, <1>5
<1>9. next \in Nat /\ page \subseteq store.marks
    BY <1>4
<1> HIDE DEF page, next
<1> QED
    BY <1>1, <1>5, <1>6, <1>7, <1>8, <1>9

\* A watermark that is added moves no other to an earlier offset.
LEMMA RanksGrow ==
    ASSUME NEW marks, NEW more, marks \subseteq more, more \subseteq Windows,
           NEW w \in Windows
    PROVE  WindowRank(marks, w) <= WindowRank(more, w)
<1>1. WindowsBefore(marks, w) \subseteq WindowsBefore(more, w)
    BY DEF WindowsBefore
<1>2. IsFiniteSet(WindowsBefore(more, w))
    BY Ranks, FS_Subset DEF WindowsBefore
<1>3. Cardinality(WindowsBefore(marks, w)) <= Cardinality(WindowsBefore(more, w))
    BY <1>1, <1>2, PartCounts
<1> QED
    BY <1>3, Ranks

-----------------------------------------------------------------------------
(* Imports                                                                 *)

\* An import never takes a row from the store.
LEMMA ImportsKeepRows ==
    ASSUME NEW store, "rows" \in DOMAIN store
    PROVE  /\ \A rs : "rows" \in DOMAIN Imported(store, rs)
                      /\ Imported(store, rs).rows = store.rows \cup rs
           /\ \A ws : "rows" \in DOMAIN ImportedWatermarks(store, ws)
                      /\ store.rows \subseteq ImportedWatermarks(store, ws).rows
           /\ \A final \in FinalizedImport(store) :
                  "rows" \in DOMAIN final /\ store.rows \subseteq final.rows
<1>1. ASSUME NEW rs
      PROVE  "rows" \in DOMAIN Imported(store, rs) /\ Imported(store, rs).rows = store.rows \cup rs
    <2> DEFINE stored == [store EXCEPT !.rows = @ \cup rs]
    <2>1. "rows" \in DOMAIN stored /\ stored.rows = store.rows \cup rs
        OBVIOUS
    <2>2. \/ Imported(store, rs) = stored
          \/ \E n : Imported(store, rs) = [stored EXCEPT !.count = n]
        BY DEF Imported, Upserted, Bumped
    <2> HIDE DEF stored
    <2>3. CASE Imported(store, rs) = stored
        BY <2>1, <2>3
    <2>4. ASSUME NEW n, Imported(store, rs) = [stored EXCEPT !.count = n]
          PROVE  "rows" \in DOMAIN Imported(store, rs) /\ Imported(store, rs).rows = store.rows \cup rs
        BY <2>1, <2>4
    <2> QED
        BY <2>2, <2>3, <2>4
<1>2. ASSUME NEW ws
      PROVE  /\ "rows" \in DOMAIN ImportedWatermarks(store, ws)
             /\ store.rows \subseteq ImportedWatermarks(store, ws).rows
    BY DEF ImportedWatermarks
<1>3. ASSUME NEW final \in FinalizedImport(store)
      PROVE  "rows" \in DOMAIN final /\ store.rows \subseteq final.rows
    BY DEF FinalizedImport, Recomputed, Recounted
<1> QED
    BY <1>1, <1>2, <1>3

=============================================================================
