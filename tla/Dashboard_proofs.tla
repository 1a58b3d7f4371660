-------------------------- MODULE Dashboard_proofs --------------------------
(***************************************************************************)
(* Theorems about what the dashboard shows, its figures and its map.       *)
(*                                                                         *)
(* DashboardFigures counts, sums, ranks and pages finite sets of records.  *)
(* What its folds and choices yield is proved by way of the smallest       *)
(* counterexample: the naturals, and the finite subsets of a set, are      *)
(* ordered well.  From these facts about sums, time, order and days follow *)
(* the theorems, each by an inductive invariant: LegacyOK and HccOK for    *)
(* the migration, StoreOK for the table of the latest instances,           *)
(* RefreshOK for the merged snapshot, SeedPanelOK and StorePanelOK for the *)
(* panels of the browser; and for the agreement of the modes all of these  *)
(* with PastOK, that no record is of the future, StoreFiguresOK and        *)
(* SeedPaceOK, what the store and the pace counted.                        *)
(***************************************************************************)
EXTENDS DashboardFigures, LocationCache, FiniteSetTheorems, FunctionTheorems, SequenceTheorems,
        WellFoundedInduction, TLAPS

-----------------------------------------------------------------------------
(* Finite sets, and sums over them                                         *)

\* A set of naturals that is not empty has a least element: the intervals up to its
\* elements are finite sets, which strict inclusion orders well.
LEMMA NatMin ==
    ASSUME NEW T, T \subseteq Nat, T # {}
    PROVE  \E n \in T : \A m \in T : n <= m
<1> DEFINE U == {0 .. n : n \in T}
           R == StrictSubsetOrdering(Nat)
<1>1. U \subseteq FiniteSubsetsOf(Nat) /\ U # {}
    <2>1. \A n \in T : 0 .. n \subseteq Nat /\ IsFiniteSet(0 .. n)
        BY FS_Interval
    <2> QED
        BY <2>1 DEF FiniteSubsetsOf
<1>2. IsWellFoundedOn(R, FiniteSubsetsOf(Nat))
    BY FS_StrictSubsetOrderingWellFounded
<1>3. PICK u \in U : \A y \in U : ~(<<y, u>> \in R)
    <2> HIDE DEF U, R
    <2> QED
        BY <1>1, <1>2, WFMin
<1>4. PICK n \in T : u = 0 .. n
    OBVIOUS
<1>5. ASSUME NEW m \in T
      PROVE  n <= m
    <2>1. SUFFICES ASSUME m < n PROVE FALSE
        BY <1>4
    <2>2. ~(<<0 .. m, 0 .. n>> \in R)
        BY <1>3, <1>4
    <2>3. /\ 0 .. m \subseteq 0 .. n /\ 0 .. m \subseteq Nat /\ 0 .. n \subseteq Nat
          /\ n \in 0 .. n /\ n \notin 0 .. m
        BY <2>1
    <2> QED
        BY <2>2, <2>3 DEF StrictSubsetOrdering
<1> QED
    BY <1>5

\* Induction, with the numbers that a statement holds for as a set.
LEMMA NatSteps ==
    ASSUME NEW T, 0 \in T, \A n \in Nat : n \in T => n + 1 \in T
    PROVE  Nat \subseteq T
<1> DEFINE Left == {n \in Nat : n \notin T}
<1>1. SUFFICES ASSUME Left # {} PROVE FALSE
    OBVIOUS
<1>2. PICK n \in Left : \A m \in Left : n <= m
    BY <1>1, NatMin
<1>3. n # 0 /\ n - 1 \in Nat
    OBVIOUS
<1>4. n - 1 \in T
    BY <1>2, <1>3
<1>5. n - 1 + 1 \in T
    BY <1>3, <1>4
<1> QED
    BY <1>5

\* The same over the parts of a finite set.
LEMMA SetSteps ==
    ASSUME NEW S, IsFiniteSet(S), NEW T, {} \in T,
           \A s \in SUBSET S : s # {} /\ (\A x \in s : s \ {x} \in T) => s \in T
    PROVE  SUBSET S \subseteq T
<1> DEFINE N == {n \in Nat : \A s \in SUBSET S : Cardinality(s) = n => s \in T}
<1>0. \A s \in SUBSET S : IsFiniteSet(s) /\ Cardinality(s) \in Nat
    BY FS_Subset, FS_CardinalityType
<1>1. 0 \in N
    BY <1>0, FS_EmptySet
<1>2. ASSUME NEW n \in Nat, n \in N
      PROVE  n + 1 \in N
    <2>1. ASSUME NEW s \in SUBSET S, Cardinality(s) = n + 1
          PROVE  s \in T
        <3>1. s # {}
            <4>1. Cardinality({}) = 0 /\ n + 1 # 0
                BY FS_EmptySet
            <4> QED
                BY <2>1, <4>1
        <3>2. ASSUME NEW x \in s
              PROVE  s \ {x} \in T
            <4>1. Cardinality(s \ {x}) = n
                BY <1>0, <2>1, FS_RemoveElement
            <4> QED
                BY <1>2, <4>1
        <3> QED
            BY <3>1, <3>2
    <2> QED
        BY <2>1
<1>3. Nat \subseteq N
    <2> HIDE DEF N
    <2> QED
        BY <1>1, <1>2, NatSteps
<1> QED
    BY <1>0, <1>3

\* Disjoint sets are counted together.
LEMMA UnionCounts ==
    ASSUME NEW S, IsFiniteSet(S), NEW T, IsFiniteSet(T), S \cap T = {}
    PROVE  IsFiniteSet(S \cup T) /\ Cardinality(S \cup T) = Cardinality(S) + Cardinality(T)
<1>1. /\ IsFiniteSet(S \cup T)
      /\ Cardinality(S \cup T) = Cardinality(S) + Cardinality(T) - Cardinality(S \cap T)
    BY FS_Union
<1>2. Cardinality(S \cap T) = 0 /\ Cardinality(S) \in Nat /\ Cardinality(T) \in Nat
    BY FS_EmptySet, FS_CardinalityType
<1> QED
    BY <1>1, <1>2

\* The element that a fold takes next.
Some(s) == CHOOSE x \in s : TRUE

\* A sum over some elements, by its recursive definition.
SumFrom(h, f, s) == IF s = {} THEN 0 ELSE h[Some(s)] + f[s \ {Some(s)}]

LEMMA SumExists ==
    ASSUME NEW S, IsFiniteSet(S), NEW h
    PROVE  \E f : f = [s \in SUBSET S |-> SumFrom(h, f, s)]
<1> DEFINE UpTo(n) == {s \in SUBSET S : Cardinality(s) <= n}
           N == {n \in Nat : \E f : f = [s \in UpTo(n) |-> SumFrom(h, f, s)]}
<1>0. \A s \in SUBSET S : IsFiniteSet(s) /\ Cardinality(s) \in Nat /\ (Cardinality(s) = 0 <=> s = {})
    BY FS_Subset, FS_CardinalityType, FS_EmptySet
<1>1. 0 \in N
    <2> DEFINE f == [s \in UpTo(0) |-> 0]
    <2>1. f = [s \in UpTo(0) |-> SumFrom(h, f, s)]
        BY <1>0 DEF SumFrom
    <2> QED
        BY <2>1
<1>2. ASSUME NEW n \in Nat, n \in N
      PROVE  n + 1 \in N
    <2>1. PICK f : f = [s \in UpTo(n) |-> SumFrom(h, f, s)]
        BY <1>2
    <2> DEFINE g == [s \in UpTo(n + 1) |-> SumFrom(h, f, s)]
    <2>2. ASSUME NEW s \in UpTo(n + 1)
          PROVE  g[s] = SumFrom(h, g, s)
        <3>1. CASE s = {}
            BY <3>1 DEF SumFrom
        <3>2. CASE s # {}
            <4>1. Some(s) \in s
                BY <3>2 DEF Some
            <4>2. Cardinality(s \ {Some(s)}) = Cardinality(s) - 1
                BY <1>0, <4>1, FS_RemoveElement
            <4> DEFINE t == s \ {Some(s)}
            <4>3. t \in UpTo(n) /\ t \in UpTo(n + 1)
                BY <1>0, <4>2
            <4>4. f[t] = SumFrom(h, f, t)
                <5> HIDE DEF t, UpTo
                <5> QED
                    BY <2>1, <4>3
            <4>5. g[t] = SumFrom(h, f, t)
                BY <4>3
            <4> QED
                BY <3>2, <4>4, <4>5 DEF SumFrom
        <3> QED
            BY <3>1, <3>2
    <2>3. g = [s \in UpTo(n + 1) |-> SumFrom(h, g, s)]
        <3> DEFINE k == [s \in UpTo(n + 1) |-> SumFrom(h, g, s)]
        <3>1. DOMAIN g = DOMAIN k /\ \A s \in DOMAIN g : g[s] = k[s]
            BY <2>2
        <3> QED
            BY <3>1
    <2> HIDE DEF g, UpTo
    <2> QED
        BY <2>3
<1>3. Nat \subseteq N
    <2> HIDE DEF N
    <2> QED
        BY <1>1, <1>2, NatSteps
<1>4. SUBSET S = UpTo(Cardinality(S)) /\ Cardinality(S) \in Nat
    BY <1>0, FS_Subset
<1> HIDE DEF UpTo
<1> QED
    BY <1>3, <1>4

SumOf(h, S) == CHOOSE f : f = [s \in SUBSET S |-> SumFrom(h, f, s)]

LEMMA SumRecursion ==
    ASSUME NEW S, IsFiniteSet(S), NEW h
    PROVE  SumOf(h, S) = [s \in SUBSET S |-> SumFrom(h, SumOf(h, S), s)]
BY SumExists DEF SumOf

\* h says of each element how many of C belong to it.
AreSizes(h, S, C, g) == \A x \in S : h[x] = Cardinality({c \in C : g[c] = x})

\* A sum of counts is a count.
LEMMA SumCounts ==
    ASSUME NEW S, IsFiniteSet(S), NEW C, IsFiniteSet(C), NEW g, NEW h, AreSizes(h, S, C, g)
    PROVE  SumOf(h, S)[S] = Cardinality({c \in C : g[c] \in S})
<1> DEFINE f == SumOf(h, S)
           Of(s) == {c \in C : g[c] \in s}
           T == {s \in SUBSET S : f[s] = Cardinality(Of(s))}
<1>0. \A s : IsFiniteSet(Of(s)) /\ Cardinality(Of(s)) \in Nat
    BY FS_Subset, FS_CardinalityType
<1>. f = [s \in SUBSET S |-> SumFrom(h, f, s)]
    BY SumRecursion
<1> HIDE DEF f
<1>1. {} \in T
    BY FS_EmptySet DEF SumFrom
<1>2. ASSUME NEW s \in SUBSET S, s # {}, s \ {Some(s)} \in T
      PROVE  s \in T
    <2> DEFINE x == Some(s)
    <2>1. x \in s /\ x \in S
        BY <1>2 DEF Some
    <2>2. f[s] = h[x] + Cardinality(Of(s \ {x}))
        BY <1>2 DEF SumFrom
    <2>3. h[x] = Cardinality(Of({x}))
        <3>1. Of({x}) = {c \in C : g[c] = x}
            OBVIOUS
        <3> QED
            BY <2>1, <3>1 DEF AreSizes
    <2>4. Of(s) = Of({x}) \cup Of(s \ {x}) /\ Of({x}) \cap Of(s \ {x}) = {}
        BY <2>1
    <2>5. Cardinality(Of(s)) = Cardinality(Of({x})) + Cardinality(Of(s \ {x}))
        BY <1>0, <2>4, UnionCounts
    <2> QED
        BY <2>2, <2>3, <2>5
<1>3. SUBSET S \subseteq T
    <2>1. ASSUME NEW s \in SUBSET S, s # {}, \A x \in s : s \ {x} \in T
          PROVE  s \in T
        BY <1>2, <2>1 DEF Some
    <2> HIDE DEF T
    <2> QED
        BY <1>1, <2>1, SetSteps
<1> QED
    BY <1>3 DEF f

\* What the loop over the summaries has after some of them, by its recursive definition.
MergeFrom(part, none, f, s) ==
    IF s = {} THEN none ELSE AddFunctions(f[s \ {Some(s)}], sums[Some(s)][part])

LEMMA MergeExists ==
    ASSUME NEW S, IsFiniteSet(S), NEW part, NEW none
    PROVE  \E f : f = [s \in SUBSET S |-> MergeFrom(part, none, f, s)]
<1> DEFINE UpTo(n) == {s \in SUBSET S : Cardinality(s) <= n}
           N == {n \in Nat : \E f : f = [s \in UpTo(n) |-> MergeFrom(part, none, f, s)]}
<1>0. \A s \in SUBSET S : IsFiniteSet(s) /\ Cardinality(s) \in Nat /\ (Cardinality(s) = 0 <=> s = {})
    BY FS_Subset, FS_CardinalityType, FS_EmptySet
<1>1. 0 \in N
    <2> DEFINE f == [s \in UpTo(0) |-> none]
    <2>1. f = [s \in UpTo(0) |-> MergeFrom(part, none, f, s)]
        BY <1>0 DEF MergeFrom
    <2> QED
        BY <2>1
<1>2. ASSUME NEW n \in Nat, n \in N
      PROVE  n + 1 \in N
    <2>1. PICK f : f = [s \in UpTo(n) |-> MergeFrom(part, none, f, s)]
        BY <1>2
    <2> DEFINE g == [s \in UpTo(n + 1) |-> MergeFrom(part, none, f, s)]
    <2>2. ASSUME NEW s \in UpTo(n + 1)
          PROVE  g[s] = MergeFrom(part, none, g, s)
        <3>1. CASE s = {}
            BY <3>1 DEF MergeFrom
        <3>2. CASE s # {}
            <4>1. Some(s) \in s
                BY <3>2 DEF Some
            <4>2. Cardinality(s \ {Some(s)}) = Cardinality(s) - 1
                BY <1>0, <4>1, FS_RemoveElement
            <4> DEFINE t == s \ {Some(s)}
            <4>3. t \in UpTo(n) /\ t \in UpTo(n + 1)
                BY <1>0, <4>2
            <4>4. f[t] = MergeFrom(part, none, f, t)
                <5> HIDE DEF t, UpTo
                <5> QED
                    BY <2>1, <4>3
            <4>5. g[t] = MergeFrom(part, none, f, t)
                BY <4>3
            <4> QED
                BY <3>2, <4>4, <4>5 DEF MergeFrom
        <3> QED
            BY <3>1, <3>2
    <2>3. g = [s \in UpTo(n + 1) |-> MergeFrom(part, none, g, s)]
        <3> DEFINE k == [s \in UpTo(n + 1) |-> MergeFrom(part, none, g, s)]
        <3>1. DOMAIN g = DOMAIN k /\ \A s \in DOMAIN g : g[s] = k[s]
            BY <2>2
        <3> QED
            BY <3>1
    <2> HIDE DEF g, UpTo
    <2> QED
        BY <2>3
<1>3. Nat \subseteq N
    <2> HIDE DEF N
    <2> QED
        BY <1>1, <1>2, NatSteps
<1>4. SUBSET S = UpTo(Cardinality(S)) /\ Cardinality(S) \in Nat
    BY <1>0, FS_Subset
<1> HIDE DEF UpTo
<1> QED
    BY <1>3, <1>4

MergeOf(part, none, S) == CHOOSE f : f = [s \in SUBSET S |-> MergeFrom(part, none, f, s)]

LEMMA MergeRecursion ==
    ASSUME NEW S, IsFiniteSet(S), NEW part, NEW none
    PROVE  \A s \in SUBSET S :
               MergeOf(part, none, S)[s] = MergeFrom(part, none, MergeOf(part, none, S), s)
<1>1. MergeOf(part, none, S) =
          [s \in SUBSET S |-> MergeFrom(part, none, MergeOf(part, none, S), s)]
    BY MergeExists DEF MergeOf
<1> QED
    BY <1>1

\* What is merged are counts too.  C holds pairs, whose first part is the index of a
\* summary; M says what each counts for; the i-th summary counts for the labels D[i].
IsFun(f) == f = [x \in DOMAIN f |-> f[x]]

CountedOf(C, M, s, x) == Cardinality({c \in C : c[1] \in s /\ <<c, x>> \in M})

\* The summaries count the copies of C as M says, the i-th those with its index; and
\* what is merged counts them all.
CountedParts(part, C, M, D, none) ==
    /\ IsFun(none) /\ \A x \in DOMAIN none : none[x] = 0
    /\ \A i \in DOMAIN sums : /\ DOMAIN sums[i][part] = D[i]
                              /\ \A x \in D[i] : sums[i][part][x] = CountedOf(C, M, {i}, x)
    /\ \A c \in C : \A x : <<c, x>> \in M /\ c[1] \in DOMAIN sums => x \in D[c[1]]

CountedWhole(part, C, M, D, none) ==
    LET merged == Merged(part, none)
    IN  /\ IsFun(merged)
        /\ \A x : x \in DOMAIN merged <=> x \in DOMAIN none \/ \E i \in DOMAIN sums : x \in D[i]
        /\ \A x \in DOMAIN merged : merged[x] = CountedOf(C, M, DOMAIN sums, x)

LEMMA MergedCounts ==
    ASSUME IsFiniteSet(DOMAIN sums), NEW part, NEW C, IsFiniteSet(C), NEW M, NEW D, NEW none,
           CountedParts(part, C, M, D, none)
    PROVE  CountedWhole(part, C, M, D, none)
<1>0. /\ IsFun(none) /\ \A x \in DOMAIN none : none[x] = 0
      /\ \A i \in DOMAIN sums : /\ DOMAIN sums[i][part] = D[i]
                                /\ \A x \in D[i] : sums[i][part][x] = CountedOf(C, M, {i}, x)
      /\ \A c \in C : \A x : <<c, x>> \in M /\ c[1] \in DOMAIN sums => x \in D[c[1]]
    BY DEF CountedParts
<1> USE <1>0
<1> DEFINE X == DOMAIN none
           S == DOMAIN sums
           f == MergeOf(part, none, S)
           Dom(s) == X \cup UNION {D[i] : i \in s}
           Of(s, x) == {c \in C : c[1] \in s /\ <<c, x>> \in M}
           Value(s) == [x \in Dom(s) |-> Cardinality(Of(s, x))]
           T == {s \in SUBSET S : f[s] = Value(s)}
<1>1. \A s \in SUBSET S : f[s] = MergeFrom(part, none, f, s)
    BY MergeRecursion
<1>2. Merged(part, none) = f[S]
    BY DEF Merged, FoldSeq, FoldFunction, FoldFunctionOnSet, MapThenFoldSet, MergeOf, MergeFrom, Some
<1> HIDE DEF f
<1>3. {} \in T
    <2>1. f[{}] = none
        BY <1>1 DEF MergeFrom
    <2>2. Dom({}) = X /\ \A x : Of({}, x) = {}
        OBVIOUS
    <2>3. Value({}) = none
        <3> HIDE DEF Dom, Of
        <3>1. \A x : Cardinality(Of({}, x)) = 0
            BY <2>2, FS_EmptySet
        <3> QED
            BY <2>2, <3>1 DEF IsFun
    <2> QED
        BY <2>1, <2>3
<1>4. ASSUME NEW s \in SUBSET S, s # {}, \A x \in s : s \ {x} \in T
      PROVE  s \in T
    <2> DEFINE i == Some(s)
               t == s \ {i}
    <2>1. i \in s /\ i \in S /\ t \in SUBSET S
        BY <1>4 DEF Some
    <2>2. f[s] = AddFunctions(f[t], sums[i][part])
        BY <1>1, <1>4 DEF MergeFrom
    <2>3. f[t] = Value(t)
        BY <1>4, <2>1
    <2>4. /\ DOMAIN sums[i][part] = D[i]
          /\ \A x \in D[i] : sums[i][part][x] = Cardinality(Of({i}, x))
        <3> HIDE DEF i
        <3> QED
            BY <2>1 DEF CountedOf
    <2>5. Dom(s) = Dom(t) \cup D[i]
        BY <2>1
    <2>6. \A x : x \notin Dom(t) => Of(t, x) = {}
        BY <2>1
    <2>7. \A x : x \notin D[i] => Of({i}, x) = {}
        BY <2>1
    <2>8. \A x : /\ IsFiniteSet(Of(t, x)) /\ IsFiniteSet(Of({i}, x))
                 /\ Of(s, x) = Of(t, x) \cup Of({i}, x) /\ Of(t, x) \cap Of({i}, x) = {}
        <3>1. \A x : Of(t, x) \in SUBSET C /\ Of({i}, x) \in SUBSET C
            OBVIOUS
        <3>2. \A x : IsFiniteSet(Of(t, x)) /\ IsFiniteSet(Of({i}, x))
            BY <3>1, FS_Subset
        <3>3. \A x : Of(s, x) = Of(t, x) \cup Of({i}, x) /\ Of(t, x) \cap Of({i}, x) = {}
            BY <2>1
        <3> QED
            BY <3>2, <3>3
    <2> HIDE DEF Of, Dom, i, t
    <2>9. \A x : /\ Cardinality(Of(s, x)) = Cardinality(Of(t, x)) + Cardinality(Of({i}, x))
                 /\ Cardinality(Of(t, x)) \in Nat /\ Cardinality(Of({i}, x)) \in Nat
        BY <2>8, UnionCounts, FS_CardinalityType
    <2>10. \A x \in Dom(s) :
               (IF x \in Dom(t) THEN Cardinality(Of(t, x)) ELSE 0) +
               (IF x \in D[i] THEN Cardinality(Of({i}, x)) ELSE 0) = Cardinality(Of(s, x))
        <3> TAKE x \in Dom(s)
        <3> DEFINE a == Cardinality(Of(t, x))
                   b == Cardinality(Of({i}, x))
        <3>1. (x \notin Dom(t) => a = 0) /\ (x \notin D[i] => b = 0)
            BY <2>6, <2>7, FS_EmptySet
        <3>2. Cardinality(Of(s, x)) = a + b /\ a \in Nat /\ b \in Nat
            BY <2>9
        <3> HIDE DEF a, b
        <3>3. (IF x \in Dom(t) THEN a ELSE 0) + (IF x \in D[i] THEN b ELSE 0) = a + b
            BY <3>1, <3>2
        <3> QED
            BY <3>2, <3>3 DEF a, b
    <2>11. AddFunctions(Value(t), sums[i][part]) = Value(s)
        <3>1. DOMAIN Value(t) = Dom(t) /\ DOMAIN sums[i][part] = D[i]
            BY <2>4
        <3>2. \A x \in Dom(t) : Value(t)[x] = Cardinality(Of(t, x))
            OBVIOUS
        <3>3. \A x \in D[i] : sums[i][part][x] = Cardinality(Of({i}, x))
            BY <2>4
        <3> HIDE DEF Value
        <3>4. AddFunctions(Value(t), sums[i][part]) = [x \in Dom(s) |-> Cardinality(Of(s, x))]
            BY <2>5, <2>10, <3>1, <3>2, <3>3 DEF AddFunctions
        <3> QED
            BY <3>4 DEF Value
    <2> QED
        BY <2>2, <2>3, <2>11
<1>5. SUBSET S \subseteq T
    <2>1. \A s \in SUBSET S : s # {} /\ (\A x \in s : s \ {x} \in T) => s \in T
        BY <1>4
    <2>2. IsFiniteSet(S)
        OBVIOUS
    <2> HIDE DEF T, S
    <2> QED
        BY <1>3, <2>1, <2>2, SetSteps
<1>6. Merged(part, none) = Value(S)
    BY <1>2, <1>5
<1>7. \A x : Cardinality(Of(S, x)) = CountedOf(C, M, DOMAIN sums, x)
    BY DEF CountedOf
<1>8. \A x : x \in Dom(S) <=> x \in X \/ \E i \in S : x \in D[i]
    OBVIOUS
<1>9. /\ IsFun(Value(S)) /\ DOMAIN Value(S) = Dom(S)
      /\ \A x \in Dom(S) : Value(S)[x] = CountedOf(C, M, DOMAIN sums, x)
    <2> HIDE DEF Of, Dom, S
    <2> QED
        BY <1>7 DEF IsFun
<1> HIDE DEF Value, Dom, Of
<1> QED
    BY <1>6, <1>8, <1>9 DEF CountedWhole

\* What the sums of the module are.
LEMMA SumsAre ==
    ASSUME NEW h
    PROVE  /\ SumOfSeries(h) = SumOf(h, DOMAIN h)[DOMAIN h]
           /\ Total(h) = SumOf(h, DOMAIN h)[DOMAIN h]
           /\ \A first, last : SumOfDays(h, first, last) =
                  SumOf(h, (first .. last) \cap DOMAIN h)[(first .. last) \cap DOMAIN h]
<1>1. SumOfSeries(h) = SumOf(h, DOMAIN h)[DOMAIN h]
    BY DEF SumOfSeries, FoldSeq, FoldFunction, FoldFunctionOnSet, MapThenFoldSet, SumOf, SumFrom, Some
<1>2. Total(h) = SumOf(h, DOMAIN h)[DOMAIN h]
    BY DEF Total, MapThenSumSet, MapThenFoldSet, SumOf, SumFrom, Some
<1>3. ASSUME NEW first, NEW last
      PROVE  SumOfDays(h, first, last) =
                 SumOf(h, (first .. last) \cap DOMAIN h)[(first .. last) \cap DOMAIN h]
    BY DEF SumOfDays, MapThenSumSet, MapThenFoldSet, SumOf, SumFrom, Some
<1> QED
    BY <1>1, <1>2, <1>3

-----------------------------------------------------------------------------
(* The first of a set                                                      *)

\* A part of a finite set has no more elements, and fewer if it is not all of it.
LEMMA PartCounts ==
    ASSUME NEW S, IsFiniteSet(S), NEW T, T \subseteq S
    PROVE  /\ IsFiniteSet(T) /\ Cardinality(S) \in Nat /\ Cardinality(T) \in Nat
           /\ Cardinality(T) <= Cardinality(S)
           /\ T # S => Cardinality(T) < Cardinality(S)
<1>1. /\ IsFiniteSet(T) /\ Cardinality(T) <= Cardinality(S)
      /\ Cardinality(S) = Cardinality(T) => S = T
    BY FS_Subset
<1>2. Cardinality(S) \in Nat /\ Cardinality(T) \in Nat
    BY <1>1, FS_CardinalityType
<1> QED
    BY <1>1, <1>2

LEMMA LargestElement ==
    ASSUME NEW S, IsFiniteSet(S), S # {}, NEW size, \A x \in S : size[x] \in Int
    PROVE  \E x \in S : \A y \in S : size[x] >= size[y]
<1> DEFINE T == {s \in SUBSET S : s = {} \/ \E x \in s : \A y \in s : size[x] >= size[y]}
<1>1. {} \in T
    OBVIOUS
<1>2. ASSUME NEW s \in SUBSET S, s # {}, \A x \in s : s \ {x} \in T
      PROVE  s \in T
    <2>1. PICK z \in s : TRUE
        BY <1>2
    <2>2. CASE s \ {z} = {}
        <3>1. \A y \in s : y = z
            BY <2>2
        <3>2. \A y \in s : size[z] >= size[y]
            BY <3>1
        <3> QED
            BY <3>2
    <2>3. CASE s \ {z} # {}
        <3>1. PICK x \in s \ {z} : \A y \in s \ {z} : size[x] >= size[y]
            BY <1>2, <2>3
        <3>2. size[x] \in Int /\ size[z] \in Int /\ \A y \in s : size[y] \in Int
            OBVIOUS
        <3>3. CASE size[x] >= size[z]
            <4>1. \A y \in s : size[x] >= size[y]
                BY <3>1, <3>3
            <4> QED
                BY <4>1
        <3>4. CASE size[z] >= size[x]
            <4>1. \A y \in s : size[z] >= size[y]
                BY <3>1, <3>2, <3>4
            <4> QED
                BY <4>1
        <3> QED
            BY <3>2, <3>3, <3>4
    <2> QED
        BY <2>2, <2>3
<1>3. SUBSET S \subseteq T
    <2>1. \A s \in SUBSET S : s # {} /\ (\A x \in s : s \ {x} \in T) => s \in T
        BY <1>2
    <2> HIDE DEF T
    <2> QED
        BY <1>1, <2>1, SetSteps
<1> QED
    BY <1>3

\* Some k of a set, none of them smaller than one that is left out.
AreFirst(s, S, k, size) ==
    /\ s \subseteq S /\ Cardinality(s) = k
    /\ \A x \in s, y \in S \ s : size[x] >= size[y]

LEMMA FirstExist ==
    ASSUME NEW S, IsFiniteSet(S), NEW size, \A x \in S : size[x] \in Int, NEW k \in 0 .. Cardinality(S)
    PROVE  \E s : AreFirst(s, S, k, size)
<1> DEFINE N == {n \in Nat : n <= Cardinality(S) => \E s : AreFirst(s, S, n, size)}
<1>0. Cardinality(S) \in Nat
    BY FS_CardinalityType
<1>1. 0 \in N
    <2>1. AreFirst({}, S, 0, size)
        BY FS_EmptySet DEF AreFirst
    <2> QED
        BY <2>1
<1>2. ASSUME NEW n \in Nat, n \in N
      PROVE  n + 1 \in N
    <2>1. SUFFICES ASSUME n + 1 <= Cardinality(S) PROVE \E s : AreFirst(s, S, n + 1, size)
        OBVIOUS
    <2>2. PICK s : AreFirst(s, S, n, size)
        BY <1>0, <1>2, <2>1
    <2>3. s \subseteq S /\ IsFiniteSet(s) /\ IsFiniteSet(S \ s) /\ Cardinality(s) = n
        BY <2>2, PartCounts DEF AreFirst
    <2>4. S \ s # {}
        <3>1. s # S
            BY <1>0, <2>1, <2>3
        <3> QED
            BY <2>3, <3>1
    <2>5. PICK x \in S \ s : \A y \in S \ s : size[x] >= size[y]
        BY <2>3, <2>4, LargestElement
    <2>6. Cardinality(s \cup {x}) = n + 1
        BY <2>3, FS_AddElement
    <2>7. AreFirst(s \cup {x}, S, n + 1, size)
        BY <2>2, <2>3, <2>5, <2>6 DEF AreFirst
    <2> QED
        BY <2>7
<1>3. Nat \subseteq N
    <2> HIDE DEF N
    <2> QED
        BY <1>1, <1>2, NatSteps
<1> QED
    BY <1>0, <1>3

\* FirstN takes such elements, as many as it may.
LEMMA FirstNIsFirst ==
    ASSUME NEW S, IsFiniteSet(S), NEW size, \A x \in S : size[x] \in Int, NEW n \in Nat
    PROVE  AreFirst(FirstN(S, n, size), S, IF n < Cardinality(S) THEN n ELSE Cardinality(S), size)
<1> DEFINE k == IF n < Cardinality(S) THEN n ELSE Cardinality(S)
<1>1. k \in 0 .. Cardinality(S)
    BY FS_CardinalityType
<1> HIDE DEF k
<1>2. PICK s : AreFirst(s, S, k, size)
    BY <1>1, FirstExist
<1>3. /\ s \in kSubset(k, S)
      /\ \A x \in s, y \in S \ s : size[x] >= size[y]
    BY <1>2 DEF AreFirst, kSubset
<1>4. FirstN(S, n, size) = CHOOSE t \in kSubset(k, S) : \A x \in t, y \in S \ t : size[x] >= size[y]
    BY DEF FirstN, k
<1>5. /\ FirstN(S, n, size) \in kSubset(k, S)
      /\ \A x \in FirstN(S, n, size), y \in S \ FirstN(S, n, size) : size[x] >= size[y]
    BY <1>3, <1>4
<1> QED
    BY <1>5 DEF AreFirst, kSubset, k

OfSize(s, size, v) == {x \in s : size[x] = v}

\* Whichever they are, each size occurs as often.
LEMMA FirstHaveSameSizes ==
    ASSUME NEW S, IsFiniteSet(S), NEW size, \A x \in S : size[x] \in Int, NEW k,
           NEW s, AreFirst(s, S, k, size), NEW t, AreFirst(t, S, k, size), NEW v
    PROVE  Cardinality(OfSize(s, size, v)) = Cardinality(OfSize(t, size, v))
<1> DEFINE With(u) == {x \in u : size[x] = v}
           both == s \cap t
<1>1. /\ s \subseteq S /\ t \subseteq S /\ Cardinality(s) = k /\ Cardinality(t) = k
      /\ \A x \in s, y \in S \ s : size[x] >= size[y]
      /\ \A x \in t, y \in S \ t : size[x] >= size[y]
    BY DEF AreFirst
<1>2. \A u \in SUBSET S : IsFiniteSet(u) /\ Cardinality(u) \in Nat
    BY FS_Subset, FS_CardinalityType
<1>3. Cardinality(s \ t) = Cardinality(t \ s)
    <2>1. s = both \cup (s \ t) /\ t = both \cup (t \ s) /\ both \cap (s \ t) = {} /\ both \cap (t \ s) = {}
        OBVIOUS
    <2>2. both \in SUBSET S /\ s \ t \in SUBSET S /\ t \ s \in SUBSET S
        BY <1>1
    <2> HIDE DEF both
    <2>3. Cardinality(s) = Cardinality(both) + Cardinality(s \ t)
        BY <1>2, <2>1, <2>2, UnionCounts
    <2>4. Cardinality(t) = Cardinality(both) + Cardinality(t \ s)
        BY <1>2, <2>1, <2>2, UnionCounts
    <2> QED
        BY <1>1, <1>2, <2>2, <2>3, <2>4
<1>4. \A x \in s \ t, y \in t \ s : size[x] = size[y]
    <2>1. ASSUME NEW x \in s \ t, NEW y \in t \ s
          PROVE  size[x] = size[y]
        <3>1. size[x] \in Int /\ size[y] \in Int
            BY <1>1
        <3>2. size[x] >= size[y] /\ size[y] >= size[x]
            BY <1>1
        <3> QED
            BY <3>1, <3>2
    <2> QED
        BY <2>1
<1>5. s \ t = {} <=> t \ s = {}
    <2>1. IsFiniteSet(s \ t) /\ IsFiniteSet(t \ s)
        BY <1>1, <1>2
    <2> QED
        BY <1>3, <2>1, FS_EmptySet
<1>6. Cardinality(With(s \ t)) = Cardinality(With(t \ s))
    <2>1. CASE \E x \in s \ t : size[x] = v
        <3>1. \E y \in t \ s : TRUE
            BY <1>5, <2>1
        <3>2. \A y \in t \ s : size[y] = v
            BY <1>4, <2>1
        <3>3. \A x \in s \ t : size[x] = v
            BY <1>4, <3>1, <3>2
        <3>4. With(s \ t) = s \ t /\ With(t \ s) = t \ s
            BY <3>2, <3>3
        <3> QED
            BY <1>3, <3>4
    <2>2. CASE ~ \E x \in s \ t : size[x] = v
        <3>1. \A y \in t \ s : size[y] # v
            BY <1>4, <1>5, <2>2
        <3>2. With(s \ t) = {} /\ With(t \ s) = {}
            BY <2>2, <3>1
        <3> QED
            BY <3>2
    <2> QED
        BY <2>1, <2>2
<1>7. /\ With(s) = With(both) \cup With(s \ t) /\ With(both) \cap With(s \ t) = {}
      /\ With(t) = With(both) \cup With(t \ s) /\ With(both) \cap With(t \ s) = {}
      /\ With(both) \in SUBSET S /\ With(s \ t) \in SUBSET S /\ With(t \ s) \in SUBSET S
    BY <1>1
<1> HIDE DEF With, both
<1>8. /\ Cardinality(With(s)) = Cardinality(With(both)) + Cardinality(With(s \ t))
      /\ Cardinality(With(t)) = Cardinality(With(both)) + Cardinality(With(t \ s))
    BY <1>2, <1>7, UnionCounts
<1> QED
    BY <1>6, <1>8 DEF With, OfSize

-----------------------------------------------------------------------------
(* Time                                                                    *)

LEMMA Division ==
    ASSUME NEW a \in Int, NEW b \in Nat \ {0}
    PROVE  /\ a \div b \in Int /\ a % b \in 0 .. b - 1
           /\ a = b * (a \div b) + (a % b)
OBVIOUS

LEMMA DivisionIs ==
    ASSUME NEW a \in Int, NEW b \in Nat \ {0}, NEW q \in Int, NEW r \in 0 .. b - 1, a = q * b + r
    PROVE  a \div b = q /\ a % b = r
OBVIOUS

LEMMA DivisionGrows ==
    ASSUME NEW a \in Int, NEW c \in Int, NEW b \in Nat \ {0}, a <= c
    PROVE  a \div b <= c \div b
<1>1. b * (a \div b) < b * (c \div b) + b
   BY Division
<1> QED BY <1>1, Division

LEMMA MaxOfTwo ==
    ASSUME NEW a \in Int, NEW b \in Int
    PROVE  Max({a, b}) = IF a >= b THEN a ELSE b
<1>1. \E x \in {a, b} : \A y \in {a, b} : x >= y
    OBVIOUS
<1> QED
    BY <1>1 DEF Max

\* Half a day, and the clocks.
Half == PerDay \div 2
ClocksOK ==
    /\ summer \subseteq Int
    /\ \A i \in summer :
           /\ i - 1 \in summer \/ (i + Half) % PerDay # 0
           /\ i + 1 \in summer \/ (i + 1 + Half) % PerDay # 0

LEMMA HalfDay == Half \in Nat /\ PerDay \in Nat /\ PerDay = 2 * Half /\ Half >= 2
<1>1. PerDay \in Nat /\ PerDay % 2 = 0 /\ PerDay > 2
    BY FiguresAssumption
<1>2. PerDay = 2 * (PerDay \div 2) + (PerDay % 2) /\ PerDay \div 2 \in Int
    BY <1>1, Division
<1> QED
    BY <1>1, <1>2 DEF Half

LEMMA Offsets ==
    ASSUME NEW i
    PROVE  Offset(i) = IF i \in summer THEN Half + 1 ELSE Half
BY HalfDay DEF Offset, Half

\* A wall clock that was cleaned is the same again, or an hour of the day before it that
\* is skipped; it stays on its day, and midnight is never skipped.
LEMMA Cleaned ==
    ASSUME ClocksOK, NEW w \in Int
    PROVE  /\ FromZoned(w) \in Int /\ FromZoned(w) \in {w - Half, w - Half - 1}
           /\ Wall(FromZoned(w)) \in {w, w - 1}
           /\ Wall(FromZoned(w)) # w => w % PerDay # 0
<1> DEFINE guess == Offset(w - Offset(w))
           m == Max({guess, Offset(w - guess)})
           i == w - m
<1>0. Half \in Nat /\ Half >= 2
    BY HalfDay
<1>1. Offset(w) \in {Half, Half + 1} /\ guess \in {Half, Half + 1} /\ Offset(w - guess) \in {Half, Half + 1}
    BY Offsets
<1>2. m = IF guess >= Offset(w - guess) THEN guess ELSE Offset(w - guess)
    <2> HIDE DEF guess
    <2>1. guess \in Int /\ Offset(w - guess) \in Int
        BY <1>0, <1>1
    <2> QED
        BY <2>1, MaxOfTwo
<1>3. FromZoned(w) = i
    BY DEF FromZoned
<1>4. CASE m = Half
    <2>1. guess = Half /\ Offset(w - Half) = Half
        BY <1>0, <1>1, <1>2, <1>4
    <2> QED
        BY <1>0, <1>3, <1>4, <2>1 DEF Wall
<1>5. CASE m = Half + 1
    <2>1. CASE w - Half - 1 \in summer
        <3>1. Offset(i) = Half + 1
            BY <1>0, <1>5, <2>1, Offsets
        <3> QED
            BY <1>0, <1>3, <1>5, <3>1 DEF Wall
    <2>2. CASE w - Half - 1 \notin summer /\ w - Half \in summer
        <3>1. Offset(i) = Half
            BY <1>0, <1>5, <2>2, Offsets
        <3>2. (w - Half + Half) % PerDay # 0
            BY <1>0, <2>2 DEF ClocksOK
        <3>3. w - Half + Half = w
            BY <1>0
        <3> QED
            BY <1>0, <1>3, <1>5, <3>1, <3>2, <3>3 DEF Wall
    <2>3. CASE w - Half - 1 \notin summer /\ w - Half \notin summer
        <3>1. Offset(w - Half) = Half /\ Offset(w - (Half + 1)) = Half
            BY <1>0, <2>3, Offsets
        <3>2. guess = Half
            BY <1>1, <3>1
        <3> QED
            BY <1>0, <1>2, <1>5, <3>1, <3>2
    <2> QED
        BY <2>1, <2>2, <2>3
<1> QED
    BY <1>1, <1>2, <1>4, <1>5

LEMMA CleanedKeepsDay ==
    ASSUME ClocksOK, NEW w \in Int
    PROVE  DayOf(FromZoned(w)) = w \div PerDay
<1>1. PerDay \in Nat \ {0}
    BY HalfDay
<1>2. w \div PerDay \in Int /\ w % PerDay \in 0 .. PerDay - 1 /\ w = PerDay * (w \div PerDay) + (w % PerDay)
    BY <1>1, Division
<1>3. CASE Wall(FromZoned(w)) = w
    BY <1>3 DEF DayOf
<1>4. CASE Wall(FromZoned(w)) = w - 1 /\ w % PerDay # 0
    <2>1. (w % PerDay) - 1 \in 0 .. PerDay - 1
        BY <1>1, <1>2, <1>4
    <2>2. w - 1 = (w \div PerDay) * PerDay + ((w % PerDay) - 1)
        BY <1>1, <1>2
    <2>3. (w - 1) \div PerDay = w \div PerDay
        <3> DEFINE q == w \div PerDay
                   r == (w % PerDay) - 1
        <3>1. q \in Int /\ r \in 0 .. PerDay - 1 /\ w - 1 = q * PerDay + r
            BY <1>2, <2>1, <2>2
        <3> HIDE DEF q, r
        <3>2. (w - 1) \div PerDay = q
            BY <1>1, <3>1, DivisionIs
        <3> QED
            BY <3>2 DEF q
    <2> QED
        BY <1>4, <2>3 DEF DayOf
<1> QED
    BY <1>3, <1>4, Cleaned

\* Cleaning the wall clock of an instant gives an instant with this wall clock, whatever
\* the clocks do.
LEMMA WallAgain ==
    ASSUME NEW i \in Int
    PROVE  Wall(FromZoned(Wall(i))) = Wall(i)
<1> DEFINE w == Wall(i)
           guess == Offset(w - Offset(w))
           m == Max({guess, Offset(w - guess)})
<1>0. Half \in Nat /\ Half >= 2
    BY HalfDay
<1>1. w = i + Offset(i) /\ w \in Int /\ Offset(i) \in {Half, Half + 1}
    BY <1>0, Offsets DEF Wall
<1> HIDE DEF w
<1>2. Offset(w) \in {Half, Half + 1} /\ guess \in {Half, Half + 1} /\ Offset(w - guess) \in {Half, Half + 1}
    BY Offsets
<1>3. m = IF guess >= Offset(w - guess) THEN guess ELSE Offset(w - guess)
    <2> HIDE DEF guess
    <2>1. guess \in Int /\ Offset(w - guess) \in Int
        BY <1>0, <1>2
    <2> QED
        BY <2>1, MaxOfTwo
<1>4. \/ i = w - Half /\ Offset(w - Half) = Half
      \/ i = w - (Half + 1) /\ Offset(w - (Half + 1)) = Half + 1
    BY <1>0, <1>1
<1>5. Offset(w - m) = m
    <2>1. CASE guess = Half
        BY <1>0, <1>1, <1>2, <1>3, <1>4, <2>1
    <2>2. CASE guess = Half + 1
        BY <1>0, <1>1, <1>2, <1>3, <1>4, <2>2
    <2> QED
        BY <1>2, <2>1, <2>2
<1>6. m \in Int
    BY <1>0, <1>2, <1>3
<1>7. FromZoned(w) = w - m
    BY DEF FromZoned
<1>8. Wall(w - m) = w
    BY <1>1, <1>5, <1>6 DEF Wall
<1> QED
    BY <1>7, <1>8 DEF w

\* Days are counted from noon, which a change of the clocks does not move to another day.
LEMMA DaysAdd ==
    ASSUME ClocksOK, NEW d \in Int, NEW n \in Int
    PROVE  AddDays(d, n) = d + n
<1> DEFINE noon == d * PerDay + Half
           i == FromZoned(noon) + n * PerDay
<1>1. Half \in Nat /\ PerDay \in Nat \ {0} /\ PerDay = 2 * Half /\ Half >= 2
    BY HalfDay
<1>2. AddDays(d, n) = Wall(i) \div PerDay
    BY DEF AddDays, LocalDateTime, DayOf, Half
<1>3. d * PerDay \in Int /\ n * PerDay \in Int /\ (d + n) * PerDay = d * PerDay + n * PerDay
    BY <1>1
<1>4. FromZoned(noon) \in {d * PerDay, d * PerDay - 1}
    <2>1. FromZoned(noon) \in {noon - Half, noon - Half - 1}
        BY <1>1, <1>3, Cleaned
    <2> QED
        BY <1>1, <1>3, <2>1
<1>5. Offset(i) \in {Half, Half + 1}
    BY Offsets
<1>6. \E r \in 0 .. PerDay - 1 : Wall(i) = (d + n) * PerDay + r
    <2>1. Wall(i) = i + Offset(i)
        BY DEF Wall
    <2>2. i \in {(d + n) * PerDay, (d + n) * PerDay - 1}
        BY <1>3, <1>4
    <2>3. Wall(i) - (d + n) * PerDay \in {Half - 1, Half, Half + 1}
        BY <1>1, <1>3, <1>5, <2>1, <2>2
    <2>4. Wall(i) \in Int /\ (d + n) * PerDay \in Int
        BY <1>1, <1>3, <1>5, <2>1, <2>2
    <2>5. Wall(i) - (d + n) * PerDay \in 0 .. PerDay - 1
        BY <1>1, <2>3
    <2> QED
        BY <2>4, <2>5
<1>7. PICK r \in 0 .. PerDay - 1 : Wall(i) = (d + n) * PerDay + r
    BY <1>6
<1>8. Wall(i) \div PerDay = d + n
    <2>1. d + n \in Int /\ Wall(i) \in Int
        BY <1>1, <1>3, <1>7
    <2> HIDE DEF i
    <2> QED
        BY <1>1, <1>7, <2>1, DivisionIs
<1> QED
    BY <1>2, <1>8

\* Midnight of a day is its first wall clock.
LEMMA Midnight ==
    ASSUME ClocksOK, NEW d \in Int
    PROVE  Wall(LocalDateTime(d, 0)) = d * PerDay /\ DayOf(LocalDateTime(d, 0)) = d
<1>1. PerDay \in Nat \ {0}
    BY HalfDay
<1>2. d * PerDay \in Int /\ d * PerDay = d * PerDay + 0 /\ 0 \in 0 .. PerDay - 1
    BY <1>1
<1>3. (d * PerDay) \div PerDay = d /\ (d * PerDay) % PerDay = 0
    <2> DEFINE a == d * PerDay
    <2>1. a \in Int /\ a = d * PerDay + 0
        BY <1>2
    <2> HIDE DEF a
    <2>2. a \div PerDay = d /\ a % PerDay = 0
        BY <1>1, <1>2, <2>1, DivisionIs
    <2> QED
        BY <2>2 DEF a
<1>4. LocalDateTime(d, 0) = FromZoned(d * PerDay)
    BY <1>2 DEF LocalDateTime
<1>5. Wall(FromZoned(d * PerDay)) = d * PerDay /\ DayOf(FromZoned(d * PerDay)) = d
    BY <1>2, <1>3, Cleaned, CleanedKeepsDay
<1> QED
    BY <1>4, <1>5

-----------------------------------------------------------------------------
(* The migration                                                           *)

\* Instants that the cleaning of a wall clock gives are positive: 0 stands for none.
CleanInstants == {FromZoned(w) : w \in {v \in Nat : v >= PerDay}}

\* What an older version left are such instants, in one of its forms.
OldTimes == [r \in Records |-> {OldForm(OldForms[r], i) : i \in CleanInstants}]

LegacyOK == \A r \in DOMAIN legacy : r \in Records /\ legacy[r] \in OldTimes[r]

\* What HCC has, where 0 stands for nothing.
HccOK == hcc \in [Records -> Nat] /\ \A r \in Records : hcc[r] = 0 \/ hcc[r] >= PerDay

LEMMA CleanIsPositive ==
    ASSUME ClocksOK, NEW w \in Int, w >= PerDay
    PROVE  FromZoned(w) \in Nat \ {0} /\ Wall(FromZoned(w)) \in Nat /\ Wall(FromZoned(w)) >= PerDay
<1>1. Half \in Nat /\ PerDay \in Nat \ {0} /\ PerDay = 2 * Half /\ Half >= 2
    BY HalfDay
<1>2. FromZoned(w) \in {w - Half, w - Half - 1}
    BY Cleaned
<1>3. w = PerDay => w % PerDay = 0
    <2>1. PerDay \in Int /\ PerDay = 1 * PerDay + 0 /\ 0 \in 0 .. PerDay - 1 /\ 1 \in Int
        BY <1>1
    <2> QED
        BY <1>1, <2>1, DivisionIs
<1>4. Wall(FromZoned(w)) \in {w, w - 1} /\ (Wall(FromZoned(w)) # w => w # PerDay)
    BY <1>3, Cleaned
<1> QED
    BY <1>1, <1>2, <1>4

LEMMA MigratedKeeps ==
    ASSUME ClocksOK, NEW form \in {"utc", "wall", "date"}, NEW i \in CleanInstants
    PROVE  LET old == OldForm(form, i)
           IN  /\ Migrated(old) \in Nat \ {0}
               /\ old.form = form /\ old = OldForm(form, Migrated(old))
               /\ Migrated(old) \in CleanInstants
<1> DEFINE old == OldForm(form, i)
<1>0. PerDay \in Nat \ {0}
    BY HalfDay
<1>1. PICK w \in Nat : w >= PerDay /\ i = FromZoned(w)
    BY DEF CleanInstants
<1>2. i \in Nat \ {0} /\ Wall(i) \in Nat /\ Wall(i) >= PerDay
    BY <1>1, CleanIsPositive
<1>3. old.form = form
    BY DEF OldForm
<1>4. CASE form = "utc"
    <2>1. old.at = i /\ Migrated(old) = i
        BY <1>4 DEF OldForm, Migrated
    <2> QED
        BY <1>2, <1>3, <2>1
<1>5. CASE form = "wall"
    <2>1. old = [form |-> "wall", at |-> Wall(i)] /\ Migrated(old) = FromZoned(Wall(i))
        BY <1>5 DEF OldForm, Migrated
    <2>2. Wall(FromZoned(Wall(i))) = Wall(i) /\ FromZoned(Wall(i)) \in Nat \ {0}
        BY <1>2, WallAgain, CleanIsPositive
    <2>3. OldForm("wall", FromZoned(Wall(i))) = [form |-> "wall", at |-> Wall(FromZoned(Wall(i)))]
        BY DEF OldForm
    <2>4. FromZoned(Wall(i)) \in CleanInstants
        BY <1>2 DEF CleanInstants
    <2> QED
        BY <1>3, <1>5, <2>1, <2>2, <2>3, <2>4
<1>6. CASE form = "date"
    <2> DEFINE d == DayOf(i)
    <2>1. old = [form |-> "date", at |-> d] /\ Migrated(old) = LocalDateTime(d, 0)
        BY <1>6 DEF OldForm, Migrated
    <2>2. d \in Int /\ d >= 1
        <3>1. Wall(i) \div PerDay \in Int /\ PerDay \div PerDay <= Wall(i) \div PerDay
            <4>1. PerDay \in Int /\ Wall(i) \in Int
                BY <1>0, <1>2
            <4> QED
                BY <1>0, <1>2, <4>1, Division, DivisionGrows
        <3>2. PerDay \div PerDay = 1
            <4>1. PerDay \in Int /\ PerDay = 1 * PerDay + 0 /\ 0 \in 0 .. PerDay - 1 /\ 1 \in Int
                BY <1>0
            <4> QED
                BY <1>0, <4>1, DivisionIs
        <3> QED
            BY <3>1, <3>2 DEF DayOf
    <2> HIDE DEF d
    <2>3. d * PerDay \in Nat /\ d * PerDay >= PerDay /\ d * PerDay = d * PerDay + 0
        BY <1>0, <2>2
    <2>4. LocalDateTime(d, 0) = FromZoned(d * PerDay)
        BY <2>3 DEF LocalDateTime
    <2>5. LocalDateTime(d, 0) \in CleanInstants /\ LocalDateTime(d, 0) \in Nat \ {0}
        BY <2>3, <2>4, CleanIsPositive DEF CleanInstants
    <2>6. OldForm("date", LocalDateTime(d, 0)) = [form |-> "date", at |-> DayOf(LocalDateTime(d, 0))]
        BY DEF OldForm
    <2>7. DayOf(LocalDateTime(d, 0)) = d
        BY <2>2, Midnight
    <2> QED
        BY <1>3, <1>6, <2>1, <2>5, <2>6, <2>7
<1> QED
    BY <1>4, <1>5, <1>6

LEMMA ClocksHold ==
    ASSUME summer \in Summers
    PROVE  ClocksOK
BY ClocksAssumption DEF ClocksOK, Half

LEMMA ClocksStay ==
    ASSUME [Next]_vars
    PROVE  UNCHANGED summer
BY DEF Next, vars, TimePasses, HccChanges, Plans, Stores, Commits, Interrupted, Publishes,
       StoreMigrates, StoreIngests, StoreRecomputes, StoreBroadcasts

\* HCC has wall clocks of days that there are, at any time.
LEMMA HccInit == Init => HccOK
BY FiguresAssumption DEF Init, HccOK

LEMMA HccStep == HccOK /\ [Next]_vars => HccOK'
<1>1. ASSUME HccOK, NEW r \in Records, NEW wall \in Changed, HccChanges(r, wall)
      PROVE  HccOK'
    <2>1. hcc' = [hcc EXCEPT ![r] = wall] /\ wall \in Nat /\ wall >= PerDay
        BY <1>1, FiguresAssumption DEF HccChanges
    <2> QED
        BY <1>1, <2>1 DEF HccOK
<1>2. ASSUME HccOK, UNCHANGED hcc
      PROVE  HccOK'
    BY <1>2 DEF HccOK
<1>3. [Next]_vars => UNCHANGED hcc \/ \E r \in Records, wall \in Changed : HccChanges(r, wall)
    BY DEF Next, vars, TimePasses, Plans, Stores, Commits, Interrupted, Publishes,
           StoreMigrates, StoreIngests, StoreRecomputes, StoreBroadcasts
<1> QED
    BY <1>1, <1>2, <1>3

LEMMA LegacyInit == Init => LegacyOK
<1> SUFFICES ASSUME Init PROVE LegacyOK
    OBVIOUS
<1>1. HccOK
    BY HccInit
<1>2. CASE legacy = <<>>
    BY <1>2 DEF LegacyOK
<1>3. CASE legacy = [r \in {x \in Records : hcc[x] > 0} |-> OldForm(OldForms[r], FromZoned(hcc[r]))]
    <2>1. ASSUME NEW r \in {x \in Records : hcc[x] > 0}
          PROVE  FromZoned(hcc[r]) \in CleanInstants
        BY <1>1 DEF HccOK, CleanInstants
    <2> QED
        BY <1>3, <2>1 DEF LegacyOK, OldTimes
<1> QED
    BY <1>2, <1>3 DEF Init

LEMMA LegacyStep == LegacyOK /\ [Next]_vars => LegacyOK'
<1>1. ASSUME LegacyOK, UNCHANGED <<summer, legacy>>
      PROVE  LegacyOK'
    <2>1. OldTimes' = OldTimes
        BY <1>1 DEF OldTimes, CleanInstants, OldForm, FromZoned, DayOf, Wall, Offset
    <2> QED
        BY <1>1, <2>1 DEF LegacyOK
<1>2. ASSUME legacy' = <<>>
      PROVE  LegacyOK'
    <2>1. DOMAIN legacy' = {}
        BY <1>2
    <2> QED
        BY <2>1 DEF LegacyOK
<1>3. [Next]_vars => legacy' = <<>> \/ UNCHANGED legacy
    BY DEF Next, vars, storeVars, TimePasses, HccChanges, Plans, Stores, Commits, Interrupted,
           Publishes, StoreMigrates, StoreIngests, StoreRecomputes, StoreBroadcasts
<1> QED
    BY <1>1, <1>2, <1>3, ClocksStay

\* The migration of times (migrateWallClockInstant) keeps the day of every record and,
\* where the old form still told it, the time, for any change of the clocks but at
\* midnight: an hour that occurs twice keeps its wall clock.
THEOREM MigrationKeeps == Spec => MigrationKeepsTimes
<1> DEFINE Inv == LegacyOK /\ summer \in Summers
<1>1. Init => Inv
    BY LegacyInit DEF Init
<1>2. Inv /\ [Next]_vars => Inv'
    BY LegacyStep, ClocksStay
<1>3. Inv /\ [Next]_vars =>
        [legacy' # legacy =>
            \A r \in DOMAIN legacy : rows'[r] > 0 /\ legacy[r] = OldForm(legacy[r].form, rows'[r])]_vars
    <2> SUFFICES ASSUME Inv, [Next]_vars, legacy' # legacy, NEW r \in DOMAIN legacy
                 PROVE  rows'[r] > 0 /\ legacy[r] = OldForm(legacy[r].form, rows'[r])
        OBVIOUS
    <2>1. StoreMigrates
        BY DEF Next, vars, storeVars, TimePasses, HccChanges, Plans, Stores, Commits, Interrupted,
               Publishes, StoreIngests, StoreRecomputes, StoreBroadcasts
    <2>2. PICK i \in CleanInstants : legacy[r] = OldForm(OldForms[r], i)
        BY DEF LegacyOK, OldTimes
    <2>3. r \in Records /\ OldForms[r] \in {"utc", "wall", "date"}
        BY FiguresAssumption DEF LegacyOK, OldTimes
    <2>4. rows'[r] = Migrated(legacy[r])
        BY <2>1, <2>3 DEF StoreMigrates
    <2>5. ClocksOK
        BY ClocksHold
    <2> QED
        BY <2>2, <2>3, <2>4, <2>5, MigratedKeeps
<1> QED
    BY <1>1, <1>2, <1>3, PTL DEF Spec, MigrationKeepsTimes

-----------------------------------------------------------------------------
(* The rows of the store in their order, and its pages                     *)

\* The elements of a finite set that a strict order R puts before c.
Before(S, R, c) == {e \in S : <<e, c>> \in R}

LEMMA Ranks ==
    ASSUME NEW S, IsFiniteSet(S), NEW R,
           \A x \in S : <<x, x>> \notin R,
           \A x, y \in S : x # y => <<x, y>> \in R \/ <<y, x>> \in R,
           \A x, y, z \in S : <<x, y>> \in R /\ <<y, z>> \in R => <<x, z>> \in R
    PROVE  /\ \A c \in S : Cardinality(Before(S, R, c)) \in 0 .. Cardinality(S) - 1
           /\ \A c, e \in S : Cardinality(Before(S, R, c)) = Cardinality(Before(S, R, e)) => c = e
           /\ \A k \in 0 .. Cardinality(S) - 1 : \E c \in S : Cardinality(Before(S, R, c)) = k
<1> DEFINE N == Cardinality(S)
           rank == [c \in S |-> Cardinality(Before(S, R, c))]
<1>0. N \in Nat
    BY FS_CardinalityType
<1>1. \A c \in S : Before(S, R, c) \subseteq S /\ c \notin Before(S, R, c)
    BY DEF Before
<1>2. ASSUME NEW c \in S
      PROVE  Cardinality(Before(S, R, c)) \in 0 .. N - 1
    <2>1. Before(S, R, c) \subseteq S /\ Before(S, R, c) # S
        BY <1>1
    <2>2. /\ Cardinality(Before(S, R, c)) \in Nat
          /\ Cardinality(Before(S, R, c)) < N
        BY <2>1, PartCounts
    <2> QED
        BY <1>0, <2>2
<1>3. ASSUME NEW c \in S, NEW e \in S, <<c, e>> \in R
      PROVE  Cardinality(Before(S, R, c)) < Cardinality(Before(S, R, e))
    <2>1. Before(S, R, c) \subseteq Before(S, R, e)
        BY <1>3 DEF Before
    <2>2. c \in Before(S, R, e) /\ c \notin Before(S, R, c)
        BY <1>1, <1>3 DEF Before
    <2>3. IsFiniteSet(Before(S, R, e))
        BY <1>1, FS_Subset
    <2> QED
        BY <2>1, <2>2, <2>3, PartCounts
<1>4. ASSUME NEW c \in S, NEW e \in S, Cardinality(Before(S, R, c)) = Cardinality(Before(S, R, e))
      PROVE  c = e
    <2>1. SUFFICES ASSUME c # e PROVE FALSE
        OBVIOUS
    <2>2. <<c, e>> \in R \/ <<e, c>> \in R
        BY <2>1
    <2>3. Cardinality(Before(S, R, c)) \in Int /\ Cardinality(Before(S, R, e)) \in Int
        BY <1>0, <1>2
    <2> QED
        BY <1>3, <1>4, <2>2, <2>3
<1>5. rank \in Injection(S, 0 .. N - 1)
    <2>1. rank \in [S -> 0 .. N - 1]
        BY <1>2
    <2>2. \A c, e \in S : rank[c] = rank[e] => c = e
        BY <1>4
    <2> HIDE DEF rank
    <2> QED
        BY <2>1, <2>2 DEF Injection, IsInjective
<1>6. IsFiniteSet(0 .. N - 1) /\ Cardinality(0 .. N - 1) = N
    <2> HIDE DEF N
    <2>1. 0 \in Int /\ N - 1 \in Int /\ (0 > N - 1 => N = 0) /\ N - 1 - 0 + 1 = N
        BY <1>0
    <2> QED
        BY <2>1, FS_Interval
<1>7. rank \in Surjection(S, 0 .. N - 1)
    <2> HIDE DEF rank
    <2> QED
        BY <1>5, <1>6, FS_Injection
<1>8. \A k \in 0 .. N - 1 : \E c \in S : rank[c] = k
    <2> HIDE DEF rank
    <2> QED
        BY <1>7 DEF Surjection
<1> QED
    BY <1>2, <1>4, <1>8

\* What the store keeps of each record.
TableOK(table) == table \in [Records -> Nat]

LEMMA StoredRows ==
    ASSUME NEW table, TableOK(table)
    PROVE  /\ IsFiniteSet(Stored(table)) /\ Cardinality(Stored(table)) \in Nat
           /\ Cardinality(Stored(table)) <= Cardinality(Records) /\ Cardinality(Records) \in Nat
           /\ \A c \in Stored(table) : /\ Number(c) \in Records /\ Instant(c) \in Nat
                                       /\ c = <<Number(c), Instant(c)>>
                                       /\ Instant(c) = table[Number(c)] /\ Instant(c) > 0
           /\ \A c, e \in Stored(table) : Number(c) = Number(e) => c = e
<1> DEFINE f == [c \in Stored(table) |-> Number(c)]
<1>1. \A c \in Stored(table) : /\ Number(c) \in Records /\ Instant(c) \in Nat
                               /\ c = <<Number(c), Instant(c)>>
                               /\ Instant(c) = table[Number(c)] /\ Instant(c) > 0
    BY DEF TableOK, Stored, Number, Instant
<1>2. \A c, e \in Stored(table) : Number(c) = Number(e) => c = e
    BY <1>1
<1>3. f \in Injection(Stored(table), Records)
    <2>1. f \in [Stored(table) -> Records] /\ \A c, e \in Stored(table) : f[c] = f[e] => c = e
        BY <1>1, <1>2
    <2> HIDE DEF f
    <2> QED
        BY <2>1 DEF Injection, IsInjective
<1>4. IsFiniteSet(Records)
    BY FiguresAssumption
<1>5. IsFiniteSet(Stored(table)) /\ Cardinality(Stored(table)) <= Cardinality(Records)
    <2> HIDE DEF f
    <2> QED
        BY <1>3, <1>4, FS_Injection
<1> QED
    BY <1>1, <1>2, <1>4, <1>5, FS_CardinalityType

LEMMA TextIsInt ==
    ASSUME NEW i \in Int
    PROVE  Text(i) \in Int
<1>1. Wall(i) \in Int
    BY Offsets, HalfDay DEF Wall
<1> QED
    BY <1>1 DEF Text

\* The list has every row at one place.
LEMMA ListedRows ==
    ASSUME NEW table, TableOK(table)
    PROVE  LET N == Cardinality(Stored(table))
               L == Listed(table)
           IN  /\ L \in [1 .. N -> Stored(table)]
               /\ \A i, j \in 1 .. N : L[i] = L[j] => i = j
               /\ \A c \in Stored(table) : \E i \in 1 .. N : L[i] = c
               /\ \A i, j \in 1 .. N : i < j => Later(L[i], L[j])
<1> DEFINE S == Stored(table)
           N == Cardinality(S)
           L == Listed(table)
           R == {p \in S \X S : Later(p[1], p[2])}
           rank(c) == Cardinality(Before(S, R, c))
<1>0. IsFiniteSet(S) /\ N \in Nat
    BY StoredRows
<1>1. \A c \in S : Text(Instant(c)) \in Int /\ Number(c) \in Int
    <2>1. \A c \in S : Number(c) \in Records /\ Instant(c) \in Int
        BY StoredRows
    <2>2. Records \subseteq Int
        BY FiguresAssumption
    <2> HIDE DEF S
    <2> QED
        BY <2>1, <2>2, TextIsInt
<1>2. \A x, y \in S : x # y => Number(x) # Number(y)
    BY StoredRows
<1>3. \A x, y \in S : <<x, y>> \in R <=> Later(x, y)
    OBVIOUS
<1>4. \A x \in S : ~Later(x, x)
    <2> HIDE DEF S
    <2> QED
        BY <1>1 DEF Later
<1>5. \A x, y \in S : x # y => Later(x, y) \/ Later(y, x)
    <2> HIDE DEF S
    <2> QED
        BY <1>1, <1>2 DEF Later
<1>6. \A x, y, z \in S : Later(x, y) /\ Later(y, z) => Later(x, z)
    <2> HIDE DEF S
    <2> QED
        BY <1>1 DEF Later
<1>7. \A c \in S : {e \in S : Later(e, c)} = Before(S, R, c)
    BY <1>3 DEF Before
<1>8. /\ \A c \in S : rank(c) \in 0 .. N - 1
      /\ \A c, e \in S : rank(c) = rank(e) => c = e
      /\ \A k \in 0 .. N - 1 : \E c \in S : rank(c) = k
    <2> HIDE DEF S, R
    <2> QED
        BY <1>0, <1>3, <1>4, <1>5, <1>6, Ranks
<1>9. L = [i \in 1 .. N |-> CHOOSE c \in S : Cardinality({e \in S : Later(e, c)}) = i - 1]
    BY DEF Listed
<1> HIDE DEF S, R, L, N
<1>10. ASSUME NEW i \in 1 .. N
       PROVE  L[i] \in S /\ rank(L[i]) = i - 1
    <2>1. i - 1 \in 0 .. N - 1
        BY <1>0
    <2>2. \E c \in S : Cardinality({e \in S : Later(e, c)}) = i - 1
        BY <1>7, <1>8, <2>1
    <2>3. L[i] \in S /\ Cardinality({e \in S : Later(e, L[i])}) = i - 1
        BY <1>9, <2>2
    <2> QED
        BY <1>7, <2>3
<1>11. L \in [1 .. N -> S]
    BY <1>9, <1>10
<1>12. \A i, j \in 1 .. N : L[i] = L[j] => i = j
    <2>1. ASSUME NEW i \in 1 .. N, NEW j \in 1 .. N, L[i] = L[j]
          PROVE  i = j
        <3>1. rank(L[i]) = i - 1 /\ rank(L[j]) = j - 1
            BY <1>10
        <3>2. i - 1 = j - 1
            BY <2>1, <3>1
        <3> QED
            BY <1>0, <3>2
    <2> QED
        BY <2>1
<1>13. ASSUME NEW c \in S
       PROVE  \E i \in 1 .. N : L[i] = c
    <2> DEFINE i == rank(c) + 1
    <2>1. i \in 1 .. N /\ rank(c) = i - 1
        BY <1>0, <1>8
    <2>2. L[i] \in S /\ rank(L[i]) = rank(c)
        <3> HIDE DEF i
        <3> QED
            BY <2>1, <1>10
    <2> QED
        BY <1>8, <2>1, <2>2
<1>14. ASSUME NEW i \in 1 .. N, NEW j \in 1 .. N, i < j
       PROVE  Later(L[i], L[j])
    <2>1. /\ L[i] \in S /\ L[j] \in S /\ rank(L[i]) = i - 1 /\ rank(L[j]) = j - 1
        BY <1>10
    <2>2. L[i] # L[j]
        BY <1>12, <1>14
    <2>3. ASSUME Later(L[j], L[i]) PROVE FALSE
        <3>1. Before(S, R, L[j]) \subseteq Before(S, R, L[i]) /\ IsFiniteSet(Before(S, R, L[i]))
            <4>1. \A e \in S : <<e, L[j]>> \in R => <<e, L[i]>> \in R
                BY <1>3, <1>6, <2>1, <2>3
            <4> QED
                BY <1>0, <4>1, FS_Subset DEF Before
        <3>2. rank(L[j]) <= rank(L[i])
            BY <3>1, PartCounts
        <3> QED
            BY <1>14, <2>1, <3>2
    <2> QED
        BY <1>5, <2>1, <2>2, <2>3
<1> QED
    BY <1>11, <1>12, <1>13, <1>14 DEF S, N, L

\* The first m rows of the list.
Top(table, m) == {Listed(table)[i] : i \in 1 .. m}

LEMMA MinOfTwo ==
    ASSUME NEW a \in Int, NEW b \in Int
    PROVE  Min({a, b}) = IF a <= b THEN a ELSE b
<1>1. \E x \in {a, b} : \A y \in {a, b} : x <= y
    OBVIOUS
<1> QED
    BY <1>1 DEF Min

\* The rows of a page, after the first a.
LEMMA PageHas ==
    ASSUME NEW table, TableOK(table), NEW page \in Nat, NEW limit \in Nat, NEW a \in Nat,
           a = (page - 1) * limit, a <= Cardinality(Stored(table)), NEW b \in Nat, a <= b,
           b = IF page * limit <= Cardinality(Stored(table)) THEN page * limit
               ELSE Cardinality(Stored(table))
    PROVE  StorePage(table, page, limit) = {Listed(table)[i] : i \in a + 1 .. b}
<1> DEFINE N == Cardinality(Stored(table))
           L == Listed(table)
           s == SubSeq(L, a + 1, b)
<1>1. N \in Nat /\ page * limit \in Int
    BY StoredRows
<1>2. L \in [1 .. N -> Stored(table)]
    BY ListedRows
<1>3. L \in Seq(Stored(table)) /\ Len(L) = N
    <2> HIDE DEF L, N
    <2> QED
        BY <1>1, <1>2
<1>4. Min({page * limit, Len(L)}) = b
    <2> HIDE DEF L
    <2> QED
        BY <1>1, <1>3, MinOfTwo
<1>5. StorePage(table, page, limit) = Range(s)
    BY <1>4 DEF StorePage, PageOf
<1>6. \A i \in a + 1 .. b : L[i] \in Stored(table)
    <2> HIDE DEF L
    <2> QED
        BY <1>1, <1>2
<1>7. /\ s \in Seq(Stored(table))
      /\ Len(s) = b - a
      /\ \A i \in 1 .. b - a : s[i] = L[a + i]
    <2>1. /\ s \in Seq(Stored(table))
          /\ Len(s) = IF a + 1 <= b THEN b - (a + 1) + 1 ELSE 0
          /\ \A i \in 1 .. b - (a + 1) + 1 : s[i] = L[a + 1 + i - 1]
        <3> HIDE DEF L
        <3>1. a + 1 \in Int /\ b \in Int
            OBVIOUS
        <3> QED
            BY <1>6, <3>1, SubSeqProperties
    <2>2. b - (a + 1) + 1 = b - a /\ (~(a + 1 <= b) => b - a = 0)
        OBVIOUS
    <2> HIDE DEF s, L
    <2>3. ASSUME NEW i \in 1 .. b - a
          PROVE  s[i] = L[a + i]
        <3>1. a + 1 + i - 1 = a + i
            OBVIOUS
        <3> QED
            BY <2>1, <2>2, <3>1
    <2> QED
        BY <2>1, <2>2, <2>3
<1>8. DOMAIN s = 1 .. b - a
    <2> HIDE DEF s
    <2> QED
        BY <1>7, LenProperties
<1>9. Range(s) = {s[i] : i \in 1 .. b - a}
    BY <1>8 DEF Range
<1>10. \A i \in a + 1 .. b : i - a \in 1 .. b - a /\ a + (i - a) = i
    BY <1>1
<1>11. \A i \in 1 .. b - a : a + i \in a + 1 .. b
    BY <1>1
<1> HIDE DEF s, L
<1>12. Range(s) = {L[i] : i \in a + 1 .. b}
    BY <1>7, <1>9, <1>10, <1>11
<1> QED
    BY <1>5, <1>12 DEF L

LEMMA TopHas ==
    ASSUME NEW table, TableOK(table)
    PROVE  LET N == Cardinality(Stored(table))
           IN  /\ \A m \in 0 .. N : Top(table, m) \subseteq Stored(table) /\ Cardinality(Top(table, m)) = m
               /\ Top(table, N) = Stored(table)
<1> DEFINE N == Cardinality(Stored(table))
           L == Listed(table)
<1>1. /\ N \in Nat /\ L \in [1 .. N -> Stored(table)]
      /\ \A i, j \in 1 .. N : L[i] = L[j] => i = j
      /\ \A c \in Stored(table) : \E i \in 1 .. N : L[i] = c
    BY StoredRows, ListedRows
<1> HIDE DEF N, L
<1>2. \A m : Top(table, m) = {L[i] : i \in 1 .. m}
    BY DEF Top, L
<1>3. ASSUME NEW m \in 0 .. N
      PROVE  Top(table, m) \subseteq Stored(table) /\ Cardinality(Top(table, m)) = m
    <2> DEFINE f == [i \in 1 .. m |-> L[i]]
    <2>0. 1 .. m \subseteq 1 .. N /\ m \in Nat
        BY <1>1
    <2>1. Top(table, m) \subseteq Stored(table)
        BY <1>1, <1>2, <2>0
    <2>2. f \in [1 .. m -> Top(table, m)] /\ DOMAIN f = 1 .. m
        BY <1>2
    <2>3. \A i, j \in 1 .. m : f[i] = f[j] => i = j
        BY <1>1, <2>0
    <2>4. \A c \in Top(table, m) : \E i \in 1 .. m : f[i] = c
        BY <1>2
    <2>5. f \in Bijection(1 .. m, Top(table, m))
        <3> HIDE DEF f
        <3> QED
            BY <2>2, <2>3, <2>4 DEF Bijection, Injection, Surjection, IsInjective
    <2>6. IsFiniteSet(1 .. m) /\ Cardinality(1 .. m) = m
        BY <2>0, FS_Interval
    <2>7. Cardinality(Top(table, m)) = m
        <3>1. ExistsBijection(1 .. m, Top(table, m))
            <4> HIDE DEF f
            <4> QED
                BY <2>5 DEF ExistsBijection
        <3> QED
            BY <3>1, <2>6, FS_Bijection
    <2> QED
        BY <2>1, <2>7
<1>4. Top(table, N) = Stored(table)
    <2>1. \A c \in Top(table, N) : c \in Stored(table)
        BY <1>1, <1>2
    <2>2. \A c \in Stored(table) : c \in Top(table, N)
        BY <1>1, <1>2
    <2> QED
        BY <2>1, <2>2
<1> QED
    BY <1>3, <1>4 DEF N

-----------------------------------------------------------------------------
(* Scrolling                                                               *)

\* What one request adds to the rows that are shown.
Loaded(snapshot, table, shown) ==
    IF Cardinality(shown) < snapshot.counts.allTime
    THEN MergeRows(shown, StorePage(table, NextPage(Cardinality(shown)), PageSize))
    ELSE shown

RowsFrom(snapshot, table, f, n) ==
    IF n = 0 THEN snapshot.recent ELSE Loaded(snapshot, table, f[n - 1])

LEMMA RowsExist ==
    ASSUME NEW snapshot, NEW table, NEW k \in Nat
    PROVE  \E f : f = [n \in 0 .. k |-> RowsFrom(snapshot, table, f, n)]
<1> DEFINE K == {m \in Nat : \E f : f = [n \in 0 .. m |-> RowsFrom(snapshot, table, f, n)]}
<1>1. 0 \in K
    <2> DEFINE f == [n \in 0 .. 0 |-> snapshot.recent]
    <2>1. f = [n \in 0 .. 0 |-> RowsFrom(snapshot, table, f, n)]
        BY DEF RowsFrom
    <2> QED
        BY <2>1
<1>2. ASSUME NEW m \in Nat, m \in K
      PROVE  m + 1 \in K
    <2>1. PICK f : f = [n \in 0 .. m |-> RowsFrom(snapshot, table, f, n)]
        BY <1>2
    <2> DEFINE g == [n \in 0 .. m + 1 |-> RowsFrom(snapshot, table, f, n)]
    <2>2. ASSUME NEW n \in 0 .. m + 1
          PROVE  g[n] = RowsFrom(snapshot, table, g, n)
        <3>1. CASE n = 0
            BY <3>1 DEF RowsFrom
        <3>2. CASE n # 0
            <4>1. n - 1 \in 0 .. m /\ n - 1 \in 0 .. m + 1
                BY <3>2
            <4>2. f[n - 1] = RowsFrom(snapshot, table, f, n - 1)
                BY <2>1, <4>1
            <4>3. g[n - 1] = f[n - 1]
                BY <4>1, <4>2
            <4>4. g[n] = Loaded(snapshot, table, f[n - 1])
                BY <3>2 DEF RowsFrom
            <4> HIDE DEF g
            <4> QED
                BY <3>2, <4>3, <4>4 DEF RowsFrom
        <3> QED
            BY <3>1, <3>2
    <2>3. g = [n \in 0 .. m + 1 |-> RowsFrom(snapshot, table, g, n)]
        <3> DEFINE h == [n \in 0 .. m + 1 |-> RowsFrom(snapshot, table, g, n)]
        <3>1. DOMAIN g = DOMAIN h /\ \A n \in DOMAIN g : g[n] = h[n]
            BY <2>2
        <3> QED
            BY <3>1
    <2> HIDE DEF g
    <2> QED
        BY <2>3
<1>3. Nat \subseteq K
    <2> HIDE DEF K
    <2> QED
        BY <1>1, <1>2, NatSteps
<1> QED
    BY <1>3

RowsAfter(snapshot, table) ==
    CHOOSE f : f = [n \in 0 .. Cardinality(Records) |-> RowsFrom(snapshot, table, f, n)]

LEMMA ScrolledIs ==
    ASSUME NEW snapshot, NEW table
    PROVE  /\ Scrolled(snapshot, table) = RowsAfter(snapshot, table)[Cardinality(Records)]
           /\ RowsAfter(snapshot, table)[0] = snapshot.recent
           /\ \A n \in 1 .. Cardinality(Records) :
                  RowsAfter(snapshot, table)[n] = Loaded(snapshot, table, RowsAfter(snapshot, table)[n - 1])
<1> DEFINE f == RowsAfter(snapshot, table)
<1>1. Scrolled(snapshot, table) = f[Cardinality(Records)]
    BY DEF Scrolled, RowsAfter, RowsFrom, Loaded
<1>2. Cardinality(Records) \in Nat
    BY FiguresAssumption, FS_CardinalityType
<1>3. f = [n \in 0 .. Cardinality(Records) |-> RowsFrom(snapshot, table, f, n)]
    BY <1>2, RowsExist DEF RowsAfter
<1> HIDE DEF f
<1>4. \A n \in 0 .. Cardinality(Records) : f[n] = RowsFrom(snapshot, table, f, n)
    BY <1>3
<1>5. f[0] = snapshot.recent
    BY <1>2, <1>4 DEF RowsFrom
<1>6. \A n \in 1 .. Cardinality(Records) : f[n] = Loaded(snapshot, table, f[n - 1])
    BY <1>2, <1>4 DEF RowsFrom
<1> QED
    BY <1>1, <1>5, <1>6 DEF f

\* The next page begins at most where the shown rows end, and ends after them.
LEMMA PageFollows ==
    ASSUME NEW m \in Nat
    PROVE  /\ NextPage(m) \in Nat /\ (NextPage(m) - 1) * PageSize \in Nat
           /\ (NextPage(m) - 1) * PageSize <= m /\ m < NextPage(m) * PageSize
<1>1. PageSize \in Nat \ {0}
    BY FiguresAssumption
<1>2. CASE m < PageSize
    <2>1. NextPage(m) = 1
        BY <1>2 DEF NextPage
    <2> QED
        BY <1>1, <1>2, <2>1
<1>3. CASE ~(m < PageSize)
    <2> DEFINE q == m \div PageSize
    <2>1. NextPage(m) = q + 1
        BY <1>3 DEF NextPage
    <2>2. q \in Int /\ m % PageSize \in 0 .. PageSize - 1 /\ m = PageSize * q + (m % PageSize)
        BY <1>1, Division
    <2>3. q \in Nat
        <3>1. 0 \div PageSize = 0
            <4>1. 0 \in Int /\ 0 \in 0 .. PageSize - 1 /\ 0 = 0 * PageSize + 0
                BY <1>1
            <4> QED
                BY <1>1, <4>1, DivisionIs
        <3>2. 0 \div PageSize <= q
            <4>1. 0 \in Int /\ m \in Int /\ 0 <= m
                OBVIOUS
            <4> QED
                BY <1>1, <4>1, DivisionGrows
        <3> QED
            BY <2>2, <3>1, <3>2
    <2> HIDE DEF q
    <2>4. PageSize * q = q * PageSize /\ (q + 1) * PageSize = q * PageSize + PageSize /\ q + 1 - 1 = q
        BY <1>1, <2>3
    <2>5. q * PageSize \in Nat
        BY <1>1, <2>3
    <2>6. q * PageSize <= m /\ m < (q + 1) * PageSize
        BY <1>1, <2>2, <2>4, <2>5
    <2> QED
        BY <2>1, <2>3, <2>4, <2>5, <2>6
<1> QED
    BY <1>2, <1>3

LEMMA LoadsMore ==
    ASSUME NEW table, TableOK(table), NEW snapshot,
           snapshot.counts.allTime = Cardinality(Stored(table)),
           NEW m \in 1 .. Cardinality(Stored(table))
    PROVE  \E k \in 1 .. Cardinality(Stored(table)) :
               /\ Loaded(snapshot, table, Top(table, m)) = Top(table, k)
               /\ k > m \/ k = Cardinality(Stored(table))
<1> DEFINE N == Cardinality(Stored(table))
           L == Listed(table)
<1>1. N \in Nat /\ L \in [1 .. N -> Stored(table)]
    BY StoredRows, ListedRows
<1>2. Cardinality(Top(table, m)) = m /\ Top(table, m) \subseteq Stored(table)
    BY <1>1, TopHas
<1>3. CASE ~(m < N)
    BY <1>1, <1>2, <1>3 DEF Loaded
<1>4. CASE m < N
    <2> DEFINE p == NextPage(m)
               a == (p - 1) * PageSize
               b == IF p * PageSize <= N THEN p * PageSize ELSE N
    <2>1. p \in Nat /\ PageSize \in Nat /\ a \in Nat /\ a <= m /\ m < p * PageSize
        BY <1>1, PageFollows, FiguresAssumption
    <2> HIDE DEF p, N, L
    <2>2. p * PageSize \in Nat
        BY <2>1
    <2>3. b \in Nat /\ m < b /\ b <= N
        BY <1>1, <1>4, <2>1, <2>2
    <2> HIDE DEF a, b
    <2>4. a <= N /\ a <= b
        BY <1>1, <2>1, <2>3
    <2>5. StorePage(table, p, PageSize) = {L[i] : i \in a + 1 .. b}
        BY <2>1, <2>3, <2>4, PageHas DEF L, N, a, b
    <2>6. Loaded(snapshot, table, Top(table, m)) = MergeRows(Top(table, m), StorePage(table, p, PageSize))
        BY <1>2, <1>4 DEF Loaded, N, p
    <2>7. \A c, e \in Stored(table) : Number(c) = Number(e) => c = e
        BY StoredRows
    <2>8. {L[i] : i \in a + 1 .. b} \subseteq Stored(table)
        <3>1. a + 1 .. b \subseteq 1 .. N
            BY <1>1, <2>1, <2>3
        <3> QED
            BY <1>1, <3>1
    <2>9. \A c \in Stored(table) :
              (\A e \in Top(table, m) : Number(e) # Number(c)) <=> c \notin Top(table, m)
        BY <1>2, <2>7
    <2>10. Loaded(snapshot, table, Top(table, m)) = Top(table, m) \cup {L[i] : i \in a + 1 .. b}
        BY <2>5, <2>6, <2>8, <2>9 DEF MergeRows
    <2>11. Top(table, m) = {L[i] : i \in 1 .. m} /\ Top(table, b) = {L[i] : i \in 1 .. b}
        BY DEF Top, L
    <2>12. 1 .. b = (1 .. m) \cup (a + 1 .. b)
        BY <2>1, <2>3
    <2>13. Top(table, b) = Top(table, m) \cup {L[i] : i \in a + 1 .. b}
        BY <2>11, <2>12
    <2> QED
        BY <1>1, <2>3, <2>10, <2>13 DEF N
<1> QED
    BY <1>3, <1>4

LEMMA ScrolledHas ==
    ASSUME NEW table, TableOK(table), NEW snapshot,
           snapshot.counts.allTime = Cardinality(Stored(table)),
           snapshot.recent = FirstPage(table), Stored(table) # {}
    PROVE  Scrolled(snapshot, table) = Stored(table)
<1> DEFINE N == Cardinality(Stored(table))
           K == Cardinality(Records)
           f == RowsAfter(snapshot, table)
           G == {n \in Nat : n <= K => \E m \in 1 .. N : f[n] = Top(table, m) /\ (m > n \/ m = N)}
<1>1. N \in Nat /\ K \in Nat /\ N <= K /\ N # 0
    <2>1. IsFiniteSet(Stored(table))
        BY StoredRows
    <2> QED
        BY <2>1, StoredRows, FS_EmptySet
<1>2. 0 \in G
    <2> DEFINE b == IF 1 * RecentLimit <= N THEN 1 * RecentLimit ELSE N
    <2>1. RecentLimit \in Nat \ {0}
        BY FiguresAssumption
    <2>2. b \in 1 .. N /\ 1 \in Nat /\ 0 = (1 - 1) * RecentLimit /\ 0 \in Nat /\ 0 <= N /\ b \in Nat /\ 0 <= b
        BY <1>1, <2>1
    <2>3. FirstPage(table) = {Listed(table)[i] : i \in 0 + 1 .. b}
        <3>1. b = IF 1 * RecentLimit <= N THEN 1 * RecentLimit ELSE N
            OBVIOUS
        <3> HIDE DEF b
        <3> QED
            BY <2>1, <2>2, <3>1, PageHas DEF FirstPage
    <2>4. FirstPage(table) = Top(table, b)
        BY <2>3 DEF Top
    <2>5. f[0] = Top(table, b)
        BY <2>4, ScrolledIs
    <2> HIDE DEF b, f
    <2> QED
        BY <2>2, <2>5
<1>3. ASSUME NEW n \in Nat, n \in G
      PROVE  n + 1 \in G
    <2> SUFFICES ASSUME n + 1 <= K
                 PROVE  \E m \in 1 .. N : f[n + 1] = Top(table, m) /\ (m > n + 1 \/ m = N)
        OBVIOUS
    <2>1. PICK m \in 1 .. N : f[n] = Top(table, m) /\ (m > n \/ m = N)
        BY <1>1, <1>3
    <2>2. n + 1 \in 1 .. K /\ n + 1 - 1 = n
        BY <1>1
    <2>3. f[n + 1] = Loaded(snapshot, table, f[n])
        BY <2>2, ScrolledIs
    <2>4. PICK k \in 1 .. N : /\ Loaded(snapshot, table, Top(table, m)) = Top(table, k)
                              /\ k > m \/ k = N
        BY LoadsMore
    <2>5. f[n + 1] = Top(table, k)
        BY <2>1, <2>3, <2>4
    <2> HIDE DEF f
    <2>6. k > n + 1 \/ k = N
        BY <1>1, <2>1, <2>4
    <2> QED
        BY <2>5, <2>6
<1>4. Nat \subseteq G
    <2> HIDE DEF G
    <2> QED
        BY <1>2, <1>3, NatSteps
<1>5. PICK m \in 1 .. N : f[K] = Top(table, m) /\ (m > K \/ m = N)
    BY <1>1, <1>4
<1>6. f[K] = Top(table, N)
    <2> HIDE DEF N, K, f
    <2> QED
        BY <1>1, <1>5
<1> QED
    BY <1>6, ScrolledIs, TopHas

-----------------------------------------------------------------------------
(* The snapshot of the store                                               *)

Size == Cardinality(Stored(rows))
First == FirstPage(rows)

StoreOK ==
    /\ TableOK(rows)
    /\ ~dirty => stats.allTime = Size
    /\ ~dirty /\ store # NoSnapshot => store.counts.allTime = Size /\ store.recent = First

LEMMA StoredLater ==
    ASSUME UNCHANGED summer
    PROVE  /\ TableOK(rows)' <=> TableOK(rows')
           /\ Size' = Cardinality(Stored(rows'))
           /\ First' = FirstPage(rows')
<1>1. TableOK(rows)' <=> TableOK(rows')
    BY DEF TableOK
<1>2. Size' = Cardinality(Stored(rows'))
    BY DEF Size, Stored
<1>3. First' = FirstPage(rows')
    BY DEF First, FirstPage, StorePage, PageOf, Listed, Stored, Later, Text, Wall, Offset, Instant, Number
<1> QED
    BY <1>1, <1>2, <1>3

LEMMA SizeOfNone ==
    ASSUME \A r \in Records : rows[r] = 0
    PROVE  Size = 0
<1>1. Stored(rows) = {}
    BY DEF Stored
<1> QED
    BY <1>1, FS_EmptySet DEF Size

LEMMA StoreInit == Init => StoreOK
<1> SUFFICES ASSUME Init PROVE StoreOK
    OBVIOUS
<1>1. rows = [r \in Records |-> 0] /\ store = NoSnapshot /\ stats.allTime = 0
    BY DEF Init
<1>2. Size = 0
    BY <1>1, SizeOfNone
<1> QED
    BY <1>1, <1>2 DEF StoreOK, TableOK

LEMMA RecomputedShows ==
    ASSUME NEW table, Recomputed(table)
    PROVE  /\ stats'.allTime = Cardinality(Stored(table))
           /\ store'.counts.allTime = Cardinality(Stored(table))
           /\ store'.recent = FirstPage(table)
<1>1. stats'.allTime = Cardinality(Stored(table))
    BY DEF Recomputed, StatsLive
<1>2. store'.counts = stats' /\ store'.recent = FirstPage(table)
    BY DEF Recomputed, Assembled
<1> QED
    BY <1>1, <1>2

LEMMA StoreStep ==
    ASSUME StoreOK, LegacyOK, HccOK, ClocksOK, [Next]_vars
    PROVE  StoreOK'
<1>0. UNCHANGED summer
    BY ClocksStay
<1> USE StoredLater
<1>1. CASE StoreMigrates
    <2>1. rows' = [r \in Records |-> IF r \in DOMAIN legacy THEN Migrated(legacy[r]) ELSE 0] /\ Recomputed(rows')
        BY <1>1 DEF StoreMigrates
    <2>2. TableOK(rows')
        <3>1. ASSUME NEW r \in Records, r \in DOMAIN legacy
              PROVE  Migrated(legacy[r]) \in Nat
            <4>1. PICK i \in CleanInstants : legacy[r] = OldForm(OldForms[r], i)
                BY <3>1 DEF LegacyOK, OldTimes
            <4>2. OldForms[r] \in {"utc", "wall", "date"}
                BY FiguresAssumption
            <4> QED
                BY <4>1, <4>2, MigratedKeeps
        <3> QED
            BY <2>1, <3>1 DEF TableOK
    <2>3. /\ stats'.allTime = Cardinality(Stored(rows'))
          /\ store'.counts.allTime = Cardinality(Stored(rows'))
          /\ store'.recent = FirstPage(rows')
        BY <2>1, RecomputedShows
    <2> QED
        BY <1>0, <2>2, <2>3 DEF StoreOK
<1>2. CASE StoreIngests
    <2>1. rows' = [r \in Records |-> IF hcc[r] > 0 THEN FromZoned(hcc[r]) ELSE 0] /\ dirty' = TRUE
        BY <1>2 DEF StoreIngests
    <2>2. \A r \in Records : hcc[r] > 0 => FromZoned(hcc[r]) \in Nat
        BY CleanIsPositive DEF HccOK
    <2>3. TableOK(rows')
        BY <2>1, <2>2 DEF TableOK
    <2> QED
        BY <1>0, <2>1, <2>3 DEF StoreOK
<1>3. CASE StoreRecomputes
    <2>1. UNCHANGED rows /\ Recomputed(rows)
        BY <1>3 DEF StoreRecomputes
    <2>2. /\ stats'.allTime = Size
          /\ store'.counts.allTime = Size
          /\ store'.recent = First
        BY <2>1, RecomputedShows DEF Size, First
    <2> QED
        BY <1>0, <2>1, <2>2 DEF StoreOK, Size, First
<1>4. CASE StoreBroadcasts
    <2>1. UNCHANGED <<rows, stats, dirty>> /\ store'.counts = stats /\ store'.recent = First
        BY <1>4 DEF StoreBroadcasts, Assembled, First
    <2> QED
        BY <1>0, <2>1 DEF StoreOK, Size, First
<1>5. CASE UNCHANGED storeVars
    BY <1>0, <1>5 DEF StoreOK, Size, First, storeVars
<1>6. StoreMigrates \/ StoreIngests \/ StoreRecomputes \/ StoreBroadcasts \/ UNCHANGED storeVars
    BY DEF Next, vars, TimePasses, HccChanges, Plans, Stores, Commits, Interrupted, Publishes
<1> QED
    BY <1>1, <1>2, <1>3, <1>4, <1>5, <1>6

\* Scrolling the latest instances of a snapshot of the store (loadMore, by the number of
\* rows that are loaded) shows every row once, whatever the sizes of the first page and
\* of the others: the rows that are shown are always the first of the list, and each page
\* begins where they end, or before.
THEOREM ScrollingShows == Spec => []ScrollShowsAll
<1> DEFINE Inv == StoreOK /\ LegacyOK /\ HccOK /\ summer \in Summers
<1>1. Init => Inv
    BY StoreInit, LegacyInit, HccInit DEF Init
<1>2. Inv /\ [Next]_vars => Inv'
    BY StoreStep, LegacyStep, HccStep, ClocksStay, ClocksHold
<1>3. Inv => ScrollShowsAll
    <2> SUFFICES ASSUME StoreOK, store # NoSnapshot, ~dirty, Stored(rows) # {}
                 PROVE  /\ Scrolled(store, rows) = Stored(rows)
                        /\ Cardinality(Scrolled(store, rows)) = store.counts.allTime
        BY DEF ScrollShowsAll
    <2>1. TableOK(rows) /\ store.counts.allTime = Cardinality(Stored(rows)) /\ store.recent = FirstPage(rows)
        BY DEF StoreOK, Size, First
    <2>2. Scrolled(store, rows) = Stored(rows)
        BY <2>1, ScrolledHas
    <2> QED
        BY <2>1, <2>2
<1> QED
    BY <1>1, <1>2, <1>3, PTL DEF Spec

-----------------------------------------------------------------------------
(* Days, plans and windows                                                 *)

\* Later instants have later wall clocks, or the same.
LEMMA WallGrows ==
    ASSUME ClocksOK, NEW i \in Int, NEW j \in Int, i <= j
    PROVE  /\ Wall(i) \in Int /\ Wall(j) \in Int /\ Wall(i) <= Wall(j)
           /\ DayOf(i) \in Int /\ DayOf(j) \in Int /\ DayOf(i) <= DayOf(j)
<1>1. Half \in Nat /\ PerDay \in Nat \ {0}
    BY HalfDay
<1>2. Wall(i) \in Int /\ Wall(j) \in Int /\ Wall(i) <= Wall(j)
    <2>1. CASE i = j
        BY <1>1, <2>1, Offsets DEF Wall
    <2>2. CASE i < j
        BY <1>1, <2>2, Offsets DEF Wall
    <2> QED
        BY <2>1, <2>2
<1>3. Wall(i) \div PerDay <= Wall(j) \div PerDay
    BY <1>1, <1>2, DivisionGrows
<1>4. Wall(i) \div PerDay \in Int /\ Wall(j) \div PerDay \in Int
    BY <1>1, <1>2, Division
<1> QED
    BY <1>2, <1>3, <1>4 DEF DayOf

\* The day of every instant, as a function.
Day == [i \in Int |-> DayOf(i)]

LEMMA DayStays ==
    ASSUME UNCHANGED summer
    PROVE  Day' = Day
BY DEF Day, DayOf, Wall, Offset

LEMMA DayZero ==
    ASSUME NEW w \in Nat
    PROVE  w \div PerDay \in Nat
<1>1. PerDay \in Nat \ {0}
    BY HalfDay
<1>2. 0 \div PerDay = 0
    <2>1. 0 \in Int /\ 0 \in 0 .. PerDay - 1 /\ 0 = 0 * PerDay + 0
        BY <1>1
    <2> QED
        BY <1>1, <2>1, DivisionIs
<1>3. 0 \div PerDay <= w \div PerDay /\ w \div PerDay \in Int
    <2>1. 0 \in Int /\ w \in Int /\ 0 <= w
        OBVIOUS
    <2> QED
        BY <1>1, <2>1, Division, DivisionGrows
<1> QED
    BY <1>2, <1>3

\* The days of the model are those of the instants of its clock.
LEMMA DaysAre ==
    ASSUME ClocksOK, NEW i \in Int, 0 <= i, i <= LastInstant
    PROVE  DayOf(i) \in Days
<1>1. Half \in Nat /\ PerDay \in Nat \ {0} /\ PerDay = 2 * Half /\ Half >= 2 /\ LastInstant \in Nat
    BY HalfDay, FiguresAssumption
<1>2. Wall(i) \in Nat /\ Wall(i) <= LastInstant + PerDay
    BY <1>1, Offsets DEF Wall
<1>3. DayOf(i) \in Nat
    BY <1>2, DayZero DEF DayOf
<1>4. (LastInstant + PerDay) \div PerDay = LastInstant \div PerDay + 1
    <2> DEFINE q == LastInstant \div PerDay
               r == LastInstant % PerDay
    <2>1. q \in Int /\ r \in 0 .. PerDay - 1 /\ LastInstant = PerDay * q + r
        <3>1. LastInstant \in Int
            BY <1>1
        <3> QED
            BY <1>1, <3>1, Division
    <2> HIDE DEF q, r
    <2>2. LastInstant + PerDay = (q + 1) * PerDay + r /\ q + 1 \in Int /\ LastInstant + PerDay \in Int
        <3>1. (q + 1) * PerDay = PerDay * q + PerDay
            BY <1>1, <2>1
        <3> QED
            BY <1>1, <2>1, <3>1
    <2>3. (LastInstant + PerDay) \div PerDay = q + 1
        BY <1>1, <2>1, <2>2, DivisionIs
    <2> QED
        BY <2>3 DEF q
<1>5. DayOf(i) <= (LastInstant + PerDay) \div PerDay
    <2>1. Wall(i) \in Int /\ LastInstant + PerDay \in Int
        BY <1>1, <1>2
    <2> QED
        BY <1>1, <1>2, <2>1, DivisionGrows DEF DayOf
<1>6. LastInstant \div PerDay \in Nat
    BY <1>1, DayZero
<1> QED
    BY <1>3, <1>4, <1>5, <1>6 DEF Days

PlanOK ==
    /\ plan.at \in Nat /\ plan.from \in Nat /\ plan.to \in Nat
    /\ plan.from <= plan.to /\ plan.to \in Days /\ plan.to = Day[plan.at]

LEMMA PlansOK ==
    ASSUME ClocksOK, NEW at \in Int, Start <= at, at <= LastInstant
    PROVE  /\ at \in Nat /\ WindowStart(at, RefreshDays) \in Nat /\ DayOf(at) \in Nat
           /\ WindowStart(at, RefreshDays) <= DayOf(at) /\ DayOf(at) \in Days
           /\ DayOf(at) = Day[at]
<1> DEFINE i == at - (RefreshDays - 1) * PerDay
<1>1. /\ PerDay \in Nat \ {0} /\ RefreshDays \in Nat \ {0} /\ Start \in Nat \ {0}
      /\ PerDay * RefreshDays < Start
    BY FiguresAssumption
<1>2. (RefreshDays - 1) * PerDay \in Nat /\ (RefreshDays - 1) * PerDay = PerDay * RefreshDays - PerDay
    BY <1>1
<1>3. i \in Nat /\ i <= at
    BY <1>1, <1>2
<1>4. WindowStart(at, RefreshDays) = DayOf(i)
    BY DEF WindowStart
<1> HIDE DEF i
<1>5. Wall(i) \in Nat
    BY <1>3, Offsets, HalfDay DEF Wall
<1>6. DayOf(i) \in Nat
    BY <1>5, DayZero DEF DayOf
<1>7. DayOf(i) <= DayOf(at) /\ DayOf(at) \in Int
    BY <1>3, WallGrows
<1>8. DayOf(at) \in Days
    BY <1>1, DaysAre
<1> QED
    BY <1>1, <1>4, <1>6, <1>7, <1>8 DEF Day

\* The i-th window of a plan.
StartOf(i) == plan.from + (i - 1) * ChunkDays
Windows == (plan.to - plan.from) \div ChunkDays + 1

\* The windows divide the days of the plan.
LEMMA WindowsDivide ==
    ASSUME PlanOK
    PROVE  /\ Windows \in Nat \ {0}
           /\ \A i \in 1 .. Windows : /\ StartOf(i) \in plan.from .. plan.to
                                      /\ StartOf(i) \in Days
                                      /\ StartOf(i) \in WindowDays(StartOf(i))
                                      /\ WindowDays(StartOf(i)) \subseteq plan.from .. plan.to
           /\ \A i, j \in 1 .. Windows : \A d : d \in WindowDays(StartOf(i)) /\ d \in WindowDays(StartOf(j)) => i = j
           /\ \A d \in plan.from .. plan.to : \E i \in 1 .. Windows : d \in WindowDays(StartOf(i))
           /\ WindowStarts = {StartOf(i) : i \in 1 .. Windows}
           /\ Cardinality(WindowStarts) = Windows
<1> DEFINE from == plan.from
           to == plan.to
           q(d) == (d - from) \div ChunkDays
<1>1. ChunkDays \in Nat \ {0} /\ from \in Nat /\ to \in Nat /\ from <= to
    BY FiguresAssumption DEF PlanOK
<1>2. ASSUME NEW d \in from .. to
      PROVE  /\ q(d) \in Nat /\ q(d) <= q(to) /\ q(to) \in Nat
             /\ (d - from) % ChunkDays \in 0 .. ChunkDays - 1
             /\ d - from = ChunkDays * q(d) + ((d - from) % ChunkDays)
    <2>1. d - from \in Int /\ to - from \in Int /\ 0 \in Int /\ 0 <= d - from /\ d - from <= to - from
        BY <1>1
    <2>2. 0 \div ChunkDays = 0
        <3>1. 0 \in 0 .. ChunkDays - 1 /\ 0 = 0 * ChunkDays + 0
            BY <1>1
        <3> QED
            BY <1>1, <2>1, <3>1, DivisionIs
    <2>3. 0 \div ChunkDays <= q(d) /\ q(d) <= q(to)
        BY <1>1, <2>1, DivisionGrows
    <2>4. /\ q(d) \in Int /\ q(to) \in Int /\ (d - from) % ChunkDays \in 0 .. ChunkDays - 1
          /\ d - from = ChunkDays * q(d) + ((d - from) % ChunkDays)
        BY <1>1, <2>1, Division
    <2> HIDE DEF q
    <2> QED
        BY <2>2, <2>3, <2>4
<1>3. Windows = q(to) + 1 /\ Windows \in Nat \ {0}
    <2>1. Windows = q(to) + 1 /\ to \in from .. to
        BY <1>1 DEF Windows
    <2> HIDE DEF q
    <2> QED
        BY <1>2, <2>1
<1>4. ASSUME NEW d \in from .. to
      PROVE  q(d) + 1 \in 1 .. Windows /\ d = StartOf(q(d) + 1) + ((d - from) % ChunkDays)
    <2> DEFINE r == (d - from) % ChunkDays
    <2> HIDE DEF q
    <2>1. q(d) \in Nat /\ q(d) <= q(to) /\ q(to) \in Nat /\ r \in 0 .. ChunkDays - 1 /\ d - from = ChunkDays * q(d) + r
        BY <1>2
    <2> HIDE DEF r
    <2> DEFINE k == q(d) + 1
    <2>2. k \in 1 .. Windows /\ k - 1 = q(d) /\ k \in Int
        BY <1>3, <2>1
    <2> HIDE DEF k
    <2>3. StartOf(k) = from + (k - 1) * ChunkDays
        BY DEF StartOf
    <2>4. (k - 1) * ChunkDays = ChunkDays * q(d) /\ ChunkDays * q(d) \in Int
        BY <1>1, <2>1, <2>2
    <2>5. d = StartOf(k) + r
        BY <1>1, <2>1, <2>3, <2>4
    <2> QED
        BY <2>2, <2>5 DEF r, k
<1>5. ASSUME NEW i \in 1 .. Windows
      PROVE  /\ StartOf(i) \in from .. to /\ StartOf(i) \in Int
             /\ (StartOf(i) - from) % ChunkDays = 0
    <2>1. i \in Nat /\ i >= 1 /\ i - 1 \in Nat /\ i - 1 <= q(to) /\ q(to) \in Nat
        <3>1. to \in from .. to
            BY <1>1
        <3>2. q(to) \in Nat
            BY <1>2, <3>1
        <3> HIDE DEF q
        <3> QED
            BY <1>3, <3>2
    <2>2. to - from = ChunkDays * q(to) + ((to - from) % ChunkDays) /\ (to - from) % ChunkDays \in Nat
        <3>1. to \in from .. to
            BY <1>1
        <3>2. /\ to - from = ChunkDays * q(to) + ((to - from) % ChunkDays)
              /\ (to - from) % ChunkDays \in 0 .. ChunkDays - 1
            BY <1>2, <3>1
        <3> HIDE DEF q
        <3> QED
            BY <1>1, <3>2
    <2> HIDE DEF q
    <2>3. (i - 1) * ChunkDays \in Nat /\ (i - 1) * ChunkDays <= ChunkDays * q(to) /\ ChunkDays * q(to) \in Nat
        BY <1>1, <2>1
    <2>4. StartOf(i) \in from .. to /\ StartOf(i) \in Int /\ StartOf(i) - from = (i - 1) * ChunkDays + 0
        <3>1. StartOf(i) = from + (i - 1) * ChunkDays
            BY DEF StartOf
        <3>2. (to - from) % ChunkDays >= 0
            BY <2>2
        <3> DEFINE rest == (to - from) % ChunkDays
        <3>3. rest \in Nat /\ to - from = ChunkDays * q(to) + rest
            BY <2>2
        <3> HIDE DEF rest
        <3> QED
            BY <1>1, <2>3, <3>1, <3>3
    <2>5. (StartOf(i) - from) % ChunkDays = 0
        <3>1. StartOf(i) - from \in Int /\ i - 1 \in Int /\ 0 \in 0 .. ChunkDays - 1
            BY <1>1, <2>1, <2>4
        <3> QED
            BY <1>1, <2>4, <3>1, DivisionIs
    <2> QED
        BY <2>4, <2>5
<1> HIDE DEF q
<1>6. \A i \in 1 .. Windows : /\ \A d : d \in WindowDays(StartOf(i)) <=>
                                     /\ d \in from .. to /\ StartOf(i) <= d
                                     /\ d <= StartOf(i) + ChunkDays - 1
    BY <1>1, <1>5 DEF WindowDays
<1>7. ASSUME NEW i \in 1 .. Windows, NEW j \in 1 .. Windows, NEW d,
             d \in WindowDays(StartOf(i)), d \in WindowDays(StartOf(j)), i < j
      PROVE  FALSE
    <2>1. /\ StartOf(j) <= d /\ d <= StartOf(i) + ChunkDays - 1 /\ d \in Int
        BY <1>1, <1>6, <1>7
    <2>2. StartOf(i) = from + (i - 1) * ChunkDays /\ StartOf(j) = from + (j - 1) * ChunkDays
        BY DEF StartOf
    <2>3. /\ (i - 1) * ChunkDays \in Int /\ (j - 1) * ChunkDays \in Int
          /\ (j - 1) * ChunkDays >= (i - 1) * ChunkDays + ChunkDays
        <3>1. i - 1 \in Nat /\ j - 1 \in Nat /\ i - 1 + 1 <= j - 1
            BY <1>3, <1>7
        <3>2. (i - 1 + 1) * ChunkDays = (i - 1) * ChunkDays + ChunkDays
            BY <1>1, <3>1
        <3>3. (i - 1 + 1) * ChunkDays <= (j - 1) * ChunkDays
            BY <1>1, <3>1
        <3> QED
            BY <1>1, <3>1, <3>2, <3>3
    <2> QED
        BY <1>1, <2>1, <2>2, <2>3
<1>8. ASSUME NEW d \in from .. to
      PROVE  d \in WindowDays(StartOf(q(d) + 1)) /\ q(d) + 1 \in 1 .. Windows
    <2>1. q(d) + 1 \in 1 .. Windows /\ d = StartOf(q(d) + 1) + ((d - from) % ChunkDays)
        BY <1>4
    <2>2. StartOf(q(d) + 1) \in Int /\ (d - from) % ChunkDays \in 0 .. ChunkDays - 1
        BY <1>2, <1>5, <2>1
    <2> DEFINE r == (d - from) % ChunkDays
    <2>3. r \in 0 .. ChunkDays - 1 /\ d = StartOf(q(d) + 1) + r
        BY <2>1, <2>2
    <2> HIDE DEF r
    <2>4. StartOf(q(d) + 1) <= d /\ d <= StartOf(q(d) + 1) + ChunkDays - 1
        BY <1>1, <2>2, <2>3
    <2> QED
        BY <1>6, <2>1, <2>4
<1>9. WindowStarts = {StartOf(i) : i \in 1 .. Windows}
    <2>1. ASSUME NEW d \in WindowStarts
          PROVE  \E i \in 1 .. Windows : d = StartOf(i)
        <3>1. d \in from .. to /\ (d - from) % ChunkDays = 0
            BY DEF WindowStarts
        <3>2. q(d) + 1 \in 1 .. Windows /\ d = StartOf(q(d) + 1) + 0
            BY <1>4, <3>1
        <3>3. StartOf(q(d) + 1) \in Int
            BY <1>5, <3>2
        <3> QED
            BY <3>2, <3>3
    <2>2. \A i \in 1 .. Windows : StartOf(i) \in WindowStarts
        BY <1>5 DEF WindowStarts
    <2> QED
        BY <2>1, <2>2
<1>10. \A i \in 1 .. Windows : StartOf(i) \in WindowDays(StartOf(i))
    BY <1>1, <1>5, <1>6
<1>11. \A i, j \in 1 .. Windows : \A d : d \in WindowDays(StartOf(i)) /\ d \in WindowDays(StartOf(j)) => i = j
    <2>1. \A i, j \in 1 .. Windows : i < j \/ j < i \/ i = j
        BY <1>3
    <2> QED
        BY <1>7, <2>1
<1>12. Cardinality(WindowStarts) = Windows
    <2> DEFINE f == [i \in 1 .. Windows |-> StartOf(i)]
    <2>1. f \in [1 .. Windows -> WindowStarts] /\ \A d \in WindowStarts : \E i \in 1 .. Windows : f[i] = d
        BY <1>9
    <2>2. \A i, j \in 1 .. Windows : f[i] = f[j] => i = j
        BY <1>10, <1>11
    <2>3. f \in Bijection(1 .. Windows, WindowStarts)
        <3> HIDE DEF f
        <3> QED
            BY <2>1, <2>2 DEF Bijection, Injection, Surjection, IsInjective
    <2>4. ExistsBijection(1 .. Windows, WindowStarts)
        <3> HIDE DEF f
        <3> QED
            BY <2>3 DEF ExistsBijection
    <2>5. IsFiniteSet(1 .. Windows) /\ Cardinality(1 .. Windows) = Windows
        BY <1>3, FS_Interval
    <2> QED
        BY <2>4, <2>5, FS_Bijection
<1>13. \A i \in 1 .. Windows : StartOf(i) \in Days /\ WindowDays(StartOf(i)) \subseteq from .. to
    <2>1. LastInstant \div PerDay \in Nat
        BY FiguresAssumption, DayZero
    <2> QED
        BY <1>1, <1>5, <1>6, <2>1 DEF PlanOK, Days
<1> QED
    BY <1>3, <1>5, <1>8, <1>9, <1>10, <1>11, <1>12, <1>13

-----------------------------------------------------------------------------
(* Copies                                                                  *)

FiniteCopies == {C \in SUBSET (Records \X Nat) : IsFiniteSet(C)}

LEMMA FetchedOK ==
    ASSUME HccOK, ClocksOK, NEW a \in Int, NEW b \in Int
    PROVE  /\ Fetched(a, b) \in FiniteCopies
           /\ \A c \in Fetched(a, b) : DayOf(Instant(c)) \in a .. b
<1> DEFINE F == Fetched(a, b)
           f == [c \in F |-> Number(c)]
<1>1. ASSUME NEW c \in F
      PROVE  /\ Number(c) \in Records /\ Instant(c) = FromZoned(hcc[Number(c)]) /\ hcc[Number(c)] > 0
             /\ hcc[Number(c)] \div PerDay \in a .. b /\ c = <<Number(c), Instant(c)>>
    BY DEF Fetched, Number, Instant
<1>2. \A c \in F : /\ c \in Records \X Nat /\ DayOf(Instant(c)) \in a .. b
    <2> TAKE c \in F
    <2>1. hcc[Number(c)] \in Int /\ hcc[Number(c)] >= PerDay
        BY <1>1 DEF HccOK
    <2>2. Instant(c) \in Nat /\ DayOf(Instant(c)) = hcc[Number(c)] \div PerDay
        BY <1>1, <2>1, CleanIsPositive, CleanedKeepsDay
    <2> QED
        BY <1>1, <2>2
<1>3. \A c, e \in F : Number(c) = Number(e) => c = e
    BY <1>1
<1>4. f \in Injection(F, Records)
    <2>1. f \in [F -> Records] /\ \A c, e \in F : f[c] = f[e] => c = e
        BY <1>1, <1>3
    <2> HIDE DEF f
    <2> QED
        BY <2>1 DEF Injection, IsInjective
<1>5. IsFiniteSet(F)
    <2>1. IsFiniteSet(Records)
        BY FiguresAssumption
    <2> HIDE DEF F, f
    <2> QED
        BY <1>4, <2>1, FS_Injection
<1> HIDE DEF F
<1>6. F \in FiniteCopies
    BY <1>2, <1>5 DEF FiniteCopies
<1> QED
    BY <1>2, <1>6 DEF F

LEMMA RangeEnds ==
    ASSUME NEW a \in Int, NEW b \in Int, a <= b
    PROVE  Min(a .. b) = a /\ Max(a .. b) = b
<1>1. \A x \in a .. b : a <= x /\ x <= b
    OBVIOUS
<1>2. a \in a .. b /\ b \in a .. b
    OBVIOUS
<1>3. Min(a .. b) \in a .. b /\ \A y \in a .. b : Min(a .. b) <= y
    BY <1>1, <1>2 DEF Min
<1>4. Max(a .. b) \in a .. b /\ \A y \in a .. b : Max(a .. b) >= y
    BY <1>1, <1>2 DEF Max
<1> QED
    BY <1>2, <1>3, <1>4

\* Pairs that their second parts tell apart are as many as these.
LEMMA SecondCounts ==
    ASSUME NEW T, IsFiniteSet(T), \A p, q \in T : p[2] = q[2] => p = q
    PROVE  Cardinality(T) = Cardinality({p[2] : p \in T})
<1> DEFINE U == {p[2] : p \in T}
           f == [p \in T |-> p[2]]
<1>1. /\ f \in [T -> U] /\ \A p, q \in T : f[p] = f[q] => p = q
      /\ \A u \in U : \E p \in T : f[p] = u
    OBVIOUS
<1>2. f \in Bijection(T, U)
    <2> HIDE DEF f, U
    <2> QED
        BY <1>1 DEF Bijection, Injection, Surjection, IsInjective
<1>3. ExistsBijection(T, U)
    <2> HIDE DEF f
    <2> QED
        BY <1>2 DEF ExistsBijection
<1> QED
    BY <1>3, FS_Bijection

-----------------------------------------------------------------------------
(* The summaries, put together                                             *)

\* The summaries are those of the chunks, and a chunk has records of its window only.
Summaries == [d \in Days |-> Summarize(chunks[d], d)]

Committed(k) ==
    \A i \in 1 .. k : /\ sums[i] = Summaries[StartOf(i)]
                      /\ \A c \in chunks[StartOf(i)] : Day[Instant(c)] \in WindowDays(StartOf(i))

ChunksOK == chunks \in [Days -> FiniteCopies]

\* All windows are summarised.
Complete == PlanOK /\ ChunksOK /\ DOMAIN sums = 1 .. Windows /\ Committed(Windows)

LEMMA PublishedIs ==
    ASSUME Complete
    PROVE  /\ Published \subseteq Records \X Nat /\ IsFiniteSet(Published)
           /\ Published = UNION {chunks[StartOf(i)] : i \in 1 .. Windows}
           /\ \A i \in 1 .. Windows : /\ chunks[StartOf(i)] \subseteq Published
                                      /\ IsFiniteSet(chunks[StartOf(i)])
           /\ \A i, j \in 1 .. Windows : \A c :
                  c \in chunks[StartOf(i)] /\ c \in chunks[StartOf(j)] => i = j
           /\ \A c \in Published : Day[Instant(c)] \in plan.from .. plan.to
<1>1. /\ WindowStarts = {StartOf(i) : i \in 1 .. Windows} /\ Windows \in Nat
      /\ \A i \in 1 .. Windows : StartOf(i) \in Days /\ WindowDays(StartOf(i)) \subseteq plan.from .. plan.to
      /\ \A i, j \in 1 .. Windows : \A d : d \in WindowDays(StartOf(i)) /\ d \in WindowDays(StartOf(j)) => i = j
    BY WindowsDivide DEF Complete
<1>2. Published = UNION {chunks[StartOf(i)] : i \in 1 .. Windows}
    BY <1>1 DEF Published
<1>3. \A i \in 1 .. Windows : chunks[StartOf(i)] \in FiniteCopies
    BY <1>1 DEF Complete, ChunksOK
<1>4. \A i \in 1 .. Windows : /\ chunks[StartOf(i)] \subseteq Records \X Nat
                              /\ IsFiniteSet(chunks[StartOf(i)])
    BY <1>3 DEF FiniteCopies
<1>5. Published \subseteq Records \X Nat /\ \A i \in 1 .. Windows : chunks[StartOf(i)] \subseteq Published
    BY <1>2, <1>4
<1>6. IsFiniteSet(Published)
    <2> DEFINE G == {k \in Nat : k <= Windows => IsFiniteSet(UNION {chunks[StartOf(i)] : i \in 1 .. k})}
    <2>1. 0 \in G
        <3>1. UNION {chunks[StartOf(i)] : i \in 1 .. 0} = {}
            OBVIOUS
        <3> QED
            BY <3>1, FS_EmptySet
    <2>2. ASSUME NEW k \in Nat, k \in G
          PROVE  k + 1 \in G
        <3> SUFFICES ASSUME k + 1 <= Windows
                     PROVE  IsFiniteSet(UNION {chunks[StartOf(i)] : i \in 1 .. k + 1})
            OBVIOUS
        <3>1. IsFiniteSet(UNION {chunks[StartOf(i)] : i \in 1 .. k})
            BY <1>1, <2>2
        <3>2. 1 .. k + 1 = (1 .. k) \cup {k + 1} /\ k + 1 \in 1 .. Windows
            BY <1>1
        <3>3. UNION {chunks[StartOf(i)] : i \in 1 .. k + 1} =
                  (UNION {chunks[StartOf(i)] : i \in 1 .. k}) \cup chunks[StartOf(k + 1)]
            BY <3>2
        <3>4. IsFiniteSet(chunks[StartOf(k + 1)])
            BY <1>4, <3>2
        <3> DEFINE A == UNION {chunks[StartOf(i)] : i \in 1 .. k}
                   B == chunks[StartOf(k + 1)]
        <3>5. IsFiniteSet(A) /\ IsFiniteSet(B)
            BY <3>1, <3>4
        <3> HIDE DEF A, B
        <3>6. IsFiniteSet(A \cup B)
            BY <3>5, FS_Union
        <3> QED
            BY <3>3, <3>6 DEF A, B
    <2>3. Nat \subseteq G
        <3> HIDE DEF G
        <3> QED
            BY <2>1, <2>2, NatSteps
    <2> QED
        BY <1>1, <1>2, <2>3
<1>7. \A i \in 1 .. Windows : \A c \in chunks[StartOf(i)] : Day[Instant(c)] \in WindowDays(StartOf(i))
    BY DEF Complete, Committed
<1>8. \A i, j \in 1 .. Windows : \A c : c \in chunks[StartOf(i)] /\ c \in chunks[StartOf(j)] => i = j
    BY <1>1, <1>7
<1>9. \A c \in Published : Day[Instant(c)] \in plan.from .. plan.to
    BY <1>1, <1>2, <1>7
<1> QED
    BY <1>2, <1>4, <1>5, <1>6, <1>8, <1>9

\* One part of the summaries: K says which copies count for what.
Counted(copies, K, x) == Cardinality({c \in copies : <<c, x>> \in K})

PartsCount(part, K, D, none) ==
    /\ IsFun(none) /\ \A x \in DOMAIN none : none[x] = 0
    /\ \A i \in 1 .. Windows :
           /\ DOMAIN sums[i][part] = D[i]
           /\ \A x \in D[i] : sums[i][part][x] = Counted(chunks[StartOf(i)], K, x)
    /\ \A i \in 1 .. Windows : \A c \in chunks[StartOf(i)] : \A x : <<c, x>> \in K => x \in D[i]

WholeCounts(part, K, D, none) ==
    LET merged == Merged(part, none)
    IN  /\ IsFun(merged)
        /\ \A x : x \in DOMAIN merged <=> x \in DOMAIN none \/ \E i \in 1 .. Windows : x \in D[i]
        /\ \A x \in DOMAIN merged : merged[x] = Counted(Published, K, x)

LEMMA PartAddsUp ==
    ASSUME Complete, NEW part, NEW K, NEW D, NEW none, PartsCount(part, K, D, none)
    PROVE  WholeCounts(part, K, D, none)
<1>0. /\ IsFun(none) /\ \A x \in DOMAIN none : none[x] = 0
      /\ \A i \in 1 .. Windows :
             /\ DOMAIN sums[i][part] = D[i]
             /\ \A x \in D[i] : sums[i][part][x] = Counted(chunks[StartOf(i)], K, x)
      /\ \A i \in 1 .. Windows : \A c \in chunks[StartOf(i)] : \A x : <<c, x>> \in K => x \in D[i]
    BY DEF PartsCount
<1> USE <1>0
<1> DEFINE W == 1 .. Windows
           chunk(i) == chunks[StartOf(i)]
           C == {p \in W \X Published : p[2] \in chunk(p[1])}
           XX == UNION {D[i] : i \in W}
           M == {z \in C \X XX : <<z[1][2], z[2]>> \in K}
<1>1. /\ Published = UNION {chunk(i) : i \in W} /\ IsFiniteSet(Published)
      /\ \A i \in W : chunk(i) \subseteq Published
      /\ \A i, j \in W : \A c : c \in chunk(i) /\ c \in chunk(j) => i = j
    BY PublishedIs
<1>2. Windows \in Nat /\ IsFiniteSet(W) /\ DOMAIN sums = W
    BY WindowsDivide, FS_Interval DEF Complete
<1>3. IsFiniteSet(C)
    <2>1. IsFiniteSet(W \X Published)
        BY <1>1, <1>2, FS_Product
    <2> QED
        BY <2>1, FS_Subset
<1> HIDE DEF chunk
<1>4. \A p \in C : p[1] \in W /\ p[2] \in chunk(p[1]) /\ p = <<p[1], p[2]>>
    OBVIOUS
<1>5. \A p, q \in C : p[2] = q[2] => p = q
    BY <1>1, <1>4
<1>6. \A i \in W : \A c \in chunk(i) : <<i, c>> \in C
    BY <1>1
<1>7. \A p \in C : \A x : <<p, x>> \in M <=> <<p[2], x>> \in K
    <2>1. \A p \in C : \A x : <<p[2], x>> \in K => x \in XX
        BY <1>4 DEF chunk
    <2> QED
        BY <2>1
<1> HIDE DEF C, M
<1>8. ASSUME NEW T, T \subseteq C
      PROVE  Cardinality(T) = Cardinality({p[2] : p \in T})
    BY <1>3, <1>5, <1>8, FS_Subset, SecondCounts
<1>9. ASSUME NEW i \in W, NEW x
      PROVE  Cardinality({c \in chunk(i) : <<c, x>> \in K}) =
                 Cardinality({p \in C : p[1] = i /\ <<p, x>> \in M})
    <2> DEFINE T == {p \in C : p[1] = i /\ <<p, x>> \in M}
    <2>1. {p[2] : p \in T} = {c \in chunk(i) : <<c, x>> \in K}
        <3>1. \A p \in T : p[2] \in chunk(i) /\ <<p[2], x>> \in K
            BY <1>4, <1>7
        <3>2. ASSUME NEW c \in chunk(i), <<c, x>> \in K
              PROVE  \E p \in T : c = p[2]
            <4>1. <<i, c>> \in C /\ <<i, c>>[1] = i /\ <<i, c>>[2] = c
                BY <1>6
            <4>2. <<<<i, c>>, x>> \in M
                BY <1>7, <3>2, <4>1
            <4> QED
                BY <4>1, <4>2
        <3> HIDE DEF T
        <3>3. \A c \in {p[2] : p \in T} : c \in chunk(i) /\ <<c, x>> \in K
            BY <3>1
        <3>4. \A c \in chunk(i) : <<c, x>> \in K => c \in {p[2] : p \in T}
            BY <3>2
        <3> QED
            BY <3>3, <3>4
    <2> QED
        BY <1>8, <2>1
<1>10. ASSUME NEW x
       PROVE  Cardinality({p \in C : p[1] \in W /\ <<p, x>> \in M}) =
                  Cardinality({c \in Published : <<c, x>> \in K})
    <2> DEFINE T == {p \in C : p[1] \in W /\ <<p, x>> \in M}
    <2>1. {p[2] : p \in T} = {c \in Published : <<c, x>> \in K}
        <3>1. \A p \in T : p[2] \in Published /\ <<p[2], x>> \in K
            BY <1>1, <1>4, <1>7
        <3>2. ASSUME NEW c \in Published, <<c, x>> \in K
              PROVE  \E p \in T : c = p[2]
            <4>1. PICK i \in W : c \in chunk(i)
                BY <1>1
            <4>2. <<i, c>> \in C /\ <<i, c>>[1] = i /\ <<i, c>>[2] = c
                BY <1>6, <4>1
            <4>3. <<<<i, c>>, x>> \in M
                BY <1>7, <3>2, <4>2
            <4> QED
                BY <4>2, <4>3
        <3> HIDE DEF T
        <3>3. \A c \in {p[2] : p \in T} : c \in Published /\ <<c, x>> \in K
            BY <3>1
        <3>4. \A c \in Published : <<c, x>> \in K => c \in {p[2] : p \in T}
            BY <3>2
        <3> QED
            BY <3>3, <3>4
    <2> QED
        BY <1>8, <2>1
<1>11. \A i \in DOMAIN sums : /\ DOMAIN sums[i][part] = D[i]
                               /\ \A x \in D[i] : sums[i][part][x] = CountedOf(C, M, {i}, x)
    <2> TAKE i \in DOMAIN sums
    <2>1. DOMAIN sums[i][part] = D[i] /\ i \in W
        BY <1>2
    <2>2. ASSUME NEW x \in D[i]
          PROVE  sums[i][part][x] = CountedOf(C, M, {i}, x)
        <3>1. sums[i][part][x] = Cardinality({c \in chunk(i) : <<c, x>> \in K})
            BY <2>1 DEF chunk, Counted
        <3>2. {p \in C : p[1] \in {i} /\ <<p, x>> \in M} = {p \in C : p[1] = i /\ <<p, x>> \in M}
            OBVIOUS
        <3>3. CountedOf(C, M, {i}, x) = Cardinality({p \in C : p[1] = i /\ <<p, x>> \in M})
            BY <3>2 DEF CountedOf
        <3> QED
            BY <1>9, <2>1, <3>1, <3>3
    <2> QED
        BY <2>1, <2>2
<1>12. \A p \in C : \A x : <<p, x>> \in M /\ p[1] \in DOMAIN sums => x \in D[p[1]]
    BY <1>4, <1>7 DEF chunk
<1>13. \A x : CountedOf(C, M, DOMAIN sums, x) = Counted(Published, K, x)
    BY <1>2, <1>10 DEF CountedOf, Counted
<1>14. CountedWhole(part, C, M, D, none)
    <2>1. IsFiniteSet(DOMAIN sums)
        BY <1>2
    <2>2. CountedParts(part, C, M, D, none)
        BY <1>11, <1>12 DEF CountedParts
    <2> QED
        BY <1>3, <2>1, <2>2, MergedCounts
<1> QED
    BY <1>2, <1>13, <1>14 DEF CountedWhole, WholeCounts

\* The figures of all copies at once
LiveCounts == Counts(Published, plan.at, plan.to)
Labels == LabelCounts(Published)
Trend == [d \in plan.from .. plan.to |-> DailyCounts(Published)[d]]

LEMMA DaysToPlan ==
    ASSUME PlanOK
    PROVE  plan.from .. plan.to \subseteq Days
<1> DEFINE last == LastInstant \div PerDay + 1
<1>1. last \in Nat
    BY FiguresAssumption, DayZero
<1>2. Days = 0 .. last
    BY DEF Days
<1> HIDE DEF last
<1> QED
    BY <1>1, <1>2 DEF PlanOK

LEMMA SummaryIs ==
    ASSUME Complete, NEW i \in 1 .. Windows
    PROVE  /\ sums[i]["counts"] = Counts(chunks[StartOf(i)], plan.at, plan.to)
           /\ sums[i]["labels"] = LabelCounts(chunks[StartOf(i)])
           /\ sums[i]["trend"] = [d \in WindowDays(StartOf(i)) |-> DailyCounts(chunks[StartOf(i)])[d]]
           /\ sums[i].recent = Newest(chunks[StartOf(i)], RecentLimit)
<1>1. StartOf(i) \in Days
    BY WindowsDivide DEF Complete
<1>2. sums[i] = Summaries[StartOf(i)]
    BY DEF Complete, Committed
<1>3. sums[i] = Summarize(chunks[StartOf(i)], StartOf(i))
    BY <1>1, <1>2 DEF Summaries
<1> QED
    BY <1>3 DEF Summarize

LEMMA CountsAddUp ==
    ASSUME Complete
    PROVE  Merged("counts", NoSummary.counts) = LiveCounts
<1> DEFINE F == {"today", "towedToday", "last24h", "short", "month"}
           none == NoSummary.counts
           Has(c, x) ==
               \/ x = "today" /\ DayOf(Instant(c)) = plan.to
               \/ x = "towedToday" /\ DayOf(Instant(c)) = plan.to /\ Number(c) \in Towed
               \/ x = "last24h" /\ Instant(c) >= plan.at - PerDay
               \/ x = "short" /\ DayOf(Instant(c)) >= WindowStart(plan.at, ShortDays)
               \/ x = "month" /\ DayOf(Instant(c)) >= MonthStart(plan.to)
           K == {z \in Published \X F : Has(z[1], z[2])}
           D == [i \in 1 .. Windows |-> F]
<1>1. ASSUME NEW copies, copies \subseteq Published
      PROVE  LET counts == Counts(copies, plan.at, plan.to)
             IN  IsFun(counts) /\ DOMAIN counts = F /\ \A x \in F : counts[x] = Counted(copies, K, x)
    <2> DEFINE counts == Counts(copies, plan.at, plan.to)
    <2>1. IsFun(counts) /\ DOMAIN counts = F
        BY DEF Counts, IsFun
    <2>2. \A c \in copies : \A x \in F : <<c, x>> \in K <=> Has(c, x)
        BY <1>1
    <2>3. {c \in copies : <<c, "today">> \in K} = {c \in copies : DayOf(Instant(c)) = plan.to}
        BY <2>2
    <2>4. {c \in copies : <<c, "towedToday">> \in K} =
              {c \in copies : DayOf(Instant(c)) = plan.to /\ Number(c) \in Towed}
        BY <2>2
    <2>5. {c \in copies : <<c, "last24h">> \in K} = {c \in copies : Instant(c) >= plan.at - PerDay}
        BY <2>2
    <2>6. {c \in copies : <<c, "short">> \in K} =
              {c \in copies : DayOf(Instant(c)) >= WindowStart(plan.at, ShortDays)}
        BY <2>2
    <2>7. {c \in copies : <<c, "month">> \in K} = {c \in copies : DayOf(Instant(c)) >= MonthStart(plan.to)}
        BY <2>2
    <2> HIDE DEF K
    <2>8. /\ counts["today"] = Counted(copies, K, "today")
          /\ counts["towedToday"] = Counted(copies, K, "towedToday")
          /\ counts["last24h"] = Counted(copies, K, "last24h")
          /\ counts["short"] = Counted(copies, K, "short")
          /\ counts["month"] = Counted(copies, K, "month")
        BY <2>3, <2>4, <2>5, <2>6, <2>7 DEF Counts, Counted
    <2>9. \A x \in F : counts[x] = Counted(copies, K, x)
        <3> HIDE DEF counts
        <3> QED
            BY <2>8
    <2> HIDE DEF F
    <2> QED
        BY <2>1, <2>9
<1>2. /\ IsFun(none) /\ DOMAIN none = F /\ \A x \in DOMAIN none : none[x] = 0
    BY DEF NoSummary, IsFun
<1>3. \A i \in 1 .. Windows : chunks[StartOf(i)] \subseteq Published
    BY PublishedIs
<1>4. PartsCount("counts", K, D, none)
    <2>1. ASSUME NEW i \in 1 .. Windows
          PROVE  /\ DOMAIN sums[i]["counts"] = D[i]
                 /\ \A x \in D[i] : sums[i]["counts"][x] = Counted(chunks[StartOf(i)], K, x)
        <3>1. sums[i]["counts"] = Counts(chunks[StartOf(i)], plan.at, plan.to) /\ D[i] = F
            BY SummaryIs
        <3> HIDE DEF K, D, F
        <3> QED
            BY <1>1, <1>3, <3>1
    <2>2. \A i \in 1 .. Windows : \A c \in chunks[StartOf(i)] : \A x : <<c, x>> \in K => x \in D[i]
        OBVIOUS
    <2> HIDE DEF K, D, none
    <2> QED
        BY <1>2, <2>1, <2>2 DEF PartsCount
<1>5. WholeCounts("counts", K, D, none)
    <2> HIDE DEF K, D, none
    <2> QED
        BY <1>4, PartAddsUp
<1>6. /\ IsFun(LiveCounts) /\ DOMAIN LiveCounts = F
      /\ \A x \in F : LiveCounts[x] = Counted(Published, K, x)
    <2> HIDE DEF K, F
    <2> QED
        BY <1>1 DEF LiveCounts
<1> DEFINE merged == Merged("counts", none)
<1>7. /\ IsFun(merged) /\ DOMAIN merged = F /\ \A x \in F : merged[x] = Counted(Published, K, x)
    <2>1. /\ IsFun(merged)
          /\ \A x : x \in DOMAIN merged <=> x \in DOMAIN none \/ \E i \in 1 .. Windows : x \in D[i]
          /\ \A x \in DOMAIN merged : merged[x] = Counted(Published, K, x)
        <3> HIDE DEF K, D, none
        <3> QED
            BY <1>5 DEF WholeCounts
    <2>2. \A i \in 1 .. Windows : D[i] = F
        OBVIOUS
    <2> HIDE DEF merged, none, K, D, F
    <2> QED
        BY <1>2, <2>1, <2>2
<1> HIDE DEF merged, F, K
<1>8. merged = LiveCounts
    BY <1>6, <1>7 DEF IsFun
<1> QED
    BY <1>8 DEF merged

LEMMA LabelsAddUp ==
    ASSUME Complete
    PROVE  Merged("labels", <<>>) = Labels
<1> DEFINE Of(copies) == {LabelOf[Number(c)] : c \in copies}
           none == <<>>
           K == {z \in Published \X Of(Published) : z[2] = LabelOf[Number(z[1])]}
           D == [i \in 1 .. Windows |-> Of(chunks[StartOf(i)])]
<1>1. ASSUME NEW copies, copies \subseteq Published
      PROVE  LET counts == LabelCounts(copies)
             IN  /\ IsFun(counts) /\ DOMAIN counts = Of(copies)
                 /\ \A x \in Of(copies) : counts[x] = Counted(copies, K, x)
    <2> DEFINE counts == LabelCounts(copies)
    <2>1. IsFun(counts) /\ DOMAIN counts = Of(copies)
        BY DEF LabelCounts, IsFun
    <2>2. ASSUME NEW x \in Of(copies)
          PROVE  counts[x] = Counted(copies, K, x)
        <3>1. {c \in copies : <<c, x>> \in K} = {c \in copies : LabelOf[Number(c)] = x}
            BY <1>1
        <3> HIDE DEF K
        <3> QED
            BY <3>1 DEF Counted, LabelCounts
    <2> QED
        BY <2>1, <2>2
<1>2. /\ IsFun(none) /\ DOMAIN none = {}
    BY DEF IsFun
<1>3. /\ \A i \in 1 .. Windows : chunks[StartOf(i)] \subseteq Published
      /\ Published = UNION {chunks[StartOf(i)] : i \in 1 .. Windows}
    BY PublishedIs
<1>4. PartsCount("labels", K, D, none)
    <2>1. ASSUME NEW i \in 1 .. Windows
          PROVE  /\ DOMAIN sums[i]["labels"] = D[i]
                 /\ \A x \in D[i] : sums[i]["labels"][x] = Counted(chunks[StartOf(i)], K, x)
        <3>1. sums[i]["labels"] = LabelCounts(chunks[StartOf(i)]) /\ D[i] = Of(chunks[StartOf(i)])
            BY SummaryIs
        <3> HIDE DEF K, D, Of
        <3> QED
            BY <1>1, <1>3, <3>1
    <2>2. \A i \in 1 .. Windows : \A c \in chunks[StartOf(i)] : \A x : <<c, x>> \in K => x \in D[i]
        OBVIOUS
    <2> HIDE DEF K, D, none
    <2> QED
        BY <1>2, <2>1, <2>2 DEF PartsCount
<1>5. WholeCounts("labels", K, D, none)
    <2> HIDE DEF K, D, none
    <2> QED
        BY <1>4, PartAddsUp
<1>6. /\ IsFun(Labels) /\ DOMAIN Labels = Of(Published)
      /\ \A x \in Of(Published) : Labels[x] = Counted(Published, K, x)
    <2> HIDE DEF K, Of
    <2> QED
        BY <1>1 DEF Labels
<1>7. \A x : x \in Of(Published) <=> \E i \in 1 .. Windows : x \in D[i]
    <2>1. \A i \in 1 .. Windows : D[i] = {LabelOf[Number(c)] : c \in chunks[StartOf(i)]}
        OBVIOUS
    <2> HIDE DEF D
    <2> QED
        BY <1>3, <2>1
<1> DEFINE merged == Merged("labels", none)
<1>8. /\ IsFun(merged) /\ DOMAIN merged = Of(Published)
      /\ \A x \in Of(Published) : merged[x] = Counted(Published, K, x)
    <2>1. /\ IsFun(merged)
          /\ \A x : x \in DOMAIN merged <=> x \in DOMAIN none \/ \E i \in 1 .. Windows : x \in D[i]
          /\ \A x \in DOMAIN merged : merged[x] = Counted(Published, K, x)
        <3> HIDE DEF K, D, none
        <3> QED
            BY <1>5 DEF WholeCounts
    <2> HIDE DEF merged, none, K, D, Of
    <2> QED
        BY <1>2, <1>7, <2>1
<1> HIDE DEF merged, Of, K
<1>9. merged = Labels
    BY <1>6, <1>8 DEF IsFun
<1> QED
    BY <1>9 DEF merged

LEMMA TrendAddsUp ==
    ASSUME Complete
    PROVE  Merged("trend", [d \in plan.from .. plan.to |-> 0]) = Trend
<1> DEFINE X == plan.from .. plan.to
           none == [d \in X |-> 0]
           K == {z \in Published \X X : DayOf(Instant(z[1])) = z[2]}
           D == [i \in 1 .. Windows |-> WindowDays(StartOf(i))]
<1>0. X \subseteq Days
    BY DaysToPlan DEF Complete
<1>1. ASSUME NEW copies, copies \subseteq Published, NEW d \in X
      PROVE  DailyCounts(copies)[d] = Counted(copies, K, d)
    <2>1. {c \in copies : <<c, d>> \in K} = {c \in copies : DayOf(Instant(c)) = d}
        BY <1>1
    <2>2. d \in Days
        BY <1>0
    <2> HIDE DEF K
    <2> QED
        BY <2>1, <2>2 DEF Counted, DailyCounts
<1>2. /\ IsFun(none) /\ DOMAIN none = X /\ \A x \in DOMAIN none : none[x] = 0
    BY DEF IsFun
<1>3. /\ \A i \in 1 .. Windows : chunks[StartOf(i)] \subseteq Published
      /\ Published \subseteq Records \X Nat
      /\ \A i \in 1 .. Windows : \A c \in chunks[StartOf(i)] : Day[Instant(c)] \in WindowDays(StartOf(i))
      /\ \A i \in 1 .. Windows : WindowDays(StartOf(i)) \subseteq X
    BY PublishedIs, WindowsDivide DEF Complete, Committed
<1>4. PartsCount("trend", K, D, none)
    <2>1. ASSUME NEW i \in 1 .. Windows
          PROVE  /\ DOMAIN sums[i]["trend"] = D[i]
                 /\ \A x \in D[i] : sums[i]["trend"][x] = Counted(chunks[StartOf(i)], K, x)
        <3>1. /\ sums[i]["trend"] = [d \in WindowDays(StartOf(i)) |-> DailyCounts(chunks[StartOf(i)])[d]]
              /\ D[i] = WindowDays(StartOf(i))
            BY SummaryIs
        <3>2. \A d \in WindowDays(StartOf(i)) :
                  DailyCounts(chunks[StartOf(i)])[d] = Counted(chunks[StartOf(i)], K, d)
            <4> HIDE DEF K, X
            <4> QED
                BY <1>1, <1>3
        <3> HIDE DEF K, D
        <3> QED
            BY <3>1, <3>2
    <2>2. ASSUME NEW i \in 1 .. Windows, NEW c \in chunks[StartOf(i)], NEW x, <<c, x>> \in K
          PROVE  x \in D[i]
        <3>1. DayOf(Instant(c)) = x /\ D[i] = WindowDays(StartOf(i))
            BY <2>2
        <3>2. Instant(c) \in Nat
            BY <1>3 DEF Instant
        <3>3. Day[Instant(c)] = x
            BY <3>1, <3>2 DEF Day
        <3> HIDE DEF D
        <3> QED
            BY <1>3, <3>1, <3>3
    <2> HIDE DEF K, D, none
    <2> QED
        BY <1>2, <2>1, <2>2 DEF PartsCount
<1>5. WholeCounts("trend", K, D, none)
    <2> HIDE DEF K, D, none
    <2> QED
        BY <1>4, PartAddsUp
<1>6. /\ IsFun(Trend) /\ DOMAIN Trend = X
      /\ \A x \in X : Trend[x] = Counted(Published, K, x)
    <2>1. IsFun(Trend) /\ DOMAIN Trend = X
        BY DEF Trend, IsFun
    <2>2. \A x \in X : Trend[x] = DailyCounts(Published)[x]
        BY DEF Trend
    <2> HIDE DEF K, X
    <2> QED
        BY <1>1, <2>1, <2>2
<1> DEFINE merged == Merged("trend", none)
<1>8. /\ IsFun(merged) /\ DOMAIN merged = X
      /\ \A x \in X : merged[x] = Counted(Published, K, x)
    <2>1. /\ IsFun(merged)
          /\ \A x : x \in DOMAIN merged <=> x \in DOMAIN none \/ \E i \in 1 .. Windows : x \in D[i]
          /\ \A x \in DOMAIN merged : merged[x] = Counted(Published, K, x)
        <3> HIDE DEF K, D, none
        <3> QED
            BY <1>5 DEF WholeCounts
    <2>2. \A i \in 1 .. Windows : D[i] \subseteq X
        BY <1>3
    <2> HIDE DEF merged, none, K, D, X
    <2> QED
        BY <1>2, <2>1, <2>2
<1>9. merged = Trend
    <2> HIDE DEF merged, X, K
    <2> QED
        BY <1>6, <1>8 DEF IsFun
<1> QED
    BY <1>9

-----------------------------------------------------------------------------
(* The newest copies                                                       *)

AtMost(n, S) == IF n < Cardinality(S) THEN n ELSE Cardinality(S)

AreNewest(s, S, n) ==
    /\ s \subseteq S /\ Cardinality(s) = AtMost(n, S)
    /\ \A x \in s, y \in S \ s : Instant(x) >= Instant(y)

LEMMA NewestAre ==
    ASSUME NEW S, IsFiniteSet(S), \A c \in S : Instant(c) \in Int, NEW n \in Nat
    PROVE  AreNewest(Newest(S, n), S, n)
<1> DEFINE size == [c \in S |-> Instant(c)]
           k == IF n < Cardinality(S) THEN n ELSE Cardinality(S)
<1>1. Newest(S, n) = FirstN(S, n, size)
    BY DEF Newest
<1>2. \A c \in S : size[c] \in Int
    OBVIOUS
<1>3. AreFirst(FirstN(S, n, size), S, k, size)
    <2> HIDE DEF size
    <2> QED
        BY <1>2, FirstNIsFirst
<1>4. /\ FirstN(S, n, size) \subseteq S /\ Cardinality(FirstN(S, n, size)) = k
      /\ \A x \in FirstN(S, n, size), y \in S \ FirstN(S, n, size) : size[x] >= size[y]
    <2> HIDE DEF size, k
    <2> QED
        BY <1>3 DEF AreFirst
<1> DEFINE s == FirstN(S, n, size)
<1>5. \A x \in s, y \in S \ s : Instant(x) >= Instant(y)
    <2>1. \A x \in s : x \in S /\ size[x] = Instant(x)
        <3> HIDE DEF s
        <3>1. s \subseteq S
            BY <1>4 DEF s
        <3> QED
            BY <3>1
    <2>2. \A y \in S \ s : size[y] = Instant(y)
        OBVIOUS
    <2> HIDE DEF size
    <2> QED
        BY <1>4, <2>1, <2>2
<1> HIDE DEF size
<1> QED
    BY <1>1, <1>4, <1>5 DEF AreNewest, AtMost

\* Sets of newest copies have the same instants.
LEMMA NewestHaveSameInstants ==
    ASSUME NEW S, IsFiniteSet(S), \A c \in S : Instant(c) \in Int, NEW n,
           NEW s, AreNewest(s, S, n), NEW t, AreNewest(t, S, n)
    PROVE  Instants(s) = Instants(t)
<1> DEFINE size == [c \in S |-> Instant(c)]
           k == AtMost(n, S)
           At(u, v) == {c \in u : Instant(c) = v}
<1>1. ASSUME NEW u, AreNewest(u, S, n)
      PROVE  AreFirst(u, S, k, size) /\ u \subseteq S
    <2>1. /\ u \subseteq S /\ Cardinality(u) = k
          /\ \A x \in u, y \in S \ u : Instant(x) >= Instant(y)
        BY <1>1 DEF AreNewest
    <2>2. \A c \in S : size[c] = Instant(c)
        OBVIOUS
    <2> HIDE DEF size
    <2>3. \A x \in u, y \in S \ u : size[x] >= size[y]
        BY <2>1, <2>2
    <2> QED
        BY <2>1, <2>3 DEF AreFirst
<1>2. \A c \in S : size[c] \in Int
    OBVIOUS
<1>3. ASSUME NEW v
      PROVE  Cardinality(At(s, v)) = Cardinality(At(t, v))
    <2>1. Cardinality(OfSize(s, size, v)) = Cardinality(OfSize(t, size, v))
        <3> HIDE DEF size, k
        <3> QED
            BY <1>1, <1>2, FirstHaveSameSizes
    <2>2. s \subseteq S /\ t \subseteq S
        BY <1>1
    <2>3. OfSize(s, size, v) = At(s, v) /\ OfSize(t, size, v) = At(t, v)
        BY <2>2 DEF OfSize
    <2> QED
        BY <2>1, <2>3
<1>4. \A u : u \subseteq S => \A v : IsFiniteSet(At(u, v))
    <2>1. \A u : u \subseteq S => \A v : At(u, v) \subseteq S
        OBVIOUS
    <2> QED
        BY <2>1, FS_Subset
<1>5. \A v : At(s, v) = {} <=> At(t, v) = {}
    <2>1. s \subseteq S /\ t \subseteq S
        BY <1>1
    <2> HIDE DEF At
    <2> QED
        BY <1>3, <1>4, <2>1, FS_EmptySet
<1>6. {Instant(c) : c \in s} = {Instant(c) : c \in t}
    <2>1. \A v : v \in {Instant(c) : c \in s} <=> At(s, v) # {}
        OBVIOUS
    <2>2. \A v : v \in {Instant(c) : c \in t} <=> At(t, v) # {}
        OBVIOUS
    <2> HIDE DEF At
    <2> QED
        BY <1>5, <2>1, <2>2
<1>7. Instants(s) = [v \in {Instant(c) : c \in s} |-> Cardinality(At(s, v))]
    BY DEF Instants
<1>8. Instants(t) = [v \in {Instant(c) : c \in t} |-> Cardinality(At(t, v))]
    BY DEF Instants
<1> HIDE DEF At
<1> DEFINE f == Instants(s)
           g == Instants(t)
<1>9. /\ DOMAIN f = DOMAIN g /\ IsFun(f) /\ IsFun(g)
      /\ \A v \in DOMAIN f : f[v] = g[v]
    BY <1>3, <1>6, <1>7, <1>8 DEF IsFun
<1> HIDE DEF f, g
<1> QED
    BY <1>9 DEF IsFun, f, g

\* The newest of what is newest in each of some sets that make up S are newest in S.
ArePieces(W, chunk, part, S, U) ==
    /\ \A i \in W : chunk[i] \subseteq S /\ AreNewest(part[i], chunk[i], RecentLimit)
    /\ \A c \in S : \E i \in W : c \in chunk[i]
    /\ \A c : c \in U <=> \E i \in W : c \in part[i]

LEMMA NewestOfNewest ==
    ASSUME NEW W, NEW chunk, NEW part, NEW S, IsFiniteSet(S), \A c \in S : Instant(c) \in Int,
           NEW U, ArePieces(W, chunk, part, S, U), NEW s, AreNewest(s, U, RecentLimit)
    PROVE  AreNewest(s, S, RecentLimit)
<1> USE DEF ArePieces
<1> DEFINE n == RecentLimit
<1>0. n \in Nat
    BY FiguresAssumption
<1>1. \A i \in W : /\ part[i] \subseteq chunk[i] /\ Cardinality(part[i]) = AtMost(n, chunk[i])
                   /\ \A x \in part[i], y \in chunk[i] \ part[i] : Instant(x) >= Instant(y)
    BY DEF AreNewest
<1>2. /\ s \subseteq U /\ Cardinality(s) = AtMost(n, U)
      /\ \A x \in s, y \in U \ s : Instant(x) >= Instant(y)
    BY DEF AreNewest
<1> HIDE DEF n
<1>3. U \subseteq S /\ \A i \in W : part[i] \subseteq U
    BY <1>1
<1>4. /\ IsFiniteSet(U) /\ Cardinality(U) \in Nat /\ Cardinality(S) \in Nat
      /\ Cardinality(U) <= Cardinality(S)
    BY <1>3, PartCounts
<1>5. ASSUME NEW i \in W, part[i] # chunk[i]
      PROVE  Cardinality(part[i]) = n /\ n <= Cardinality(U) /\ IsFiniteSet(part[i])
    <2>1. IsFiniteSet(chunk[i])
        BY FS_Subset
    <2>2. /\ Cardinality(part[i]) < Cardinality(chunk[i]) /\ IsFiniteSet(part[i])
          /\ Cardinality(part[i]) \in Nat /\ Cardinality(chunk[i]) \in Nat
        BY <1>1, <1>5, <2>1, PartCounts
    <2>3. Cardinality(part[i]) = n
        BY <1>1, <2>2 DEF AtMost
    <2>4. Cardinality(part[i]) <= Cardinality(U)
        BY <1>3, <1>4, PartCounts
    <2> QED
        BY <2>2, <2>3, <2>4
<1>6. Cardinality(s) = AtMost(n, S)
    <2>1. CASE \E i \in W : part[i] # chunk[i]
        BY <1>0, <1>2, <1>4, <1>5, <2>1 DEF AtMost
    <2>2. CASE \A i \in W : part[i] = chunk[i]
        <3>1. U = S
            BY <1>3, <2>2
        <3> QED
            BY <1>2, <3>1
    <2> QED
        BY <2>1, <2>2
<1>7. ASSUME NEW x \in s, NEW y \in S \ s
      PROVE  Instant(x) >= Instant(y)
    <2>1. CASE y \in U
        BY <1>2, <2>1
    <2>2. CASE y \notin U
        <3>1. PICK i \in W : y \in chunk[i]
            OBVIOUS
        <3>2. y \in chunk[i] \ part[i] /\ part[i] # chunk[i]
            BY <1>3, <2>2, <3>1
        <3>3. Cardinality(part[i]) = n /\ n <= Cardinality(U) /\ IsFiniteSet(part[i])
            BY <1>5, <3>2
        <3>4. Cardinality(s) = n
            BY <1>0, <1>2, <1>4, <3>3 DEF AtMost
        <3>5. CASE part[i] \subseteq s
            <4>1. IsFiniteSet(s)
                BY <1>2, <1>4, FS_Subset
            <4>2. part[i] = s
                <5>1. part[i] # s => Cardinality(part[i]) < Cardinality(s)
                    BY <3>5, <4>1, PartCounts
                <5> QED
                    BY <1>0, <3>3, <3>4, <5>1
            <4> QED
                BY <1>1, <3>2, <4>2
        <3>6. CASE ~(part[i] \subseteq s)
            <4>1. PICK z \in part[i] : z \notin s
                BY <3>6
            <4>2. z \in U /\ Instant(x) >= Instant(z) /\ Instant(z) >= Instant(y)
                BY <1>1, <1>2, <1>3, <3>2, <4>1
            <4>3. Instant(x) \in Int /\ Instant(y) \in Int /\ Instant(z) \in Int
                BY <1>2, <1>3, <4>2
            <4> QED
                BY <4>2, <4>3
        <3> QED
            BY <3>5, <3>6
    <2> QED
        BY <2>1, <2>2
<1> QED
    BY <1>2, <1>3, <1>6, <1>7 DEF AreNewest, n

Recents == UNION {x.recent : x \in Range(sums)}

LEMMA RecentsAddUp ==
    ASSUME Complete
    PROVE  AreNewest(Newest(Recents, RecentLimit), Published, RecentLimit)
<1> DEFINE W == 1 .. Windows
           chunk == [i \in W |-> chunks[StartOf(i)]]
           part == [i \in W |-> sums[i].recent]
<1>1. /\ Published \subseteq Records \X Nat /\ IsFiniteSet(Published)
      /\ \A i \in W : chunk[i] \subseteq Published /\ IsFiniteSet(chunk[i])
      /\ \A c \in Published : \E i \in W : c \in chunk[i]
    BY PublishedIs
<1>2. \A c \in Published : Instant(c) \in Int
    BY <1>1 DEF Instant
<1>3. RecentLimit \in Nat /\ DOMAIN sums = W
    BY FiguresAssumption DEF Complete
<1>4. ASSUME NEW i \in W
      PROVE  AreNewest(part[i], chunk[i], RecentLimit)
    <2>1. part[i] = Newest(chunk[i], RecentLimit)
        BY SummaryIs
    <2>2. \A c \in chunk[i] : Instant(c) \in Int
        BY <1>1, <1>2
    <2> HIDE DEF part, chunk
    <2> QED
        BY <1>1, <1>3, <2>1, <2>2, NewestAre
<1>5. \A c : c \in Recents <=> \E i \in W : c \in part[i]
    BY <1>3 DEF Recents, Range
<1>6. Recents \subseteq Published
    <2> HIDE DEF part, chunk
    <2> QED
        BY <1>1, <1>4, <1>5 DEF AreNewest
<1>7. AreNewest(Newest(Recents, RecentLimit), Recents, RecentLimit)
    <2>1. IsFiniteSet(Recents) /\ \A c \in Recents : Instant(c) \in Int
        BY <1>1, <1>2, <1>6, FS_Subset
    <2> QED
        BY <1>3, <2>1, NewestAre
<1> HIDE DEF part, chunk, W
<1>8. ArePieces(W, chunk, part, Published, Recents)
    BY <1>1, <1>4, <1>5 DEF ArePieces
<1> QED
    BY <1>1, <1>2, <1>7, <1>8, NewestOfNewest

-----------------------------------------------------------------------------
(* The publication                                                         *)

ClockOK == clock \in Int /\ Start <= clock /\ clock <= LastInstant

\* The first day of the window that is next.
NextStart == plan.from + Len(sums) * ChunkDays

\* What the snapshot shows of the published copies
SeedOK ==
    /\ seed.at = plan.at
    /\ seed.counts = LiveCounts
    /\ seed.trend = Trend
    /\ \A labels : labels = Labels =>
           /\ seed.ranked = TopItems(Known(labels), RankLimit)
           /\ seed.charted = TopItems(labels, RankLimit)
           /\ seed.top = TopItems(Known(labels), RankLimit)
    /\ \A recent, copies : recent = seed.recent /\ copies = Published => AreNewest(recent, copies, RecentLimit)

JobOK ==
    /\ PlanOK
    /\ \A i \in 1 .. Len(sums) :
           /\ sums[i] = Summaries[StartOf(i)]
           /\ \A c \in chunks[StartOf(i)] : Day[Instant(c)] \in WindowDays(StartOf(i))
    /\ pc \in {"slice", "stored"} => Len(sums) < Windows
    /\ pc \in {"idle", "publish"} => Len(sums) = Windows
    /\ pc = "stored" => \A d : d = NextStart =>
           /\ summary = Summaries[d]
           /\ \A c \in chunks[d] : Day[Instant(c)] \in WindowDays(d)
    /\ pc = "idle" => SeedOK

RefreshOK ==
    /\ ClockOK /\ ChunksOK
    /\ \E S : sums \in Seq(S)
    /\ pc \in {"idle", "slice", "stored", "publish"}
    /\ pc # "idle" \/ seed # NoSnapshot => JobOK

LEMMA SummariesAre ==
    ASSUME UNCHANGED <<summer, plan>>
    PROVE  Summaries' = [d \in Days |-> Summarize(chunks'[d], d)]
BY DEF Summaries, Summarize, Counts, LabelCounts, DailyCounts, WindowDays, WindowStart, DayOf, Wall, Offset

LEMMA FiguresStay ==
    ASSUME UNCHANGED <<summer, plan, chunks>>
    PROVE  LiveCounts' = LiveCounts /\ Trend' = Trend /\ Labels' = Labels /\ Published' = Published
           /\ Summaries' = Summaries /\ Day' = Day
<1>1. Published' = Published
    BY DEF Published, WindowStarts
<1>2. LiveCounts' = LiveCounts
    BY <1>1 DEF LiveCounts, Counts, WindowStart, DayOf, Wall, Offset
<1>3. Trend' = Trend
    BY <1>1 DEF Trend, DailyCounts, DayOf, Wall, Offset
<1>4. Labels' = Labels
    BY <1>1 DEF Labels, LabelCounts
<1>5. Summaries' = Summaries
    BY DEF Summaries, Summarize, Counts, LabelCounts, DailyCounts, WindowDays, WindowStart, DayOf, Wall, Offset
<1>6. Day' = Day
    BY DayStays
<1> QED
    BY <1>1, <1>2, <1>3, <1>4, <1>5, <1>6

LEMMA WindowsStay ==
    ASSUME UNCHANGED plan
    PROVE  /\ Windows' = Windows
           /\ \A i : StartOf(i)' = StartOf(i) /\ WindowDays(i)' = WindowDays(i)
BY DEF Windows, StartOf, WindowDays

LEMMA SomeWindow ==
    ASSUME NEW from \in Nat, NEW to \in Nat, from <= to
    PROVE  (to - from) \div ChunkDays + 1 > 0
<1>1. ChunkDays \in Nat \ {0} /\ 0 \in Int /\ to - from \in Int /\ 0 <= to - from
    BY FiguresAssumption
<1>2. 0 \div ChunkDays = 0
    <2>1. 0 \in 0 .. ChunkDays - 1 /\ 0 = 0 * ChunkDays + 0
        BY <1>1
    <2> QED
        BY <1>1, <2>1, DivisionIs
<1>3. 0 \div ChunkDays <= (to - from) \div ChunkDays /\ (to - from) \div ChunkDays \in Int
    BY <1>1, DivisionGrows, Division
<1> QED
    BY <1>2, <1>3

LEMMA RefreshInit == Init => RefreshOK
<1> SUFFICES ASSUME Init PROVE RefreshOK
    OBVIOUS
<1>1. ClockOK
    BY FiguresAssumption DEF Init, ClockOK
<1>2. ChunksOK
    <2>1. {} \in FiniteCopies
        BY FS_EmptySet DEF FiniteCopies
    <2> QED
        BY <2>1 DEF Init, ChunksOK
<1>3. pc = "idle" /\ seed = NoSnapshot /\ sums = <<>>
    BY DEF Init
<1>4. \E S : sums \in Seq(S)
    <2>1. sums \in Seq({})
        BY <1>3
    <2> QED
        BY <2>1
<1> QED
    BY <1>1, <1>2, <1>3, <1>4 DEF RefreshOK

LEMMA ClockStep ==
    ASSUME ClockOK, [Next]_vars
    PROVE  ClockOK'
<1>1. CASE TimePasses
    BY <1>1, FiguresAssumption DEF ClockOK, TimePasses
<1>2. CASE UNCHANGED clock
    BY <1>2 DEF ClockOK
<1>3. TimePasses \/ UNCHANGED clock
    BY DEF Next, vars, HccChanges, Plans, Stores, Commits, Interrupted, Publishes,
           StoreMigrates, StoreIngests, StoreRecomputes, StoreBroadcasts
<1> QED
    BY <1>1, <1>2, <1>3

\* Steps that leave the refresh alone
LEMMA RefreshStays ==
    ASSUME RefreshOK, UNCHANGED <<summer, plan, sums, chunks, summary, pc, seed>>, ClockOK'
    PROVE  RefreshOK'
<1>1. /\ LiveCounts' = LiveCounts /\ Trend' = Trend /\ Labels' = Labels /\ Published' = Published
      /\ Summaries' = Summaries /\ Day' = Day /\ Windows' = Windows
    BY FiguresStay, WindowsStay
<1>2. ChunksOK'
    BY DEF RefreshOK, ChunksOK
<1>3. PlanOK => PlanOK'
    BY <1>1 DEF PlanOK
<1>4. SeedOK => SeedOK'
    BY <1>1 DEF SeedOK
<1>5. JobOK => JobOK'
    <2> SUFFICES ASSUME JobOK PROVE JobOK'
        OBVIOUS
    <2>1. \A i \in 1 .. Len(sums) :
              /\ sums[i] = Summaries[StartOf(i)]
              /\ \A c \in chunks[StartOf(i)] : Day[Instant(c)] \in WindowDays(StartOf(i))
        BY DEF JobOK
    <2>2. (\A i \in 1 .. Len(sums) :
              /\ sums[i] = Summaries[StartOf(i)]
              /\ \A c \in chunks[StartOf(i)] : Day[Instant(c)] \in WindowDays(StartOf(i)))'
        BY <1>1, <2>1 DEF StartOf, WindowDays
    <2>3. (pc = "stored" => \A d : d = NextStart =>
               /\ summary = Summaries[d]
               /\ \A c \in chunks[d] : Day[Instant(c)] \in WindowDays(d))'
        BY <1>1 DEF JobOK, NextStart, WindowDays
    <2> QED
        BY <1>1, <1>3, <1>4, <2>2, <2>3 DEF JobOK
<1> QED
    BY <1>2, <1>5 DEF RefreshOK

LEMMA PlansStep ==
    ASSUME RefreshOK, ClocksOK, Plans, UNCHANGED summer
    PROVE  RefreshOK'
<1>1. /\ plan' = [at |-> clock, from |-> WindowStart(clock, RefreshDays), to |-> DayOf(clock)]
      /\ pc' = "slice" /\ sums' = <<>> /\ UNCHANGED <<clock, chunks, seed>>
    BY DEF Plans
<1>2. /\ clock \in Nat /\ WindowStart(clock, RefreshDays) \in Nat /\ DayOf(clock) \in Nat
      /\ WindowStart(clock, RefreshDays) <= DayOf(clock) /\ DayOf(clock) \in Days
      /\ DayOf(clock) = Day[clock]
    BY PlansOK DEF RefreshOK, ClockOK
<1>3. PlanOK'
    <2>1. Day' = Day
        BY DayStays
    <2> QED
        BY <1>1, <1>2, <2>1 DEF PlanOK
<1>4. Windows' > 0
    <2>1. plan'.from \in Nat /\ plan'.to \in Nat /\ plan'.from <= plan'.to
        BY <1>1, <1>2
    <2>2. (plan'.to - plan'.from) \div ChunkDays + 1 > 0
        BY <2>1, SomeWindow
    <2> QED
        BY <2>2 DEF Windows
<1>5. Len(sums') = 0 /\ 1 .. 0 = {} /\ \E S : sums' \in Seq(S)
    <2>1. sums' \in Seq({})
        BY <1>1
    <2> QED
        BY <1>1, <2>1
<1>6. ClockOK' /\ ChunksOK'
    BY <1>1 DEF RefreshOK, ClockOK, ChunksOK
<1>7. JobOK'
    BY <1>1, <1>3, <1>4, <1>5 DEF JobOK
<1> QED
    BY <1>1, <1>5, <1>6, <1>7 DEF RefreshOK

\* What the job is at before it writes the next window.
LEMMA NextWindow ==
    ASSUME PlanOK, \E S : sums \in Seq(S), Len(sums) < Windows
    PROVE  /\ Len(sums) \in Nat /\ Len(sums) + 1 \in 1 .. Windows /\ NextStart = StartOf(Len(sums) + 1)
           /\ NextStart \in Days
           /\ \A i \in 1 .. Len(sums) : i \in 1 .. Windows /\ StartOf(i) # NextStart /\ StartOf(i) \in Days
           /\ \E last \in Int : NextStart <= last /\ WindowDays(NextStart) = NextStart .. last /\ NextStart \in Int
<1>1. Len(sums) \in Nat
    BY LenProperties
<1>2. /\ Windows \in Nat \ {0}
      /\ \A i \in 1 .. Windows : StartOf(i) \in Days /\ StartOf(i) \in WindowDays(StartOf(i))
      /\ \A i, j \in 1 .. Windows : \A d : d \in WindowDays(StartOf(i)) /\ d \in WindowDays(StartOf(j)) => i = j
      /\ \A i \in 1 .. Windows : StartOf(i) \in plan.from .. plan.to
    BY WindowsDivide
<1>3. Len(sums) + 1 \in 1 .. Windows /\ Len(sums) + 1 - 1 = Len(sums)
    BY <1>1, <1>2
<1>4. NextStart = StartOf(Len(sums) + 1)
    BY <1>3 DEF NextStart, StartOf
<1>5. ASSUME NEW i \in 1 .. Len(sums)
      PROVE  i \in 1 .. Windows /\ StartOf(i) # NextStart /\ StartOf(i) \in Days
    <2>1. i \in 1 .. Windows /\ i # Len(sums) + 1
        <3> DEFINE n == Len(sums)
        <3>1. n \in Nat /\ n + 1 \in 1 .. Windows /\ Windows \in Nat /\ i \in 1 .. n
            BY <1>1, <1>2, <1>3, <1>5
        <3> HIDE DEF n
        <3>2. i \in 1 .. Windows /\ i # n + 1
            BY <3>1
        <3> QED
            BY <3>2 DEF n
    <2>2. StartOf(i) # StartOf(Len(sums) + 1)
        BY <1>2, <1>3, <2>1
    <2> QED
        BY <1>2, <1>4, <2>1, <2>2
<1> DEFINE last == IF NextStart + ChunkDays - 1 > plan.to THEN plan.to ELSE NextStart + ChunkDays - 1
<1>6. /\ last \in Int /\ NextStart <= last /\ NextStart \in Int
      /\ WindowDays(NextStart) = NextStart .. last
    <2>1. NextStart \in plan.from .. plan.to /\ plan.to \in Int /\ plan.from \in Int
        BY <1>2, <1>3, <1>4 DEF PlanOK
    <2>2. ChunkDays \in Nat \ {0}
        BY FiguresAssumption
    <2>3. WindowDays(NextStart) = NextStart .. last
        BY DEF WindowDays
    <2> QED
        BY <2>1, <2>2, <2>3
<1> HIDE DEF last
<1> QED
    BY <1>1, <1>2, <1>3, <1>4, <1>5, <1>6

LEMMA StoresStep ==
    ASSUME RefreshOK, HccOK, ClocksOK, Stores, UNCHANGED summer
    PROVE  RefreshOK'
<1> DEFINE start  == NextStart
           copies == Fetched(Min(WindowDays(start)), Max(WindowDays(start)))
<1>1. /\ pc = "slice" /\ pc' = "stored" /\ UNCHANGED <<clock, plan, sums, seed>>
      /\ chunks' = [chunks EXCEPT ![start] = copies]
      /\ summary' = Summarize(copies, start)
    BY DEF Stores, NextStart
<1>2. JobOK /\ PlanOK /\ Len(sums) < Windows /\ (\E S : sums \in Seq(S)) /\ ChunksOK
    BY <1>1 DEF RefreshOK, JobOK
<1>3. /\ Len(sums) \in Nat /\ start = StartOf(Len(sums) + 1) /\ start \in Days
      /\ \A i \in 1 .. Len(sums) : i \in 1 .. Windows /\ StartOf(i) # start /\ StartOf(i) \in Days
    BY <1>2, NextWindow
<1>4. copies \in FiniteCopies /\ \A c \in copies : DayOf(Instant(c)) \in WindowDays(start)
    <2>1. PICK last \in Int : start <= last /\ WindowDays(start) = start .. last /\ start \in Int
        BY <1>2, NextWindow
    <2>2. Min(WindowDays(start)) = start /\ Max(WindowDays(start)) = last
        BY <2>1, RangeEnds
    <2>3. Fetched(start, last) \in FiniteCopies /\ \A c \in Fetched(start, last) : DayOf(Instant(c)) \in start .. last
        BY <2>1, FetchedOK
    <2> QED
        BY <2>1, <2>2, <2>3
<1> HIDE DEF start, copies
<1>5. /\ chunks' \in [Days -> FiniteCopies] /\ chunks'[start] = copies
      /\ \A d \in Days : d # start => chunks'[d] = chunks[d]
    BY <1>1, <1>2, <1>3, <1>4 DEF ChunksOK
<1>6. /\ Summaries = [d \in Days |-> Summarize(chunks[d], d)]
      /\ Summaries' = [d \in Days |-> Summarize(chunks'[d], d)]
    BY <1>1, SummariesAre DEF Summaries
<1>7. Day' = Day /\ Windows' = Windows /\ (PlanOK)'
    BY <1>1, <1>2, DayStays, WindowsStay DEF PlanOK
<1>8. \A i \in 1 .. Len(sums) :
          /\ sums[i] = Summaries'[StartOf(i)]
          /\ \A c \in chunks'[StartOf(i)] : Day[Instant(c)] \in WindowDays(StartOf(i))
    <2> TAKE i \in 1 .. Len(sums)
    <2>1. /\ sums[i] = Summaries[StartOf(i)]
          /\ \A c \in chunks[StartOf(i)] : Day[Instant(c)] \in WindowDays(StartOf(i))
        BY <1>2 DEF JobOK
    <2>2. StartOf(i) \in Days /\ chunks'[StartOf(i)] = chunks[StartOf(i)]
        BY <1>3, <1>5
    <2>3. Summaries'[StartOf(i)] = Summaries[StartOf(i)]
        BY <1>6, <2>2
    <2> QED
        BY <2>1, <2>2, <2>3
<1>9. /\ summary' = Summaries'[start]
      /\ \A c \in chunks'[start] : Day[Instant(c)] \in WindowDays(start)
    <2>1. Summaries'[start] = Summarize(copies, start)
        BY <1>3, <1>5, <1>6
    <2>2. copies \subseteq Records \X Nat
        BY <1>4 DEF FiniteCopies
    <2>3. \A c \in copies : Instant(c) \in Int /\ Day[Instant(c)] = DayOf(Instant(c))
        BY <2>2 DEF Instant, Day
    <2> QED
        BY <1>1, <1>4, <1>5, <2>1, <2>3
<1>10. (\A i \in 1 .. Len(sums) :
            /\ sums[i] = Summaries[StartOf(i)]
            /\ \A c \in chunks[StartOf(i)] : Day[Instant(c)] \in WindowDays(StartOf(i)))'
    BY <1>1, <1>7, <1>8 DEF StartOf, WindowDays
<1>11. (\A d : d = NextStart => /\ summary = Summaries[d]
                                /\ \A c \in chunks[d] : Day[Instant(c)] \in WindowDays(d))'
    <2>1. NextStart' = start
        BY <1>1 DEF NextStart, start
    <2> QED
        BY <1>1, <1>7, <1>9, <2>1 DEF WindowDays
<1>12. JobOK'
    BY <1>1, <1>2, <1>7, <1>10, <1>11 DEF JobOK
<1>13. ClockOK' /\ ChunksOK' /\ (\E S : sums \in Seq(S))'
    BY <1>1, <1>2, <1>5 DEF RefreshOK, ClockOK, ChunksOK
<1> QED
    BY <1>1, <1>12, <1>13 DEF RefreshOK

LEMMA CommitsStep ==
    ASSUME RefreshOK, Commits, UNCHANGED summer
    PROVE  RefreshOK'
<1>1. /\ pc = "stored" /\ UNCHANGED <<clock, plan, chunks, seed>>
      /\ sums' = Append(sums, summary)
      /\ pc' = IF Len(sums') = Cardinality(WindowStarts) THEN "publish" ELSE "slice"
    BY DEF Commits
<1>2. JobOK /\ PlanOK /\ Len(sums) < Windows /\ (\E S : sums \in Seq(S)) /\ ChunksOK
    BY <1>1 DEF RefreshOK, JobOK
<1> DEFINE n == Len(sums)
<1>3. /\ n \in Nat /\ NextStart = StartOf(n + 1)
      /\ Windows \in Nat /\ Cardinality(WindowStarts) = Windows
    BY <1>2, NextWindow, WindowsDivide
<1>4. /\ Len(sums') = n + 1 /\ \E S : sums' \in Seq(S)
      /\ \A i \in 1 .. n : sums'[i] = sums[i]
      /\ sums'[n + 1] = summary
    <2>1. PICK S : sums \in Seq(S)
        BY <1>2
    <2>2. sums \in Seq(S \cup {summary})
        <3>1. S \subseteq S \cup {summary}
            OBVIOUS
        <3> QED
            BY <2>1, <3>1, SeqMonotonic
    <2>3. summary \in S \cup {summary}
        OBVIOUS
    <2> QED
        BY <1>1, <2>2, <2>3, AppendProperties
<1>5. /\ Summaries' = Summaries /\ Day' = Day /\ Windows' = Windows
    BY <1>1, FiguresStay, WindowsStay
<1>6. ASSUME NEW i \in 1 .. n + 1
      PROVE  /\ sums'[i] = Summaries[StartOf(i)]
             /\ \A c \in chunks[StartOf(i)] : Day[Instant(c)] \in WindowDays(StartOf(i))
    <2>1. CASE i \in 1 .. n
        BY <1>2, <1>4, <2>1 DEF JobOK
    <2>2. CASE i = n + 1
        BY <1>1, <1>2, <1>3, <1>4, <2>2 DEF JobOK
    <2> QED
        BY <1>3, <2>1, <2>2
<1>7. (\A i \in 1 .. Len(sums) :
            /\ sums[i] = Summaries[StartOf(i)]
            /\ \A c \in chunks[StartOf(i)] : Day[Instant(c)] \in WindowDays(StartOf(i)))'
    BY <1>1, <1>4, <1>5, <1>6 DEF StartOf, WindowDays
<1>8. /\ pc' \in {"slice", "publish"} /\ (pc' = "publish" => Len(sums') = Windows)
      /\ (pc' = "slice" => Len(sums') < Windows)
    BY <1>1, <1>2, <1>3, <1>4
<1>9. PlanOK'
    BY <1>1, <1>2, <1>5 DEF PlanOK
<1>10. JobOK'
    BY <1>5, <1>7, <1>8, <1>9 DEF JobOK
<1>11. ClockOK' /\ ChunksOK'
    BY <1>1, <1>2 DEF RefreshOK, ClockOK, ChunksOK
<1> QED
    BY <1>4, <1>8, <1>10, <1>11 DEF RefreshOK

LEMMA InterruptedStep ==
    ASSUME RefreshOK, Interrupted, UNCHANGED summer
    PROVE  RefreshOK'
<1>1. pc = "stored" /\ pc' = "slice" /\ UNCHANGED <<clock, plan, chunks, sums, seed>>
    BY DEF Interrupted
<1>2. JobOK /\ PlanOK /\ Len(sums) < Windows
    BY <1>1 DEF RefreshOK, JobOK
<1>3. Summaries' = Summaries /\ Day' = Day /\ Windows' = Windows
    BY <1>1, FiguresStay, WindowsStay
<1>4. PlanOK'
    BY <1>1, <1>2, <1>3 DEF PlanOK
<1>5. (\A i \in 1 .. Len(sums) :
            /\ sums[i] = Summaries[StartOf(i)]
            /\ \A c \in chunks[StartOf(i)] : Day[Instant(c)] \in WindowDays(StartOf(i)))'
    BY <1>1, <1>2, <1>3 DEF JobOK, StartOf, WindowDays
<1>6. JobOK'
    BY <1>1, <1>2, <1>3, <1>4, <1>5 DEF JobOK
<1> QED
    BY <1>1, <1>6 DEF RefreshOK, ClockOK, ChunksOK

LEMMA AllCommitted ==
    ASSUME RefreshOK, JobOK, Len(sums) = Windows
    PROVE  Complete
<1>1. DOMAIN sums = 1 .. Windows
    BY LenProperties DEF RefreshOK
<1> QED
    BY <1>1 DEF RefreshOK, JobOK, Complete, Committed

LEMMA PublishesStep ==
    ASSUME RefreshOK, Publishes, UNCHANGED summer
    PROVE  RefreshOK'
<1>1. /\ pc = "publish" /\ pc' = "idle" /\ seed' = FinalSnapshot
      /\ UNCHANGED <<clock, plan, summary, sums, chunks>>
    BY DEF Publishes
<1>2. JobOK /\ PlanOK /\ Len(sums) = Windows
    BY <1>1 DEF RefreshOK, JobOK
<1>3. /\ LiveCounts' = LiveCounts /\ Trend' = Trend /\ Labels' = Labels /\ Published' = Published
      /\ Summaries' = Summaries /\ Day' = Day /\ Windows' = Windows
    BY <1>1, FiguresStay, WindowsStay
<1>4. Complete
    BY <1>2, AllCommitted
<1>5. /\ Merged("counts", NoSummary.counts) = LiveCounts
      /\ Merged("labels", <<>>) = Labels
      /\ Merged("trend", [d \in plan.from .. plan.to |-> 0]) = Trend
      /\ AreNewest(Newest(Recents, RecentLimit), Published, RecentLimit)
    BY <1>4, CountsAddUp, LabelsAddUp, TrendAddsUp, RecentsAddUp
<1>6. /\ seed'.at = plan.at /\ seed'.counts = LiveCounts /\ seed'.trend = Trend
      /\ seed'.ranked = TopItems(Known(Labels), RankLimit)
      /\ seed'.charted = TopItems(Labels, RankLimit)
      /\ seed'.top = TopItems(Known(Labels), RankLimit)
      /\ seed'.recent = Newest(Recents, RecentLimit)
    BY <1>1, <1>5 DEF FinalSnapshot, Recents
<1>7. SeedOK'
    BY <1>1, <1>3, <1>5, <1>6 DEF SeedOK
<1>8. PlanOK'
    BY <1>1, <1>2, <1>3 DEF PlanOK
<1>9. (\A i \in 1 .. Len(sums) :
            /\ sums[i] = Summaries[StartOf(i)]
            /\ \A c \in chunks[StartOf(i)] : Day[Instant(c)] \in WindowDays(StartOf(i)))'
    BY <1>1, <1>2, <1>3 DEF JobOK, StartOf, WindowDays
<1>10. JobOK'
    BY <1>1, <1>2, <1>3, <1>7, <1>8, <1>9 DEF JobOK
<1> QED
    BY <1>1, <1>10 DEF RefreshOK, ClockOK, ChunksOK

LEMMA RefreshStep ==
    ASSUME RefreshOK, HccOK, ClocksOK, [Next]_vars
    PROVE  RefreshOK'
<1>1. UNCHANGED summer /\ ClockOK'
    BY ClocksStay, ClockStep DEF RefreshOK
<1>2. \/ Plans \/ Stores \/ Commits \/ Interrupted \/ Publishes
      \/ UNCHANGED <<plan, sums, chunks, summary, pc, seed>>
    BY DEF Next, vars, seedVars, TimePasses, HccChanges, StoreMigrates, StoreIngests, StoreRecomputes,
           StoreBroadcasts
<1> QED
    BY <1>1, <1>2, PlansStep, StoresStep, CommitsStep, InterruptedStep, PublishesStep, RefreshStays

\* A published snapshot, merged from the summaries of windows that were fetched one
\* after the other (refreshLiveSeedChunkFromHcc, finalizeLiveSeedRefresh), has the
\* figures of all its records at once.
THEOREM FiguresAddUp == Spec => []WindowsAddUp
<1> DEFINE Inv == RefreshOK /\ HccOK /\ summer \in Summers
<1>1. Init => Inv
    BY RefreshInit, HccInit DEF Init
<1>2. Inv /\ [Next]_vars => Inv'
    BY RefreshStep, HccStep, ClocksStay, ClocksHold
<1>3. Inv => WindowsAddUp
    <2> SUFFICES ASSUME RefreshOK, seed # NoSnapshot, pc = "idle"
                 PROVE  LET whole == WholeSnapshot(Published)
                        IN  /\ seed.counts = whole.counts
                            /\ seed.ranked = whole.ranked
                            /\ seed.charted = whole.charted
                            /\ seed.trend = whole.trend
                            /\ Instants(seed.recent) = Instants(whole.recent)
        BY DEF WindowsAddUp, SeedIsPublished
    <2> DEFINE whole == WholeSnapshot(Published)
    <2>1. SeedOK /\ JobOK /\ Len(sums) = Windows
        BY DEF RefreshOK, JobOK
    <2>2. IsFiniteSet(Published) /\ \A c \in Published : Instant(c) \in Int
        <3>1. Published \subseteq Records \X Nat /\ IsFiniteSet(Published)
            BY <2>1, AllCommitted, PublishedIs
        <3> QED
            BY <3>1 DEF Instant
    <2>3. /\ whole.counts = LiveCounts /\ whole.trend = Trend
          /\ whole.ranked = TopItems(Known(Labels), RankLimit)
          /\ whole.charted = TopItems(Labels, RankLimit)
          /\ whole.recent = Newest(Published, RecentLimit)
        BY DEF WholeSnapshot, LiveCounts, Trend, Labels
    <2>4. RecentLimit \in Nat
        BY FiguresAssumption
    <2>5. Instants(seed.recent) = Instants(whole.recent)
        <3>1. AreNewest(whole.recent, Published, RecentLimit)
            BY <2>2, <2>3, <2>4, NewestAre
        <3>2. AreNewest(seed.recent, Published, RecentLimit)
            BY <2>1 DEF SeedOK
        <3> HIDE DEF whole
        <3> QED
            BY <2>2, <3>1, <3>2, NewestHaveSameInstants
    <2> QED
        BY <2>1, <2>3, <2>5 DEF SeedOK
<1> QED
    BY <1>1, <1>2, <1>3, PTL DEF Spec

-----------------------------------------------------------------------------
(* Days in the order of text                                               *)

\* An instant whose text is not before the first one of a day, or not after the last one,
\* is not of a day before it, or after it: midnight is neither skipped nor repeated, and
\* the last hour of a day has no instant when it is skipped.
LEMMA TextDays ==
    ASSUME ClocksOK, NEW d \in Int, NEW i \in Int
    PROVE  /\ StartOfDay(d) <= Text(i) <=> d <= DayOf(i)
           /\ Text(i) <= EndOfDay(d) <=> DayOf(i) <= d
<1> DEFINE first == LocalDateTime(d, 0)
           last  == LocalDateTime(d, PerDay - 1)
           w     == d * PerDay + (PerDay - 1)
<1>1. Half \in Nat /\ PerDay \in Nat \ {0} /\ PerDay = 2 * Half /\ Half >= 2
    BY HalfDay
<1>2. /\ d * PerDay \in Int /\ w \in Int
      /\ \A j \in Int : Wall(j) \in Int
    <2>1. \A j \in Int : Wall(j) \in Int
        BY <1>1, Offsets DEF Wall
    <2> QED
        BY <1>1, <2>1
<1>3. /\ d <= DayOf(i) <=> d * PerDay <= Wall(i)
      /\ DayOf(i) <= d <=> Wall(i) <= w
    <2> DEFINE q == DayOf(i)
               r == Wall(i) % PerDay
    <2>1. q \in Int /\ r \in 0 .. PerDay - 1 /\ Wall(i) = PerDay * q + r
        BY <1>1, <1>2, Division DEF DayOf
    <2> HIDE DEF q, r
    <2>2. ASSUME d <= q PROVE d * PerDay <= PerDay * q
        <3>1. d * PerDay = PerDay * d /\ PerDay * (q - d) = PerDay * q - PerDay * d /\ PerDay * (q - d) >= 0
            BY <1>1, <2>1, <2>2
        <3> QED
            BY <1>1, <1>2, <2>1, <3>1
    <2>3. ASSUME q < d PROVE PerDay * q + PerDay <= d * PerDay
        <3>1. d * PerDay = PerDay * d /\ PerDay * (d - q - 1) = PerDay * d - PerDay * q - PerDay /\ PerDay * (d - q - 1) >= 0
            BY <1>1, <2>1, <2>3
        <3> QED
            BY <1>1, <1>2, <2>1, <3>1
    <2>4. ASSUME q <= d PROVE PerDay * q <= d * PerDay
        <3>1. d * PerDay = PerDay * d /\ PerDay * (d - q) = PerDay * d - PerDay * q /\ PerDay * (d - q) >= 0
            BY <1>1, <2>1, <2>4
        <3> QED
            BY <1>1, <1>2, <2>1, <3>1
    <2>5. ASSUME d < q PROVE d * PerDay + PerDay <= PerDay * q
        <3>1. d * PerDay = PerDay * d /\ PerDay * (q - d - 1) = PerDay * q - PerDay * d - PerDay /\ PerDay * (q - d - 1) >= 0
            BY <1>1, <2>1, <2>5
        <3> QED
            BY <1>1, <1>2, <2>1, <3>1
    <2> DEFINE p == d * PerDay
               z == PerDay * q
    <2>6. p \in Int /\ z \in Int /\ Wall(i) = z + r /\ w = p + (PerDay - 1)
        BY <1>1, <1>2, <2>1
    <2>7. /\ d <= q => p <= z
          /\ q < d => z + PerDay <= p
          /\ q <= d => z <= p
          /\ d < q => p + PerDay <= z
        BY <2>2, <2>3, <2>4, <2>5
    <2> HIDE DEF p, z, w
    <2>8. (d <= q <=> p <= Wall(i)) /\ (q <= d <=> Wall(i) <= w)
        BY <1>1, <2>1, <2>6, <2>7
    <2> QED
        BY <2>8 DEF p, q
<1>4. StartOfDay(d) <= Text(i) <=> d * PerDay <= Wall(i)
    <2>1. Wall(first) = d * PerDay /\ first \in Int
        <3>1. d * PerDay + 0 = d * PerDay
            BY <1>2
        <3> QED
            BY <1>2, <3>1, Midnight, Cleaned DEF LocalDateTime
    <2>2. Wall(first) = first + Offset(first) /\ Wall(i) = i + Offset(i)
        BY DEF Wall
    <2>3. ASSUME Wall(i) = d * PerDay, first \in summer
          PROVE  i \in summer
        <3>1. SUFFICES ASSUME i \notin summer PROVE FALSE
            OBVIOUS
        <3>2. i = first + 1 /\ i + Half = d * PerDay + 0 /\ i + Half \in Int
            BY <1>1, <1>2, <2>1, <2>2, <2>3, <3>1, Offsets
        <3>3. (first + 1 + Half) % PerDay # 0
            BY <2>3, <3>1, <3>2 DEF ClocksOK
        <3>4. (i + Half) % PerDay = 0
            <4>1. 0 \in 0 .. PerDay - 1
                BY <1>1
            <4> QED
                BY <1>1, <3>2, <4>1, DivisionIs
        <3> QED
            BY <3>2, <3>3, <3>4
    <2>4. /\ StartOfDay(d) = 4 * Wall(first) + (IF first \in summer THEN 1 ELSE 0)
          /\ Text(i) = 4 * Wall(i) + (IF i \in summer THEN 1 ELSE 0)
        BY DEF StartOfDay, Text
    <2> DEFINE p == d * PerDay
    <2>5. p \in Int /\ Wall(first) = p /\ Wall(i) \in Int /\ (Wall(i) = p /\ first \in summer => i \in summer)
        BY <1>2, <2>1, <2>3
    <2> HIDE DEF first, p
    <2>6. StartOfDay(d) <= Text(i) <=> p <= Wall(i)
        BY <2>4, <2>5
    <2> QED
        BY <2>6 DEF p
<1>5. Text(i) <= EndOfDay(d) <=> Wall(i) <= w
    <2>1. last = FromZoned(w)
        BY DEF LocalDateTime
    <2>2. Wall(last) \in {w, w - 1}
        BY <1>2, <2>1, Cleaned
    <2>3. Wall(i) = w => Wall(last) = w
        BY <2>1, WallAgain
    <2>4. /\ EndOfDay(d) = 4 * Wall(last) + (IF last \in summer THEN 1 ELSE 0) + 2
          /\ Text(i) = 4 * Wall(i) + (IF i \in summer THEN 1 ELSE 0)
        BY DEF EndOfDay, TextWithMs, Text
    <2>5. w \in Int /\ Wall(i) \in Int
        BY <1>2
    <2> HIDE DEF w, last
    <2> QED
        BY <2>2, <2>3, <2>4, <2>5
<1> QED
    BY <1>3, <1>4, <1>5

-----------------------------------------------------------------------------
(* The series of days and its sums                                         *)

\* A function on 1 .. n that counts the elements of C which g puts at each place.
CountsPlaces(s, n, C, g) ==
    /\ s \in [1 .. n -> Nat]
    /\ \A i \in 1 .. n : s[i] = Cardinality({c \in C : g[c] = i})

LEMMA PlacesSum ==
    ASSUME NEW C, IsFiniteSet(C), NEW g, NEW n \in Nat, NEW s, CountsPlaces(s, n, C, g)
    PROVE  SumOfSeries(s) = Cardinality({c \in C : g[c] \in 1 .. n})
<1>1. DOMAIN s = 1 .. n /\ IsFiniteSet(1 .. n)
    BY FS_Interval DEF CountsPlaces
<1>2. AreSizes(s, 1 .. n, C, g)
    BY DEF CountsPlaces, AreSizes
<1>3. SumOf(s, 1 .. n)[1 .. n] = Cardinality({c \in C : g[c] \in 1 .. n})
    BY <1>1, <1>2, SumCounts
<1> QED
    BY <1>1, <1>3, SumsAre

\* The buckets of the chart: where each begins and ends, and how many there are.
From(i) == (i - 1) * Week + 1
To(i, n) == IF i * Week < n THEN i * Week ELSE n
Buckets(n) == (n + Week - 1) \div Week

LEMMA BucketsDivide ==
    ASSUME NEW n \in Nat
    PROVE  /\ Buckets(n) \in Nat
           /\ \A i \in 1 .. Buckets(n) :
                  /\ From(i) \in 1 .. n /\ To(i, n) \in 1 .. n /\ From(i) <= To(i, n) + 1
                  /\ \A k \in 1 .. n : k \in From(i) .. To(i, n) <=> (k - 1) \div Week + 1 = i
           /\ \A k \in 1 .. n : (k - 1) \div Week + 1 \in 1 .. Buckets(n)
<1> DEFINE q == Buckets(n)
           a == (n + Week - 1) % Week
<1>1. Week \in Nat \ {0}
    BY FiguresAssumption
<1>2. q \in Int /\ a \in 0 .. Week - 1 /\ n + Week - 1 = Week * q + a
    <2>1. n + Week - 1 \in Int
        BY <1>1
    <2> QED
        BY <1>1, <2>1, Division DEF Buckets
<1>3. q \in Nat
    <2> HIDE DEF q, a
    <2>1. SUFFICES ASSUME q < 0 PROVE FALSE
        BY <1>2
    <2>2. Week * (q + 1) <= 0 /\ Week * (q + 1) = Week * q + Week
        BY <1>1, <1>2, <2>1
    <2> QED
        BY <1>1, <1>2, <2>2
<1>4. ASSUME NEW k \in 1 .. n
      PROVE  /\ (k - 1) \div Week + 1 \in 1 .. q
             /\ \A i \in 1 .. q : k \in From(i) .. To(i, n) <=> (k - 1) \div Week + 1 = i
    <2> DEFINE p == (k - 1) \div Week
               r == (k - 1) % Week
    <2>1. p \in Int /\ r \in 0 .. Week - 1 /\ k - 1 = Week * p + r
        <3>1. k - 1 \in Int
            OBVIOUS
        <3> QED
            BY <1>1, <3>1, Division
    <2>2. p >= 0
        <3> HIDE DEF p, r
        <3>1. SUFFICES ASSUME p < 0 PROVE FALSE
            BY <2>1
        <3>2. Week * (p + 1) <= 0 /\ Week * (p + 1) = Week * p + Week
            BY <1>1, <2>1, <3>1
        <3> QED
            BY <1>1, <2>1, <3>2
    <2>3. p < q
        <3> HIDE DEF p, r, q, a
        <3>1. SUFFICES ASSUME q <= p PROVE FALSE
            BY <1>2, <2>1
        <3>2. Week * q <= Week * p
            <4>1. Week * (p - q) >= 0 /\ Week * (p - q) = Week * p - Week * q
                BY <1>1, <1>2, <2>1, <3>1
            <4> DEFINE x == Week * q
                       y == Week * p
            <4>2. x \in Int /\ y \in Int
                BY <1>1, <1>2, <2>1
            <4> QED
                BY <4>1, <4>2
        <3> DEFINE x == Week * q
                   y == Week * p
        <3>3. x \in Int /\ y \in Int /\ x <= y /\ n + Week - 1 = x + a /\ k - 1 = y + r
            BY <1>1, <1>2, <2>1, <3>2
        <3> HIDE DEF x, y
        <3> QED
            BY <1>1, <1>2, <2>1, <3>3
    <2>4. ASSUME NEW i \in 1 .. q
          PROVE  k \in From(i) .. To(i, n) <=> p + 1 = i
        <3> HIDE DEF p, r, q, a
        <3> DEFINE x == (i - 1) * Week
                   y == i * Week
                   z == Week * p
        <3>1. x \in Int /\ y \in Int /\ z \in Int /\ y = x + Week /\ k - 1 = z + r
            BY <1>1, <1>3, <2>1
        <3>2. i - 1 < p => x + Week <= z
            <4>1. i - 1 < p => Week * (p - i) >= 0 /\ Week * (p - i) = Week * p - i * Week
                BY <1>1, <1>3, <2>1
            <4> HIDE DEF x
            <4> QED
                BY <3>1, <4>1
        <3>3. p < i - 1 => z + Week <= x
            <4>1. p < i - 1 => Week * (i - 1 - (p + 1)) >= 0 /\ Week * (i - 1 - (p + 1)) = (i - 1) * Week - Week * p - Week
                BY <1>1, <1>3, <2>1
            <4> HIDE DEF y
            <4> QED
                BY <1>1, <3>1, <4>1
        <3>4. p = i - 1 => x = z
            BY <1>1, <1>3, <2>1
        <3>5. From(i) = x + 1 /\ To(i, n) = IF y < n THEN y ELSE n
            BY DEF From, To
        <3> HIDE DEF x, y, z
        <3>6. k \in From(i) .. To(i, n) <=> x + 1 <= k /\ k <= y
            BY <3>1, <3>5
        <3>7. CASE p = i - 1
            BY <1>1, <2>1, <3>1, <3>4, <3>6, <3>7
        <3>8. CASE p < i - 1
            BY <1>1, <2>1, <3>1, <3>3, <3>6, <3>8
        <3>9. CASE i - 1 < p
            BY <1>1, <2>1, <3>1, <3>2, <3>6, <3>9
        <3>10. p = i - 1 \/ p < i - 1 \/ i - 1 < p
            BY <1>3, <2>1
        <3> QED
            BY <3>7, <3>8, <3>9, <3>10
    <2> HIDE DEF p, r, q, a
    <2>5. p + 1 \in 1 .. q
        BY <1>3, <2>1, <2>2, <2>3
    <2> QED
        BY <2>4, <2>5 DEF p
<1>5. ASSUME NEW i \in 1 .. q
      PROVE  From(i) \in 1 .. n /\ To(i, n) \in 1 .. n /\ From(i) <= To(i, n) + 1
    <2> HIDE DEF q, a
    <2> DEFINE x == (i - 1) * Week
               y == i * Week
               z == Week * q
    <2>1. x \in Nat /\ y \in Int /\ z \in Int /\ y = x + Week /\ n + Week - 1 = z + a
        BY <1>1, <1>2, <1>3
    <2>2. y <= z
        <3>1. Week * (q - i) >= 0 /\ Week * (q - i) = Week * q - i * Week
            BY <1>1, <1>3
        <3> HIDE DEF x
        <3> QED
            BY <2>1, <3>1
    <2>3. From(i) = x + 1 /\ To(i, n) = IF y < n THEN y ELSE n
        BY DEF From, To
    <2> HIDE DEF x, y, z
    <2> QED
        BY <1>1, <1>2, <2>1, <2>2, <2>3
<1> QED
    BY <1>3, <1>4, <1>5

\* The buckets count what the days do.
LEMMA BucketsSum ==
    ASSUME NEW C, IsFiniteSet(C), NEW g, \A c \in C : g[c] \in Int,
           NEW n \in Nat, NEW s, CountsPlaces(s, n, C, g)
    PROVE  SumOfSeries(BucketWeekly(s)) = Cardinality({c \in C : g[c] \in 1 .. n})
<1> DEFINE q == Buckets(n)
           h == [c \in C |-> IF g[c] \in 1 .. n THEN (g[c] - 1) \div Week + 1 ELSE 0]
           b == BucketWeekly(s)
<1>1. s \in Seq(Nat) /\ Len(s) = n /\ DOMAIN s = 1 .. n
    <2>1. s \in Seq(Nat)
        BY SeqDef DEF CountsPlaces
    <2> QED
        BY <2>1, LenProperties DEF CountsPlaces
<1>2. q \in Nat /\ Week \in Nat \ {0}
    BY BucketsDivide, FiguresAssumption
<1>3. ASSUME NEW i \in 1 .. q
      PROVE  /\ SumOfSeries(SubSeq(s, From(i), To(i, n))) = Cardinality({c \in C : h[c] = i})
             /\ Cardinality({c \in C : h[c] = i}) \in Nat
    <2> DEFINE lo == From(i)
               hi == To(i, n)
               t  == SubSeq(s, lo, hi)
               m  == hi - lo + 1
               e  == [c \in C |-> g[c] - lo + 1]
    <2>1. /\ lo \in 1 .. n /\ hi \in 1 .. n /\ lo <= hi + 1
          /\ \A k \in 1 .. n : k \in lo .. hi <=> (k - 1) \div Week + 1 = i
        BY BucketsDivide
    <2>2. /\ t \in Seq(Nat) /\ Len(t) = m /\ m \in Nat
          /\ \A k \in 1 .. m : t[k] = s[lo + k - 1] /\ lo + k - 1 \in 1 .. n
        <3> HIDE DEF lo, hi
        <3>1. m \in Nat /\ \A k \in 1 .. m : lo + k - 1 \in 1 .. n
            BY <2>1
        <3>2. t = [k \in 1 .. m |-> s[lo + k - 1]]
            BY <2>1
        <3>3. t \in [1 .. m -> Nat]
            BY <1>1, <3>1, <3>2
        <3>4. t \in Seq(Nat) /\ DOMAIN t = 1 .. m
            BY <3>1, <3>3, SeqDef
        <3>5. Len(t) = m
            BY <3>1, <3>4, LenProperties
        <3> QED
            BY <3>1, <3>2, <3>4, <3>5
    <2>3. CountsPlaces(t, m, C, e)
        <3> HIDE DEF lo, hi, t, m
        <3>1. t \in [1 .. m -> Nat]
            BY <2>2, LenProperties
        <3>2. ASSUME NEW k \in 1 .. m
              PROVE  t[k] = Cardinality({c \in C : e[c] = k})
            <4>1. t[k] = Cardinality({c \in C : g[c] = lo + k - 1})
                BY <2>2 DEF CountsPlaces
            <4>2. ASSUME NEW c \in C
                  PROVE  e[c] = k <=> g[c] = lo + k - 1
                <5>1. e[c] = g[c] - lo + 1 /\ g[c] \in Int /\ lo \in Int /\ k \in Int
                    BY <2>1, <2>2, <4>2
                <5> HIDE DEF e
                <5> QED
                    BY <5>1
            <4>3. {c \in C : g[c] = lo + k - 1} = {c \in C : e[c] = k}
                <5> HIDE DEF e
                <5> QED
                    BY <4>2
            <4> QED
                BY <4>1, <4>3
        <3> QED
            BY <3>1, <3>2 DEF CountsPlaces
    <2>4. SumOfSeries(t) = Cardinality({c \in C : e[c] \in 1 .. m})
        <3>1. m \in Nat
            BY <2>2
        <3> HIDE DEF t, m, e
        <3> QED
            BY <2>3, <3>1, PlacesSum
    <2>5. ASSUME NEW c \in C
          PROVE  e[c] \in 1 .. m <=> h[c] = i
        <3> DEFINE k == g[c]
        <3>1. k \in Int /\ e[c] = k - lo + 1
              /\ h[c] = IF k \in 1 .. n THEN (k - 1) \div Week + 1 ELSE 0
            OBVIOUS
        <3>2. i # 0
            OBVIOUS
        <3> HIDE DEF k, e, h, lo, hi
        <3>3. e[c] \in 1 .. m <=> k \in lo .. hi
            BY <2>1, <3>1
        <3>4. k \in lo .. hi => k \in 1 .. n
            BY <2>1
        <3> QED
            BY <2>1, <3>1, <3>2, <3>3, <3>4
    <2>6. {c \in C : e[c] \in 1 .. m} = {c \in C : h[c] = i}
        <3> HIDE DEF e, h, m
        <3> QED
            BY <2>5
    <2>7. Cardinality({c \in C : h[c] = i}) \in Nat
        <3> HIDE DEF h
        <3> QED
            BY PartCounts
    <2> QED
        BY <2>4, <2>6, <2>7
<1>4. b = [i \in 1 .. q |-> SumOfSeries(SubSeq(s, From(i), To(i, n)))]
    BY <1>1 DEF BucketWeekly, Buckets, From, To
<1>5. CountsPlaces(b, q, C, h)
    <2> HIDE DEF b, q, h
    <2> QED
        BY <1>3, <1>4 DEF CountsPlaces
<1>6. SumOfSeries(b) = Cardinality({c \in C : h[c] \in 1 .. q})
    <2> HIDE DEF b, q, h
    <2> QED
        BY <1>2, <1>5, PlacesSum
<1>7. ASSUME NEW c \in C
      PROVE  h[c] \in 1 .. q <=> g[c] \in 1 .. n
    <2>1. g[c] \in 1 .. n => (g[c] - 1) \div Week + 1 \in 1 .. q
        BY BucketsDivide
    <2>2. 0 \notin 1 .. q
        OBVIOUS
    <2> HIDE DEF q
    <2> QED
        BY <2>1, <2>2
<1>8. {c \in C : h[c] \in 1 .. q} = {c \in C : g[c] \in 1 .. n}
    <2> HIDE DEF h, q
    <2> QED
        BY <1>7
<1> QED
    BY <1>6, <1>8

-----------------------------------------------------------------------------
(* The panels                                                              *)

\* The trend of a snapshot counts, by day, the copies C, up to the day today.
Shows(trend, C, today) ==
    /\ IsFiniteSet(C)
    /\ DOMAIN trend \subseteq 0 .. today
    /\ \A c \in C : Day[Instant(c)] \in DOMAIN trend
    /\ \A d \in DOMAIN trend : trend[d] = Cardinality({c \in C : Day[Instant(c)] = d})

\* A copy's place in the last n days.
PlaceOf(C, n, today) == [c \in C |-> Day[Instant(c)] - today + n]

LEMMA SeriesPlaces ==
    ASSUME ClocksOK, NEW trend, NEW C, NEW today \in Int, today = DayOf(clock),
           Shows(trend, C, today), NEW n \in Nat
    PROVE  /\ CountsPlaces(Series(trend, n), n, C, PlaceOf(C, n, today))
           /\ \A c \in C : PlaceOf(C, n, today)[c] \in Int /\ Day[Instant(c)] \in Int
<1> DEFINE g == PlaceOf(C, n, today)
           s == Series(trend, n)
<1>1. \A c \in C : Day[Instant(c)] \in 0 .. today /\ g[c] = Day[Instant(c)] - today + n
    BY DEF Shows, PlaceOf
<1>2. ASSUME NEW i \in 1 .. n
      PROVE  /\ s[i] = Cardinality({c \in C : g[c] = i})
             /\ s[i] \in Nat
    <2> DEFINE day == today + (i - n)
    <2>1. AddDays(DayOf(clock), i - n) = day /\ day \in Int
        <3>1. \A m \in Int : AddDays(today, m) = today + m
            BY DaysAdd
        <3>2. i - n \in Int
            OBVIOUS
        <3> QED
            BY <3>1, <3>2
    <2>2. s[i] = IF day \in DOMAIN trend THEN trend[day] ELSE 0
        BY <2>1 DEF Series
    <2>3. ASSUME NEW c \in C
          PROVE  g[c] = i <=> Day[Instant(c)] = day
        <3> DEFINE d == Day[Instant(c)]
        <3>1. d \in Int /\ g[c] = d - today + n
            BY <1>1
        <3> HIDE DEF d, g
        <3> QED
            BY <3>1 DEF d
    <2>4. {c \in C : g[c] = i} = {c \in C : Day[Instant(c)] = day}
        <3> HIDE DEF g, day
        <3> QED
            BY <2>3
    <2>5. Cardinality({c \in C : g[c] = i}) \in Nat
        <3> HIDE DEF g
        <3> QED
            BY PartCounts DEF Shows
    <2>6. CASE day \in DOMAIN trend
        <3> HIDE DEF g, day
        <3> QED
            BY <2>2, <2>4, <2>5, <2>6 DEF Shows
    <2>7. CASE day \notin DOMAIN trend
        <3> HIDE DEF g, day
        <3>1. {c \in C : g[c] = i} = {}
            BY <2>4, <2>7 DEF Shows
        <3> QED
            BY <2>2, <2>7, <3>1, FS_EmptySet
    <2> QED
        BY <2>6, <2>7
<1>3. s = [i \in 1 .. n |-> s[i]]
    BY DEF Series
<1> QED
    <2> HIDE DEF s, g
    <2>1. CountsPlaces(s, n, C, g)
        BY <1>2, <1>3 DEF CountsPlaces
    <2>2. \A c \in C : g[c] \in Int /\ Day[Instant(c)] \in Int
        BY <1>1
    <2> QED
        BY <2>1, <2>2 DEF s, g

\* The sum of the last n days counts the copies of these days, and so do its buckets.
LEMMA SeriesCount ==
    ASSUME ClocksOK, NEW trend, NEW C, NEW today \in Int, today = DayOf(clock),
           Shows(trend, C, today), NEW n \in Nat
    PROVE  LET last == Cardinality({c \in C : Day[Instant(c)] > today - n})
           IN  /\ SumOfSeries(Series(trend, n)) = last
               /\ SumOfSeries(BucketWeekly(Series(trend, n))) = last
<1> DEFINE g == PlaceOf(C, n, today)
<1>1. CountsPlaces(Series(trend, n), n, C, g) /\ \A c \in C : g[c] \in Int /\ Day[Instant(c)] \in Int
    BY SeriesPlaces
<1>2. IsFiniteSet(C) /\ \A c \in C : g[c] = Day[Instant(c)] - today + n /\ Day[Instant(c)] <= today
    BY <1>1 DEF PlaceOf, Shows
<1> HIDE DEF g
<1>3. {c \in C : g[c] \in 1 .. n} = {c \in C : Day[Instant(c)] > today - n}
    <2>1. ASSUME NEW c \in C
          PROVE  g[c] \in 1 .. n <=> Day[Instant(c)] > today - n
        <3> DEFINE d == Day[Instant(c)]
        <3>1. d \in Int /\ d <= today /\ g[c] = d - today + n
            BY <1>1, <1>2
        <3> HIDE DEF d
        <3> QED
            BY <3>1 DEF d
    <2> QED
        BY <2>1
<1>4. SumOfSeries(Series(trend, n)) = Cardinality({c \in C : g[c] \in 1 .. n})
    BY <1>1, <1>2, PlacesSum
<1>5. SumOfSeries(BucketWeekly(Series(trend, n))) = Cardinality({c \in C : g[c] \in 1 .. n})
    BY <1>1, <1>2, BucketsSum
<1> QED
    BY <1>3, <1>4, <1>5

\* The total of a trend, and the sum of the days from its first one on, count all.
LEMMA TrendCount ==
    ASSUME ClocksOK, NEW snapshot, NEW C, NEW today \in Nat, today = DayOf(clock),
           Shows(snapshot.trend, C, today)
    PROVE  /\ Total(snapshot.trend) = Cardinality(C)
           /\ TrendTotal(snapshot) = Cardinality(C)
<1> DEFINE trend == snapshot.trend
           D == DOMAIN trend
<1>1. /\ IsFiniteSet(C) /\ D \subseteq 0 .. today /\ IsFiniteSet(D)
      /\ \A c \in C : Day[Instant(c)] \in D
      /\ \A d \in D : trend[d] = Cardinality({c \in C : Day[Instant(c)] = d})
    <2>1. IsFiniteSet(0 .. today)
        BY FS_Interval
    <2> QED
        BY <2>1, FS_Subset DEF Shows
<1>2. Total(trend) = Cardinality(C)
    <2> DEFINE g == [c \in C |-> Day[Instant(c)]]
    <2>1. AreSizes(trend, D, C, g)
        <3>1. \A d : {c \in C : g[c] = d} = {c \in C : Day[Instant(c)] = d}
            OBVIOUS
        <3> HIDE DEF g, trend
        <3> QED
            BY <1>1, <3>1 DEF AreSizes
    <2>2. {c \in C : g[c] \in D} = C
        BY <1>1
    <2> HIDE DEF g, trend
    <2>3. SumOf(trend, D)[D] = Cardinality({c \in C : g[c] \in D})
        BY <1>1, <2>1, SumCounts
    <2> QED
        BY <2>2, <2>3, SumsAre
<1> DEFINE n == SpanDays(trend)
<1>3. n \in Nat /\ \A d \in D : d > today - n
    <2>1. CASE D = {}
        <3>1. n = 2 * ShortDays
            BY <2>1 DEF SpanDays
        <3> QED
            BY <2>1, <3>1, FiguresAssumption
    <2>2. CASE D # {}
        <3>1. PICK m \in D : \A d \in D : m <= d
            <4> HIDE DEF D
            <4>1. D \subseteq Nat
                BY <1>1
            <4> QED
                BY <2>2, <4>1, NatMin
        <3>2. Min(D) \in D /\ \A d \in D : Min(D) <= d
            <4> HIDE DEF D
            <4> QED
                BY <3>1 DEF Min
        <3>3. n = Max({1, today - Min(D) + 1})
            BY <2>2 DEF SpanDays
        <3> DEFINE first == Min(D)
        <3>4. first \in 0 .. today /\ \A d \in D : d \in Int /\ first <= d
            BY <1>1, <3>2
        <3>5. Max({1, today - first + 1}) = today - first + 1
            <4> HIDE DEF first
            <4>1. today - first + 1 \in Int /\ today - first + 1 >= 1
                BY <3>4
            <4> QED
                BY <4>1, MaxOfTwo
        <3> HIDE DEF first, D
        <3> QED
            BY <3>3, <3>4, <3>5 DEF first
    <2> QED
        BY <2>1, <2>2
<1>4. TrendTotal(snapshot) = Cardinality({c \in C : Day[Instant(c)] > today - n})
    <2>1. TrendTotal(snapshot) = SumOfSeries(Series(trend, n))
        BY DEF TrendTotal
    <2> HIDE DEF n
    <2> QED
        BY <1>3, <2>1, SeriesCount
<1>5. {c \in C : Day[Instant(c)] > today - n} = C
    <2> HIDE DEF n, D
    <2> QED
        BY <1>1, <1>3
<1> QED
    BY <1>2, <1>4, <1>5

\* What the panels show, of a snapshot of today.
PanelShows(snapshot) ==
    /\ PacePanel(snapshot).value = snapshot.counts.short
    /\ SumOfSeries(PacePanel(snapshot).chart) = snapshot.counts.short
    /\ TrendTotal(snapshot) = Total(snapshot.trend)

LEMMA PanelOfCopies ==
    ASSUME ClocksOK, NEW snapshot, NEW C, NEW today \in Nat, today = DayOf(clock),
           Shows(snapshot.trend, C, today),
           snapshot.counts.short = Cardinality({c \in C : Day[Instant(c)] > today - ShortDays})
    PROVE  PanelShows(snapshot)
<1>1. ShortDays \in Nat
    BY FiguresAssumption
<1> DEFINE s == Series(snapshot.trend, ShortDays)
<1>2. SumOfSeries(s) = snapshot.counts.short /\ SumOfSeries(BucketWeekly(s)) = snapshot.counts.short
    BY <1>1, SeriesCount
<1>3. TrendTotal(snapshot) = Total(snapshot.trend)
    BY TrendCount
<1>4. /\ PacePanel(snapshot).value = IF snapshot.counts.short > SumOfSeries(s) THEN snapshot.counts.short ELSE SumOfSeries(s)
      /\ PacePanel(snapshot).chart = BucketWeekly(s)
    BY DEF PacePanel
<1> HIDE DEF s
<1> QED
    BY <1>2, <1>3, <1>4 DEF PanelShows

\* A chart has what is ranked: it has all there is, or the ranking replaces it.
RankIsCharted(snapshot) ==
    \A l \in DOMAIN snapshot.ranked :
        /\ l \in DOMAIN ResolvedChart(snapshot)
        /\ ResolvedChart(snapshot)[l] = snapshot.ranked[l]

LEMMA TopAre ==
    ASSUME NEW counts, IsFiniteSet(DOMAIN counts), \A l \in DOMAIN counts : counts[l] \in Int,
           NEW n \in Nat
    PROVE  LET top == TopItems(counts, n)
           IN  /\ DOMAIN top \subseteq DOMAIN counts
               /\ IsFiniteSet(DOMAIN top)
               /\ \A l \in DOMAIN top : top[l] = counts[l]
               /\ Cardinality(DOMAIN top) = IF n < Cardinality(DOMAIN counts) THEN n ELSE Cardinality(DOMAIN counts)
               /\ Cardinality(DOMAIN counts) <= n => DOMAIN top = DOMAIN counts
<1> DEFINE S == DOMAIN counts
           k == IF n < Cardinality(S) THEN n ELSE Cardinality(S)
           F == FirstN(S, n, counts)
<1>1. AreFirst(F, S, k, counts)
    BY FirstNIsFirst
<1>2. F \subseteq S /\ Cardinality(F) = k
    BY <1>1 DEF AreFirst
<1>3. TopItems(counts, n) = [l \in F |-> counts[l]]
    BY DEF TopItems, Restrict
<1>4. IsFiniteSet(F) /\ Cardinality(S) \in Nat /\ (F # S => Cardinality(F) < Cardinality(S))
    <2> HIDE DEF F
    <2> QED
        BY <1>2, PartCounts
<1>5. Cardinality(S) <= n => F = S
    <2> HIDE DEF F, S
    <2> QED
        BY <1>2, <1>4
<1> HIDE DEF F
<1> QED
    BY <1>2, <1>3, <1>4, <1>5

LEMMA LabelsAreCounts ==
    ASSUME NEW C, IsFiniteSet(C)
    PROVE  LET L == LabelCounts(C)
           IN  /\ IsFun(L) /\ IsFiniteSet(DOMAIN L)
               /\ \A l \in DOMAIN L : L[l] \in Int
               /\ IsFiniteSet(DOMAIN Known(L)) /\ DOMAIN Known(L) = DOMAIN L \ {Unknown}
               /\ \A l \in DOMAIN Known(L) : Known(L)[l] = L[l]
<1> DEFINE L == LabelCounts(C)
           N == {LabelOf[Number(c)] : c \in C}
<1>1. L = [l \in N |-> Cardinality({c \in C : LabelOf[Number(c)] = l})]
    BY DEF LabelCounts
<1>2. IsFiniteSet(N)
    <2> DEFINE f == [c \in C |-> LabelOf[Number(c)]]
    <2>1. f \in Surjection(C, N)
        BY DEF Surjection
    <2> HIDE DEF f, N
    <2> QED
        BY <2>1, FS_Surjection
<1>3. \A l : Cardinality({c \in C : LabelOf[Number(c)] = l}) \in Nat
    BY PartCounts
<1>4. Known(L) = [l \in N \ {Unknown} |-> L[l]]
    BY <1>1 DEF Known
<1>5. IsFiniteSet(N \ {Unknown})
    BY <1>2, FS_Subset
<1> HIDE DEF N, L
<1>6. DOMAIN L = N /\ IsFun(L) /\ \A l \in N : L[l] \in Int
    <2>1. DOMAIN L = N /\ \A l \in N : L[l] \in Int
        BY <1>1, <1>3
    <2>2. L = [l \in N |-> L[l]]
        BY <1>1
    <2> QED
        BY <2>1, <2>2 DEF IsFun
<1>7. DOMAIN Known(L) = N \ {Unknown} /\ \A l \in N \ {Unknown} : Known(L)[l] = L[l]
    BY <1>4
<1> QED
    BY <1>2, <1>5, <1>6, <1>7 DEF L

\* resolveChartBreakdowns takes the chart or the ranking, the chart if it has more.
LEMMA ResolvedIs ==
    ASSUME NEW snapshot
    PROVE  ResolvedChart(snapshot) =
               IF Cardinality(DOMAIN snapshot.charted) > Cardinality(DOMAIN snapshot.ranked)
               THEN snapshot.charted ELSE snapshot.ranked
BY DEF ResolvedChart, Richer

\* A chart of the first labels has the first of the known ones, or gives way to them.
LEMMA ChartHasRanking ==
    ASSUME NEW C, IsFiniteSet(C), NEW snapshot,
           snapshot.ranked = TopItems(Known(LabelCounts(C)), RankLimit),
           \/ snapshot.charted = TopItems(LabelCounts(C), RankLimit)
           \/ snapshot.charted = LabelCounts(C)
    PROVE  RankIsCharted(snapshot)
<1> DEFINE L == LabelCounts(C)
           K == Known(L)
<1>1. /\ IsFiniteSet(DOMAIN L) /\ \A l \in DOMAIN L : L[l] \in Int
      /\ IsFiniteSet(DOMAIN K) /\ DOMAIN K = DOMAIN L \ {Unknown}
      /\ \A l \in DOMAIN K : K[l] = L[l]
    BY LabelsAreCounts
<1>2. RankLimit \in Nat
    BY FiguresAssumption
<1> DEFINE R == snapshot.ranked
           H == snapshot.charted
<1> HIDE DEF L, K
<1>3. /\ DOMAIN R \subseteq DOMAIN K /\ \A l \in DOMAIN R : R[l] = K[l]
      /\ Cardinality(DOMAIN R) = IF RankLimit < Cardinality(DOMAIN K) THEN RankLimit ELSE Cardinality(DOMAIN K)
    <2>1. R = TopItems(K, RankLimit)
        BY DEF K, L
    <2>2. \A l \in DOMAIN K : K[l] \in Int
        BY <1>1
    <2> HIDE DEF R
    <2> QED
        BY <1>1, <1>2, <2>1, <2>2, TopAre
<1>4. ASSUME Cardinality(DOMAIN H) > Cardinality(DOMAIN R)
      PROVE  DOMAIN H = DOMAIN L /\ \A l \in DOMAIN H : H[l] = L[l]
    <2>1. CASE H = L
        BY <2>1
    <2>2. CASE H = TopItems(L, RankLimit)
        <3>1. /\ \A l \in DOMAIN H : H[l] = L[l]
              /\ Cardinality(DOMAIN H) = IF RankLimit < Cardinality(DOMAIN L) THEN RankLimit ELSE Cardinality(DOMAIN L)
              /\ Cardinality(DOMAIN L) <= RankLimit => DOMAIN H = DOMAIN L
            <4> HIDE DEF H
            <4> QED
                BY <1>1, <1>2, <2>2, TopAre
        <3>2. /\ Cardinality(DOMAIN L) \in Nat /\ Cardinality(DOMAIN K) \in Nat
              /\ Cardinality(DOMAIN L) <= Cardinality(DOMAIN K) + 1
            <4>1. Cardinality(DOMAIN L) \in Nat /\ Cardinality(DOMAIN K) \in Nat
                BY <1>1, FS_CardinalityType
            <4>2. CASE Unknown \in DOMAIN L
                <5>1. Cardinality(DOMAIN L \ {Unknown}) = Cardinality(DOMAIN L) - 1
                    BY <1>1, <4>2, FS_RemoveElement
                <5> QED
                    BY <1>1, <4>1, <5>1
            <4>3. CASE Unknown \notin DOMAIN L
                <5>1. DOMAIN K = DOMAIN L
                    BY <1>1, <4>3
                <5> QED
                    BY <4>1, <5>1
            <4> QED
                BY <4>2, <4>3
        <3> DEFINE h == Cardinality(DOMAIN H)
                   r == Cardinality(DOMAIN R)
                   a == Cardinality(DOMAIN L)
                   b == Cardinality(DOMAIN K)
        <3>3. a <= RankLimit
            <4>1. h > r /\ h = (IF RankLimit < a THEN RankLimit ELSE a) /\ r = (IF RankLimit < b THEN RankLimit ELSE b)
                BY <1>3, <1>4, <3>1
            <4>2. a \in Nat /\ b \in Nat /\ a <= b + 1
                BY <3>2
            <4> HIDE DEF h, r, a, b
            <4> QED
                BY <1>2, <4>1, <4>2
        <3> QED
            BY <3>1, <3>3
    <2>3. H = L \/ H = TopItems(L, RankLimit)
        BY DEF L
    <2> QED
        BY <2>1, <2>2, <2>3
<1>5. ResolvedChart(snapshot) = IF Cardinality(DOMAIN H) > Cardinality(DOMAIN R) THEN H ELSE R
    BY ResolvedIs
<1> HIDE DEF R, H
<1>6. \A l \in DOMAIN R : l \in DOMAIN ResolvedChart(snapshot) /\ ResolvedChart(snapshot)[l] = R[l]
    <2>1. CASE Cardinality(DOMAIN H) > Cardinality(DOMAIN R)
        <3>1. ResolvedChart(snapshot) = H /\ DOMAIN H = DOMAIN L /\ \A l \in DOMAIN H : H[l] = L[l]
            BY <1>4, <1>5, <2>1
        <3> QED
            BY <1>1, <1>3, <3>1
    <2>2. CASE ~(Cardinality(DOMAIN H) > Cardinality(DOMAIN R))
        BY <1>5, <2>2
    <2> QED
        BY <2>1, <2>2
<1> QED
    BY <1>6 DEF RankIsCharted, R

\* The panels apply what was resolved, which has the ranking too.
AppliedHasRanking(snapshot) ==
    \A l \in DOMAIN snapshot.ranked :
        /\ l \in DOMAIN Applied(snapshot).charted
        /\ Applied(snapshot).charted[l] = snapshot.ranked[l]

LEMMA AppliedIs ==
    ASSUME NEW snapshot, "charted" \in DOMAIN snapshot, RankIsCharted(snapshot)
    PROVE  AppliedHasRanking(snapshot)
<1>1. Applied(snapshot).charted = ResolvedChart(snapshot)
    BY DEF Applied
<1> QED
    BY <1>1 DEF RankIsCharted, AppliedHasRanking

-----------------------------------------------------------------------------
(* The panels of seed mode                                                 *)

\* The snapshot counts copies of its days, whatever became of them since.
SeedShown(s) ==
    /\ s = [at |-> s.at, counts |-> s.counts, ranked |-> s.ranked, charted |-> s.charted,
            top |-> s.top, trend |-> s.trend, recent |-> s.recent, pace |-> s.pace]
    /\ s.at \in Nat
    /\ RankIsCharted(s)
    /\ \E C : /\ Shows(s.trend, C, Day[s.at])
              /\ s.counts.short = Cardinality({c \in C : Day[Instant(c)] >= WindowStart(s.at, ShortDays)})

SeedPanelOK == seed # NoSnapshot => SeedShown(seed)

LEMMA SeedShownLater ==
    ASSUME UNCHANGED summer
    PROVE  SeedShown(seed)' <=> SeedShown(seed')
<1>1. Day' = Day
    BY DayStays
<1> QED
    BY <1>1 DEF SeedShown, Shows, WindowStart, DayOf, Wall, Offset, RankIsCharted, ResolvedChart, Richer,
                Instant

LEMMA FinalShown ==
    ASSUME RefreshOK, ClocksOK, pc = "publish"
    PROVE  SeedShown(FinalSnapshot)
<1> DEFINE s == FinalSnapshot
<1>1. JobOK /\ PlanOK /\ Len(sums) = Windows
    BY DEF RefreshOK, JobOK
<1>2. Complete
    BY <1>1, AllCommitted
<1>3. /\ Merged("counts", NoSummary.counts) = LiveCounts
      /\ Merged("labels", <<>>) = Labels
      /\ Merged("trend", [d \in plan.from .. plan.to |-> 0]) = Trend
    BY <1>2, CountsAddUp, LabelsAddUp, TrendAddsUp
<1>4. /\ s = [at |-> s.at, counts |-> s.counts, ranked |-> s.ranked, charted |-> s.charted,
              top |-> s.top, trend |-> s.trend, recent |-> s.recent, pace |-> s.pace]
      /\ s.at = plan.at /\ s.counts = LiveCounts /\ s.trend = Trend
      /\ s.ranked = TopItems(Known(Labels), RankLimit)
      /\ s.charted = TopItems(Labels, RankLimit)
    BY <1>3 DEF FinalSnapshot
<1>5. /\ Published \subseteq Records \X Nat /\ IsFiniteSet(Published)
      /\ \A c \in Published : Day[Instant(c)] \in plan.from .. plan.to
    BY <1>2, PublishedIs
<1> HIDE DEF s
<1>6. RankIsCharted(s)
    BY <1>4, <1>5, ChartHasRanking DEF Labels
<1>7. \A c \in Published : Instant(c) \in Int /\ Day[Instant(c)] = DayOf(Instant(c))
    BY <1>5 DEF Instant, Day
<1>8. Shows(Trend, Published, Day[plan.at])
    <2>1. DOMAIN Trend = plan.from .. plan.to /\ plan.from .. plan.to \subseteq 0 .. Day[plan.at]
        BY <1>1 DEF Trend, PlanOK
    <2>2. ASSUME NEW d \in plan.from .. plan.to
          PROVE  Trend[d] = Cardinality({c \in Published : Day[Instant(c)] = d})
        <3>1. Trend[d] = Cardinality({c \in Published : DayOf(Instant(c)) = d})
            BY <1>1, DaysToPlan DEF Trend, DailyCounts
        <3>2. {c \in Published : DayOf(Instant(c)) = d} = {c \in Published : Day[Instant(c)] = d}
            BY <1>7
        <3> QED
            BY <3>1, <3>2
    <2> QED
        BY <1>5, <2>1, <2>2 DEF Shows
<1>9. s.counts.short = Cardinality({c \in Published : Day[Instant(c)] >= WindowStart(plan.at, ShortDays)})
    <2>1. s.counts.short = Cardinality({c \in Published : DayOf(Instant(c)) >= WindowStart(plan.at, ShortDays)})
        BY <1>4 DEF LiveCounts, Counts
    <2>2. {c \in Published : DayOf(Instant(c)) >= WindowStart(plan.at, ShortDays)} =
          {c \in Published : Day[Instant(c)] >= WindowStart(plan.at, ShortDays)}
        BY <1>7
    <2> QED
        BY <2>1, <2>2
<1>10. plan.at \in Nat
    BY <1>1 DEF PlanOK
<1> QED
    BY <1>4, <1>6, <1>8, <1>9, <1>10 DEF SeedShown, s

LEMMA SeedPanelStep ==
    ASSUME SeedPanelOK, RefreshOK, ClocksOK, [Next]_vars
    PROVE  SeedPanelOK'
<1>0. UNCHANGED summer
    BY ClocksStay
<1>1. CASE Publishes
    <2>1. pc = "publish" /\ seed' = FinalSnapshot
        BY <1>1 DEF Publishes
    <2> QED
        BY <1>0, <2>1, FinalShown, SeedShownLater DEF SeedPanelOK
<1>2. CASE UNCHANGED seed
    BY <1>0, <1>2, SeedShownLater DEF SeedPanelOK
<1>3. Publishes \/ UNCHANGED seed
    BY DEF Next, vars, seedVars, TimePasses, HccChanges, Plans, Stores, Commits, Interrupted, StoreMigrates,
           StoreIngests, StoreRecomputes, StoreBroadcasts
<1> QED
    BY <1>1, <1>2, <1>3

-----------------------------------------------------------------------------
(* The panels of store mode                                                *)

\* What stats_live counts, at an instant.
ShortCount(table, at) ==
    Cardinality(InBounds(table, [start |-> StartOfDay(WindowStart(at, ShortDays)), end |-> EndOfDay(DayOf(at))]))

\* daily_counts has the days that have rows; it may keep others.
DailyHas(table, counts) ==
    \A d \in Days : DailyCounts(Stored(table))[d] > 0 => counts[d] = DailyCounts(Stored(table))[d]

StorePanelOK ==
    /\ daily \in [Days -> Nat]
    /\ store # NoSnapshot => "charted" \in DOMAIN store /\ RankIsCharted(store) /\ store.at \in Nat
    /\ ~dirty =>
           /\ stats.at # 0 => stats.at \in Nat /\ stats.short = ShortCount(rows, stats.at)
           /\ DailyHas(rows, daily)
           /\ store # NoSnapshot =>
                  store.counts = stats /\ store.trend = DailyStats(daily, 0, DayOf(store.at))

LEMMA PanelLater ==
    ASSUME UNCHANGED summer
    PROVE  /\ ShortCount(rows, stats.at)' = ShortCount(rows', stats'.at)
           /\ DailyHas(rows, daily)' <=> DailyHas(rows', daily')
           /\ DailyStats(daily, 0, DayOf(store.at))' = DailyStats(daily', 0, DayOf(store'.at))
           /\ RankIsCharted(store)' <=> RankIsCharted(store')
<1>1. ShortCount(rows, stats.at)' = ShortCount(rows', stats'.at)
    BY DEF ShortCount, InBounds, Stored, StartOfDay, EndOfDay, TextWithMs, Text, LocalDateTime, FromZoned,
           WindowStart, DayOf, Wall, Offset, Instant
<1>2. DailyHas(rows, daily)' <=> DailyHas(rows', daily')
    BY DEF DailyHas, DailyCounts, Stored, DayOf, Wall, Offset, Instant
<1>3. DailyStats(daily, 0, DayOf(store.at))' = DailyStats(daily', 0, DayOf(store'.at))
    BY DEF DailyStats, DayOf, Wall, Offset
<1>4. RankIsCharted(store)' <=> RankIsCharted(store')
    BY DEF RankIsCharted, ResolvedChart, Richer
<1> QED
    BY <1>1, <1>2, <1>3, <1>4

LEMMA DailyAreCounts ==
    ASSUME NEW table, TableOK(table)
    PROVE  DailyCounts(Stored(table)) \in [Days -> Nat]
<1>1. IsFiniteSet(Stored(table))
    BY StoredRows
<1>2. \A d : Cardinality({c \in Stored(table) : DayOf(Instant(c)) = d}) \in Nat
    BY <1>1, PartCounts
<1> QED
    BY <1>2 DEF DailyCounts

\* A snapshot that was assembled, whatever from.
LEMMA AssembledShows ==
    ASSUME NEW table, TableOK(table), NEW live, NEW counts, clock \in Nat
    PROVE  LET s == Assembled(table, live, counts)
           IN  /\ "charted" \in DOMAIN s /\ RankIsCharted(s) /\ s.at = clock /\ s.counts = live
               /\ s.trend = DailyStats(counts, 0, DayOf(s.at))
<1> DEFINE s == Assembled(table, live, counts)
<1>1. /\ "charted" \in DOMAIN s /\ s.at = clock /\ s.counts = live
      /\ s.trend = DailyStats(counts, 0, DayOf(clock))
      /\ s.ranked = TopItems(Known(LabelCounts(Stored(table))), RankLimit)
      /\ s.charted = LabelCounts(Stored(table))
    BY DEF Assembled, StoreRanked, StoreCharted, Grouped
<1>2. IsFiniteSet(Stored(table))
    BY StoredRows
<1> HIDE DEF s
<1>3. RankIsCharted(s)
    BY <1>1, <1>2, ChartHasRanking
<1> QED
    BY <1>1, <1>3 DEF s

LEMMA RecomputedPanels ==
    ASSUME NEW table, TableOK(table), Recomputed(table), daily \in [Days -> Nat], clock \in Nat
    PROVE  /\ daily' \in [Days -> Nat] /\ DailyHas(table, daily')
           /\ stats'.at = clock /\ stats'.short = ShortCount(table, stats'.at)
           /\ "charted" \in DOMAIN store' /\ RankIsCharted(store') /\ store'.at = clock
           /\ store'.counts = stats' /\ store'.trend = DailyStats(daily', 0, DayOf(store'.at))
<1>1. /\ stats' = StatsLive(table) /\ daily' = DailyUpserted(DailyCounts(Stored(table)))
      /\ store' = Assembled(table, stats', daily')
    BY DEF Recomputed
<1>2. DailyCounts(Stored(table)) \in [Days -> Nat]
    BY DailyAreCounts
<1>3. daily' \in [Days -> Nat] /\ DailyHas(table, daily')
    BY <1>1, <1>2 DEF DailyUpserted, DailyHas
<1>4. stats'.at = clock /\ stats'.short = ShortCount(table, clock)
    BY <1>1 DEF StatsLive, ShortCount, DateBounds
<1> QED
    BY <1>1, <1>3, <1>4, AssembledShows

LEMMA StorePanelInit == Init => StorePanelOK
<1> SUFFICES ASSUME Init PROVE StorePanelOK
    OBVIOUS
<1>1. /\ rows = [r \in Records |-> 0] /\ store = NoSnapshot /\ stats.at = 0
      /\ daily = [d \in Days |-> 0]
    BY DEF Init
<1>2. Stored(rows) = {}
    BY <1>1 DEF Stored
<1>3. \A d \in Days : DailyCounts(Stored(rows))[d] = 0
    BY <1>2, FS_EmptySet DEF DailyCounts
<1>4. DailyHas(rows, daily)
    BY <1>3 DEF DailyHas
<1>5. daily \in [Days -> Nat]
    BY <1>1
<1> QED
    BY <1>1, <1>4, <1>5 DEF StorePanelOK

LEMMA StorePanelStep ==
    ASSUME StorePanelOK, StoreOK, StoreOK', ClockOK, ClocksOK, [Next]_vars
    PROVE  StorePanelOK'
<1>0. UNCHANGED summer /\ clock \in Nat /\ Days' = Days
    BY ClocksStay, FiguresAssumption DEF ClockOK, Days
<1>1. TableOK(rows) /\ TableOK(rows')
    BY <1>0, StoredLater DEF StoreOK
<1>2. daily \in [Days -> Nat]
    BY DEF StorePanelOK
<1>3. ASSUME Recomputed(rows') PROVE StorePanelOK'
    <2>1. /\ daily' \in [Days -> Nat] /\ DailyHas(rows', daily')
          /\ stats'.at = clock /\ stats'.short = ShortCount(rows', stats'.at)
          /\ "charted" \in DOMAIN store' /\ RankIsCharted(store') /\ store'.at = clock
          /\ store'.counts = stats' /\ store'.trend = DailyStats(daily', 0, DayOf(store'.at))
        <3>1. \A table : TableOK(table) /\ Recomputed(table) =>
                  /\ daily' \in [Days -> Nat] /\ DailyHas(table, daily')
                  /\ stats'.at = clock /\ stats'.short = ShortCount(table, stats'.at)
                  /\ "charted" \in DOMAIN store' /\ RankIsCharted(store') /\ store'.at = clock
                  /\ store'.counts = stats' /\ store'.trend = DailyStats(daily', 0, DayOf(store'.at))
            BY <1>0, <1>2, RecomputedPanels
        <3> QED
            BY <1>1, <1>3, <3>1
    <2> QED
        BY <1>0, <2>1, PanelLater DEF StorePanelOK
<1>4. CASE StoreMigrates
    BY <1>3, <1>4 DEF StoreMigrates
<1>5. CASE StoreIngests
    <2>1. UNCHANGED <<daily, stats, store>> /\ dirty' = TRUE
        BY <1>5 DEF StoreIngests
    <2> QED
        BY <1>0, <2>1, PanelLater DEF StorePanelOK
<1>6. CASE StoreRecomputes
    <2>1. UNCHANGED rows /\ Recomputed(rows)
        BY <1>6 DEF StoreRecomputes
    <2>2. \A table : table = rows' => Recomputed(table)
        BY <2>1
    <2> QED
        BY <1>3, <2>2
<1>7. CASE StoreBroadcasts
    <2>1. UNCHANGED <<rows, stats, daily, dirty>> /\ store' = Assembled(rows, stats, daily)
        BY <1>7 DEF StoreBroadcasts
    <2>2. /\ "charted" \in DOMAIN store' /\ RankIsCharted(store') /\ store'.at = clock
          /\ store'.counts = stats /\ store'.trend = DailyStats(daily, 0, DayOf(store'.at))
        BY <1>0, <1>1, <2>1, AssembledShows
    <2> QED
        BY <1>0, <2>1, <2>2, PanelLater DEF StorePanelOK
<1>8. CASE UNCHANGED storeVars
    <2>1. UNCHANGED <<rows, daily, stats, dirty, store>>
        BY <1>8 DEF storeVars
    <2> QED
        BY <1>0, <2>1, PanelLater DEF StorePanelOK
<1>9. StoreMigrates \/ StoreIngests \/ StoreRecomputes \/ StoreBroadcasts \/ UNCHANGED storeVars
    BY DEF Next, vars, TimePasses, HccChanges, Plans, Stores, Commits, Interrupted, Publishes
<1> QED
    BY <1>4, <1>5, <1>6, <1>7, <1>8, <1>9

\* Of today, and without a day that a record left, the store shows its rows up to today.
LEMMA StorePanelShows ==
    ASSUME StorePanelOK, StoreOK, ClockOK, ClocksOK, store # NoSnapshot, ~dirty,
           NEW today \in Nat, today = DayOf(clock), today = DayOf(store.at), today = DayOf(stats.at),
           stats.at # 0, WindowIsExact(stats.at, ShortDays),
           \A d \in Days : daily[d] > 0 => DailyCounts(Stored(rows))[d] > 0
    PROVE  PanelShows(store)
<1> DEFINE C == {c \in Stored(rows) : Day[Instant(c)] <= today}
           D == {d \in 0 .. today : daily[d] > 0}
<1>1. /\ TableOK(rows) /\ daily \in [Days -> Nat] /\ stats.at \in Nat
      /\ store.counts.short = ShortCount(rows, stats.at) /\ store.trend = DailyStats(daily, 0, today)
      /\ \A d \in Days : DailyCounts(Stored(rows))[d] > 0 => daily[d] = DailyCounts(Stored(rows))[d]
    BY DEF StorePanelOK, StoreOK, DailyHas
<1>2. /\ IsFiniteSet(Stored(rows))
      /\ \A c \in Stored(rows) : Instant(c) \in Nat /\ Instant(c) > 0 /\ Day[Instant(c)] = DayOf(Instant(c))
    BY <1>1, StoredRows DEF Day
<1>3. 0 .. today \subseteq Days
    <2>1. today \in Days
        <3>1. clock \in Int /\ 0 <= clock /\ clock <= LastInstant
            BY FiguresAssumption DEF ClockOK
        <3> QED
            BY <3>1, DaysAre
    <2>2. LastInstant \div PerDay \in Int
        BY HalfDay, FiguresAssumption, Division
    <2> QED
        BY <2>1, <2>2 DEF Days
<1>4. \A d \in 0 .. today : /\ daily[d] = DailyCounts(Stored(rows))[d]
                            /\ DailyCounts(Stored(rows))[d] = Cardinality({c \in Stored(rows) : Day[Instant(c)] = d})
    <2>1. DailyCounts(Stored(rows)) \in [Days -> Nat]
        BY <1>1, DailyAreCounts
    <2>2. ASSUME NEW d \in 0 .. today
          PROVE  daily[d] = DailyCounts(Stored(rows))[d]
        <3>1. d \in Days
            BY <1>3
        <3> DEFINE x == daily[d]
                   y == DailyCounts(Stored(rows))[d]
        <3>2. x \in Nat /\ y \in Nat /\ (x > 0 => y > 0) /\ (y > 0 => x = y)
            BY <1>1, <2>1, <3>1
        <3> HIDE DEF x, y
        <3>3. x = y
            BY <3>2
        <3> QED
            BY <3>3 DEF x, y
    <2>3. ASSUME NEW d \in 0 .. today
          PROVE  DailyCounts(Stored(rows))[d] = Cardinality({c \in Stored(rows) : Day[Instant(c)] = d})
        <3>1. DailyCounts(Stored(rows))[d] = Cardinality({c \in Stored(rows) : DayOf(Instant(c)) = d})
            BY <1>3 DEF DailyCounts
        <3>2. {c \in Stored(rows) : DayOf(Instant(c)) = d} = {c \in Stored(rows) : Day[Instant(c)] = d}
            BY <1>2
        <3> QED
            BY <3>1, <3>2
    <2> QED
        BY <2>2, <2>3
<1>5. IsFiniteSet(C) /\ \A c \in C : Day[Instant(c)] \in 0 .. today
    <2>1. IsFiniteSet(C)
        BY <1>2, FS_Subset
    <2>2. ASSUME NEW c \in C
          PROVE  Day[Instant(c)] \in 0 .. today
        <3>1. Instant(c) \in Nat /\ Day[Instant(c)] = DayOf(Instant(c)) /\ Day[Instant(c)] <= today
            BY <1>2
        <3>2. Wall(Instant(c)) \in Nat
            BY <3>1, HalfDay, Offsets DEF Wall
        <3>3. DayOf(Instant(c)) \in Nat
            BY <3>2, DayZero DEF DayOf
        <3> QED
            BY <3>1, <3>3
    <2> QED
        BY <2>1, <2>2
<1>6. Shows(store.trend, C, today)
    <2>1. DOMAIN store.trend = D /\ \A d \in D : store.trend[d] = daily[d]
        BY <1>1 DEF DailyStats, Restrict
    <2>2. ASSUME NEW d \in 0 .. today
          PROVE  {c \in Stored(rows) : Day[Instant(c)] = d} = {c \in C : Day[Instant(c)] = d}
        OBVIOUS
    <2>3. ASSUME NEW c \in C
          PROVE  Day[Instant(c)] \in D
        <3> DEFINE d == Day[Instant(c)]
                   e == {b \in Stored(rows) : Day[Instant(b)] = d}
        <3>1. d \in 0 .. today /\ c \in e
            BY <1>5
        <3>2. IsFiniteSet(e) /\ e # {}
            BY <1>2, <3>1, FS_Subset
        <3>3. Cardinality(e) \in Nat /\ Cardinality(e) # 0
            <4> HIDE DEF e
            <4> QED
                BY <3>2, FS_CardinalityType, FS_EmptySet
        <3>4. daily[d] = Cardinality(e)
            BY <1>4, <3>1
        <3> HIDE DEF e
        <3>5. daily[d] > 0
            BY <3>3, <3>4
        <3> HIDE DEF d
        <3>6. d \in D
            BY <3>1, <3>5
        <3> QED
            BY <3>6 DEF d
    <2>4. \A d \in D : store.trend[d] = Cardinality({c \in C : Day[Instant(c)] = d})
        <3>1. \A d \in D : d \in 0 .. today
            OBVIOUS
        <3> HIDE DEF C, D
        <3> QED
            BY <1>4, <2>1, <2>2, <3>1
    <2>5. D \subseteq 0 .. today
        OBVIOUS
    <2> HIDE DEF C, D
    <2> QED
        BY <1>5, <2>1, <2>3, <2>4, <2>5 DEF Shows
<1>7. store.counts.short = Cardinality({c \in C : Day[Instant(c)] > today - ShortDays})
    <2> DEFINE first == WindowStart(stats.at, ShortDays)
    <2>1. ShortDays \in Nat /\ first = today - (ShortDays - 1) /\ first \in Int
        BY FiguresAssumption DEF WindowIsExact
    <2>2. ShortCount(rows, stats.at) =
              Cardinality({c \in Stored(rows) : Text(Instant(c)) \in StartOfDay(first) .. EndOfDay(today)})
        BY DEF ShortCount, InBounds
    <2>3. ASSUME NEW c \in Stored(rows)
          PROVE  Text(Instant(c)) \in StartOfDay(first) .. EndOfDay(today) <=>
                     c \in C /\ Day[Instant(c)] > today - ShortDays
        <3> DEFINE i == Instant(c)
                   d == DayOf(i)
                   t == Text(i)
        <3>1. i \in Int /\ Day[i] = d
            BY <1>2
        <3>2. d \in Int /\ t \in Int
            BY <3>1, WallGrows, TextIsInt
        <3>3. (StartOfDay(first) <= t <=> first <= d) /\ (t <= EndOfDay(today) <=> d <= today)
            BY <2>1, <3>1, TextDays
        <3>4. StartOfDay(first) \in Int /\ EndOfDay(today) \in Int
            <4>1. \A w \in Int : FromZoned(w) \in Int
                BY Cleaned
            <4>2. first * PerDay + 0 \in Int /\ today * PerDay + (PerDay - 1) \in Int
                BY <2>1, HalfDay
            <4> QED
                BY <4>1, <4>2, TextIsInt DEF StartOfDay, EndOfDay, TextWithMs, LocalDateTime
        <3>5. c \in C <=> d <= today
            BY <3>1
        <3> HIDE DEF first, d, t, C
        <3> QED
            BY <2>1, <3>1, <3>2, <3>3, <3>4, <3>5 DEF t
    <2>4. {c \in Stored(rows) : Text(Instant(c)) \in StartOfDay(first) .. EndOfDay(today)} =
          {c \in C : Day[Instant(c)] > today - ShortDays}
        <3>1. C \subseteq Stored(rows)
            OBVIOUS
        <3> HIDE DEF C, first
        <3> QED
            BY <2>3, <3>1
    <2> QED
        BY <1>1, <2>2, <2>4
<1> HIDE DEF C
<1> QED
    BY <1>6, <1>7, PanelOfCopies

LEMMA Today ==
    ASSUME ClockOK, ClocksOK
    PROVE  DayOf(clock) \in Nat \ {0} /\ DayOf(0) = 0
<1>1. Half \in Nat /\ PerDay \in Nat /\ PerDay = 2 * Half /\ Half >= 2
    BY HalfDay
<1>2. DayOf(0) = 0
    <2>1. Wall(0) \in 0 .. PerDay - 1 /\ Wall(0) \in Int /\ Wall(0) = 0 * PerDay + Wall(0)
        BY <1>1, Offsets DEF Wall
    <2> QED
        BY <1>1, <2>1, DivisionIs DEF DayOf
<1>3. clock \in Nat /\ PerDay <= clock
    <2>1. Start \in Nat /\ RefreshDays \in Nat \ {0} /\ PerDay * RefreshDays < Start
        BY FiguresAssumption
    <2>2. PerDay <= PerDay * RefreshDays
        <3>1. PerDay * (RefreshDays - 1) >= 0 /\ PerDay * (RefreshDays - 1) = PerDay * RefreshDays - PerDay
            BY <1>1, <2>1
        <3> QED
            BY <1>1, <2>1, <3>1
    <2>3. PerDay * RefreshDays \in Int
        BY <1>1, <2>1
    <2> QED
        BY <1>1, <2>1, <2>2, <2>3 DEF ClockOK
<1>4. DayOf(clock) \in Nat \ {0}
    <2>1. Wall(clock) \in Int /\ Wall(clock) >= PerDay
        BY <1>1, <1>3, Offsets DEF Wall
    <2>2. Wall(clock) \div PerDay \in Int /\ PerDay \div PerDay <= Wall(clock) \div PerDay
        <3>1. PerDay \in Nat \ {0} /\ PerDay \in Int
            BY <1>1
        <3>2. Wall(clock) \div PerDay \in Int
            BY <2>1, <3>1, Division
        <3>3. PerDay \div PerDay <= Wall(clock) \div PerDay
            <4>1. \A c \in Int : PerDay <= c => PerDay \div PerDay <= c \div PerDay
                BY <3>1, DivisionGrows
            <4> QED
                BY <2>1, <3>1, <4>1
        <3> QED
            BY <3>2, <3>3
    <2>3. PerDay \div PerDay = 1
        <3>1. PerDay = 1 * PerDay + 0 /\ 0 \in 0 .. PerDay - 1
            BY <1>1
        <3> QED
            BY <1>1, <3>1, DivisionIs
    <2> QED
        BY <2>2, <2>3 DEF DayOf
<1> QED
    BY <1>2, <1>4

\* What the reader serves of a snapshot has its figures, with the charts resolved.
LEMMA SeedPayloadIs ==
    ASSUME SeedPanelOK, seed # NoSnapshot
    PROVE  /\ "charted" \in DOMAIN SeedPayload /\ RankIsCharted(SeedPayload)
           /\ SeedPayload.at = seed.at /\ SeedPayload.counts = seed.counts
           /\ SeedPayload.trend = seed.trend
<1>1. /\ seed = [at |-> seed.at, counts |-> seed.counts, ranked |-> seed.ranked, charted |-> seed.charted,
                 top |-> seed.top, trend |-> seed.trend, recent |-> seed.recent, pace |-> seed.pace]
      /\ RankIsCharted(seed)
    BY DEF SeedPanelOK, SeedShown
<1> DEFINE p == SeedPayload
<1>2. p = [seed EXCEPT !.charted = ResolvedChart(seed), !.top = LargerRanking(seed.ranked, seed.top)]
    BY DEF SeedPayload
<1>3. /\ "charted" \in DOMAIN p /\ p.at = seed.at /\ p.counts = seed.counts /\ p.trend = seed.trend
      /\ p.ranked = seed.ranked /\ p.charted = ResolvedChart(seed)
    <2> HIDE DEF p
    <2>1. DOMAIN seed = {"at", "counts", "ranked", "charted", "top", "trend", "recent", "pace"}
        BY <1>1
    <2> QED
        BY <1>2, <2>1
<1> HIDE DEF p
<1>4. ResolvedChart(p) = p.charted \/ ResolvedChart(p) = p.ranked
    BY ResolvedIs
<1>5. RankIsCharted(p)
    BY <1>1, <1>3, <1>4 DEF RankIsCharted
<1> QED
    BY <1>3, <1>5 DEF p

LEMMA SeedPanelShows ==
    ASSUME SeedPanelOK, seed # NoSnapshot, ClocksOK,
           NEW today \in Nat, today = DayOf(clock), today = DayOf(seed.at),
           WindowIsExact(seed.at, ShortDays)
    PROVE  PanelShows(SeedPayload)
<1>1. seed.at \in Nat /\ Day[seed.at] = today
    BY DEF SeedPanelOK, SeedShown, Day
<1>2. PICK C : /\ Shows(seed.trend, C, today)
               /\ seed.counts.short = Cardinality({c \in C : Day[Instant(c)] >= WindowStart(seed.at, ShortDays)})
    BY <1>1 DEF SeedPanelOK, SeedShown
<1>3. ShortDays \in Nat /\ WindowStart(seed.at, ShortDays) = today - (ShortDays - 1)
    BY FiguresAssumption DEF WindowIsExact
<1>4. {c \in C : Day[Instant(c)] >= WindowStart(seed.at, ShortDays)} = {c \in C : Day[Instant(c)] > today - ShortDays}
    <2>1. ASSUME NEW c \in C
          PROVE  Day[Instant(c)] >= today - (ShortDays - 1) <=> Day[Instant(c)] > today - ShortDays
        <3> DEFINE d == Day[Instant(c)]
        <3>1. d \in Int
            BY <1>2 DEF Shows
        <3> HIDE DEF d
        <3>2. d >= today - (ShortDays - 1) <=> d > today - ShortDays
            BY <1>3, <3>1
        <3> QED
            BY <3>2 DEF d
    <2> QED
        BY <1>3, <2>1
<1> DEFINE p == SeedPayload
<1>5. p.counts = seed.counts /\ p.trend = seed.trend
    BY SeedPayloadIs
<1> HIDE DEF p
<1>6. Shows(p.trend, C, today) /\ p.counts.short = Cardinality({c \in C : Day[Instant(c)] > today - ShortDays})
    BY <1>2, <1>4, <1>5
<1>7. PanelShows(p)
    BY <1>6, PanelOfCopies
<1> QED
    BY <1>7 DEF p

\* The panels (buildPacePanelData, bucketWeekly, sumTrendWindow, resolveChartBreakdowns)
\* show the live figure as their value, the columns of the chart add up to it, the days
\* since the first one add up to all of them, and a chart has every label of the
\* ranking, for a snapshot of the day of the browser's clock: in seed mode whatever the
\* refresh under way has overwritten of its chunks, in store mode when daily_counts has
\* no day that all its records left.
THEOREM PanelsAddUp == Spec => []PanelAddsUp
<1> DEFINE Inv == /\ RefreshOK /\ SeedPanelOK /\ StoreOK /\ StorePanelOK
                  /\ LegacyOK /\ HccOK /\ summer \in Summers
<1>1. Init => Inv
    BY RefreshInit, StoreInit, StorePanelInit, LegacyInit, HccInit DEF Init, SeedPanelOK
<1>2. Inv /\ [Next]_vars => Inv'
    <2> SUFFICES ASSUME Inv, [Next]_vars PROVE Inv'
        OBVIOUS
    <2>1. ClocksOK /\ ClockOK
        BY ClocksHold DEF RefreshOK
    <2>2. RefreshOK' /\ SeedPanelOK' /\ StoreOK'
        BY <2>1, RefreshStep, SeedPanelStep, StoreStep
    <2>3. StorePanelOK'
        BY <2>1, <2>2, StorePanelStep
    <2>4. LegacyOK' /\ HccOK' /\ (summer \in Summers)'
        BY LegacyStep, HccStep, ClocksStay
    <2> QED
        BY <2>2, <2>3, <2>4
<1>3. Inv => PanelAddsUp
    <2> SUFFICES ASSUME Inv PROVE PanelAddsUp
        OBVIOUS
    <2>1. ClocksOK /\ ClockOK
        BY ClocksHold DEF RefreshOK
    <2>2. DayOf(clock) \in Nat \ {0} /\ DayOf(0) = 0
        BY <2>1, Today
    <2>3. ASSUME store # NoSnapshot, ~dirty, DayOf(clock) = DayOf(store.at), DayOf(clock) = DayOf(stats.at),
                 WindowIsExact(stats.at, ShortDays),
                 \A d \in Days : daily[d] > 0 => DailyCounts(Stored(rows))[d] > 0
          PROVE  PanelShows(store) /\ AppliedHasRanking(store)
        <3>1. stats.at # 0
            BY <2>2, <2>3
        <3>2. PanelShows(store)
            BY <2>1, <2>2, <2>3, <3>1, StorePanelShows
        <3>3. "charted" \in DOMAIN store /\ RankIsCharted(store)
            BY <2>3 DEF StorePanelOK
        <3> QED
            BY <3>2, <3>3, AppliedIs
    <2>4. ASSUME DayOf(clock) = DayOf(SeedPayload.at), WindowIsExact(SeedPayload.at, ShortDays)
          PROVE  PanelShows(SeedPayload) /\ AppliedHasRanking(SeedPayload)
        <3>1. seed # NoSnapshot
            <4>1. SUFFICES ASSUME seed = NoSnapshot PROVE FALSE
                OBVIOUS
            <4>2. SeedPayload.at = 0
                BY <4>1 DEF SeedPayload
            <4> QED
                BY <2>2, <2>4, <4>2
        <3>2. /\ "charted" \in DOMAIN SeedPayload /\ RankIsCharted(SeedPayload)
              /\ SeedPayload.at = seed.at
            BY <3>1, SeedPayloadIs
        <3>3. PanelShows(SeedPayload)
            BY <2>1, <2>2, <2>4, <3>1, <3>2, SeedPanelShows
        <3> QED
            BY <3>2, <3>3, AppliedIs
    <2>5. ASSUME NEW snapshot \in {SeedPayload, store} \ {NoSnapshot},
                 LET countedAt == IF snapshot = store THEN stats.at ELSE snapshot.at
                 IN  /\ DayOf(clock) = DayOf(snapshot.at) /\ DayOf(clock) = DayOf(countedAt)
                     /\ WindowIsExact(countedAt, ShortDays)
                     /\ snapshot = store =>
                            ~dirty /\ \A d \in Days : daily[d] > 0 => DailyCounts(Stored(rows))[d] > 0
          PROVE  PanelShows(snapshot) /\ AppliedHasRanking(snapshot)
        <3>1. CASE snapshot = store
            BY <2>3, <2>5, <3>1
        <3>2. CASE snapshot # store
            BY <2>4, <2>5, <3>2
        <3> QED
            BY <3>1, <3>2
    <2> QED
        BY <2>5 DEF PanelAddsUp, PanelShows, AppliedHasRanking
<1> QED
    BY <1>1, <1>2, <1>3, PTL DEF Spec

-----------------------------------------------------------------------------
(* The order of text                                                       *)

\* Once they were put back, the clocks stay so for a day.
RestOK == \A i \in summer : i + 1 \in summer \/ \A j \in i + 1 .. i + PerDay : j \notin summer

LEMMA RestHolds ==
    ASSUME summer \in Summers
    PROVE  RestOK
BY ClocksAssumption DEF RestOK

\* The instants that cleaning gives: of an hour that occurs twice, the second time.
IsClean(i) == i \in Int /\ (i \in summer => i + 1 \in summer)

LEMMA CleanedIsSecond ==
    ASSUME ClocksOK, RestOK, NEW w \in Int
    PROVE  IsClean(FromZoned(w))
<1>1. Half \in Nat /\ PerDay \in Nat /\ PerDay = 2 * Half /\ Half >= 2
    BY HalfDay
<1> DEFINE guess == Offset(w - Offset(w))
           i == FromZoned(w)
<1>2. /\ guess \in {Half, Half + 1}
      /\ i = w - Max({guess, Offset(w - guess)})
      /\ Offset(w - guess) \in {Half, Half + 1}
    BY Offsets DEF FromZoned
<1>3. i = w - (IF guess >= Offset(w - guess) THEN guess ELSE Offset(w - guess))
    BY <1>1, <1>2, MaxOfTwo
<1>4. i \in Int
    BY <1>1, <1>2, <1>3
<1>5. SUFFICES ASSUME i \in summer, i + 1 \notin summer PROVE FALSE
    BY <1>4 DEF IsClean
<1>6. CASE guess = Half + 1
    <2>1. i = w - Half - 1 /\ i + 1 = w - Half
        BY <1>1, <1>2, <1>3, <1>6
    <2>2. w - Offset(w) \in summer
        BY <1>1, <1>6, Offsets
    <2>3. Offset(w) = Half + 1
        <3>1. Offset(w) = Half => w - Offset(w) = i + 1
            BY <1>1, <2>1
        <3> QED
            BY <1>1, <1>5, <2>2, <3>1, Offsets
    <2>4. w \in summer
        BY <1>1, <2>3, Offsets
    <2>5. w \in i + 1 .. i + PerDay
        BY <1>1, <2>1
    <2> QED
        BY <1>5, <2>4, <2>5 DEF RestOK
<1>7. CASE guess = Half
    <2>1. CASE Offset(w - guess) = Half
        <3>1. i = w - Half
            BY <1>1, <1>3, <1>7, <2>1
        <3>2. w - Half \notin summer
            BY <1>1, <1>7, <2>1, Offsets
        <3> QED
            BY <1>5, <3>1, <3>2
    <2>2. CASE Offset(w - guess) = Half + 1
        <3>1. i + 1 = w - Half
            BY <1>1, <1>3, <1>7, <2>2
        <3>2. w - Half \in summer
            BY <1>1, <1>7, <2>2, Offsets
        <3> QED
            BY <1>5, <3>1, <3>2
    <2> QED
        BY <1>2, <2>1, <2>2
<1> QED
    BY <1>2, <1>6, <1>7

\* A later instant has a later text, unless the hour of the earlier one occurs again.
LEMMA TextGrows ==
    ASSUME ClocksOK, NEW i, IsClean(i), NEW j \in Int, i < j
    PROVE  Wall(i) < Wall(j) /\ Text(i) < Text(j)
<1>1. Half \in Nat /\ PerDay \in Nat /\ PerDay = 2 * Half /\ Half >= 2
    BY HalfDay
<1>2. i \in Int /\ i + 1 \in Int
    BY DEF IsClean
<1>3. Wall(i) < Wall(i + 1) /\ Wall(i) \in Int /\ Wall(i + 1) \in Int
    BY <1>1, <1>2, Offsets DEF Wall, IsClean
<1>4. Wall(i + 1) <= Wall(j) /\ Wall(j) \in Int
    <2>1. i + 1 <= j
        BY <1>2
    <2> QED
        BY <1>2, <2>1, WallGrows
<1>5. Wall(i) < Wall(j)
    BY <1>3, <1>4
<1>6. Text(i) < Text(j)
    <2>1. /\ Text(i) = 4 * Wall(i) + (IF i \in summer THEN 1 ELSE 0)
          /\ Text(j) = 4 * Wall(j) + (IF j \in summer THEN 1 ELSE 0)
        BY DEF Text
    <2> QED
        BY <1>3, <1>4, <1>5, <2>1
<1> QED
    BY <1>5, <1>6

\* The bounds of the last 24 hours, of an instant whose wall clock is not after that of
\* the last of them.
LEMMA TextLastDay ==
    ASSUME ClocksOK, RestOK, NEW at \in Int, NEW i, IsClean(i), Wall(i) <= Wall(at),
           Offset(at) = Offset(at - PerDay), i # at - PerDay
    PROVE  TextWithMs(at - PerDay) <= Text(i) /\ Text(i) <= TextWithMs(at) <=> i >= at - PerDay
<1>1. Half \in Nat /\ PerDay \in Nat /\ PerDay = 2 * Half /\ Half >= 2
    BY HalfDay
<1> DEFINE b == at - PerDay
<1>2. b \in Int /\ i \in Int /\ at = b + PerDay
    BY <1>1 DEF IsClean
<1>3. /\ Wall(i) \in Int /\ Wall(b) \in Int /\ Wall(at) \in Int
      /\ Text(i) = 4 * Wall(i) + (IF i \in summer THEN 1 ELSE 0)
      /\ Text(b) = 4 * Wall(b) + (IF b \in summer THEN 1 ELSE 0)
      /\ Text(at) = 4 * Wall(at) + (IF at \in summer THEN 1 ELSE 0)
      /\ TextWithMs(b) = Text(b) + 2 /\ TextWithMs(at) = Text(at) + 2
    BY <1>2, WallGrows DEF Text, TextWithMs
<1>4. Text(i) <= TextWithMs(at)
    BY <1>3
<1>5. ASSUME i < b PROVE Text(i) < TextWithMs(b)
    <2>1. Wall(i) <= Wall(b)
        BY <1>2, <1>5, WallGrows
    <2> QED
        BY <1>3, <2>1
<1>6. ASSUME i > b PROVE TextWithMs(b) <= Text(i)
    <2>1. b \in summer => b + 1 \in summer
        <3>1. b \in summer => at \in summer
            BY <1>1, Offsets
        <3>2. at \in b + 1 .. b + PerDay
            BY <1>1, <1>2
        <3> QED
            BY <3>1, <3>2 DEF RestOK
    <2>2. IsClean(b)
        BY <1>2, <2>1 DEF IsClean
    <2>3. Wall(b) < Wall(i)
        <3> HIDE DEF b
        <3> QED
            BY <1>2, <1>6, <2>2, TextGrows
    <2> QED
        BY <1>3, <2>3
<1> HIDE DEF b
<1>7. TextWithMs(b) <= Text(i) /\ Text(i) <= TextWithMs(at) <=> i >= b
    <2>1. i < b \/ i > b
        BY <1>2 DEF b
    <2>2. Text(i) \in Int /\ TextWithMs(b) \in Int
        BY <1>3
    <2> QED
        BY <1>2, <1>4, <1>5, <1>6, <2>1, <2>2
<1> QED
    BY <1>7 DEF b

-----------------------------------------------------------------------------
(* No record is of the future                                              *)

\* What the cleaning gives of the wall clocks up to an instant.
Past(at) == {FromZoned(w) : w \in {v \in Nat : v >= PerDay /\ v <= Wall(at)}}

\* What an older version left of such records.
OldPast(at) == [r \in Records |-> {OldForm(OldForms[r], i) : i \in Past(at)}]

PastOK ==
    /\ \A r \in Records : hcc[r] <= Wall(clock)
    /\ \A r \in DOMAIN legacy : r \in Records /\ legacy[r] \in OldPast(clock)[r]
    /\ \A r \in Records : rows[r] > 0 => rows[r] \in Past(clock)
    /\ ~dirty /\ stats.at # 0 => \A r \in Records : rows[r] > 0 => rows[r] \in Past(stats.at)

LEMMA PastIs ==
    ASSUME ClocksOK, RestOK, NEW at \in Int, NEW i \in Past(at)
    PROVE  IsClean(i) /\ i \in Nat \ {0} /\ i \in CleanInstants /\ Wall(i) <= Wall(at)
<1>1. PICK w \in Nat : w >= PerDay /\ w <= Wall(at) /\ i = FromZoned(w)
    BY DEF Past
<1>2. w \in Int /\ Wall(at) \in Int
    BY WallGrows
<1>3. IsClean(i) /\ i \in Nat \ {0} /\ Wall(i) \in {w, w - 1}
    BY <1>1, <1>2, CleanedIsSecond, CleanIsPositive, Cleaned
<1>4. i \in CleanInstants
    BY <1>1 DEF CleanInstants
<1> QED
    BY <1>1, <1>2, <1>3, <1>4

LEMMA PastGrows ==
    ASSUME ClocksOK, NEW a \in Int, NEW b \in Int, a <= b
    PROVE  Past(a) \subseteq Past(b)
<1>1. Wall(a) \in Int /\ Wall(b) \in Int /\ Wall(a) <= Wall(b)
    BY WallGrows
<1> QED
    BY <1>1 DEF Past

LEMMA MigratedPast ==
    ASSUME ClocksOK, NEW form \in {"utc", "wall", "date"}, NEW at \in Int, NEW i \in Past(at)
    PROVE  Migrated(OldForm(form, i)) \in Past(at)
<1>0. PerDay \in Nat \ {0}
    BY HalfDay
<1>1. PICK w \in Nat : w >= PerDay /\ w <= Wall(at) /\ i = FromZoned(w)
    BY DEF Past
<1>2. w \in Int /\ Wall(at) \in Int
    BY WallGrows
<1>3. Wall(i) \in Nat /\ Wall(i) >= PerDay /\ Wall(i) \in {w, w - 1} /\ Wall(i) <= Wall(at)
    <2>1. Wall(i) \in Nat /\ Wall(i) >= PerDay /\ Wall(i) \in {w, w - 1}
        BY <1>1, <1>2, CleanIsPositive, Cleaned
    <2> QED
        BY <1>1, <1>2, <2>1
<1>4. CASE form = "utc"
    BY <1>4 DEF OldForm, Migrated
<1>5. CASE form = "wall"
    <2>1. Migrated(OldForm(form, i)) = FromZoned(Wall(i))
        BY <1>5 DEF OldForm, Migrated
    <2> QED
        BY <1>3, <2>1 DEF Past
<1>6. CASE form = "date"
    <2> DEFINE d == DayOf(i)
    <2>1. Migrated(OldForm(form, i)) = LocalDateTime(d, 0)
        BY <1>6 DEF OldForm, Migrated
    <2>2. /\ d \in Int /\ Wall(i) % PerDay \in 0 .. PerDay - 1
          /\ Wall(i) = PerDay * d + (Wall(i) % PerDay)
        <3>1. Wall(i) \in Int
            BY <1>3
        <3> QED
            BY <1>0, <3>1, Division DEF DayOf
    <2>3. d >= 1
        <3>1. PerDay \div PerDay <= d
            <4>1. PerDay \in Int /\ Wall(i) \in Int
                BY <1>0, <1>3
            <4> QED
                BY <1>0, <1>3, <4>1, DivisionGrows DEF DayOf
        <3>2. PerDay \div PerDay = 1
            <4>1. PerDay \in Int /\ PerDay = 1 * PerDay + 0 /\ 0 \in 0 .. PerDay - 1 /\ 1 \in Int
                BY <1>0
            <4> QED
                BY <1>0, <4>1, DivisionIs
        <3> QED
            BY <2>2, <3>1, <3>2
    <2> HIDE DEF d
    <2>4. d * PerDay \in Nat /\ d * PerDay >= PerDay /\ d * PerDay = d * PerDay + 0 /\ d * PerDay = PerDay * d
        BY <1>0, <2>2, <2>3
    <2>5. d * PerDay <= Wall(at)
        BY <1>0, <1>2, <1>3, <2>2, <2>4
    <2>6. LocalDateTime(d, 0) = FromZoned(d * PerDay)
        BY <2>4 DEF LocalDateTime
    <2> QED
        BY <2>1, <2>4, <2>5, <2>6 DEF Past
<1> QED
    BY <1>4, <1>5, <1>6

LEMMA PastLater ==
    ASSUME UNCHANGED summer
    PROVE  /\ Past(clock)' = Past(clock') /\ Past(stats.at)' = Past(stats'.at)
           /\ Wall(clock)' = Wall(clock') /\ OldPast(clock)' = OldPast(clock')
<1>1. Past(clock)' = Past(clock') /\ Past(stats.at)' = Past(stats'.at)
    BY DEF Past, FromZoned, Wall, Offset
<1>2. Wall(clock)' = Wall(clock')
    BY DEF Wall, Offset
<1>3. OldPast(clock)' = OldPast(clock')
    BY DEF OldPast, Past, OldForm, FromZoned, DayOf, Wall, Offset
<1> QED
    BY <1>1, <1>2, <1>3

LEMMA PastInit == Init /\ ClocksOK => PastOK
<1> SUFFICES ASSUME Init, ClocksOK PROVE PastOK
    OBVIOUS
<1>1. /\ clock = Start /\ rows = [r \in Records |-> 0] /\ stats.at = 0
      /\ \A r \in Records : hcc[r] <= Wall(Start)
      /\ HccOK
    BY HccInit DEF Init
<1>2. CASE legacy = <<>>
    BY <1>1, <1>2 DEF PastOK
<1>3. CASE legacy = [r \in {x \in Records : hcc[x] > 0} |-> OldForm(OldForms[r], FromZoned(hcc[r]))]
    <2>1. ASSUME NEW r \in {x \in Records : hcc[x] > 0}
          PROVE  FromZoned(hcc[r]) \in Past(clock)
        BY <1>1 DEF HccOK, Past
    <2> QED
        BY <1>1, <1>3, <2>1 DEF PastOK, OldPast
<1> QED
    BY <1>2, <1>3 DEF Init

LEMMA PastStep ==
    ASSUME PastOK, HccOK, StoreOK, StoreOK', ClockOK, ClocksOK, [Next]_vars
    PROVE  PastOK'
<1>0. UNCHANGED summer /\ clock \in Nat
    BY ClocksStay, FiguresAssumption DEF ClockOK
<1>1. /\ Past(clock)' = Past(clock') /\ Past(stats.at)' = Past(stats'.at) /\ Wall(clock)' = Wall(clock')
      /\ OldPast(clock)' = OldPast(clock')
    BY <1>0, PastLater
<1>2. /\ \A r \in Records : hcc[r] <= Wall(clock)
      /\ \A r \in DOMAIN legacy : r \in Records /\ legacy[r] \in OldPast(clock)[r]
      /\ \A r \in Records : rows[r] > 0 => rows[r] \in Past(clock)
      /\ ~dirty /\ stats.at # 0 => \A r \in Records : rows[r] > 0 => rows[r] \in Past(stats.at)
    BY DEF PastOK
<1>3. CASE TimePasses
    <2>1. clock' = clock + 1 /\ UNCHANGED <<hcc, legacy, rows, stats, dirty>>
        BY <1>3 DEF TimePasses, storeVars
    <2>2. Wall(clock) \in Int /\ Wall(clock') \in Int /\ Wall(clock) <= Wall(clock')
        BY <1>0, <2>1, WallGrows
    <2>3. Past(clock) \subseteq Past(clock')
        <3>1. clock \in Int /\ clock + 1 \in Int /\ clock <= clock + 1
            BY <1>0
        <3> QED
            BY <2>1, <3>1, PastGrows
    <2>4. \A r \in Records : hcc[r] \in Int
        BY DEF HccOK
    <2>5. \A r \in Records : hcc'[r] <= Wall(clock')
        BY <1>2, <2>1, <2>2, <2>4
    <2>6. \A r \in DOMAIN legacy' : r \in Records /\ legacy'[r] \in OldPast(clock')[r]
        BY <1>2, <2>1, <2>3 DEF OldPast
    <2>7. \A r \in Records : rows'[r] > 0 => rows'[r] \in Past(clock')
        BY <1>2, <2>1, <2>3
    <2>8. ~dirty' /\ stats'.at # 0 => \A r \in Records : rows'[r] > 0 => rows'[r] \in Past(stats'.at)
        BY <1>2, <2>1
    <2> QED
        BY <1>1, <2>5, <2>6, <2>7, <2>8 DEF PastOK
<1>4. ASSUME NEW r \in Records, NEW wall \in Changed, HccChanges(r, wall)
      PROVE  PastOK'
    <2>1. /\ wall <= Wall(clock) /\ hcc' = [hcc EXCEPT ![r] = wall]
          /\ UNCHANGED <<clock, legacy, rows, stats, dirty>>
        BY <1>4 DEF HccChanges, storeVars
    <2>2. \A x \in Records : hcc'[x] <= Wall(clock')
        BY <1>2, <2>1 DEF HccOK
    <2> QED
        BY <1>1, <1>2, <2>1, <2>2 DEF PastOK
<1>5. CASE StoreMigrates
    <2>1. /\ rows' = [r \in Records |-> IF r \in DOMAIN legacy THEN Migrated(legacy[r]) ELSE 0]
          /\ legacy' = <<>> /\ stats'.at = clock /\ UNCHANGED <<clock, hcc>>
        BY <1>5 DEF StoreMigrates, Recomputed, StatsLive
    <2>2. \A r \in Records : rows'[r] > 0 => rows'[r] \in Past(clock)
        <3>1. SUFFICES ASSUME NEW r \in Records, r \in DOMAIN legacy
                       PROVE  Migrated(legacy[r]) \in Past(clock)
            BY <2>1
        <3>2. PICK i \in Past(clock) : legacy[r] = OldForm(OldForms[r], i)
            BY <1>2, <3>1 DEF OldPast
        <3>3. OldForms[r] \in {"utc", "wall", "date"} /\ clock \in Int
            BY <1>0, FiguresAssumption
        <3> QED
            BY <3>2, <3>3, MigratedPast
    <2>3. DOMAIN legacy' = {}
        BY <2>1
    <2> QED
        BY <1>1, <1>2, <2>1, <2>2, <2>3 DEF PastOK
<1>6. CASE StoreIngests
    <2>1. /\ rows' = [r \in Records |-> IF hcc[r] > 0 THEN FromZoned(hcc[r]) ELSE 0]
          /\ dirty' = TRUE /\ UNCHANGED <<clock, hcc, legacy>>
        BY <1>6 DEF StoreIngests
    <2>2. \A r \in Records : rows'[r] > 0 => rows'[r] \in Past(clock)
        <3>1. SUFFICES ASSUME NEW r \in Records, hcc[r] > 0
                       PROVE  FromZoned(hcc[r]) \in Past(clock)
            BY <2>1
        <3> QED
            BY <1>2, <3>1 DEF HccOK, Past
    <2> QED
        BY <1>1, <1>2, <2>1, <2>2 DEF PastOK
<1>7. CASE StoreRecomputes
    <2>1. stats'.at = clock /\ UNCHANGED <<clock, hcc, legacy, rows>>
        BY <1>7 DEF StoreRecomputes, Recomputed, StatsLive
    <2> QED
        BY <1>1, <1>2, <2>1 DEF PastOK
<1>8. CASE UNCHANGED <<clock, hcc, legacy, rows, stats, dirty>>
    BY <1>1, <1>2, <1>8 DEF PastOK
<1>9. \/ TimePasses \/ StoreMigrates \/ StoreIngests \/ StoreRecomputes
      \/ (\E r \in Records, wall \in Changed : HccChanges(r, wall))
      \/ UNCHANGED <<clock, hcc, legacy, rows, stats, dirty>>
    BY DEF Next, vars, storeVars, Plans, Stores, Commits, Interrupted, Publishes, StoreBroadcasts
<1> QED
    BY <1>3, <1>4, <1>5, <1>6, <1>7, <1>8, <1>9

-----------------------------------------------------------------------------
(* The figures of the store                                                *)

\* What stats_live has, recomputed at an instant.
StatsAt(table, at) ==
    [today      |-> Cardinality(InBounds(table, DateBounds(DayOf(at)))),
     towedToday |-> Cardinality({c \in InBounds(table, DateBounds(DayOf(at))) : Number(c) \in Towed}),
     last24h    |-> Cardinality(InBounds(table, RollingBounds(at))),
     short      |-> ShortCount(table, at),
     month      |-> Cardinality(InBounds(table, MonthBounds(at))),
     allTime    |-> Cardinality(Stored(table)),
     at         |-> at]

StoreFiguresOK ==
    /\ ~dirty /\ stats.at # 0 => stats = StatsAt(rows, stats.at)
    /\ ~dirty /\ store # NoSnapshot =>
           /\ store.ranked = StoreRanked(rows) /\ store.charted = StoreCharted(rows)
           /\ store.pace.current = ShortCount(rows, store.at)
    /\ store # NoSnapshot => store.at # 0

LEMMA StoreFiguresLater ==
    ASSUME UNCHANGED summer
    PROVE  /\ StatsAt(rows, stats.at)' = StatsAt(rows', stats'.at)
           /\ ShortCount(rows, store.at)' = ShortCount(rows', store'.at)
           /\ StoreRanked(rows)' = StoreRanked(rows') /\ StoreCharted(rows)' = StoreCharted(rows')
<1>1. StatsAt(rows, stats.at)' = StatsAt(rows', stats'.at)
    <2>1. InBounds(rows, DateBounds(DayOf(stats.at)))' = InBounds(rows', DateBounds(DayOf(stats'.at)))
        BY DEF InBounds, Stored, DateBounds, StartOfDay, EndOfDay, TextWithMs, Text, LocalDateTime, FromZoned,
               DayOf, Wall, Offset, Instant
    <2>2. InBounds(rows, RollingBounds(stats.at))' = InBounds(rows', RollingBounds(stats'.at))
        BY DEF InBounds, Stored, RollingBounds, TextWithMs, Text, Wall, Offset, Instant
    <2>3. InBounds(rows, MonthBounds(stats.at))' = InBounds(rows', MonthBounds(stats'.at))
        <3> DEFINE first == MonthStart(DayOf(stats.at))
                   next  == MonthStart(DayOf(stats'.at))
        <3>1. first' = next
            BY DEF MonthStart, DayOf, Wall, Offset
        <3>2. AddDays(first + MonthDays, -1)' = AddDays(first' + MonthDays, -1)
            <4> HIDE DEF first
            <4> QED
                BY DEF AddDays, LocalDateTime, FromZoned, DayOf, Wall, Offset
        <3>3. StartOfDay(first)' = StartOfDay(first')
            <4> HIDE DEF first
            <4> QED
                BY DEF StartOfDay, LocalDateTime, FromZoned, Text, Wall, Offset
        <3> DEFINE last == AddDays(first + MonthDays, -1)
        <3>4. EndOfDay(last)' = EndOfDay(last')
            <4> HIDE DEF last
            <4> QED
                BY DEF EndOfDay, TextWithMs, LocalDateTime, FromZoned, Text, Wall, Offset
        <3>5. MonthBounds(stats.at)' = MonthBounds(stats'.at)
            BY <3>1, <3>2, <3>3, <3>4 DEF MonthBounds
        <3> QED
            BY <3>5 DEF InBounds, Stored, Text, Wall, Offset, Instant
    <2>4. ShortCount(rows, stats.at)' = ShortCount(rows', stats'.at)
        BY PanelLater
    <2>5. Stored(rows)' = Stored(rows')
        BY DEF Stored
    <2>6. {c \in InBounds(rows, DateBounds(DayOf(stats.at))) : Number(c) \in Towed}' =
          {c \in InBounds(rows', DateBounds(DayOf(stats'.at))) : Number(c) \in Towed}
        BY <2>1 DEF Number
    <2> QED
        BY <2>1, <2>2, <2>3, <2>4, <2>5, <2>6 DEF StatsAt
<1>2. ShortCount(rows, store.at)' = ShortCount(rows', store'.at)
    BY DEF ShortCount, InBounds, Stored, StartOfDay, EndOfDay, TextWithMs, Text, LocalDateTime, FromZoned,
           WindowStart, DayOf, Wall, Offset, Instant
<1>3. StoreRanked(rows)' = StoreRanked(rows') /\ StoreCharted(rows)' = StoreCharted(rows')
    BY DEF StoreRanked, StoreCharted, Grouped, TopItems, FirstN, Known, LabelCounts, Stored, Number
<1> QED
    BY <1>1, <1>2, <1>3

LEMMA RecomputedFigures ==
    ASSUME NEW table, Recomputed(table)
    PROVE  /\ stats' = StatsAt(table, clock)
           /\ store'.ranked = StoreRanked(table) /\ store'.charted = StoreCharted(table)
           /\ store'.at = clock /\ store'.pace.current = ShortCount(table, clock)
<1>1. stats' = StatsLive(table) /\ store' = Assembled(table, stats', daily')
    BY DEF Recomputed
<1>2. StatsLive(table) = StatsAt(table, clock)
    BY DEF StatsLive, StatsAt, ShortCount, DateBounds
<1>3. PaceTrend(table).current = ShortCount(table, clock)
    BY DEF PaceTrend, ShortCount
<1> QED
    BY <1>1, <1>2, <1>3 DEF Assembled

LEMMA StoreFiguresInit == Init => StoreFiguresOK
BY DEF Init, StoreFiguresOK

LEMMA StoreFiguresStep ==
    ASSUME StoreFiguresOK, ClockOK, ClocksOK, [Next]_vars
    PROVE  StoreFiguresOK'
<1>0. UNCHANGED summer
    BY ClocksStay
<1>1. /\ StatsAt(rows, stats.at)' = StatsAt(rows', stats'.at)
      /\ ShortCount(rows, store.at)' = ShortCount(rows', store'.at)
      /\ StoreRanked(rows)' = StoreRanked(rows') /\ StoreCharted(rows)' = StoreCharted(rows')
    BY <1>0, StoreFiguresLater
<1>9. clock # 0
    BY FiguresAssumption DEF ClockOK
<1>2. ASSUME Recomputed(rows') PROVE StoreFiguresOK'
    <2>1. /\ stats' = StatsAt(rows', clock)
          /\ store'.ranked = StoreRanked(rows') /\ store'.charted = StoreCharted(rows')
          /\ store'.at = clock /\ store'.pace.current = ShortCount(rows', clock)
        <3>1. \A table : Recomputed(table) =>
                  /\ stats' = StatsAt(table, clock)
                  /\ store'.ranked = StoreRanked(table) /\ store'.charted = StoreCharted(table)
                  /\ store'.at = clock /\ store'.pace.current = ShortCount(table, clock)
            BY RecomputedFigures
        <3> QED
            BY <1>2, <3>1
    <2>2. stats'.at = clock
        BY <2>1 DEF StatsAt
    <2> QED
        BY <1>1, <1>9, <2>1, <2>2 DEF StoreFiguresOK
<1>3. CASE StoreMigrates
    BY <1>2, <1>3 DEF StoreMigrates
<1>4. CASE StoreIngests
    <2>1. dirty' = TRUE /\ UNCHANGED store
        BY <1>4 DEF StoreIngests
    <2> QED
        BY <2>1 DEF StoreFiguresOK
<1>5. CASE StoreRecomputes
    <2>1. UNCHANGED rows /\ Recomputed(rows)
        BY <1>5 DEF StoreRecomputes
    <2>2. \A table : table = rows' => Recomputed(table)
        BY <2>1
    <2> QED
        BY <1>2, <2>2
<1>6. CASE StoreBroadcasts
    <2>1. UNCHANGED <<rows, stats, dirty>> /\ store' = Assembled(rows, stats, daily)
        BY <1>6 DEF StoreBroadcasts
    <2>2. PaceTrend(rows).current = ShortCount(rows, clock)
        BY DEF PaceTrend, ShortCount
    <2>3. /\ store'.ranked = StoreRanked(rows) /\ store'.charted = StoreCharted(rows)
          /\ store'.at = clock /\ store'.pace.current = ShortCount(rows, clock)
        BY <2>1, <2>2 DEF Assembled
    <2> QED
        BY <1>1, <1>9, <2>1, <2>3 DEF StoreFiguresOK
<1>7. CASE UNCHANGED <<rows, stats, dirty, store>>
    BY <1>1, <1>7 DEF StoreFiguresOK
<1>8. \/ StoreMigrates \/ StoreIngests \/ StoreRecomputes \/ StoreBroadcasts
      \/ UNCHANGED <<rows, stats, dirty, store>>
    BY DEF Next, vars, storeVars, TimePasses, HccChanges, Plans, Stores, Commits, Interrupted, Publishes
<1> QED
    BY <1>3, <1>4, <1>5, <1>6, <1>7, <1>8

-----------------------------------------------------------------------------
(* The pace of the seed                                                    *)

\* The days that were counted ended on that of the publication.
PaceShown(s, now) ==
    \E q \in Int : /\ s.at <= q /\ q <= now
                   /\ s.pace.current = SumOfDays(s.trend, DayOf(q) + (1 - ShortDays), DayOf(q))

SeedPaceOK ==
    /\ pc # "idle" => plan.at <= clock
    /\ seed # NoSnapshot => PaceShown(seed, clock)

LEMMA PaceLater ==
    ASSUME UNCHANGED summer
    PROVE  PaceShown(seed, clock)' <=> PaceShown(seed', clock')
BY DEF PaceShown, SumOfDays, MapThenSumSet, MapThenFoldSet, DayOf, Wall, Offset

LEMMA PaceStep ==
    ASSUME SeedPaceOK, RefreshOK, RefreshOK', SeedPanelOK, ClocksOK, [Next]_vars
    PROVE  SeedPaceOK'
<1>0. UNCHANGED summer /\ (PaceShown(seed, clock)' <=> PaceShown(seed', clock'))
    BY ClocksStay, PaceLater
<1>1. clock \in Int /\ clock' \in Int
    BY DEF RefreshOK, ClockOK
<1>2. clock <= clock'
    <2>1. clock' = clock + 1 \/ clock' = clock
        BY DEF Next, vars, TimePasses, HccChanges, Plans, Stores, Commits, Interrupted, Publishes,
               StoreMigrates, StoreIngests, StoreRecomputes, StoreBroadcasts
    <2> QED
        BY <1>1, <2>1
<1>3. seed # NoSnapshot => PaceShown(seed, clock')
    <2>1. SUFFICES ASSUME seed # NoSnapshot PROVE PaceShown(seed, clock')
        OBVIOUS
    <2>2. PICK q \in Int : /\ seed.at <= q /\ q <= clock
                           /\ seed.pace.current = SumOfDays(seed.trend, DayOf(q) + (1 - ShortDays), DayOf(q))
        BY <2>1 DEF SeedPaceOK, PaceShown
    <2>3. q <= clock'
        BY <1>1, <1>2, <2>2
    <2> QED
        BY <2>2, <2>3 DEF PaceShown
<1>4. CASE Plans
    <2>1. plan'.at = clock /\ UNCHANGED <<seed, clock>>
        BY <1>4 DEF Plans
    <2> QED
        BY <1>0, <1>1, <1>3, <2>1 DEF SeedPaceOK
<1>5. CASE Publishes
    <2>1. pc = "publish" /\ pc' = "idle" /\ seed' = FinalSnapshot /\ UNCHANGED <<plan, clock>>
        BY <1>5 DEF Publishes
    <2>2. plan.at <= clock
        BY <2>1 DEF SeedPaceOK
    <2>3. /\ FinalSnapshot.at = plan.at
          /\ FinalSnapshot.pace.current =
                 SumOfDays(FinalSnapshot.trend, AddDays(DayOf(clock), 1 - ShortDays), DayOf(clock))
        BY DEF FinalSnapshot, ComparePeriods
    <2>4. AddDays(DayOf(clock), 1 - ShortDays) = DayOf(clock) + (1 - ShortDays)
        <3>1. DayOf(clock) \in Int
            <4>1. clock <= clock
                BY <1>1
            <4> QED
                BY <1>1, <4>1, WallGrows
        <3>2. 1 - ShortDays \in Int
            BY FiguresAssumption
        <3> QED
            BY <3>1, <3>2, DaysAdd
    <2>5. clock \in Int /\ FinalSnapshot.at <= clock /\ clock <= clock
        BY <1>1, <2>2, <2>3
    <2>6. PaceShown(FinalSnapshot, clock)
        <3> DEFINE s == FinalSnapshot
        <3>1. s.pace.current = SumOfDays(s.trend, DayOf(clock) + (1 - ShortDays), DayOf(clock))
            BY <2>3, <2>4
        <3>2. clock \in Int /\ s.at <= clock /\ clock <= clock
            BY <2>5
        <3> HIDE DEF s
        <3>3. PaceShown(s, clock)
            BY <3>1, <3>2 DEF PaceShown
        <3> QED
            BY <3>3 DEF s
    <2> QED
        BY <1>0, <2>1, <2>6 DEF SeedPaceOK
<1>6. CASE UNCHANGED <<plan, seed>> /\ (pc' # "idle" => pc # "idle")
    <2>1. pc # "idle" => plan.at \in Int
        BY DEF RefreshOK, JobOK, PlanOK
    <2>2. pc # "idle" => plan.at <= clock'
        BY <1>1, <1>2, <2>1 DEF SeedPaceOK
    <2> QED
        BY <1>0, <1>3, <1>6, <2>2 DEF SeedPaceOK
<1>7. Plans \/ Publishes \/ (UNCHANGED <<plan, seed>> /\ (pc' # "idle" => pc # "idle"))
    BY DEF Next, vars, seedVars, TimePasses, HccChanges, Stores, Commits, Interrupted,
           StoreMigrates, StoreIngests, StoreRecomputes, StoreBroadcasts
<1> QED
    BY <1>4, <1>5, <1>6, <1>7

-----------------------------------------------------------------------------
(* The live figures of both modes                                          *)

LEMMA BoundsAreInts ==
    ASSUME ClocksOK, NEW d \in Int
    PROVE  StartOfDay(d) \in Int /\ EndOfDay(d) \in Int
<1>1. \A w \in Int : FromZoned(w) \in Int
    BY Cleaned
<1>2. d * PerDay + 0 \in Int /\ d * PerDay + (PerDay - 1) \in Int
    BY HalfDay
<1> QED
    BY <1>1, <1>2, TextIsInt DEF StartOfDay, EndOfDay, TextWithMs, LocalDateTime

\* The rows of some days, by the bounds of their texts.
LEMMA BoundsAreDays ==
    ASSUME ClocksOK, NEW table, TableOK(table), NEW a \in Int, NEW b \in Int
    PROVE  InBounds(table, [start |-> StartOfDay(a), end |-> EndOfDay(b)]) =
           {c \in Stored(table) : a <= DayOf(Instant(c)) /\ DayOf(Instant(c)) <= b}
<1>1. StartOfDay(a) \in Int /\ EndOfDay(b) \in Int
    BY BoundsAreInts
<1>2. ASSUME NEW c \in Stored(table)
      PROVE  Text(Instant(c)) \in StartOfDay(a) .. EndOfDay(b) <=>
                 a <= DayOf(Instant(c)) /\ DayOf(Instant(c)) <= b
    <2>1. Instant(c) \in Int
        BY StoredRows
    <2>2. Text(Instant(c)) \in Int
        BY <2>1, TextIsInt
    <2>3. /\ StartOfDay(a) <= Text(Instant(c)) <=> a <= DayOf(Instant(c))
          /\ Text(Instant(c)) <= EndOfDay(b) <=> DayOf(Instant(c)) <= b
        BY <2>1, TextDays
    <2> QED
        BY <1>1, <2>2, <2>3
<1> QED
    BY <1>2 DEF InBounds

LEMMA TodayIs ==
    ASSUME ClocksOK, NEW table, TableOK(table), NEW d \in Int
    PROVE  InBounds(table, DateBounds(d)) = {c \in Stored(table) : DayOf(Instant(c)) = d}
<1>1. InBounds(table, DateBounds(d)) =
      {c \in Stored(table) : d <= DayOf(Instant(c)) /\ DayOf(Instant(c)) <= d}
    BY BoundsAreDays DEF DateBounds
<1>2. ASSUME NEW c \in Stored(table)
      PROVE  DayOf(Instant(c)) \in Int
    <2>1. Instant(c) \in Int
        BY StoredRows
    <2>2. Instant(c) <= Instant(c)
        BY <2>1
    <2> QED
        BY <2>1, <2>2, WallGrows
<1> QED
    BY <1>1, <1>2

\* Rows of no later day
UpTo(table, today) == \A c \in Stored(table) : DayOf(Instant(c)) \in Int /\ DayOf(Instant(c)) <= today

LEMMA MonthIs ==
    ASSUME ClocksOK, NEW table, TableOK(table), NEW at \in Int, NEW today \in Int, today = DayOf(at),
           UpTo(table, today), MonthDays \in Nat \ {0}
    PROVE  InBounds(table, MonthBounds(at)) = {c \in Stored(table) : DayOf(Instant(c)) >= MonthStart(today)}
<1> DEFINE first == MonthStart(today)
           last  == first + MonthDays + -1
<1>1. first \in Int /\ last \in Int /\ today <= last
    <2>1. today % MonthDays \in 0 .. MonthDays - 1
        BY Division
    <2> QED
        BY <2>1 DEF MonthStart
<1>2. AddDays(first + MonthDays, -1) = last
    <2>1. first + MonthDays \in Int /\ -1 \in Int
        BY <1>1
    <2> HIDE DEF first
    <2> QED
        BY <2>1, DaysAdd
<1>3. MonthBounds(at) = [start |-> StartOfDay(first), end |-> EndOfDay(last)]
    BY <1>2 DEF MonthBounds
<1> HIDE DEF first, last
<1>4. InBounds(table, MonthBounds(at)) =
      {c \in Stored(table) : first <= DayOf(Instant(c)) /\ DayOf(Instant(c)) <= last}
    BY <1>1, <1>3, BoundsAreDays
<1>5. ASSUME NEW c \in Stored(table)
      PROVE  first <= DayOf(Instant(c)) /\ DayOf(Instant(c)) <= last <=> DayOf(Instant(c)) >= first
    <2>1. DayOf(Instant(c)) \in Int /\ DayOf(Instant(c)) <= today
        BY DEF UpTo
    <2> QED
        BY <1>1, <2>1
<1> QED
    BY <1>4, <1>5 DEF first

LEMMA ShortIs ==
    ASSUME ClocksOK, NEW table, TableOK(table), NEW at \in Int, NEW today \in Int, today = DayOf(at),
           UpTo(table, today)
    PROVE  /\ WindowStart(at, ShortDays) \in Int
           /\ ShortCount(table, at) =
              Cardinality({c \in Stored(table) : DayOf(Instant(c)) >= WindowStart(at, ShortDays)})
<1> DEFINE first == WindowStart(at, ShortDays)
<1>1. first \in Int
    <2>1. at - (ShortDays - 1) * PerDay \in Int
        <3>1. ShortDays \in Int /\ PerDay \in Int
            BY FiguresAssumption, HalfDay
        <3>2. (ShortDays - 1) * PerDay \in Int
            BY <3>1
        <3> QED
            BY <3>2
    <2>2. at - (ShortDays - 1) * PerDay <= at - (ShortDays - 1) * PerDay
        BY <2>1
    <2> QED
        BY <2>1, <2>2, WallGrows DEF WindowStart
<1> HIDE DEF first
<1>2. ShortCount(table, at) = Cardinality(InBounds(table, [start |-> StartOfDay(first), end |-> EndOfDay(today)]))
    BY DEF ShortCount, first
<1>3. InBounds(table, [start |-> StartOfDay(first), end |-> EndOfDay(today)]) =
      {c \in Stored(table) : first <= DayOf(Instant(c)) /\ DayOf(Instant(c)) <= today}
    BY <1>1, BoundsAreDays
<1>4. {c \in Stored(table) : first <= DayOf(Instant(c)) /\ DayOf(Instant(c)) <= today} =
      {c \in Stored(table) : DayOf(Instant(c)) >= first}
    BY <1>1 DEF UpTo
<1> QED
    BY <1>1, <1>2, <1>3, <1>4 DEF first

\* The last 24 hours, unless the clocks changed in them or a record is of their first
\* millisecond.
LEMMA LastDayIs ==
    ASSUME ClocksOK, RestOK, NEW table, TableOK(table), NEW at \in Int,
           \A c \in Stored(table) : Instant(c) \in Past(at),
           Offset(at) = Offset(at - PerDay), \A c \in Stored(table) : Instant(c) # at - PerDay
    PROVE  InBounds(table, RollingBounds(at)) = {c \in Stored(table) : Instant(c) >= at - PerDay}
<1>1. at - PerDay \in Int
    BY HalfDay
<1>2. ASSUME NEW c \in Stored(table)
      PROVE  Text(Instant(c)) \in TextWithMs(at - PerDay) .. TextWithMs(at) <=> Instant(c) >= at - PerDay
    <2>1. IsClean(Instant(c)) /\ Instant(c) \in Int /\ Wall(Instant(c)) <= Wall(at)
        BY PastIs
    <2>2. Text(Instant(c)) \in Int /\ TextWithMs(at - PerDay) \in Int /\ TextWithMs(at) \in Int
        BY <1>1, <2>1, TextIsInt DEF TextWithMs
    <2>3. TextWithMs(at - PerDay) <= Text(Instant(c)) /\ Text(Instant(c)) <= TextWithMs(at)
              <=> Instant(c) >= at - PerDay
        BY <2>1, TextLastDay
    <2> QED
        BY <2>2, <2>3
<1> QED
    BY <1>2 DEF InBounds, RollingBounds

\* What the seed counts and what the store counts of the same records
LEMMA LiveFiguresAgree ==
    ASSUME ClocksOK, RestOK, NEW table, TableOK(table), NEW at \in Int, NEW today \in Int, today = DayOf(at),
           UpTo(table, today), \A c \in Stored(table) : Instant(c) \in Past(at)
    PROVE  LET live  == Counts(Stored(table), at, today)
               stored == StatsAt(table, at)
           IN  /\ \A f \in DOMAIN live \ {"last24h"} : live[f] = stored[f]
               /\ \/ live.last24h = stored.last24h
                  \/ Offset(at) # Offset(at - PerDay)
                  \/ \E c \in Stored(table) : Instant(c) = at - PerDay
<1> DEFINE live == Counts(Stored(table), at, today)
           stored == StatsAt(table, at)
<1>0. MonthDays \in Nat \ {0}
    BY FiguresAssumption
<1>1. DOMAIN live = {"today", "towedToday", "last24h", "short", "month"}
    BY DEF Counts
<1>2. InBounds(table, DateBounds(today)) = {c \in Stored(table) : DayOf(Instant(c)) = today}
    BY TodayIs
<1>3. live.today = stored.today
    BY <1>2 DEF Counts, StatsAt
<1>4. live.towedToday = stored.towedToday
    <2>1. {c \in InBounds(table, DateBounds(today)) : Number(c) \in Towed} =
          {c \in Stored(table) : DayOf(Instant(c)) = today /\ Number(c) \in Towed}
        BY <1>2
    <2> QED
        BY <2>1 DEF Counts, StatsAt
<1>5. live.short = stored.short
    BY ShortIs DEF Counts, StatsAt
<1>6. live.month = stored.month
    BY <1>0, MonthIs DEF Counts, StatsAt
<1>7. Offset(at) = Offset(at - PerDay) /\ (\A c \in Stored(table) : Instant(c) # at - PerDay)
          => live.last24h = stored.last24h
    BY LastDayIs DEF Counts, StatsAt
<1>8. \A f \in DOMAIN live \ {"last24h"} : live[f] = stored[f]
    <2> HIDE DEF live, stored
    <2> QED
        BY <1>1, <1>3, <1>4, <1>5, <1>6
<1> HIDE DEF live, stored
<1>9. \/ live.last24h = stored.last24h
      \/ Offset(at) # Offset(at - PerDay)
      \/ \E c \in Stored(table) : Instant(c) = at - PerDay
    BY <1>7
<1> QED
    BY <1>8, <1>9 DEF live, stored

-----------------------------------------------------------------------------
(* Totals                                                                  *)

\* A sum may be taken from any of its elements on.
Takes(f, h, S) ==
    /\ f[{}] = 0
    /\ \A s \in SUBSET S : f[s] \in Int
    /\ \A s \in SUBSET S : \A x \in s : f[s] = h[x] + f[s \ {x}]

LEMMA SumTakes ==
    ASSUME NEW S, IsFiniteSet(S), NEW h, \A x \in S : h[x] \in Int
    PROVE  Takes(SumOf(h, S), h, S)
<1> DEFINE f == SumOf(h, S)
           I == {s \in SUBSET S : f[s] \in Int}
           T == {s \in SUBSET S : \A x \in s : f[s] = h[x] + f[s \ {x}]}
<1>1. \A s \in SUBSET S : f[s] = SumFrom(h, f, s)
    <2>1. f = [s \in SUBSET S |-> SumFrom(h, f, s)]
        BY SumRecursion
    <2> HIDE DEF f
    <2> QED
        BY <2>1
<1> HIDE DEF f
<1>2. f[{}] = 0
    BY <1>1 DEF SumFrom
<1>3. \A s \in SUBSET S : s # {} => Some(s) \in s /\ f[s] = h[Some(s)] + f[s \ {Some(s)}]
    BY <1>1 DEF SumFrom, Some
<1>4. SUBSET S \subseteq I
    <2>1. {} \in I
        BY <1>2
    <2>2. ASSUME NEW s \in SUBSET S, s # {}, \A x \in s : s \ {x} \in I
          PROVE  s \in I
        <3> DEFINE y == Some(s)
        <3>1. y \in s /\ f[s] = h[y] + f[s \ {y}]
            BY <1>3, <2>2
        <3> HIDE DEF y
        <3>2. f[s \ {y}] \in Int /\ h[y] \in Int
            BY <2>2, <3>1
        <3> QED
            BY <3>1, <3>2
    <2> HIDE DEF I
    <2> QED
        BY <2>1, <2>2, SetSteps
<1>5. \A s \in SUBSET S : f[s] \in Int
    BY <1>4
<1> HIDE DEF I
<1>6. SUBSET S \subseteq T
    <2>1. {} \in T
        OBVIOUS
    <2>2. ASSUME NEW s \in SUBSET S, s # {}, \A x \in s : s \ {x} \in T, NEW x \in s
          PROVE  f[s] = h[x] + f[s \ {x}]
        <3> DEFINE y == Some(s)
                   both == s \ {x, y}
        <3>1. y \in s /\ f[s] = h[y] + f[s \ {y}]
            BY <1>3, <2>2
        <3> HIDE DEF y
        <3>2. CASE x # y
            <4>1. x \in s \ {y} /\ y \in s \ {x} /\ s \ {x} \in T /\ s \ {y} \in T
                BY <2>2, <3>1, <3>2
            <4>2. (s \ {y}) \ {x} = both /\ (s \ {x}) \ {y} = both
                OBVIOUS
            <4>3. f[s \ {y}] = h[x] + f[both] /\ f[s \ {x}] = h[y] + f[both]
                BY <4>1, <4>2
            <4>4. h[x] \in Int /\ h[y] \in Int /\ f[both] \in Int
                BY <1>5, <3>1
            <4> QED
                BY <3>1, <4>3, <4>4
        <3> QED
            BY <3>1, <3>2
    <2>3. \A s \in SUBSET S : s # {} /\ (\A x \in s : s \ {x} \in T) => s \in T
        BY <2>2
    <2> HIDE DEF T
    <2> QED
        BY <2>1, <2>3, SetSteps
<1> QED
    BY <1>2, <1>5, <1>6 DEF f, Takes

\* A sum over a part, where the rest adds nothing, is not over one with larger values.
LEMMA SumNotOver ==
    ASSUME NEW S, IsFiniteSet(S), NEW T, T \subseteq S, NEW f, NEW g,
           \A x \in S : f[x] \in Int, \A x \in T : g[x] \in Int /\ f[x] <= g[x],
           \A x \in S \ T : f[x] <= 0
    PROVE  SumOf(f, S)[S] <= SumOf(g, T)[T]
<1> DEFINE F == SumOf(f, S)
           G == SumOf(g, T)
           U == {s \in SUBSET S : F[s] <= G[s \cap T]}
<1>1. Takes(F, f, S)
    BY SumTakes
<1>2. Takes(G, g, T)
    <2>1. IsFiniteSet(T)
        BY FS_Subset
    <2> QED
        BY <2>1, SumTakes
<1> HIDE DEF F, G
<1> USE DEF Takes
<1>3. {} \in U
    <2>1. {} \cap T = {}
        OBVIOUS
    <2> QED
        BY <1>1, <1>2, <2>1
<1>4. ASSUME NEW s \in SUBSET S, s # {}, \A x \in s : s \ {x} \in U
      PROVE  s \in U
    <2>1. PICK x \in s : F[s \ {x}] <= G[(s \ {x}) \cap T]
        BY <1>4
    <2>2. F[s] = f[x] + F[s \ {x}] /\ F[s] \in Int /\ F[s \ {x}] \in Int /\ f[x] \in Int
        BY <1>1
    <2> DEFINE t == s \cap T
    <2>3. t \in SUBSET T /\ G[t] \in Int
        BY <1>2
    <2>4. CASE x \in T
        <3>1. (s \ {x}) \cap T = t \ {x} /\ x \in t /\ t \ {x} \in SUBSET T
            BY <2>4
        <3> HIDE DEF t
        <3>2. G[t] = g[x] + G[t \ {x}] /\ G[t \ {x}] \in Int /\ g[x] \in Int /\ f[x] <= g[x]
            BY <1>2, <2>3, <2>4, <3>1
        <3>3. F[s \ {x}] <= G[t \ {x}]
            BY <2>1, <3>1
        <3>4. F[s] <= G[t]
            BY <2>2, <3>2, <3>3
        <3> QED
            BY <3>4 DEF t
    <2>5. CASE x \notin T
        <3>1. (s \ {x}) \cap T = t /\ f[x] <= 0
            BY <2>5
        <3> HIDE DEF t
        <3>2. F[s] <= G[t]
            BY <2>1, <2>2, <2>3, <3>1
        <3> QED
            BY <3>2 DEF t
    <2> QED
        BY <2>4, <2>5
<1>5. SUBSET S \subseteq U
    <2> HIDE DEF U
    <2> QED
        BY <1>3, <1>4, SetSteps
<1>6. S \cap T = T
    OBVIOUS
<1> QED
    BY <1>5, <1>6 DEF F, G

\* Sums of the same values are the same.
LEMMA SumSame ==
    ASSUME NEW S, IsFiniteSet(S), NEW f, NEW g, \A x \in S : f[x] \in Int /\ f[x] = g[x]
    PROVE  SumOf(f, S)[S] = SumOf(g, S)[S]
<1>1. SumOf(f, S)[S] <= SumOf(g, S)[S] /\ SumOf(g, S)[S] <= SumOf(f, S)[S]
    BY SumNotOver
<1>2. SumOf(f, S)[S] \in Int /\ SumOf(g, S)[S] \in Int
    <2>1. Takes(SumOf(f, S), f, S) /\ Takes(SumOf(g, S), g, S) /\ S \in SUBSET S
        BY SumTakes
    <2> QED
        BY <2>1 DEF Takes
<1> QED
    BY <1>1, <1>2

\* The sum over a part of a set is that of the part.
LEMMA SumOfPart ==
    ASSUME NEW S, IsFiniteSet(S), NEW h, \A x \in S : h[x] \in Int
    PROVE  \A T \in SUBSET S : SumOf(h, S)[T] = SumOf(h, T)[T]
<1> DEFINE F == SumOf(h, S)
<1>1. Takes(F, h, S)
    BY SumTakes
<1> HIDE DEF F
<1> SUFFICES ASSUME NEW T, T \subseteq S PROVE F[T] = SumOf(h, T)[T]
    BY DEF F
<1> DEFINE G == SumOf(h, T)
           U == {s \in SUBSET T : F[s] = G[s]}
<1>0. IsFiniteSet(T)
    BY FS_Subset
<1>2. Takes(G, h, T)
    <2>1. \A x \in T : h[x] \in Int
        OBVIOUS
    <2> QED
        BY <1>0, <2>1, SumTakes
<1> HIDE DEF G
<1> USE DEF Takes
<1>3. {} \in U
    BY <1>1, <1>2
<1>4. ASSUME NEW s \in SUBSET T, s # {}, \A x \in s : s \ {x} \in U
      PROVE  s \in U
    <2>1. PICK x \in s : F[s \ {x}] = G[s \ {x}]
        BY <1>4
    <2>2. s \in SUBSET S /\ s \in SUBSET T
        OBVIOUS
    <2>3. F[s] = h[x] + F[s \ {x}] /\ G[s] = h[x] + G[s \ {x}]
        BY <1>1, <1>2, <2>2
    <2> QED
        BY <2>1, <2>3
<1>5. SUBSET T \subseteq U
    <2> HIDE DEF U
    <2> QED
        BY <1>0, <1>3, <1>4, SetSteps
<1> QED
    BY <1>5 DEF G

LEMMA SumOfUnion ==
    ASSUME NEW S, IsFiniteSet(S), NEW h, \A x \in S : h[x] \in Int,
           NEW A, A \subseteq S, NEW B, B \subseteq S, A \cap B = {}
    PROVE  SumOf(h, S)[A \cup B] = SumOf(h, S)[A] + SumOf(h, S)[B]
<1> DEFINE F == SumOf(h, S)
           U == {s \in SUBSET A : F[s \cup B] = F[s] + F[B]}
<1>0. IsFiniteSet(A)
    BY FS_Subset
<1>1. Takes(F, h, S)
    BY SumTakes
<1> HIDE DEF F
<1> USE DEF Takes
<1>2. {} \in U
    <2>1. {} \cup B = B /\ F[B] \in Int
        BY <1>1
    <2> QED
        BY <1>1, <2>1
<1>3. ASSUME NEW s \in SUBSET A, s # {}, \A x \in s : s \ {x} \in U
      PROVE  s \in U
    <2>1. PICK x \in s : F[(s \ {x}) \cup B] = F[s \ {x}] + F[B]
        BY <1>3
    <2>2. (s \ {x}) \cup B = (s \cup B) \ {x}
        OBVIOUS
    <2>3. s \in SUBSET S /\ s \cup B \in SUBSET S /\ x \in s /\ x \in s \cup B /\ s \ {x} \in SUBSET S
        OBVIOUS
    <2>4. F[s] = h[x] + F[s \ {x}] /\ F[s \cup B] = h[x] + F[(s \cup B) \ {x}]
        BY <1>1, <2>3
    <2>5. h[x] \in Int /\ F[s \ {x}] \in Int /\ F[B] \in Int
        BY <1>1, <2>3
    <2>6. F[(s \cup B) \ {x}] = F[s \ {x}] + F[B]
        BY <2>1, <2>2
    <2>7. F[s \cup B] = F[s] + F[B]
        BY <2>4, <2>5, <2>6
    <2> QED
        BY <2>7
<1>4. SUBSET A \subseteq U
    <2> HIDE DEF U
    <2> QED
        BY <1>0, <1>2, <1>3, SetSteps
<1> QED
    BY <1>4 DEF F

LEMMA SumOfEqual ==
    ASSUME NEW S, IsFiniteSet(S), NEW h, \A x \in S : h[x] \in Int, NEW A, A \subseteq S,
           NEW v \in Int, \A x \in A : h[x] = v
    PROVE  SumOf(h, S)[A] = v * Cardinality(A)
<1> DEFINE F == SumOf(h, S)
           U == {s \in SUBSET A : F[s] = v * Cardinality(s)}
<1>0. IsFiniteSet(A)
    BY FS_Subset
<1>1. Takes(F, h, S)
    BY SumTakes
<1> HIDE DEF F
<1> USE DEF Takes
<1>2. {} \in U
    <2>1. Cardinality({}) = 0 /\ v * 0 = 0
        BY FS_EmptySet
    <2> QED
        BY <1>1, <2>1
<1>3. ASSUME NEW s \in SUBSET A, s # {}, \A x \in s : s \ {x} \in U
      PROVE  s \in U
    <2>1. PICK x \in s : F[s \ {x}] = v * Cardinality(s \ {x})
        BY <1>3
    <2>2. F[s] = v + F[s \ {x}]
        <3>1. s \in SUBSET S /\ h[x] = v
            OBVIOUS
        <3> QED
            BY <1>1, <3>1
    <2>3. IsFiniteSet(s) /\ Cardinality(s) \in Nat /\ Cardinality(s \ {x}) = Cardinality(s) - 1
        BY <1>0, FS_Subset, FS_CardinalityType, FS_RemoveElement
    <2>4. v + v * (Cardinality(s) - 1) = v * Cardinality(s)
        BY <2>3
    <2> QED
        BY <2>1, <2>2, <2>3, <2>4
<1>4. SUBSET A \subseteq U
    <2> HIDE DEF U
    <2> QED
        BY <1>0, <1>2, <1>3, SetSteps
<1> QED
    BY <1>4 DEF F

\* The total of a ranking does not depend on which of the labels of one count it takes.
LEMMA FirstHaveSameTotal ==
    ASSUME NEW S, IsFiniteSet(S), NEW size, \A x \in S : size[x] \in Int, NEW k,
           NEW s, AreFirst(s, S, k, size), NEW t, AreFirst(t, S, k, size)
    PROVE  SumOf(size, S)[s] = SumOf(size, S)[t]
<1> DEFINE F == SumOf(size, S)
           both == s \cap t
<1>1. /\ s \subseteq S /\ t \subseteq S /\ Cardinality(s) = k /\ Cardinality(t) = k
      /\ \A x \in s, y \in S \ s : size[x] >= size[y]
      /\ \A x \in t, y \in S \ t : size[x] >= size[y]
    BY DEF AreFirst
<1>2. \A u \in SUBSET S : IsFiniteSet(u) /\ Cardinality(u) \in Nat
    BY FS_Subset, FS_CardinalityType
<1>3. /\ s = both \cup (s \ t) /\ t = both \cup (t \ s) /\ both \cap (s \ t) = {} /\ both \cap (t \ s) = {}
      /\ both \subseteq S /\ s \ t \subseteq S /\ t \ s \subseteq S
    BY <1>1
<1> HIDE DEF both
<1>4. Cardinality(s \ t) = Cardinality(t \ s)
    <2>1. Cardinality(s) = Cardinality(both) + Cardinality(s \ t)
        BY <1>2, <1>3, UnionCounts
    <2>2. Cardinality(t) = Cardinality(both) + Cardinality(t \ s)
        BY <1>2, <1>3, UnionCounts
    <2> QED
        BY <1>1, <1>2, <1>3, <2>1, <2>2
<1>5. \A x \in s \ t, y \in t \ s : size[x] = size[y]
    <2>1. ASSUME NEW x \in s \ t, NEW y \in t \ s
          PROVE  size[x] = size[y]
        <3>1. size[x] \in Int /\ size[y] \in Int
            BY <1>1
        <3>2. size[x] >= size[y] /\ size[y] >= size[x]
            BY <1>1
        <3> QED
            BY <3>1, <3>2
    <2> QED
        BY <2>1
<1>6. F[s \ t] = F[t \ s]
    <2>1. CASE s \ t = {}
        <3>1. t \ s = {}
            BY <1>2, <1>3, <1>4, <2>1, FS_EmptySet
        <3> QED
            BY <2>1, <3>1
    <2>2. CASE s \ t # {}
        <3>1. t \ s # {}
            BY <1>2, <1>3, <1>4, <2>2, FS_EmptySet
        <3>2. PICK x \in s \ t, y \in t \ s : TRUE
            BY <2>2, <3>1
        <3>3. size[x] \in Int /\ (\A z \in s \ t : size[z] = size[x]) /\ \A z \in t \ s : size[z] = size[x]
            BY <1>3, <1>5, <3>2
        <3>4. F[s \ t] = size[x] * Cardinality(s \ t) /\ F[t \ s] = size[x] * Cardinality(t \ s)
            <4> DEFINE v == size[x]
                       a == s \ t
                       b == t \ s
            <4>1. v \in Int /\ a \subseteq S /\ b \subseteq S /\ (\A z \in a : size[z] = v) /\ \A z \in b : size[z] = v
                BY <1>3, <3>3
            <4> HIDE DEF v, a, b
            <4>2. F[a] = v * Cardinality(a)
                BY <4>1, SumOfEqual
            <4>3. F[b] = v * Cardinality(b)
                BY <4>1, SumOfEqual
            <4> QED
                BY <4>2, <4>3 DEF v, a, b
        <3> QED
            BY <1>4, <3>4
    <2> QED
        BY <2>1, <2>2
<1>7. F[s] = F[both] + F[s \ t]
    <2> DEFINE a == s \ t
    <2>1. s = both \cup a /\ a \subseteq S /\ both \subseteq S /\ both \cap a = {}
        BY <1>3
    <2> HIDE DEF a
    <2>2. F[both \cup a] = F[both] + F[a]
        BY <2>1, SumOfUnion
    <2> QED
        BY <2>1, <2>2 DEF a
<1>8. F[t] = F[both] + F[t \ s]
    <2> DEFINE a == t \ s
    <2>1. t = both \cup a /\ a \subseteq S /\ both \subseteq S /\ both \cap a = {}
        BY <1>3
    <2> HIDE DEF a
    <2>2. F[both \cup a] = F[both] + F[a]
        BY <2>1, SumOfUnion
    <2> QED
        BY <2>1, <2>2 DEF a
<1> HIDE DEF F
<1>9. F[s] = F[t]
    BY <1>6, <1>7, <1>8
<1> QED
    BY <1>9 DEF F

AreCounts(counts) ==
    IsFun(counts) /\ IsFiniteSet(DOMAIN counts) /\ \A l \in DOMAIN counts : counts[l] \in Int

LEMMA TopIs ==
    ASSUME NEW counts, AreCounts(counts), NEW n \in Nat
    PROVE  LET D == DOMAIN counts
               F == DOMAIN TopItems(counts, n)
           IN  /\ AreFirst(F, D, IF n < Cardinality(D) THEN n ELSE Cardinality(D), counts)
               /\ Total(TopItems(counts, n)) = SumOf(counts, D)[F]
               /\ TopItems(counts, n) = [l \in F |-> counts[l]]
               /\ AreCounts(TopItems(counts, n))
<1> USE DEF AreCounts
<1> DEFINE D == DOMAIN counts
           G == FirstN(D, n, counts)
           k == IF n < Cardinality(D) THEN n ELSE Cardinality(D)
           top == TopItems(counts, n)
<1>1. AreFirst(G, D, k, counts)
    BY FirstNIsFirst
<1>2. G \subseteq D /\ IsFiniteSet(G)
    <2>1. G \subseteq D
        BY <1>1 DEF AreFirst
    <2> HIDE DEF G
    <2> QED
        BY <2>1, FS_Subset
<1>3. top = [l \in G |-> counts[l]]
    BY DEF TopItems, Restrict
<1> HIDE DEF G, top
<1>4. DOMAIN top = G /\ \A l \in G : top[l] = counts[l] /\ top[l] \in Int
    BY <1>2, <1>3
<1>5. Total(top) = SumOf(counts, D)[G]
    <2>1. Total(top) = SumOf(top, G)[G]
        BY <1>4, SumsAre
    <2>2. SumOf(top, G)[G] = SumOf(counts, G)[G]
        BY <1>2, <1>4, SumSame
    <2>3. G \in SUBSET D
        BY <1>2
    <2>4. SumOf(counts, D)[G] = SumOf(counts, G)[G]
        BY <2>3, SumOfPart
    <2> QED
        BY <2>1, <2>2, <2>4
<1>6. AreCounts(top)
    BY <1>2, <1>3, <1>4 DEF IsFun
<1> QED
    BY <1>1, <1>3, <1>4, <1>5, <1>6 DEF top

\* The first of the first are the first, and so is their total.
LEMMA TopOfTop ==
    ASSUME NEW counts, AreCounts(counts), NEW n \in Nat, NEW m \in Nat, n <= m
    PROVE  Total(TopItems(TopItems(counts, m), n)) = Total(TopItems(counts, n))
<1> DEFINE D == DOMAIN counts
           top == TopItems(counts, m)
           F == DOMAIN top
           E == DOMAIN TopItems(top, n)
           G == DOMAIN TopItems(counts, n)
           k == IF n < Cardinality(D) THEN n ELSE Cardinality(D)
           j == IF m < Cardinality(D) THEN m ELSE Cardinality(D)
           i == IF n < Cardinality(F) THEN n ELSE Cardinality(F)
<1>1. AreFirst(F, D, j, counts) /\ top = [l \in F |-> counts[l]] /\ AreCounts(top)
    BY TopIs
<1>2. AreFirst(G, D, k, counts) /\ Total(TopItems(counts, n)) = SumOf(counts, D)[G]
    BY TopIs
<1>3. AreFirst(E, F, i, top) /\ Total(TopItems(top, n)) = SumOf(top, F)[E]
    <2> HIDE DEF top
    <2> QED
        BY <1>1, TopIs
<1> HIDE DEF top
<1>4. F \subseteq D /\ E \subseteq F /\ Cardinality(F) = j /\ Cardinality(E) = i
    BY <1>1, <1>3 DEF AreFirst
<1>5. Cardinality(D) \in Nat
    BY FS_CardinalityType DEF AreCounts
<1>6. i = k
    BY <1>4, <1>5
<1>7. \A l \in F : top[l] = counts[l]
    BY <1>1
<1>8. AreFirst(E, D, k, counts)
    <2>1. ASSUME NEW x \in E, NEW y \in D \ E
          PROVE  counts[x] >= counts[y]
        <3>1. CASE y \in F
            <4>1. top[x] >= top[y]
                BY <1>3, <3>1 DEF AreFirst
            <4> QED
                BY <1>4, <1>7, <3>1, <4>1
        <3>2. CASE y \notin F
            BY <1>1, <1>4, <3>2 DEF AreFirst
        <3> QED
            BY <3>1, <3>2
    <2> HIDE DEF E, F
    <2> QED
        BY <1>4, <1>6, <2>1 DEF AreFirst
<1>9. SumOf(counts, D)[E] = SumOf(counts, D)[G]
    <2> HIDE DEF D, E, G, k
    <2>1. IsFiniteSet(D) /\ \A l \in D : counts[l] \in Int
        BY DEF AreCounts, D
    <2> QED
        BY <1>2, <1>8, <2>1, FirstHaveSameTotal
<1>10. SumOf(top, F)[E] = SumOf(counts, D)[E]
    <2>1. IsFiniteSet(D) /\ IsFiniteSet(F) /\ IsFiniteSet(E) /\ \A l \in D : counts[l] \in Int
        BY <1>1, <1>4, FS_Subset DEF AreCounts
    <2>2. \A l \in F : top[l] \in Int
        BY <1>4, <1>7, <2>1
    <2>3. E \in SUBSET F /\ E \in SUBSET D
        BY <1>4
    <2> HIDE DEF D, E, F
    <2>4. SumOf(top, F)[E] = SumOf(top, E)[E]
        BY <2>1, <2>2, <2>3, SumOfPart
    <2>5. SumOf(counts, D)[E] = SumOf(counts, E)[E]
        BY <2>1, <2>3, SumOfPart
    <2>6. SumOf(top, E)[E] = SumOf(counts, E)[E]
        <3>1. \A l \in E : top[l] \in Int /\ top[l] = counts[l]
            BY <1>7, <2>2, <2>3
        <3> QED
            BY <2>1, <3>1, SumSame
    <2> QED
        BY <2>4, <2>5, <2>6
<1> QED
    BY <1>2, <1>3, <1>9, <1>10 DEF top

-----------------------------------------------------------------------------
(* The figures of both modes                                               *)

\* The snapshots of both modes are of one instant and of the same records.
BothShow ==
    /\ SeedIsPublished /\ ~dirty /\ store # NoSnapshot
    /\ seed.at = store.at /\ seed.at = stats.at
    /\ Stored(rows) = Published

FiguresOK ==
    /\ ClocksOK /\ RestOK
    /\ RefreshOK /\ SeedPanelOK /\ SeedPaceOK
    /\ StoreOK /\ StorePanelOK /\ StoreFiguresOK /\ PastOK

LEMMA BothAre ==
    ASSUME FiguresOK, BothShow
    PROVE  /\ Complete /\ SeedOK
           /\ seed.at = plan.at /\ store.at = plan.at /\ stats.at = plan.at
           /\ plan.at \in Int /\ plan.to = DayOf(plan.at) /\ plan.to \in Nat /\ plan.from \in Nat
           /\ TableOK(rows) /\ IsFiniteSet(Published)
           /\ UpTo(rows, plan.to)
           /\ \A c \in Stored(rows) : /\ DayOf(Instant(c)) \in plan.from .. plan.to
                                      /\ Instant(c) \in Past(plan.at)
           /\ stats = StatsAt(rows, plan.at) /\ store.counts = stats
<1>1. RefreshOK /\ seed # NoSnapshot /\ pc = "idle"
    BY DEF FiguresOK, BothShow, SeedIsPublished
<1>2. JobOK /\ PlanOK /\ Len(sums) = Windows /\ SeedOK
    BY <1>1 DEF RefreshOK, JobOK
<1>3. Complete
    BY <1>1, <1>2, AllCommitted
<1>4. seed.at = plan.at /\ store.at = plan.at /\ stats.at = plan.at
    BY <1>2 DEF SeedOK, BothShow
<1>5. plan.at \in Int /\ plan.to = DayOf(plan.at) /\ plan.to \in Nat /\ plan.from \in Nat
    BY <1>2 DEF PlanOK, Day
<1>6. TableOK(rows) /\ IsFiniteSet(Published)
    BY <1>3, PublishedIs DEF FiguresOK, StoreOK
<1>7. plan.at # 0
    BY <1>4 DEF FiguresOK, StoreFiguresOK, BothShow
<1>8. \A c \in Stored(rows) : DayOf(Instant(c)) \in plan.from .. plan.to
    <2>1. SUFFICES ASSUME NEW c \in Stored(rows) PROVE DayOf(Instant(c)) \in plan.from .. plan.to
        OBVIOUS
    <2>2. Instant(c) \in Int
        <3>1. Instant(c) \in Nat
            BY <1>6, StoredRows
        <3> QED
            BY <3>1
    <2>3. c \in Published
        BY DEF BothShow
    <2>4. Day[Instant(c)] \in plan.from .. plan.to
        BY <1>3, <2>3, PublishedIs
    <2> QED
        BY <2>2, <2>4 DEF Day
<1>9. UpTo(rows, plan.to)
    BY <1>5, <1>8 DEF UpTo
<1>10. \A c \in Stored(rows) : Instant(c) \in Past(plan.at)
    <2>1. SUFFICES ASSUME NEW c \in Stored(rows) PROVE Instant(c) \in Past(plan.at)
        OBVIOUS
    <2>2. Number(c) \in Records /\ Instant(c) = rows[Number(c)] /\ rows[Number(c)] > 0
        BY <1>6, StoredRows
    <2>3. rows[Number(c)] \in Past(stats.at)
        BY <1>4, <1>7, <2>2 DEF FiguresOK, PastOK, BothShow
    <2> QED
        BY <1>4, <2>2, <2>3
<1>11. stats = StatsAt(rows, plan.at) /\ store.counts = stats
    BY <1>4, <1>7 DEF FiguresOK, StoreFiguresOK, StorePanelOK, BothShow
<1> QED
    BY <1>2, <1>3, <1>4, <1>5, <1>6, <1>8, <1>9, <1>10, <1>11

\* What the reader serves of a snapshot, entry by entry.
LEMMA PayloadIs ==
    ASSUME SeedPanelOK, seed # NoSnapshot
    PROVE  /\ SeedPayload.counts = seed.counts /\ SeedPayload.ranked = seed.ranked
           /\ SeedPayload.recent = seed.recent /\ SeedPayload.trend = seed.trend
           /\ SeedPayload.top = LargerRanking(seed.ranked, seed.top)
<1>1. seed = [at |-> seed.at, counts |-> seed.counts, ranked |-> seed.ranked, charted |-> seed.charted,
              top |-> seed.top, trend |-> seed.trend, recent |-> seed.recent, pace |-> seed.pace]
    BY DEF SeedPanelOK, SeedShown
<1>2. SeedPayload = [seed EXCEPT !.charted = ResolvedChart(seed), !.top = LargerRanking(seed.ranked, seed.top)]
    BY DEF SeedPayload
<1> DEFINE chart == ResolvedChart(seed)
           larger == LargerRanking(seed.ranked, seed.top)
<1>3. SeedPayload = [seed EXCEPT !.charted = chart, !.top = larger]
    BY <1>2
<1> HIDE DEF chart, larger
<1>4. /\ SeedPayload.counts = seed.counts /\ SeedPayload.ranked = seed.ranked
      /\ SeedPayload.recent = seed.recent /\ SeedPayload.trend = seed.trend
      /\ SeedPayload.top = larger
    BY <1>1, <1>3
<1> QED
    BY <1>4 DEF larger

LEMMA CountsAgree ==
    ASSUME FiguresOK, BothShow
    PROVE  /\ \A f \in DOMAIN seed.counts \ {"last24h"} : seed.counts[f] = store.counts[f]
           /\ \/ seed.counts.last24h = store.counts.last24h
              \/ Offset(seed.at) # Offset(seed.at - PerDay)
              \/ \E c \in Published : Instant(c) = seed.at - PerDay
<1>1. /\ seed.at = plan.at /\ plan.at \in Int /\ plan.to = DayOf(plan.at) /\ plan.to \in Int
      /\ TableOK(rows) /\ UpTo(rows, plan.to) /\ \A c \in Stored(rows) : Instant(c) \in Past(plan.at)
      /\ stats = StatsAt(rows, plan.at) /\ store.counts = stats
    BY BothAre
<1>2. seed.counts = Counts(Stored(rows), plan.at, plan.to)
    <2>1. SeedOK
        BY BothAre
    <2> QED
        BY <2>1 DEF SeedOK, LiveCounts, BothShow
<1>3. /\ \A f \in DOMAIN seed.counts \ {"last24h"} : seed.counts[f] = StatsAt(rows, plan.at)[f]
      /\ \/ seed.counts.last24h = StatsAt(rows, plan.at).last24h
         \/ Offset(plan.at) # Offset(plan.at - PerDay)
         \/ \E c \in Stored(rows) : Instant(c) = plan.at - PerDay
    <2>1. ClocksOK /\ RestOK
        BY DEF FiguresOK
    <2>2. LET live  == Counts(Stored(rows), plan.at, plan.to)
              stored == StatsAt(rows, plan.at)
          IN  /\ \A f \in DOMAIN live \ {"last24h"} : live[f] = stored[f]
              /\ \/ live.last24h = stored.last24h
                 \/ Offset(plan.at) # Offset(plan.at - PerDay)
                 \/ \E c \in Stored(rows) : Instant(c) = plan.at - PerDay
        BY <1>1, <2>1, LiveFiguresAgree
    <2> QED
        BY <1>2, <2>2
<1> QED
    BY <1>1, <1>3 DEF BothShow

LEMMA LiveStatsAgree ==
    ASSUME FiguresOK, BothShow, DayOf(clock) = DayOf(seed.at)
    PROVE  LiveStats(rows) = SeedLiveStats
<1>1. /\ seed.at = plan.at /\ plan.to = DayOf(plan.at) /\ plan.to \in Int
      /\ TableOK(rows) /\ UpTo(rows, plan.to)
    BY BothAre
<1>2. ClocksOK /\ clock \in Int /\ plan.to = DayOf(clock)
    BY <1>1 DEF FiguresOK, RefreshOK, ClockOK
<1>3. InBounds(rows, DateBounds(DayOf(clock))) = {c \in Stored(rows) : DayOf(Instant(c)) = plan.to}
    BY <1>1, <1>2, TodayIs
<1>4. InBounds(rows, MonthBounds(clock)) = {c \in Stored(rows) : DayOf(Instant(c)) >= MonthStart(plan.to)}
    <2>1. MonthDays \in Nat \ {0}
        BY FiguresAssumption
    <2> QED
        BY <1>1, <1>2, <2>1, MonthIs
<1>5. SeedPayload.counts = Counts(Stored(rows), plan.at, plan.to)
    <2>1. SeedOK
        BY BothAre
    <2>2. SeedPayload.counts = seed.counts
        BY PayloadIs DEF FiguresOK, BothShow, SeedIsPublished
    <2> QED
        BY <2>1, <2>2 DEF SeedOK, LiveCounts, BothShow
<1> QED
    BY <1>3, <1>4, <1>5 DEF LiveStats, SeedLiveStats, Counts

\* What SeedOK says of the labels, as the rows have them.
LEMMA SeedLabels ==
    ASSUME FiguresOK, BothShow
    PROVE  /\ seed.ranked = TopItems(Grouped(rows), RankLimit)
           /\ seed.charted = TopItems(LabelCounts(Stored(rows)), RankLimit)
           /\ seed.top = TopItems(Grouped(rows), RankLimit)
           /\ AreCounts(Grouped(rows)) /\ AreCounts(LabelCounts(Stored(rows)))
           /\ DOMAIN Grouped(rows) \subseteq DOMAIN LabelCounts(Stored(rows))
           /\ \A l \in DOMAIN Grouped(rows) : Grouped(rows)[l] = LabelCounts(Stored(rows))[l]
<1> DEFINE L == LabelCounts(Stored(rows))
<1>1. Stored(rows) = Published /\ IsFiniteSet(Stored(rows)) /\ SeedOK
    BY BothAre DEF BothShow
<1>2. L = Labels
    BY <1>1 DEF Labels
<1>3. Grouped(rows) = Known(L)
    BY DEF Grouped
<1>4. /\ IsFun(L) /\ IsFiniteSet(DOMAIN L)
      /\ \A l \in DOMAIN L : L[l] \in Int
      /\ IsFiniteSet(DOMAIN Known(L)) /\ DOMAIN Known(L) = DOMAIN L \ {Unknown}
      /\ \A l \in DOMAIN Known(L) : Known(L)[l] = L[l]
    BY <1>1, LabelsAreCounts
<1> HIDE DEF L
<1>5. IsFun(Known(L))
    BY DEF IsFun, Known
<1>6. AreCounts(L) /\ AreCounts(Known(L))
    BY <1>4, <1>5 DEF AreCounts
<1>7. /\ seed.ranked = TopItems(Known(L), RankLimit) /\ seed.charted = TopItems(L, RankLimit)
      /\ seed.top = TopItems(Known(L), RankLimit)
    BY <1>1, <1>2 DEF SeedOK
<1> QED
    BY <1>3, <1>4, <1>6, <1>7 DEF L

LEMMA RankingsAgree ==
    ASSUME FiguresOK, BothShow
    PROVE  /\ seed.ranked = store.ranked
           /\ \A l \in DOMAIN seed.charted : seed.charted[l] = store.charted[l]
           /\ \A l \in DOMAIN seed.ranked : Browsed(rows)[l] = seed.ranked[l]
           /\ \A l \in DOMAIN seed.charted : BrowsedSuburbs(rows)[l] = seed.charted[l]
<1> DEFINE L == LabelCounts(Stored(rows))
           G == Grouped(rows)
<1>1. seed.ranked = TopItems(G, RankLimit) /\ seed.charted = TopItems(L, RankLimit) /\ AreCounts(G) /\ AreCounts(L)
    BY SeedLabels
<1>2. store.ranked = TopItems(G, RankLimit) /\ store.charted = L
    BY DEF FiguresOK, BothShow, StoreFiguresOK, StoreRanked, StoreCharted
<1>3. Browsed(rows) = G /\ BrowsedSuburbs(rows) = L /\ RankLimit \in Nat
    BY FiguresAssumption DEF Browsed, BrowsedSuburbs
<1> HIDE DEF L, G
<1>4. \A l \in DOMAIN TopItems(G, RankLimit) : TopItems(G, RankLimit)[l] = G[l]
    BY <1>1, <1>3, TopAre DEF AreCounts
<1>5. \A l \in DOMAIN TopItems(L, RankLimit) : TopItems(L, RankLimit)[l] = L[l]
    BY <1>1, <1>3, TopAre DEF AreCounts
<1> QED
    BY <1>1, <1>2, <1>3, <1>4, <1>5

\* The trend of the seed counts the rows, by the days of the plan.
LEMMA TrendCounts ==
    ASSUME FiguresOK, BothShow
    PROVE  /\ seed.trend = [d \in plan.from .. plan.to |-> Cardinality({c \in Stored(rows) : DayOf(Instant(c)) = d})]
           /\ plan.from .. plan.to \subseteq Days
           /\ \A d \in plan.from .. plan.to :
                  DailyCounts(Stored(rows))[d] = Cardinality({c \in Stored(rows) : DayOf(Instant(c)) = d})
<1>1. SeedOK /\ PlanOK
    BY BothAre DEF Complete
<1>2. plan.from .. plan.to \subseteq Days
    BY <1>1, DaysToPlan
<1>3. seed.trend = [d \in plan.from .. plan.to |-> DailyCounts(Stored(rows))[d]]
    BY <1>1 DEF SeedOK, Trend, BothShow
<1>4. \A d \in Days : DailyCounts(Stored(rows))[d] = Cardinality({c \in Stored(rows) : DayOf(Instant(c)) = d})
    BY DEF DailyCounts
<1> QED
    BY <1>2, <1>3, <1>4

LEMMA StoreTrend ==
    ASSUME FiguresOK, BothShow, NEW d \in plan.from .. plan.to, seed.trend[d] > 0
    PROVE  d \in DOMAIN store.trend /\ store.trend[d] = seed.trend[d] /\ daily[d] = seed.trend[d]
<1>1. /\ seed.trend = [e \in plan.from .. plan.to |-> Cardinality({c \in Stored(rows) : DayOf(Instant(c)) = e})]
      /\ plan.from .. plan.to \subseteq Days
      /\ \A e \in plan.from .. plan.to :
             DailyCounts(Stored(rows))[e] = Cardinality({c \in Stored(rows) : DayOf(Instant(c)) = e})
    BY TrendCounts
<1>2. DailyCounts(Stored(rows))[d] = seed.trend[d] /\ d \in Days
    BY <1>1
<1>3. daily[d] = seed.trend[d]
    BY <1>2 DEF FiguresOK, BothShow, StorePanelOK, DailyHas
<1>4. store.trend = DailyStats(daily, 0, plan.to) /\ d \in 0 .. plan.to
    <2>1. plan.to = DayOf(plan.at) /\ store.at = plan.at /\ plan.from \in Nat /\ plan.to \in Nat
        BY BothAre
    <2>2. d \in 0 .. plan.to
        BY <2>1
    <2>3. store.trend = DailyStats(daily, 0, DayOf(store.at))
        BY DEF FiguresOK, BothShow, StorePanelOK
    <2> QED
        BY <2>1, <2>2, <2>3
<1>5. store.trend = [e \in {x \in 0 .. plan.to : daily[x] > 0} |-> daily[e]]
    BY <1>4 DEF DailyStats, Restrict
<1> QED
    BY <1>3, <1>4, <1>5

LEMMA TrendsAgree ==
    ASSUME FiguresOK, BothShow
    PROVE  \A d \in DOMAIN seed.trend :
               seed.trend[d] > 0 => d \in DOMAIN store.trend /\ store.trend[d] = seed.trend[d]
<1>1. DOMAIN seed.trend = plan.from .. plan.to
    BY TrendCounts
<1> QED
    BY <1>1, StoreTrend

\* The pace of the seed counts the days up to that of its publication.
LEMMA PacesAgree ==
    ASSUME FiguresOK, BothShow
    PROVE  \/ seed.pace.current = store.pace.current
           \/ DayOf(clock) > DayOf(seed.at) \/ ~WindowIsExact(seed.at, ShortDays)
<1> SUFFICES ASSUME ~(DayOf(clock) > DayOf(seed.at)), WindowIsExact(seed.at, ShortDays)
             PROVE  seed.pace.current = store.pace.current
    OBVIOUS
<1>1. /\ seed.at = plan.at /\ store.at = plan.at /\ plan.at \in Int
      /\ plan.to = DayOf(plan.at) /\ plan.to \in Nat /\ plan.from \in Nat
      /\ TableOK(rows) /\ UpTo(rows, plan.to) /\ IsFiniteSet(Stored(rows))
      /\ \A c \in Stored(rows) : DayOf(Instant(c)) \in plan.from .. plan.to
    BY BothAre DEF BothShow
<1>2. ClocksOK /\ clock \in Int /\ ShortDays \in Nat
    BY FiguresAssumption DEF FiguresOK, RefreshOK, ClockOK
<1>3. PICK q \in Int : /\ seed.at <= q /\ q <= clock
                       /\ seed.pace.current = SumOfDays(seed.trend, DayOf(q) + (1 - ShortDays), DayOf(q))
    BY DEF FiguresOK, BothShow, SeedIsPublished, SeedPaceOK, PaceShown
<1>4. DayOf(q) = plan.to
    <2>1. DayOf(plan.at) <= DayOf(q) /\ DayOf(q) \in Int
        BY <1>1, <1>2, <1>3, WallGrows
    <2>2. DayOf(q) <= DayOf(clock) /\ DayOf(clock) \in Int
        BY <1>2, <1>3, WallGrows
    <2> QED
        BY <1>1, <2>1, <2>2
<1> DEFINE first == plan.to + (1 - ShortDays)
           S == (first .. plan.to) \cap (plan.from .. plan.to)
           g == [c \in Stored(rows) |-> DayOf(Instant(c))]
           h == seed.trend
<1>5. h = [d \in plan.from .. plan.to |-> Cardinality({c \in Stored(rows) : DayOf(Instant(c)) = d})]
    BY TrendCounts
<1>6. seed.pace.current = SumOf(h, S)[S]
    <2>1. SumOfDays(h, first, plan.to) = SumOf(h, (first .. plan.to) \cap DOMAIN h)[(first .. plan.to) \cap DOMAIN h]
        BY SumsAre
    <2>2. DOMAIN h = plan.from .. plan.to
        BY <1>5
    <2> QED
        BY <1>3, <1>4, <2>1, <2>2
<1>7. IsFiniteSet(S)
    <2>1. IsFiniteSet(plan.from .. plan.to)
        BY <1>1, FS_Interval
    <2> QED
        BY <2>1, FS_Subset
<1>8. AreSizes(h, S, Stored(rows), g)
    <2>1. \A x : {c \in Stored(rows) : g[c] = x} = {c \in Stored(rows) : DayOf(Instant(c)) = x}
        OBVIOUS
    <2> HIDE DEF g
    <2> QED
        BY <1>5, <2>1 DEF AreSizes
<1>9. SumOf(h, S)[S] = Cardinality({c \in Stored(rows) : g[c] \in S})
    <2> HIDE DEF h, g, S
    <2> QED
        BY <1>1, <1>7, <1>8, SumCounts
<1>10. /\ WindowStart(plan.at, ShortDays) \in Int
       /\ ShortCount(rows, plan.at) =
              Cardinality({c \in Stored(rows) : DayOf(Instant(c)) >= WindowStart(plan.at, ShortDays)})
    <2>1. plan.to \in Int
        BY <1>1
    <2> QED
        BY <1>1, <1>2, <2>1, ShortIs
<1>11. WindowStart(plan.at, ShortDays) = plan.to - (ShortDays - 1)
    BY <1>1 DEF WindowIsExact
<1>12. {c \in Stored(rows) : g[c] \in S} = {c \in Stored(rows) : DayOf(Instant(c)) >= WindowStart(plan.at, ShortDays)}
    <2>1. ASSUME NEW c \in Stored(rows)
          PROVE  g[c] \in S <=> DayOf(Instant(c)) >= WindowStart(plan.at, ShortDays)
        <3> DEFINE e == DayOf(Instant(c))
        <3>1. g[c] = e
            OBVIOUS
        <3>2. e \in plan.from .. plan.to
            BY <1>1
        <3> HIDE DEF e, g
        <3>3. e \in S <=> e >= plan.to - (ShortDays - 1)
            BY <1>1, <1>2, <3>2
        <3> QED
            BY <1>11, <3>1, <3>3 DEF e
    <2> HIDE DEF g, S
    <2> QED
        BY <2>1
<1>13. store.pace.current = ShortCount(rows, plan.at)
    BY <1>1 DEF FiguresOK, BothShow, StoreFiguresOK
<1> QED
    BY <1>6, <1>9, <1>10, <1>12, <1>13

-----------------------------------------------------------------------------
(* The newest rows                                                         *)

\* Of cleaned instants the order of the texts is that of the instants: a first page is
\* of the newest rows.
LEMMA PageIsNewest ==
    ASSUME ClocksOK, NEW table, TableOK(table), \A c \in Stored(table) : IsClean(Instant(c)),
           NEW n \in Nat
    PROVE  AreNewest(StorePage(table, 1, n), Stored(table), n)
<1> DEFINE S == Stored(table)
           L == Listed(table)
           N == Cardinality(Stored(table))
           b == IF n <= N THEN n ELSE N
           page == StorePage(table, 1, n)
<1>1. N \in Nat
    BY StoredRows
<1>2. page = {L[i] : i \in 1 .. b}
    <2>1. 0 = (1 - 1) * n /\ 0 <= N /\ b \in Nat /\ 0 <= b /\ b = IF 1 * n <= N THEN 1 * n ELSE N
        BY <1>1
    <2>2. 1 \in Nat /\ 0 \in Nat
        OBVIOUS
    <2>3. \A p, a, to \in Nat :
              /\ a = (p - 1) * n /\ a <= N /\ a <= to /\ to = IF p * n <= N THEN p * n ELSE N
              => StorePage(table, p, n) = {L[i] : i \in a + 1 .. to}
        BY PageHas
    <2> HIDE DEF b, L, N
    <2>4. StorePage(table, 1, n) = {L[i] : i \in 0 + 1 .. b}
        BY <2>1, <2>2, <2>3
    <2> QED
        BY <2>4
<1>3. b \in 0 .. N /\ b = AtMost(n, S)
    BY <1>1 DEF AtMost
<1>4. page \subseteq S /\ Cardinality(page) = b
    <2>1. page = Top(table, b)
        BY <1>2 DEF Top
    <2> HIDE DEF page, b
    <2> QED
        BY <1>3, <2>1, TopHas
<1>5. /\ L \in [1 .. N -> S]
      /\ \A c \in S : \E i \in 1 .. N : L[i] = c
      /\ \A i, j \in 1 .. N : i < j => Later(L[i], L[j])
    BY ListedRows
<1>6. ASSUME NEW x \in page, NEW y \in S \ page
      PROVE  Instant(x) >= Instant(y)
    <2>1. PICK i \in 1 .. b : x = L[i]
        BY <1>2
    <2>2. PICK j \in 1 .. N : y = L[j]
        BY <1>5
    <2>3. j \notin 1 .. b
        BY <1>2, <1>6, <2>2
    <2>4. i \in 1 .. N /\ i < j
        BY <1>1, <1>3, <2>1, <2>2, <2>3
    <2>5. Later(x, y) /\ x \in S /\ y \in S
        BY <1>5, <2>1, <2>2, <2>4
    <2>6. IsClean(Instant(x)) /\ Instant(x) \in Int /\ Instant(y) \in Int
        BY <2>5 DEF IsClean
    <2>7. Text(Instant(x)) \in Int /\ Text(Instant(y)) \in Int
        BY <2>6, TextIsInt
    <2>8. Text(Instant(x)) >= Text(Instant(y))
        BY <2>5, <2>7 DEF Later
    <2>9. Instant(x) < Instant(y) => Text(Instant(x)) < Text(Instant(y))
        BY <2>6, TextGrows
    <2> QED
        BY <2>6, <2>7, <2>8, <2>9
<1> HIDE DEF page, b, S
<1>7. AreNewest(page, S, n)
    BY <1>3, <1>4, <1>6 DEF AreNewest
<1> QED
    BY <1>7 DEF page, S

LEMMA RowsAreClean ==
    ASSUME FiguresOK, BothShow
    PROVE  \A c \in Stored(rows) : IsClean(Instant(c)) /\ Instant(c) \in Int
<1>1. ClocksOK /\ RestOK
    BY DEF FiguresOK
<1>2. plan.at \in Int /\ \A c \in Stored(rows) : Instant(c) \in Past(plan.at)
    BY BothAre
<1>3. \A i \in Past(plan.at) : IsClean(i)
    BY <1>1, <1>2, PastIs
<1> QED
    BY <1>2, <1>3 DEF IsClean

LEMMA RecentsAgree ==
    ASSUME FiguresOK, BothShow
    PROVE  /\ Instants(seed.recent) = Instants(store.recent)
           /\ AreNewest(seed.recent, Stored(rows), RecentLimit)
<1>1. ClocksOK /\ TableOK(rows) /\ IsFiniteSet(Stored(rows)) /\ RecentLimit \in Nat /\ SeedOK
    BY FiguresAssumption, BothAre DEF FiguresOK, BothShow
<1>2. \A c \in Stored(rows) : IsClean(Instant(c)) /\ Instant(c) \in Int
    BY RowsAreClean
<1>3. AreNewest(FirstPage(rows), Stored(rows), RecentLimit)
    BY <1>1, <1>2, PageIsNewest DEF FirstPage
<1>4. AreNewest(seed.recent, Stored(rows), RecentLimit)
    BY <1>1 DEF SeedOK, BothShow
<1>5. store.recent = FirstPage(rows)
    BY DEF FiguresOK, BothShow, StoreOK, First
<1>6. Instants(seed.recent) = Instants(FirstPage(rows))
    <2> DEFINE S == Stored(rows)
    <2>1. IsFiniteSet(S) /\ \A c \in S : Instant(c) \in Int
        BY <1>1, <1>2
    <2>2. AreNewest(FirstPage(rows), S, RecentLimit) /\ AreNewest(seed.recent, S, RecentLimit)
        BY <1>3, <1>4
    <2> HIDE DEF S
    <2> QED
        BY <2>1, <2>2, NewestHaveSameInstants
<1> QED
    BY <1>4, <1>5, <1>6

-----------------------------------------------------------------------------
(* The export                                                              *)

\* A sequence of the elements of T, each of them once.
IsList(s, T) ==
    /\ IsFiniteSet(T) /\ Cardinality(T) \in Nat
    /\ s \in Seq(T) /\ Len(s) = Cardinality(T)
    /\ \A x \in T : \E i \in 1 .. Len(s) : s[i] = x

LEMMA SetListed ==
    ASSUME NEW T, IsFiniteSet(T)
    PROVE  IsList(SetToSeq(T), T)
<1> DEFINE n == Cardinality(T)
           f == SetToSeq(T)
<1>1. n \in Nat /\ ExistsBijection(1 .. n, T)
    BY FS_CardinalityType
<1>2. PICK b : b \in Bijection(1 .. n, T)
    BY <1>1 DEF ExistsBijection
<1>3. b \in [1 .. n -> T] /\ IsInjective(b)
    BY <1>2 DEF Bijection, Injection
<1>4. f \in [1 .. n -> T] /\ IsInjective(f)
    BY <1>3 DEF SetToSeq
<1> HIDE DEF f
<1>5. f \in Surjection(1 .. n, T)
    <2>1. f \in Injection(1 .. n, T)
        BY <1>4 DEF Injection
    <2>2. IsFiniteSet(1 .. n) /\ Cardinality(1 .. n) = n
        BY <1>1, FS_Interval
    <2> QED
        BY <2>1, <2>2, FS_Injection
<1>6. \A x \in T : \E i \in 1 .. n : f[i] = x
    BY <1>5 DEF Surjection
<1>7. f \in Seq(T) /\ Len(f) = n
    BY <1>1, <1>4
<1>8. IsList(f, T)
    BY <1>1, <1>6, <1>7 DEF IsList
<1> QED
    BY <1>8 DEF f

LEMMA ListsJoin ==
    ASSUME NEW s, NEW S, IsList(s, S), NEW t, NEW T, IsList(t, T), S \cap T = {}
    PROVE  IsList(s \o t, S \cup T)
<1> DEFINE U == S \cup T
<1>1. IsFiniteSet(U) /\ Cardinality(U) = Cardinality(S) + Cardinality(T)
    BY UnionCounts DEF IsList
<1>2. s \in Seq(U) /\ t \in Seq(U) /\ Len(s) \in Nat /\ Len(t) \in Nat
    BY DEF IsList
<1>3. /\ s \o t \in Seq(U) /\ Len(s \o t) = Len(s) + Len(t)
      /\ \A i \in 1 .. Len(s) + Len(t) : (s \o t)[i] = IF i <= Len(s) THEN s[i] ELSE t[i - Len(s)]
    BY <1>2, ConcatProperties
<1>4. ASSUME NEW x \in U
      PROVE  \E i \in 1 .. Len(s \o t) : (s \o t)[i] = x
    <2>1. CASE x \in S
        <3>1. PICK i \in 1 .. Len(s) : s[i] = x
            BY <2>1 DEF IsList
        <3>2. i \in 1 .. Len(s) + Len(t) /\ i <= Len(s)
            BY <1>2
        <3> QED
            BY <1>3, <3>1, <3>2
    <2>2. CASE x \in T
        <3>1. PICK i \in 1 .. Len(t) : t[i] = x
            BY <2>2 DEF IsList
        <3>2. i + Len(s) \in 1 .. Len(s) + Len(t) /\ ~(i + Len(s) <= Len(s)) /\ i + Len(s) - Len(s) = i
            BY <1>2
        <3> QED
            BY <1>3, <3>1, <3>2
    <2> QED
        BY <2>1, <2>2
<1>5. Cardinality(U) \in Nat /\ Len(s \o t) = Cardinality(U)
    BY <1>1, <1>3 DEF IsList
<1> HIDE DEF U
<1>6. IsList(s \o t, U)
    BY <1>1, <1>3, <1>4, <1>5 DEF IsList
<1> QED
    BY <1>6 DEF U

FlatFrom(q, f, i) == IF i = 1 THEN q[i] ELSE f[i - 1] \o q[i]

LEMMA FlatExists ==
    ASSUME NEW q, NEW k \in Nat
    PROVE  \E f : f = [i \in 1 .. k |-> FlatFrom(q, f, i)]
<1> DEFINE K == {m \in Nat : \E f : f = [i \in 1 .. m |-> FlatFrom(q, f, i)]}
<1>1. 0 \in K
    <2> DEFINE f == [i \in 1 .. 0 |-> q[i]]
    <2>1. f = [i \in 1 .. 0 |-> FlatFrom(q, f, i)]
        OBVIOUS
    <2> QED
        BY <2>1
<1>2. ASSUME NEW m \in Nat, m \in K
      PROVE  m + 1 \in K
    <2>1. PICK f : f = [i \in 1 .. m |-> FlatFrom(q, f, i)]
        BY <1>2
    <2> DEFINE g == [i \in 1 .. m + 1 |-> FlatFrom(q, f, i)]
    <2>2. ASSUME NEW i \in 1 .. m + 1
          PROVE  g[i] = FlatFrom(q, g, i)
        <3>1. CASE i = 1
            BY <3>1 DEF FlatFrom
        <3>2. CASE i # 1
            <4>1. i - 1 \in 1 .. m /\ i - 1 \in 1 .. m + 1
                BY <3>2
            <4>2. f[i - 1] = FlatFrom(q, f, i - 1)
                BY <2>1, <4>1
            <4>3. g[i - 1] = f[i - 1]
                BY <4>1, <4>2
            <4>4. g[i] = f[i - 1] \o q[i]
                BY <3>2 DEF FlatFrom
            <4> HIDE DEF g
            <4> QED
                BY <3>2, <4>3, <4>4 DEF FlatFrom
        <3> QED
            BY <3>1, <3>2
    <2>3. g = [i \in 1 .. m + 1 |-> FlatFrom(q, g, i)]
        <3> DEFINE h == [i \in 1 .. m + 1 |-> FlatFrom(q, g, i)]
        <3>1. DOMAIN g = DOMAIN h /\ \A i \in DOMAIN g : g[i] = h[i]
            BY <2>2
        <3> QED
            BY <3>1
    <2> HIDE DEF g
    <2> QED
        BY <2>3
<1>3. Nat \subseteq K
    <2> HIDE DEF K
    <2> QED
        BY <1>1, <1>2, NatSteps
<1> QED
    BY <1>3

FlatOf(q) == CHOOSE f : f = [i \in 1 .. Len(q) |-> FlatFrom(q, f, i)]

LEMMA FlattenIs ==
    ASSUME NEW q, Len(q) \in Nat \ {0}
    PROVE  /\ FlattenSeq(q) = FlatOf(q)[Len(q)]
           /\ FlatOf(q)[1] = q[1]
           /\ \A i \in 2 .. Len(q) : FlatOf(q)[i] = FlatOf(q)[i - 1] \o q[i]
<1> DEFINE f == FlatOf(q)
<1>1. FlattenSeq(q) = f[Len(q)]
    BY DEF FlattenSeq, FlatOf, FlatFrom
<1>2. f = [i \in 1 .. Len(q) |-> FlatFrom(q, f, i)]
    BY FlatExists DEF FlatOf
<1> HIDE DEF f
<1>3. \A i \in 1 .. Len(q) : f[i] = FlatFrom(q, f, i)
    BY <1>2
<1>4. f[1] = q[1]
    BY <1>3 DEF FlatFrom
<1>5. ASSUME NEW i \in 2 .. Len(q)
      PROVE  f[i] = f[i - 1] \o q[i]
    <2>1. i \in 1 .. Len(q) /\ i # 1
        OBVIOUS
    <2> QED
        BY <1>3, <2>1 DEF FlatFrom
<1> QED
    BY <1>1, <1>4, <1>5 DEF f

\* The pieces are lists of disjoint sets: the flattened sequence is one of their union.
LEMMA FlattenLists ==
    ASSUME NEW n \in Nat \ {0}, NEW C, NEW q, Len(q) = n,
           \A i \in 1 .. n : IsList(q[i], C[i]),
           \A i, j \in 1 .. n : \A c : c \in C[i] /\ c \in C[j] => i = j
    PROVE  IsList(FlattenSeq(q), UNION {C[i] : i \in 1 .. n})
<1> DEFINE f == FlatOf(q)
           U(k) == UNION {C[i] : i \in 1 .. k}
           K == {k \in Nat : k < n => IsList(f[k + 1], U(k + 1))}
<1>1. /\ FlattenSeq(q) = f[n] /\ f[1] = q[1]
      /\ \A i \in 2 .. n : f[i] = f[i - 1] \o q[i]
    BY FlattenIs
<1> HIDE DEF f
<1>2. 0 \in K
    <2>1. U(1) = C[1]
        OBVIOUS
    <2>2. IsList(f[1], U(1))
        <3>1. 1 \in 1 .. n
            OBVIOUS
        <3>2. IsList(q[1], C[1])
            BY <3>1
        <3> HIDE DEF U
        <3> QED
            BY <1>1, <2>1, <3>2
    <2> QED
        BY <2>2
<1>3. ASSUME NEW k \in Nat, k \in K
      PROVE  k + 1 \in K
    <2> SUFFICES ASSUME k + 1 < n PROVE IsList(f[k + 1 + 1], U(k + 1 + 1))
        OBVIOUS
    <2>1. k < n /\ k + 2 \in 2 .. n /\ k + 2 \in 1 .. n /\ k + 2 - 1 = k + 1 /\ k + 1 + 1 = k + 2
        OBVIOUS
    <2>2. f[k + 2] = f[k + 1] \o q[k + 2]
        <3> DEFINE j == k + 2
        <3>1. j \in 2 .. n
            BY <2>1
        <3>2. j - 1 = k + 1
            BY <2>1
        <3> HIDE DEF j
        <3>3. f[j] = f[j - 1] \o q[j]
            BY <1>1, <3>1
        <3>4. f[j] = f[k + 1] \o q[j]
            BY <3>2, <3>3
        <3> QED
            BY <3>4 DEF j
    <2>3. IsList(f[k + 1], U(k + 1)) /\ IsList(q[k + 2], C[k + 2])
        BY <1>3, <2>1
    <2>4. U(k + 2) = U(k + 1) \cup C[k + 2]
        <3>1. 1 .. k + 2 = (1 .. k + 1) \cup {k + 2}
            OBVIOUS
        <3> QED
            BY <3>1
    <2>5. U(k + 1) \cap C[k + 2] = {}
        <3>1. ASSUME NEW c, c \in U(k + 1), c \in C[k + 2] PROVE FALSE
            <4>1. PICK i \in 1 .. k + 1 : c \in C[i]
                BY <3>1
            <4>2. i \in 1 .. n /\ i # k + 2
                BY <2>1
            <4> QED
                BY <2>1, <3>1, <4>1, <4>2
        <3> QED
            BY <3>1
    <2> HIDE DEF U
    <2>6. IsList(f[k + 1] \o q[k + 2], U(k + 1) \cup C[k + 2])
        BY <2>3, <2>5, ListsJoin
    <2> QED
        BY <2>1, <2>2, <2>4, <2>6
<1>4. Nat \subseteq K
    <2> HIDE DEF K
    <2> QED
        BY <1>2, <1>3, NatSteps
<1>5. n - 1 \in Nat /\ n - 1 + 1 = n /\ n - 1 < n
    OBVIOUS
<1>6. IsList(f[n], U(n))
    <2>1. n - 1 \in K
        <3> HIDE DEF K
        <3> QED
            BY <1>4, <1>5
    <2>2. IsList(f[n - 1 + 1], U(n - 1 + 1))
        BY <1>5, <2>1
    <2> QED
        BY <1>5, <2>2
<1> QED
    BY <1>1, <1>6

LEMMA WholePage ==
    ASSUME NEW list, NEW T, IsList(list, T), NEW n \in Nat, Cardinality(T) <= n
    PROVE  PageOf(list, 1, n) = T
<1> DEFINE b == Len(list)
           s == SubSeq(list, 1, b)
<1>1. list \in Seq(T) /\ b \in Nat /\ b <= n
    BY DEF IsList
<1>2. Min({1 * n, b}) = b /\ (1 - 1) * n + 1 = 1
    <2>1. 1 * n \in Int /\ b \in Int /\ (1 * n <= b => 1 * n = b)
        BY <1>1
    <2> HIDE DEF b
    <2> QED
        BY <2>1, MinOfTwo
<1>3. PageOf(list, 1, n) = Range(s)
    BY <1>2 DEF PageOf
<1>4. s = list
    BY <1>1
<1>5. Range(list) = {list[i] : i \in 1 .. b}
    BY <1>1 DEF Range
<1>6. \A i \in 1 .. b : list[i] \in T
    BY <1>1
<1>7. \A x \in T : \E i \in 1 .. b : list[i] = x
    BY DEF IsList
<1> HIDE DEF s, b
<1> QED
    BY <1>3, <1>4, <1>5, <1>6, <1>7

\* The chunks of the manifest have every published copy once.
LEMMA ExportedIs ==
    ASSUME Complete, Len(sums) = Windows
    PROVE  IsList(Exported, Published)
<1> DEFINE q == [i \in 1 .. Len(sums) |-> SetToSeq(chunks[plan.from + (i - 1) * ChunkDays])]
           C == [i \in 1 .. Windows |-> chunks[StartOf(i)]]
<1>1. Windows \in Nat \ {0}
    BY WindowsDivide DEF Complete
<1>2. Len(q) = Windows
    BY <1>1
<1>3. /\ Published = UNION {chunks[StartOf(i)] : i \in 1 .. Windows}
      /\ \A i \in 1 .. Windows : IsFiniteSet(chunks[StartOf(i)])
      /\ \A i, j \in 1 .. Windows : \A c : c \in chunks[StartOf(i)] /\ c \in chunks[StartOf(j)] => i = j
    BY PublishedIs
<1>4. ASSUME NEW i \in 1 .. Windows
      PROVE  IsList(q[i], C[i])
    <2>1. q[i] = SetToSeq(C[i])
        BY <1>1 DEF StartOf
    <2>2. IsFiniteSet(C[i])
        BY <1>3
    <2> HIDE DEF q, C
    <2> QED
        BY <2>1, <2>2, SetListed
<1>5. \A i, j \in 1 .. Windows : \A c : c \in C[i] /\ c \in C[j] => i = j
    BY <1>3
<1>6. UNION {C[i] : i \in 1 .. Windows} = Published
    BY <1>3
<1>7. FlattenSeq(q) = Exported
    BY DEF Exported
<1> HIDE DEF q, C
<1>8. IsList(FlattenSeq(q), UNION {C[i] : i \in 1 .. Windows})
    BY <1>1, <1>2, <1>4, <1>5, FlattenLists
<1> QED
    BY <1>6, <1>7, <1>8

\* The newest of the newest are the newest of all.
LEMMA NewestOfFirst ==
    ASSUME NEW S, IsFiniteSet(S), NEW m \in Nat, NEW recent, AreNewest(recent, S, m),
           NEW n \in Nat, n <= Cardinality(recent), NEW s, AreNewest(s, recent, n)
    PROVE  AreNewest(s, S, n)
<1>1. recent \subseteq S /\ s \subseteq recent
    BY DEF AreNewest
<1>2. Cardinality(S) \in Nat /\ Cardinality(recent) \in Nat /\ Cardinality(recent) <= Cardinality(S)
    BY <1>1, PartCounts
<1>3. Cardinality(s) = AtMost(n, S)
    BY <1>2 DEF AreNewest, AtMost
<1>4. ASSUME NEW x \in s, NEW y \in S \ s PROVE Instant(x) >= Instant(y)
    BY <1>1 DEF AreNewest
<1> QED
    BY <1>1, <1>3, <1>4 DEF AreNewest

LEMMA PagesAgree ==
    ASSUME FiguresOK, BothShow, NEW n \in 1 .. RecentLimit
    PROVE  Instants(SeedPage(1, n)) = Instants(StorePage(rows, 1, n))
<1> DEFINE S == Stored(rows)
           recent == seed.recent
<1>1. /\ ClocksOK /\ TableOK(rows) /\ IsFiniteSet(S) /\ S = Published /\ Complete
      /\ RecentLimit \in Nat /\ n \in Nat
    BY FiguresAssumption, BothAre DEF FiguresOK, BothShow
<1>2. \A c \in S : IsClean(Instant(c)) /\ Instant(c) \in Int
    BY RowsAreClean
<1>3. AreNewest(recent, S, RecentLimit)
    BY RecentsAgree
<1>4. AreNewest(StorePage(rows, 1, n), S, n)
    BY <1>1, <1>2, PageIsNewest
<1>5. SeedPayload.recent = recent
    BY PayloadIs DEF FiguresOK, BothShow, SeedIsPublished
<1>6. IsFiniteSet(recent) /\ recent \subseteq S /\ Cardinality(recent) \in Nat /\ Cardinality(S) \in Nat
    <2>1. recent \subseteq S
        BY <1>3 DEF AreNewest
    <2> HIDE DEF S, recent
    <2> QED
        BY <1>1, <2>1, PartCounts
<1>7. CASE n <= Cardinality(recent)
    <2>1. SeedPage(1, n) = Newest(recent, n)
        BY <1>5, <1>7 DEF SeedPage
    <2>2. \A c \in recent : Instant(c) \in Int
        BY <1>2, <1>6
    <2> HIDE DEF S, recent
    <2>3. AreNewest(Newest(recent, n), recent, n)
        BY <1>1, <1>6, <2>2, NewestAre
    <2>4. AreNewest(Newest(recent, n), S, n)
        BY <1>1, <1>3, <1>7, <2>3, NewestOfFirst
    <2>5. Instants(Newest(recent, n)) = Instants(StorePage(rows, 1, n))
        BY <1>1, <1>2, <1>4, <2>4, NewestHaveSameInstants
    <2> QED
        BY <2>1, <2>5
<1>8. CASE ~(n <= Cardinality(recent))
    <2>1. SeedPage(1, n) = PageOf(Exported, 1, n)
        BY <1>5, <1>8 DEF SeedPage
    <2>2. IsList(Exported, S)
        <3>1. Len(sums) = Windows
            BY DEF FiguresOK, BothShow, SeedIsPublished, RefreshOK, JobOK
        <3> QED
            BY <1>1, <3>1, ExportedIs
    <2> HIDE DEF S, recent
    <2>3. Cardinality(S) <= n
        BY <1>1, <1>3, <1>6, <1>8 DEF AreNewest, AtMost
    <2>4. PageOf(Exported, 1, n) = S
        BY <1>1, <2>2, <2>3, WholePage
    <2>5. AreNewest(S, S, n)
        BY <1>1, <1>6, <2>3 DEF AreNewest, AtMost
    <2>6. Instants(S) = Instants(StorePage(rows, 1, n))
        BY <1>1, <1>2, <1>4, <2>5, NewestHaveSameInstants
    <2> QED
        BY <2>1, <2>4, <2>6
<1> QED
    BY <1>7, <1>8

-----------------------------------------------------------------------------
(* The totals of both modes                                                *)

LEMMA TopTotals ==
    ASSUME FiguresOK, BothShow, NEW n \in 1 .. RankLimit
    PROVE  /\ Total(SeedTop(n)) = Total(PublicTop(rows, n))
           /\ Total(SeedRanked(n)) = Total(PublicTop(rows, n))
<1> DEFINE G == Grouped(rows)
           R == TopItems(G, RankLimit)
<1>1. seed.ranked = R /\ seed.top = R /\ AreCounts(G)
    BY SeedLabels
<1>2. SeedPayload.ranked = seed.ranked /\ SeedPayload.top = LargerRanking(seed.ranked, seed.top)
    BY PayloadIs DEF FiguresOK, BothShow, SeedIsPublished
<1>3. LargerRanking(seed.ranked, seed.top) = seed.ranked \/ LargerRanking(seed.ranked, seed.top) = seed.top
    BY DEF LargerRanking
<1>4. SeedPayload.ranked = R /\ SeedPayload.top = R
    BY <1>1, <1>2, <1>3
<1>5. n \in Nat /\ RankLimit \in Nat /\ n <= RankLimit
    BY FiguresAssumption
<1> HIDE DEF G
<1>6. Total(TopItems(R, n)) = Total(TopItems(G, n))
    BY <1>1, <1>5, TopOfTop
<1>7. SeedTop(n) = TopItems(R, n) /\ SeedRanked(n) = TopItems(R, n) /\ PublicTop(rows, n) = TopItems(G, n)
    BY <1>4 DEF SeedTop, SeedRanked, PublicTop, G
<1> QED
    BY <1>6, <1>7

LEMMA TotalOf ==
    ASSUME NEW h, NEW S
    PROVE  LET part == Restrict(h, S)
           IN  /\ DOMAIN part = S /\ \A x \in S : part[x] = h[x]
               /\ Total(part) = SumOf(part, S)[S]
BY SumsAre DEF Restrict

LEMMA DayTotals ==
    ASSUME FiguresOK, BothShow, NEW first \in plan.from .. plan.to, NEW last \in plan.from .. plan.to
    PROVE  Total(SeedDailyStats(first, last)) <= Total(DailyStats(daily, first, last))
<1> DEFINE S == first .. last
           T == {d \in first .. last : daily[d] > 0}
           f == Restrict(seed.trend, S)
           g == Restrict(daily, T)
<1>1. plan.from \in Nat /\ plan.to \in Nat
    BY BothAre
<1>2. /\ seed.trend = [d \in plan.from .. plan.to |-> Cardinality({c \in Stored(rows) : DayOf(Instant(c)) = d})]
      /\ plan.from .. plan.to \subseteq Days
    BY TrendCounts
<1>3. S \subseteq plan.from .. plan.to /\ IsFiniteSet(S) /\ T \subseteq S
    <2>1. first \in Int /\ last \in Int
        BY <1>1
    <2>2. IsFiniteSet(S)
        BY <2>1, FS_Interval
    <2> QED
        BY <1>1, <2>2
<1>4. SeedDailyStats(first, last) = f
    <2>1. SeedPayload.trend = seed.trend
        BY PayloadIs DEF FiguresOK, BothShow, SeedIsPublished
    <2>2. S \cap DOMAIN seed.trend = S
        BY <1>2, <1>3
    <2> QED
        BY <2>1, <2>2 DEF SeedDailyStats
<1>5. DailyStats(daily, first, last) = g
    BY DEF DailyStats
<1>6. Total(f) = SumOf(f, S)[S] /\ Total(g) = SumOf(g, T)[T]
    BY TotalOf
<1>7. (\A d \in S : f[d] = seed.trend[d]) /\ \A d \in T : g[d] = daily[d]
    BY TotalOf
<1>8. \A d \in S : seed.trend[d] \in Nat /\ daily[d] \in Nat
    <2>1. SUFFICES ASSUME NEW d \in S PROVE seed.trend[d] \in Nat /\ daily[d] \in Nat
        OBVIOUS
    <2> DEFINE C == {c \in Stored(rows) : DayOf(Instant(c)) = d}
    <2>2. IsFiniteSet(Stored(rows)) /\ C \subseteq Stored(rows)
        BY BothAre DEF BothShow
    <2>3. Cardinality(C) \in Nat
        BY <2>2, PartCounts
    <2>4. seed.trend[d] = Cardinality(C) /\ d \in Days
        BY <1>2, <1>3
    <2>5. daily[d] \in Nat
        BY <2>4 DEF FiguresOK, StorePanelOK
    <2> QED
        BY <2>3, <2>4, <2>5
<1>9. \A d \in S : seed.trend[d] > 0 => daily[d] = seed.trend[d]
    BY <1>3, StoreTrend
<1>10. \A d \in S : f[d] \in Int
    BY <1>7, <1>8
<1>11. \A d \in T : g[d] \in Int /\ f[d] <= g[d]
    <2>1. SUFFICES ASSUME NEW d \in T PROVE daily[d] \in Int /\ seed.trend[d] <= daily[d]
        BY <1>3, <1>7
    <2>2. d \in S
        BY <1>3
    <2> QED
        BY <1>8, <1>9, <2>2
<1>12. \A d \in S \ T : f[d] <= 0
    <2>1. SUFFICES ASSUME NEW d \in S \ T PROVE seed.trend[d] <= 0
        BY <1>7
    <2>2. ~(daily[d] > 0)
        OBVIOUS
    <2> QED
        BY <1>8, <1>9, <2>2
<1> HIDE DEF f, g, S, T
<1>13. SumOf(f, S)[S] <= SumOf(g, T)[T]
    BY <1>3, <1>10, <1>11, <1>12, SumNotOver
<1> QED
    BY <1>4, <1>5, <1>6, <1>13

\* All labels of some rows are no more than the rows, and count those that have one.
LEMMA LabelsTotal ==
    ASSUME NEW C, IsFiniteSet(C), NEW n \in Nat, Cardinality(C) <= n
    PROVE  Total(TopItems(Known(LabelCounts(C)), n)) = Cardinality({c \in C : LabelOf[Number(c)] # Unknown})
<1> DEFINE L == LabelCounts(C)
           K == Known(L)
           D == DOMAIN K
           g == [c \in C |-> LabelOf[Number(c)]]
           labels == {LabelOf[Number(c)] : c \in C}
<1>1. /\ IsFiniteSet(DOMAIN L) /\ \A l \in DOMAIN L : L[l] \in Int
      /\ IsFiniteSet(D) /\ D = DOMAIN L \ {Unknown}
      /\ \A l \in D : K[l] = L[l]
    BY LabelsAreCounts
<1>2. DOMAIN L = labels /\ \A l \in labels : L[l] = Cardinality({c \in C : LabelOf[Number(c)] = l})
    BY DEF LabelCounts
<1>3. Cardinality(D) <= n
    <2>1. g \in Surjection(C, labels)
        BY DEF Surjection
    <2>2. IsFiniteSet(labels) /\ Cardinality(labels) <= Cardinality(C)
        <3> HIDE DEF g, labels
        <3> QED
            BY <2>1, FS_Surjection
    <2>3. D \subseteq labels
        BY <1>1, <1>2
    <2>4. Cardinality(C) \in Nat
        BY FS_CardinalityType
    <2> HIDE DEF D, labels
    <2>5. Cardinality(D) <= Cardinality(labels) /\ Cardinality(D) \in Nat /\ Cardinality(labels) \in Nat
        BY <2>2, <2>3, PartCounts
    <2> QED
        BY <2>2, <2>4, <2>5
<1>4. IsFun(K)
    BY DEF IsFun, Known
<1>5. AreCounts(K)
    BY <1>1, <1>4 DEF AreCounts
<1>6. Total(TopItems(K, n)) = SumOf(K, D)[D]
    <2> HIDE DEF K
    <2>1. Total(TopItems(K, n)) = SumOf(K, D)[DOMAIN TopItems(K, n)]
        BY <1>5, TopIs
    <2>2. DOMAIN TopItems(K, n) = D
        BY <1>3, <1>5, TopAre DEF AreCounts
    <2> QED
        BY <2>1, <2>2
<1>7. AreSizes(K, D, C, g)
    <2>1. \A l : {c \in C : g[c] = l} = {c \in C : LabelOf[Number(c)] = l}
        OBVIOUS
    <2>2. \A l \in D : l \in labels /\ K[l] = L[l]
        BY <1>1, <1>2
    <2> HIDE DEF g, K, L, labels
    <2> QED
        BY <1>2, <2>1, <2>2 DEF AreSizes
<1>8. {c \in C : g[c] \in D} = {c \in C : LabelOf[Number(c)] # Unknown}
    <2>1. \A c \in C : g[c] \in labels /\ g[c] = LabelOf[Number(c)]
        OBVIOUS
    <2>2. D = labels \ {Unknown}
        BY <1>1, <1>2
    <2> HIDE DEF g, D, labels
    <2> QED
        BY <2>1, <2>2
<1> HIDE DEF K, D, g
<1>9. SumOf(K, D)[D] = Cardinality({c \in C : g[c] \in D})
    BY <1>1, <1>7, SumCounts
<1> QED
    BY <1>6, <1>8, <1>9 DEF K

LEMMA TopStatsTotal ==
    ASSUME FiguresOK, BothShow
    PROVE  Total(TopStats(rows, ShortDays, Cardinality(Records))) =
           Cardinality({c \in Published : /\ LabelOf[Number(c)] # Unknown
                                          /\ DayOf(Instant(c)) >= WindowStart(clock, ShortDays + 1)})
<1> DEFINE S == Stored(rows)
           ws == WindowStart(clock, ShortDays + 1)
           C == {c \in S : Text(Instant(c)) >= StartOfDay(ws)}
<1>1. ClocksOK /\ TableOK(rows) /\ IsFiniteSet(S) /\ S = Published /\ clock \in Int /\ ShortDays \in Nat /\ PerDay \in Nat
    BY FiguresAssumption, BothAre DEF FiguresOK, BothShow, RefreshOK, ClockOK
<1>2. ws \in Int
    <2>1. ASSUME NEW days \in Int PROVE WindowStart(clock, days) \in Int
        <3> DEFINE i == clock - (days - 1) * PerDay
        <3>1. i \in Int /\ i <= i
            BY <1>1
        <3>2. WindowStart(clock, days) = DayOf(i)
            BY DEF WindowStart
        <3> HIDE DEF i
        <3> QED
            BY <1>1, <3>1, <3>2, WallGrows
    <2> DEFINE days == ShortDays + 1
    <2>2. days \in Int
        BY <1>1
    <2> HIDE DEF days
    <2>3. WindowStart(clock, days) \in Int
        BY <2>1, <2>2
    <2> QED
        BY <2>3 DEF days
<1>3. \A c \in S : Text(Instant(c)) >= StartOfDay(ws) <=> DayOf(Instant(c)) >= ws
    <2>1. SUFFICES ASSUME NEW c \in S PROVE Text(Instant(c)) >= StartOfDay(ws) <=> DayOf(Instant(c)) >= ws
        OBVIOUS
    <2> DEFINE i == Instant(c)
    <2>2. i \in Int
        BY RowsAreClean
    <2> HIDE DEF i, ws
    <2>3. StartOfDay(ws) <= Text(i) <=> ws <= DayOf(i)
        BY <1>1, <1>2, <2>2, TextDays
    <2>4. Text(i) \in Int /\ StartOfDay(ws) \in Int /\ i <= i
        BY <1>1, <1>2, <2>2, TextIsInt, BoundsAreInts
    <2>5. DayOf(i) \in Int
        BY <1>1, <2>2, <2>4, WallGrows
    <2>6. Text(i) >= StartOfDay(ws) <=> DayOf(i) >= ws
        BY <1>2, <2>3, <2>4, <2>5
    <2> QED
        BY <2>6 DEF i
<1>4. C = {c \in S : DayOf(Instant(c)) >= ws}
    BY <1>3
<1>5. IsFiniteSet(C) /\ Cardinality(C) <= Cardinality(Records) /\ Cardinality(Records) \in Nat
    <2>1. C \subseteq S
        OBVIOUS
    <2>2. Cardinality(S) <= Cardinality(Records) /\ Cardinality(S) \in Nat /\ Cardinality(Records) \in Nat
        BY <1>1, StoredRows
    <2> HIDE DEF C, S
    <2>3. IsFiniteSet(C) /\ Cardinality(C) <= Cardinality(S) /\ Cardinality(C) \in Nat
        BY <1>1, <2>1, PartCounts
    <2> QED
        BY <2>2, <2>3
<1>6. TopStats(rows, ShortDays, Cardinality(Records)) = TopItems(Known(LabelCounts(C)), Cardinality(Records))
    BY DEF TopStats
<1>7. Total(TopItems(Known(LabelCounts(C)), Cardinality(Records))) = Cardinality({c \in C : LabelOf[Number(c)] # Unknown})
    <2> HIDE DEF C
    <2> QED
        BY <1>5, LabelsTotal
<1>8. {c \in C : LabelOf[Number(c)] # Unknown} = {c \in S : LabelOf[Number(c)] # Unknown /\ DayOf(Instant(c)) >= ws}
    BY <1>4
<1> QED
    BY <1>1, <1>6, <1>7, <1>8

-----------------------------------------------------------------------------
(* The modes                                                               *)

LEMMA ModesShow ==
    ASSUME FiguresOK
    PROVE  ModesAgree
<1> SUFFICES ASSUME BothShow PROVE ModesAgree
    BY DEF ModesAgree, BothShow
<1>1. /\ \A f \in DOMAIN seed.counts \ {"last24h"} : seed.counts[f] = store.counts[f]
      /\ \/ seed.counts.last24h = store.counts.last24h
         \/ Offset(seed.at) # Offset(seed.at - PerDay)
         \/ \E c \in Published : Instant(c) = seed.at - PerDay
    BY CountsAgree
<1>2. DayOf(clock) = DayOf(seed.at) => LiveStats(rows) = SeedLiveStats
    BY LiveStatsAgree
<1>3. /\ seed.ranked = store.ranked
      /\ \A l \in DOMAIN seed.charted : seed.charted[l] = store.charted[l]
      /\ \A l \in DOMAIN seed.ranked : Browsed(rows)[l] = seed.ranked[l]
      /\ \A l \in DOMAIN seed.charted : BrowsedSuburbs(rows)[l] = seed.charted[l]
    BY RankingsAgree
<1>4. \A d \in DOMAIN seed.trend :
          seed.trend[d] > 0 => d \in DOMAIN store.trend /\ store.trend[d] = seed.trend[d]
    BY TrendsAgree
<1>5. Instants(seed.recent) = Instants(store.recent)
    BY RecentsAgree
<1>6. \/ seed.pace.current = store.pace.current
      \/ DayOf(clock) > DayOf(seed.at) \/ ~WindowIsExact(seed.at, ShortDays)
    BY PacesAgree
<1>7. \A n \in 1 .. RankLimit : /\ Total(SeedTop(n)) = Total(PublicTop(rows, n))
                                /\ Total(SeedRanked(n)) = Total(PublicTop(rows, n))
    BY TopTotals
<1>8. \A n \in 1 .. RecentLimit : Instants(SeedPage(1, n)) = Instants(StorePage(rows, 1, n))
    BY PagesAgree
<1>9. \A first, last \in plan.from .. plan.to :
          Total(SeedDailyStats(first, last)) <= Total(DailyStats(daily, first, last))
    BY DayTotals
<1>10. Total(TopStats(rows, ShortDays, Cardinality(Records))) =
           Cardinality({c \in Published : /\ LabelOf[Number(c)] # Unknown
                                          /\ DayOf(Instant(c)) >= WindowStart(clock, ShortDays + 1)})
    BY TopStatsTotal
<1> QED
    BY <1>1, <1>2, <1>3, <1>4, <1>5, <1>6, <1>7, <1>8, <1>9, <1>10 DEF ModesAgree

\* The snapshot a refresh merges and the one the store assembles of the same records at
\* the same instant have the same live figures, rankings, charts, days and newest
\* records, and what the API computes in either mode agrees: a record's day and month
\* are the same in JavaScript as in the order of the texts whatever the clocks do, its
\* place in the last 24 hours and among the newest as long as they did not change.
THEOREM ModesShowTheSame == Spec => []ModesAgree
<1> DEFINE Inv == /\ RefreshOK /\ SeedPanelOK /\ SeedPaceOK
                  /\ StoreOK /\ StorePanelOK /\ StoreFiguresOK /\ PastOK
                  /\ LegacyOK /\ HccOK /\ summer \in Summers
<1>1. Init => Inv
    <2> SUFFICES ASSUME Init PROVE Inv
        OBVIOUS
    <2>1. summer \in Summers /\ pc = "idle" /\ seed = NoSnapshot
        BY DEF Init
    <2>2. ClocksOK
        BY <2>1, ClocksHold
    <2>3. SeedPanelOK /\ SeedPaceOK
        BY <2>1 DEF SeedPanelOK, SeedPaceOK
    <2> QED
        BY <2>1, <2>2, <2>3, RefreshInit, StoreInit, StorePanelInit, StoreFiguresInit, PastInit, LegacyInit, HccInit
<1>2. Inv /\ [Next]_vars => Inv'
    <2> SUFFICES ASSUME Inv, [Next]_vars PROVE Inv'
        OBVIOUS
    <2>1. ClocksOK /\ ClockOK
        BY ClocksHold DEF RefreshOK
    <2>2. RefreshOK'
        BY <2>1, RefreshStep
    <2>3. SeedPanelOK'
        BY <2>1, SeedPanelStep
    <2>4. SeedPaceOK'
        BY <2>1, <2>2, PaceStep
    <2>5. StoreOK'
        BY <2>1, StoreStep
    <2>6. StorePanelOK'
        BY <2>1, <2>5, StorePanelStep
    <2>7. StoreFiguresOK'
        BY <2>1, StoreFiguresStep
    <2>8. PastOK'
        BY <2>1, <2>5, PastStep
    <2>9. LegacyOK' /\ HccOK' /\ (summer \in Summers)'
        BY LegacyStep, HccStep, ClocksStay
    <2> QED
        BY <2>2, <2>3, <2>4, <2>5, <2>6, <2>7, <2>8, <2>9
<1>3. Inv => ModesAgree
    <2> SUFFICES ASSUME Inv PROVE ModesAgree
        OBVIOUS
    <2>1. ClocksOK /\ RestOK
        BY ClocksHold, RestHolds
    <2>2. FiguresOK
        BY <2>1 DEF FiguresOK
    <2> QED
        BY <2>2, ModesShow
<1> QED
    BY <1>1, <1>2, <1>3, PTL DEF Spec

-----------------------------------------------------------------------------
(* The map                                                                 *)

CONSTANTS StreetOf, Roads, PatternOf, Similar, Pool, MapLimit, BatchSize, LimitOf, Rows0, MaxRows,
          Growing, MaxTroubles

VARIABLES count, runs, cronRan, script, troubles

Map == INSTANCE Geocoding

\* location_cache has a geometry, or none, for every entry.
EveryEntry == geometry = [e \in Entries |-> geometry[e]]

\* A run writes a geometry with roads, or leaves it as it is.
LEMMA WritesKeep ==
    ASSUME EveryEntry, NEW r \in Map!RunNames, Map!Writes(r)
    PROVE  EveryEntry' /\ \A e \in Entries : geometry[e] # {} => geometry'[e] # {}
<1>1. PICK p \in runs[r].todo :
          IF runs[r].found[StreetOf[p]] # {} THEN Map!Saved(p, runs[r].found[StreetOf[p]])
          ELSE Map!Failed(p)
    BY DEF Map!Writes
<1>2. \/ UNCHANGED geometry
      \/ \E roads : roads # {} /\ geometry' = [geometry EXCEPT ![EntryOf[p]] = roads]
    BY <1>1 DEF Map!Saved, Map!Failed
<1> QED
    BY <1>2 DEF EveryEntry

\* Whatever else happens leaves the geometry alone.
LEMMA OthersKeep ==
    ASSUME [Map!Next]_Map!vars, ~ \E r \in Map!RunNames : Map!Writes(r)
    PROVE  UNCHANGED geometry
BY DEF Map!Next, Map!CronBegins, Map!VisitorBegins, Map!ScriptStarts, Map!ScriptAsks, Map!DayPasses,
       Map!Answers, Map!Returns, Map!Dies, Map!Ingests, Map!Cache, Map!vars

LEMMA KeepsEntries == Map!Spec => []EveryEntry
<1>1. Map!Init => EveryEntry
    BY DEF Map!Init, Map!Entries, Entries, EveryEntry
<1>2. EveryEntry /\ [Map!Next]_Map!vars => EveryEntry'
    BY WritesKeep, OthersKeep DEF EveryEntry
<1> QED
    BY <1>1, <1>2, PTL DEF Map!Spec

\* A street that is on the map (readMapPoints) stays there: markGeocodeFailed keeps a
\* geometry that another run has saved since.
THEOREM MapKeepsStreets == Map!Spec => StaysOnMap
<1>1. EveryEntry /\ [Map!Next]_Map!vars => [\A e \in Entries : geometry[e] # {} => geometry'[e] # {}]_Cache
    BY WritesKeep, OthersKeep
<1> QED
    BY <1>1, KeepsEntries, PTL DEF Map!Spec, StaysOnMap
=============================================================================
