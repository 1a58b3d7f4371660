----------------------- MODULE SeedPublication_proofs -----------------------
(***************************************************************************)
(* Theorems about SeedPublication, for any records, range, calendar and    *)
(* number of jobs, interruptions and amendments.                           *)
(*                                                                         *)
(* A finalization is cut short nowhere for good (RetriedFinalize): else    *)
(* the cursor misses what the snapshot counted, as PublicationFinalize     *)
(* shows.  A job may be planned without the cursor, or without the         *)
(* manifest, that R2 holds.                                                *)
(*                                                                         *)
(* What a job has published is tied to its plan and summaries, which do    *)
(* not change from the first write of its finalization on, however often   *)
(* that is interrupted: this is what makes a repeated finalization write   *)
(* the same, and what the cursor must make up for is known at every step.  *)
(***************************************************************************)
EXTENDS SeedPublication, FiniteSetTheorems, FunctionTheorems, WellFoundedInduction, TLAPS

\* No finalization is given up for good.
RetriedFinalize == "finalize" \notin Faults

Finalizing == pc \in {"snapshot", "manifest", "cursor"}

\* Jobs are numbered, and a snapshot names a job there was.
SnapshotOfJob ==
    /\ jobs \in Nat
    /\ snapshot # None => snapshot.at \in Nat /\ snapshot.at <= jobs

\* From the first write of finalization on, whatever is interrupted, plan and
\* summaries are those the snapshot was computed from.
SnapshotIsFinal ==
    /\ Finalizing => phase = "running" /\ SnapshotWritten
    /\ pc \in {"fetched", "stored"} => phase = "running" /\ ~SnapshotWritten
    /\ phase = "running" /\ SnapshotWritten =>
          Len(sums) = Len(plan.windows) /\ snapshot = FinalSnapshot

\* What was counted and is not in the cursor is in the plan or the summaries
\* of a job whose finalization will write it.
CountedIsKept ==
    /\ phase # "running" /\ ~cursorLost => counted \subseteq cursor
    /\ phase = "running" /\ ~cursorLost =>
          counted \subseteq plan.published \cup (IF SnapshotWritten THEN SummaryIds ELSE {})
    /\ phase = "running" => plan.published \subseteq cursor
    /\ pc = "cursor" => cursor = FinalCursor

\* Whoever has counted has a manifest, but for a finalization under way.
CountedHasManifest ==
    /\ pc \in {"manifest", "cursor"} => manifest # None
    /\ counted # {} => manifest # None \/ (phase = "running" /\ SnapshotWritten)

PublicationInv ==
    SnapshotOfJob /\ SnapshotIsFinal /\ CountedIsKept /\ CountedHasManifest

\* A snapshot that finalization writes is one, and is the job's.
LEMMA FinalSnapshotIsJobs == FinalSnapshot # None /\ FinalSnapshot.at = jobs
<1>1. \A total, newest, at : [total |-> total, newest |-> newest, at |-> at] # None
    BY DEF None
<1> QED
    BY <1>1 DEF FinalSnapshot

\* A manifest that finalization writes is one.
LEMMA FinalManifestIsOne == FinalManifest # None
<1>1. \A total, names : [total |-> total, chunks |-> names] # None
    BY DEF None
<1> QED
    BY <1>1 DEF FinalManifest

\* Finalization computes from plan, summaries and the number of the job alone.
LEMMA FinalSnapshotDepends ==
    ASSUME UNCHANGED <<plan, sums, jobs>>
    PROVE  FinalSnapshot' = FinalSnapshot /\ SummaryIds' = SummaryIds
               /\ FinalCursor' = FinalCursor
<1>1. RecordCount' = RecordCount /\ NewCount' = NewCount
    BY DEF RecordCount, NewCount
<1>2. TotalFrom(PlannedSnapshot)' = TotalFrom(PlannedSnapshot)
    BY <1>1 DEF TotalFrom, PlannedSnapshot
<1>3. FinalSnapshot' = FinalSnapshot
    BY <1>2 DEF FinalSnapshot, PlannedSnapshot
<1> QED
    BY <1>3 DEF SummaryIds, FinalCursor

LEMMA FinalManifestDepends ==
    ASSUME UNCHANGED <<plan, sums>>
    PROVE  FinalManifest' = FinalManifest
<1>1. RecordCount' = RecordCount /\ NewCount' = NewCount
    BY DEF RecordCount, NewCount
<1>2. TotalFrom(PlannedManifest)' = TotalFrom(PlannedManifest)
    BY <1>1 DEF TotalFrom, PlannedManifest
<1> QED
    BY <1>1, <1>2 DEF FinalManifest, PlannedManifest, HistoricalChunks

-----------------------------------------------------------------------------
(* The inductive invariant                                                 *)

\* It holds of a bucket without a seed and of an exported one.
LEMMA PublicationInit == Init => PublicationInv
<1> SUFFICES ASSUME Init PROVE PublicationInv
    OBVIOUS
<1>1. phase = "none" /\ pc = "idle" /\ counted = {} /\ jobs = 0
    BY DEF Init
<1>2. ExportedSeed \/ NoSeed
    BY DEF Init
<1>3. ExportedSeed => snapshot.at = 0
    BY DEF ExportedSeed
<1>4. NoSeed => snapshot = None
    BY DEF NoSeed
<1> QED
    BY <1>1, <1>2, <1>3, <1>4 DEF PublicationInv, SnapshotOfJob, SnapshotIsFinal, CountedIsKept,
                CountedHasManifest, Finalizing

\* Every step preserves it, interrupted jobs and amendments included.
LEMMA PublicationStep ==
    ASSUME RetriedFinalize, PublicationInv, [Next]_vars
    PROVE  PublicationInv'
<1> USE DEF PublicationInv, SnapshotOfJob, SnapshotIsFinal, CountedIsKept,
            CountedHasManifest, Finalizing, SnapshotWritten
<1> USE DEF world, objects, job, worker, history
<1>1. CASE NextDay \/ (\E r \in Records : HccPublishes(r) \/ HccAmends(r)) \/ UNCHANGED vars
    <2>1. UNCHANGED <<objects, job, worker, history>>
        BY <1>1 DEF NextDay, HccPublishes, HccAmends, vars
    <2> QED
        BY <2>1, FinalSnapshotDepends
<1>2. CASE StartJob
    <2>1. PICK fault \in {"none"} \cup (Faults \ {"finalize"}) :
              /\ manifestLost' = (manifestLost \/ (fault = "manifest_read" /\ manifest # None))
              /\ cursorLost' = \/ cursorLost \/ manifestLost'
                               \/ fault = "cursor_read" /\ cursor # {}
              /\ plan'.published = ExistingSeedState(fault).published
        BY <1>2 DEF StartJob
    <2>2. ~SnapshotWritten' /\ ~Finalizing' /\ pc \notin {"fetched", "stored"}
        BY <1>2 DEF StartJob
    <2>3. plan'.published \subseteq cursor
        BY <2>1 DEF ExistingSeedState
    <2>4. ~cursorLost' => counted \subseteq plan'.published
        <3>1. manifest = None => counted = {}
            BY <1>2 DEF StartJob
        <3>2. ~cursorLost' => ~cursorLost /\ counted \subseteq cursor
            BY <1>2, <2>1 DEF StartJob
        <3> QED
            BY <2>1, <3>1, <3>2 DEF ExistingSeedState
    <2> QED
        BY <1>2, <2>2, <2>3, <2>4 DEF StartJob
<1>3. CASE SliceFetches
    BY <1>3, FinalSnapshotDepends DEF SliceFetches
<1>4. CASE SliceStores
    BY <1>4, FinalSnapshotDepends DEF SliceStores
<1>5. CASE SliceCommits
    BY <1>5 DEF SliceCommits
<1>6. CASE FinalizeSnapshot
    <2>1. /\ FinalSnapshot' = FinalSnapshot /\ SummaryIds' = SummaryIds
          /\ snapshot' = FinalSnapshot /\ snapshot' # None /\ snapshot'.at = jobs
        BY <1>6, FinalSnapshotDepends, FinalSnapshotIsJobs DEF FinalizeSnapshot
    <2> QED
        BY <1>6, <2>1 DEF FinalizeSnapshot
<1>7. CASE FinalizeManifest
    BY <1>7, FinalSnapshotDepends, FinalManifestIsOne DEF FinalizeManifest
<1>8. CASE FinalizeCursor
    BY <1>8, FinalSnapshotDepends DEF FinalizeCursor, FinalCursor
<1>9. CASE Complete
    BY <1>9 DEF Complete, FinalCursor
<1>10. CASE Interrupt
    BY <1>10, FinalSnapshotDepends DEF Interrupt
<1>11. CASE Abort
    BY <1>11 DEF Abort, RetriedFinalize
<1> QED
    BY <1>1, <1>2, <1>3, <1>4, <1>5, <1>6, <1>7, <1>8, <1>9, <1>10, <1>11 DEF Next

\* Snapshot, manifest, cursor and the job's plan agree at every step of planning,
\* slices, finalization (finalizeLiveSeedRefresh) and their interruptions.
THEOREM PublicationInvariant ==
    ASSUME RetriedFinalize
    PROVE  Spec => []PublicationInv
BY PublicationInit, PublicationStep, PTL DEF Spec

-----------------------------------------------------------------------------
(* The next job's baseline holds what was counted                          *)

\* The cursor holds every number counted so far, once a job has ended, whatever
\* was interrupted, moved or published late, unless a job could not read it.
THEOREM CursorComplete ==
    ASSUME RetriedFinalize
    PROVE  Spec => []CursorHoldsCounted
<1>1. PublicationInv => CursorHoldsCounted
    BY DEF PublicationInv, CountedIsKept, CursorHoldsCounted
<1> QED
    BY <1>1, PublicationInvariant, PTL

-----------------------------------------------------------------------------
(* A repeated finalization publishes the same                              *)

\* Of one job only one snapshot is ever published, over any number of evictions
\* and retries of its finalization and whatever HCC does meanwhile.
THEOREM RepeatedFinalizeSame ==
    ASSUME RetriedFinalize
    PROVE  Spec => FinalizeIsIdempotent
<1>1. PublicationInv /\ [Next]_vars =>
          [snapshot # None /\ snapshot'.at = snapshot.at => snapshot' = snapshot]_vars
    <2> SUFFICES ASSUME PublicationInv, Next, snapshot' # snapshot,
                        snapshot # None, snapshot'.at = snapshot.at
                 PROVE  FALSE
        OBVIOUS
    <2>1. FinalizeSnapshot
        BY DEF Next, NextDay, HccPublishes, HccAmends, StartJob, SliceFetches, SliceStores,
               SliceCommits, FinalizeManifest, FinalizeCursor, Complete, Interrupt, Abort,
               objects
    <2>2. SnapshotWritten
        BY <2>1, FinalSnapshotIsJobs DEF FinalizeSnapshot, SnapshotWritten
    <2> QED
        BY <2>1, <2>2 DEF FinalizeSnapshot, PublicationInv, SnapshotIsFinal
<1> QED
    BY <1>1, PublicationInvariant, PTL DEF Spec, FinalizeIsIdempotent

-----------------------------------------------------------------------------
(* Numbers: maxima, products, and counts over the windows                  *)

\* A set of naturals that is not empty has a least element: the intervals up to its
\* elements are finite sets, which strict inclusion orders well.
LEMMA NatMin ==
    ASSUME NEW T, T \subseteq Nat, T # {}
    PROVE  \E n \in T : \A m \in T : n <= m
<1> DEFINE U == {0 .. n : n \in T}
           R == StrictSubsetOrdering(Nat)
<1>1. U \subseteq FiniteSubsetsOf(Nat) /\ U # {}
    <2>1. \A n \in T : 0 .. n \subseteq Nat /\ IsFiniteSet(0 .. n)
        BY FS_Interval
    <2> QED
        BY <2>1 DEF FiniteSubsetsOf
<1>2. IsWellFoundedOn(R, FiniteSubsetsOf(Nat))
    BY FS_StrictSubsetOrderingWellFounded
<1>3. PICK u \in U : \A y \in U : ~(<<y, u>> \in R)
    <2> HIDE DEF U, R
    <2> QED
        BY <1>1, <1>2, WFMin
<1>4. PICK n \in T : u = 0 .. n
    OBVIOUS
<1>5. ASSUME NEW m \in T
      PROVE  n <= m
    <2>1. SUFFICES ASSUME m < n PROVE FALSE
        BY <1>4
    <2>2. ~(<<0 .. m, 0 .. n>> \in R)
        BY <1>3, <1>4
    <2>3. /\ 0 .. m \subseteq 0 .. n /\ 0 .. m \subseteq Nat /\ 0 .. n \subseteq Nat
          /\ n \in 0 .. n /\ n \notin 0 .. m
        BY <2>1
    <2> QED
        BY <2>2, <2>3 DEF StrictSubsetOrdering
<1> QED
    BY <1>5

\* Max is the greatest element of a set of naturals with a bound.
LEMMA MaxOfBounded ==
    ASSUME NEW S, S \subseteq Nat, S # {}, NEW b \in Nat, \A x \in S : x <= b
    PROVE  Max(S) \in S /\ \A x \in S : x <= Max(S)
<1> DEFINE T == {n \in Nat : b - n \in S}
<1>1. PICK n \in T : \A m \in T : n <= m
    <2>1. PICK x \in S : TRUE
        OBVIOUS
    <2>2. b - x \in T
        BY <2>1
    <2> QED
        BY <2>2, NatMin
<1>2. b - n \in S /\ \A x \in S : x <= b - n
    <2>1. ASSUME NEW x \in S
          PROVE  x <= b - n
        <3>1. b - x \in Nat /\ b - (b - x) \in S
            BY <2>1
        <3>2. b - x \in T
            BY <3>1
        <3>3. n <= b - x
            BY <3>2, <1>1
        <3> QED
            BY <3>3, <1>1, <2>1
    <2> QED
        BY <2>1, <1>1
<1> HIDE DEF T
<1>3. \E x \in S : \A y \in S : x >= y
    BY <1>2
<1> QED
    BY <1>3 DEF Max

\* The newest day of some records is that of one of them, or 0 for none.
LEMMA NewestOfRecords ==
    ASSUME NEW ids, NEW b \in Nat, \A r \in ids : dayOf[r] \in 0 .. b
    PROVE  LET newest == NewestDay({<<r, dayOf[r]>> : r \in ids})
           IN  /\ newest \in 0 .. b
               /\ \A r \in ids : dayOf[r] <= newest
               /\ newest = 0 \/ \E r \in ids : dayOf[r] = newest
<1> DEFINE pairs == {<<r, dayOf[r]>> : r \in ids}
           days  == {p[2] : p \in pairs} \cup {0}
<1>1. \A d \in days : d = 0 \/ \E r \in ids : d = dayOf[r]
    OBVIOUS
<1>2. ASSUME NEW r \in ids
      PROVE  dayOf[r] \in days
    <2>1. <<r, dayOf[r]>> \in pairs /\ <<r, dayOf[r]>>[2] = dayOf[r]
        OBVIOUS
    <2> HIDE DEF pairs
    <2> QED
        BY <2>1
<1>3. days \subseteq 0 .. b /\ days \subseteq Nat /\ days # {} /\ \A d \in days : d <= b
    BY <1>1
<1> HIDE DEF days
<1>4. Max(days) \in days /\ \A d \in days : d <= Max(days)
    BY <1>3, MaxOfBounded
<1>5. NewestDay(pairs) = Max(days)
    BY DEF NewestDay, days
<1> QED
    BY <1>1, <1>2, <1>3, <1>4, <1>5

\* What division by a positive number leaves.
LEMMA DivisionBounds ==
    ASSUME NEW a \in Nat, NEW c \in Nat \ {0}
    PROVE  /\ a \div c \in Nat
           /\ (a \div c) * c <= a
           /\ a < (a \div c) * c + c
BY Z3

\* Products with a common factor are ordered as the other factors are.
LEMMA ProductGrows ==
    ASSUME NEW a \in Nat, NEW b \in Nat, NEW c \in Nat, a <= b
    PROVE  a * c <= b * c
BY Z3

\* And the other way round.
LEMMA SmallerFactor ==
    ASSUME NEW a \in Nat, NEW b \in Nat, NEW c \in Nat, a * c < b * c
    PROVE  a < b
BY Z3

\* Windows, one after the other, that hold each day from `from' to `to'.
IsPartition(windows, from, to) ==
    /\ windows # <<>>
    /\ \A i \in DOMAIN windows :
           from <= windows[i][1] /\ windows[i][1] <= windows[i][2] /\ windows[i][2] <= to
    /\ \A d \in from .. to : \E i \in DOMAIN windows : d \in windows[i][1] .. windows[i][2]
    /\ \A i, j \in DOMAIN windows : i < j => windows[i][2] < windows[j][1]

\* The windows of a plan (planLiveSeedRefresh) cut the rolling range without overlap or gap.
LEMMA PlanWindowsPartition ==
    ASSUME NEW to \in Nat, to >= RefreshDays
    PROVE  /\ PlanWindows(to)[1][1] = to - RefreshDays + 1
           /\ PlanWindows(to)[Len(PlanWindows(to))][2] = to
           /\ IsPartition(PlanWindows(to), to - RefreshDays + 1, to)
           /\ PlanWindows(to) \in Seq(Int \X Int)
<1> DEFINE F == to - RefreshDays + 1
           R == RefreshDays
           C == ChunkDays
           n == (R + C - 1) \div C
           start(k) == F + (k - 1) * C
           end(k) == IF start(k) + C - 1 > to THEN to ELSE start(k) + C - 1
<1>1. R \in Nat \ {0} /\ C \in Nat \ {0} /\ F \in Nat
    BY PublicationAssumption
<1>2. PlanWindows(to) = [k \in 1 .. n |-> <<start(k), end(k)>>]
    BY DEF PlanWindows
<1>3. n \in Nat /\ n * C <= R + C - 1 /\ R + C - 1 < n * C + C
    <2>1. R + C - 1 \in Nat
        BY <1>1
    <2> QED
        BY <2>1, <1>1, DivisionBounds
<1>4. n >= 1 /\ R <= n * C
    <2>1. R <= n * C
        BY <1>1, <1>3
    <2>2. n # 0
        <3>1. SUFFICES ASSUME n = 0 PROVE FALSE
            OBVIOUS
        <3>2. n * C = 0
            BY <3>1, <1>1
        <3> QED
            BY <3>2, <2>1, <1>1
    <2> QED
        BY <2>1, <2>2, <1>3
<1> HIDE DEF n
<1>5. ASSUME NEW k \in 1 .. n
      PROVE  /\ k - 1 \in Nat
             /\ (k - 1) * C \in Nat
             /\ (k - 1) * C <= R - 1
             /\ k * C = (k - 1) * C + C
    <2>1. k * C = (k - 1) * C + C /\ (k - 1) * C \in Nat /\ k * C \in Nat
        BY <1>1, <1>3
    <2>2. k * C <= n * C
        BY <1>1, <1>3, ProductGrows
    <2>3. n * C \in Nat
        BY <1>1, <1>3
    <2> QED
        BY <1>1, <1>3, <2>1, <2>2, <2>3
<1>6. ASSUME NEW k \in 1 .. n
      PROVE  F <= start(k) /\ start(k) <= end(k) /\ end(k) <= to /\ start(k) \in Int /\ end(k) \in Int
    BY <1>1, <1>5
<1>7. ASSUME NEW k \in 1 .. n, NEW j \in 1 .. n, k < j
      PROVE  end(k) < start(j)
    <2>1. k * C <= (j - 1) * C
        BY <1>1, <1>3, <1>7, ProductGrows
    <2>2. k * C = (k - 1) * C + C
        BY <1>5
    <2> QED
        BY <1>1, <1>5, <2>1, <2>2
<1>8. ASSUME NEW d \in F .. to
      PROVE  \E k \in 1 .. n : d \in start(k) .. end(k)
    <2> DEFINE q == (d - F) \div C
    <2>1. d - F \in Nat
        BY <1>1
    <2>2. q \in Nat /\ q * C <= d - F /\ d - F < q * C + C
        BY <1>1, <2>1, DivisionBounds
    <2> HIDE DEF q
    <2>3. q * C < n * C
        BY <1>1, <1>3, <1>4, <2>1, <2>2
    <2>4. q < n
        BY <1>1, <1>3, <2>2, <2>3, SmallerFactor
    <2>5. q + 1 \in 1 .. n /\ (q + 1) - 1 = q
        BY <2>2, <2>4, <1>3
    <2>6. d \in start(q + 1) .. end(q + 1)
        <3>1. start(q + 1) = F + q * C
            BY <2>5
        <3>2. q * C \in Nat
            BY <1>1, <2>2
        <3> QED
            BY <1>1, <2>2, <3>1, <3>2
    <2> QED
        BY <2>5, <2>6
<1>9. start(1) = F /\ end(n) = to
    <2>1. start(1) = F
        BY <1>1
    <2>2. n \in 1 .. n
        BY <1>3, <1>4
    <2>3. n * C = (n - 1) * C + C /\ (n - 1) * C \in Nat
        BY <2>2, <1>5
    <2> QED
        BY <2>1, <2>3, <1>1, <1>4
<1> HIDE DEF start, end
<1>10. PlanWindows(to) \in Seq(Int \X Int) /\ Len(PlanWindows(to)) = n
    BY <1>2, <1>3, <1>6
<1>11. DOMAIN PlanWindows(to) = 1 .. n /\ \A k \in 1 .. n : PlanWindows(to)[k] = <<start(k), end(k)>>
    BY <1>2
<1>12. IsPartition(PlanWindows(to), F, to)
    <2>1. PlanWindows(to) # <<>>
        BY <1>10, <1>4, <1>3
    <2> HIDE DEF F
    <2>2. \A k \in 1 .. n : /\ PlanWindows(to)[k][1] = start(k)
                             /\ PlanWindows(to)[k][2] = end(k)
        BY <1>11
    <2>3. \A k \in 1 .. n : F <= start(k) /\ start(k) <= end(k) /\ end(k) <= to
        BY <1>6
    <2>4. \A d \in F .. to : \E k \in 1 .. n : d \in start(k) .. end(k)
        BY <1>8
    <2>5. \A k, j \in 1 .. n : k < j => end(k) < start(j)
        BY <1>7
    <2> QED
        BY <1>11, <2>1, <2>2, <2>3, <2>4, <2>5 DEF IsPartition
<1> QED
    BY <1>3, <1>4, <1>9, <1>10, <1>11, <1>12

\* The pairs that a sum of counts counts, and the records it counts.
Pairs(f, n)   == UNION {{i} \X f[i] : i \in 1 .. n}
RecordsOf(f, n) == UNION {f[i] : i \in 1 .. n}

\* A sum of counts over windows is never less than the distinct records, and as many
\* when no record is in two windows.
LEMMA PairsCounted ==
    ASSUME NEW n \in Nat, NEW f, \A i \in 1 .. n : f[i] \subseteq Records
    PROVE  /\ Cardinality(Pairs(f, n)) \in Nat
           /\ Cardinality(RecordsOf(f, n)) <= Cardinality(Pairs(f, n))
           /\ (\A i, j \in 1 .. n : i # j => f[i] \cap f[j] = {})
                 => Cardinality(Pairs(f, n)) = Cardinality(RecordsOf(f, n))
<1> DEFINE pairs == UNION {{i} \X f[i] : i \in 1 .. n}
           all   == UNION {f[i] : i \in 1 .. n}
           number == [p \in pairs |-> p[2]]
<1>1. IsFiniteSet(Records)
    BY PublicationAssumption
<1>2. pairs \subseteq (1 .. n) \X Records
    OBVIOUS
<1>3. IsFiniteSet(pairs) /\ Cardinality(pairs) \in Nat
    <2>1. IsFiniteSet((1 .. n) \X Records)
        <3>1. IsFiniteSet(1 .. n)
            BY FS_Interval
        <3> QED
            BY <1>1, <3>1, FS_Product
    <2> HIDE DEF pairs
    <2>2. IsFiniteSet(pairs)
        BY <1>2, <2>1, FS_Subset
    <2> QED
        BY <2>2, FS_CardinalityType
<1>4. \A p \in pairs : p[1] \in 1 .. n /\ p[2] \in f[p[1]] /\ p = <<p[1], p[2]>>
    OBVIOUS
<1>5. \A i \in 1 .. n : \A r \in f[i] : <<i, r>> \in pairs
    OBVIOUS
<1>6. number \in Surjection(pairs, all)
    <2>1. number \in [pairs -> all]
        BY <1>4
    <2>2. ASSUME NEW r \in all
          PROVE  \E p \in pairs : number[p] = r
        <3>1. PICK i \in 1 .. n : r \in f[i]
            OBVIOUS
        <3>2. <<i, r>> \in pairs
            BY <3>1
        <3>3. number[<<i, r>>] = r
            BY <3>2
        <3> QED
            BY <3>2, <3>3
    <2> HIDE DEF pairs, all, number
    <2> QED
        BY <2>1, <2>2, Fun_IsSurj
<1>7. Cardinality(all) <= Cardinality(pairs)
    /\ (number \in Injection(pairs, all) => Cardinality(all) = Cardinality(pairs))
    <2> HIDE DEF pairs, all, number
    <2> QED
        BY <1>3, <1>6, FS_Surjection
<1>8. ASSUME \A i, j \in 1 .. n : i # j => f[i] \cap f[j] = {}
      PROVE  number \in Injection(pairs, all)
    <2>1. number \in [pairs -> all]
        BY <1>4
    <2>2. \A p, q \in pairs : number[p] = number[q] => p = q
        BY <1>4, <1>8
    <2> HIDE DEF pairs, all, number
    <2> QED
        BY <2>1, <2>2, Fun_IsInj
<1> QED
    BY <1>3, <1>7, <1>8 DEF Pairs, RecordsOf

-----------------------------------------------------------------------------
(* What is counted: the invariant                                          *)

\* The summaries of the windows done, then what the slice in flight got for its own.
InFlight == pc \in {"fetched", "stored"}
Fetches == 1 .. (IF InFlight THEN Len(sums) + 1 ELSE Len(sums))
Fetch(i) == IF i <= Len(sums) THEN sums[i] ELSE fetched

Summaries == [chunk : Int \X Int, ids : SUBSET Records, new : SUBSET Records, newest : Nat]

RangeStart == plan.windows[1][1]
RangeEnd   == plan.windows[Len(plan.windows)][2]
Days(i)    == plan.windows[i][1] .. plan.windows[i][2]

\* This job's finalization has begun, and will be repeated until it is over.
Written == phase = "running" /\ SnapshotWritten

PublicationTypes ==
    /\ today \in Nat /\ SeedDay <= today
    /\ dayOf \in [Records -> 0 .. today]
    /\ seeded \subseteq Records /\ counted \subseteq Records /\ cursor \subseteq counted
    /\ cursorLost \in BOOLEAN /\ (manifestLost => cursorLost) /\ amends \in Nat /\ seedNewest \in 0 .. SeedDay
    /\ snapshot # None => snapshot.total \in Nat /\ snapshot.newest \in Nat
    /\ manifest # None => manifest.total \in Nat
    /\ phase = "running" =>
          /\ plan.snapshot # None => plan.snapshot.total \in Nat /\ plan.snapshot.newest \in Nat
          /\ plan.manifest # None => plan.manifest.total \in Nat

\* The windows of the plan cut its range, and slices take them one by one.
SlicesFollowPlan ==
    /\ sums \in Seq(Summaries)
    /\ Len(sums) <= Len(plan.windows)
    /\ InFlight => Len(sums) < Len(plan.windows) /\ fetched \in Summaries
    /\ plan.windows \in Seq(Int \X Int)
    /\ phase = "none" => plan.windows = <<>>
    /\ phase # "none" => /\ RangeEnd \in SeedDay .. today
                         /\ RangeStart = RangeEnd - RefreshDays + 1
                         /\ IsPartition(plan.windows, RangeStart, RangeEnd)
    /\ \A i \in Fetches : Fetch(i).chunk = plan.windows[i] /\ Fetch(i).newest <= today

\* Only HCC's own records are counted, and the day of an exported one stays on its
\* side of the newest exported day.
SeedDays ==
    /\ \A r \in seeded : dayOf[r] \in 1 .. seedNewest
    /\ \A r \in counted : dayOf[r] >= 1
    /\ \A i \in Fetches : \A r \in Fetch(i).ids : dayOf[r] >= 1
    /\ snapshot = None => seeded = {} /\ counted = {} /\ seedNewest = 0
    /\ snapshot # None /\ counted = {} /\ ~cursorLost => snapshot.newest = seedNewest

\* A job that could not read the manifest there is takes the bucket for empty.
PlanIsBlind ==
    /\ manifestLost /\ cursorLost
    /\ plan.snapshot = None /\ plan.manifest = None
    /\ plan.published = {} /\ plan.after = 0

PlanIsPublished ==
    /\ plan.snapshot = snapshot /\ plan.manifest = manifest
    /\ plan.published = cursor \/ (plan.published = {} /\ cursorLost)
    /\ plan.after = IF plan.published = {} /\ snapshot # None THEN snapshot.newest ELSE 0

\* Until its first write a job's plan is what is published, or blind.
PlanIsBaseline ==
    /\ ~Written => (manifest = None <=> snapshot = None)
    /\ phase = "complete" => snapshot # None
    /\ Written => SummaryIds \subseteq counted
    /\ phase = "running" /\ ~cursorLost => cursor \subseteq FinalCursor
    /\ phase = "running" /\ ~SnapshotWritten => PlanIsPublished \/ PlanIsBlind

\* A slice takes for new what neither the plan nor an earlier window has, and misses
\* nothing that is dated after the newest exported day.
FindsNew(i) ==
    /\ Fetch(i).new \subseteq Fetch(i).ids
    /\ Fetch(i).new \cap plan.published = {}
    /\ \A j \in Fetches : j < i => Fetch(i).new \cap Fetch(j).ids = {}
    /\ Fetch(i).ids = {} => Fetch(i).newest = 0
    /\ Fetch(i).newest = 0 \/ Fetch(i).newest >= RangeStart
    /\ amends = 0 =>
          \A r \in Fetch(i).ids : dayOf[r] \in Days(i) /\ dayOf[r] <= Fetch(i).newest
    /\ ~cursorLost =>
          \A r \in Fetch(i).ids : \/ r \in plan.published \/ dayOf[r] <= seedNewest
                                  \/ \E j \in 1 .. i : r \in Fetch(j).new

SlicesFindNew == \A i \in Fetches : FindsNew(i)

\* Records whose day has not changed since they were exported or counted.
StillDated ==
    (IF cursorLost THEN {} ELSE seeded \ cursor) \cup (IF amends = 0 THEN seeded \cup counted ELSE {})

\* Of these a slice gets all that its window holds, and none is dated after the range.
SlicesGetAll ==
    \A r \in StillDated : \A i \in Fetches : dayOf[r] \in Days(i) => r \in Fetch(i).ids

NoneAfterRange ==
    phase # "none" => \A r \in StillDated : dayOf[r] <= RangeEnd

\* Once there is a cursor, what it lacks of them lies before the range, or is about to be
\* added to it.
CursorHoldsRange ==
    cursor # {} =>
        /\ phase # "none"
        /\ \A r \in StillDated \ cursor : dayOf[r] < RangeStart \/ (Written /\ r \in SummaryIds)

\* The newest day of the snapshot is no earlier than any of what is counted, but for what
\* lies before the range of the last job.
SnapshotIsNewest ==
    amends = 0 /\ snapshot # None =>
        \A r \in seeded \cup counted :
            dayOf[r] <= snapshot.newest \/ (phase # "none" /\ dayOf[r] < RangeStart)

\* What slices take for new was never counted, by the cursor or by the days alone, unless
\* the job takes the bucket for empty.
NewIsUncounted ==
    phase = "running" /\ ~SnapshotWritten /\ plan.snapshot # None /\ (amends = 0 \/ ~cursorLost) =>
        \A i \in Fetches : Fetch(i).new \cap (seeded \cup counted) = {}

\* The totals of both objects, those published and those a finalization under way writes.
TotalsInBounds ==
    /\ NeverOvercounts
    /\ NeverUndercounts
    /\ ~Written /\ manifest # None =>
          /\ manifest.total >= snapshot.total
          /\ amends = 0 => manifest.total <= Cardinality(seeded \cup counted)
    /\ Written =>
          /\ FinalManifest.total >= FinalSnapshot.total
          /\ amends = 0 => FinalManifest.total <= Cardinality(seeded \cup counted)
    /\ pc \in {"manifest", "cursor"} => manifest = FinalManifest

\* Listed chunks exist, the exported one among them as long as each job could read the
\* manifest, and those of the job hold what its slices got.
ChunksAreKept ==
    /\ manifest # None => manifest.chunks \subseteq DOMAIN chunks
    /\ seeded # {} => /\ HistoryChunk \in DOMAIN chunks /\ chunks[HistoryChunk] = seeded
                      /\ manifestLost \/ (manifest # None /\ HistoryChunk \in manifest.chunks)
    /\ phase = "running" =>
          /\ seeded # {} /\ ~manifestLost => plan.manifest # None /\ HistoryChunk \in plan.manifest.chunks
          /\ plan.manifest # None => plan.manifest.chunks \subseteq DOMAIN chunks
    /\ \A i \in Fetches : i <= Len(sums) \/ pc = "stored" =>
          Fetch(i).chunk \in DOMAIN chunks /\ chunks[Fetch(i).chunk] = Fetch(i).ids
    /\ phase = "complete" => /\ Len(sums) = Len(plan.windows)
                             /\ \A i \in DOMAIN sums : sums[i].chunk \in manifest.chunks

CountInv ==
    /\ PublicationTypes /\ SlicesFollowPlan /\ SeedDays /\ PlanIsBaseline
    /\ SlicesFindNew /\ SlicesGetAll /\ NoneAfterRange /\ CursorHoldsRange /\ SnapshotIsNewest
    /\ NewIsUncounted /\ TotalsInBounds /\ ChunksAreKept

-----------------------------------------------------------------------------
(* What a step leaves alone                                                *)

\* HCC may move a record, but not what is exported and not in the cursor, and never
\* across the newest exported day; while nothing was moved, what there is stays.
LEMMA RecordsKeepDays ==
    ASSUME PublicationTypes, [Next]_vars
    PROVE  /\ today' \in Nat /\ today <= today'
           /\ amends' \in Nat /\ amends <= amends'
           /\ dayOf' \in [Records -> 0 .. today']
           /\ \A r \in Records : dayOf[r] >= 1 =>
                 /\ dayOf'[r] >= 1
                 /\ dayOf'[r] <= seedNewest <=> dayOf[r] <= seedNewest
                 /\ amends' = 0 \/ r \in seeded \ cursor => dayOf'[r] = dayOf[r]
<1> USE DEF PublicationTypes
<1>1. CASE NextDay
    BY <1>1 DEF NextDay
<1>2. CASE \E r \in Records : HccPublishes(r)
    <2>1. PICK r \in Records, d \in 1 .. today :
              dayOf[r] = 0 /\ dayOf' = [dayOf EXCEPT ![r] = d] /\ UNCHANGED <<today, amends>>
        BY <1>2 DEF HccPublishes
    <2> QED
        BY <2>1
<1>3. CASE \E r \in Records : HccAmends(r)
    <2>1. PICK r \in Records, d \in 1 .. today :
              /\ r \in seeded => r \in cursor
              /\ amends' = amends + 1
              /\ (d > seedNewest) = (dayOf[r] > seedNewest)
              /\ dayOf' = [dayOf EXCEPT ![r] = d]
              /\ UNCHANGED today
        BY <1>3 DEF HccAmends
    <2>2. seedNewest \in Nat
        BY PublicationAssumption
    <2>3. amends' # 0
        BY <2>1
    <2>4. ASSUME NEW q \in Records, dayOf[q] >= 1
          PROVE  /\ dayOf'[q] >= 1
                 /\ dayOf'[q] <= seedNewest <=> dayOf[q] <= seedNewest
                 /\ q \in seeded \ cursor => dayOf'[q] = dayOf[q]
        BY <2>1, <2>2, <2>4
    <2> QED
        BY <2>1, <2>3, <2>4
<1>4. CASE UNCHANGED world
    BY <1>4 DEF world
<1>5. [Next]_vars => NextDay \/ (\E r \in Records : HccPublishes(r) \/ HccAmends(r)) \/ UNCHANGED world
    BY DEF Next, StartJob, SliceFetches, SliceStores, SliceCommits, FinalizeSnapshot,
           FinalizeManifest, FinalizeCursor, Complete, Interrupt, Abort, vars
<1> QED
    BY <1>1, <1>2, <1>3, <1>4, <1>5

\* Only a slice's fetch adds a summary; a new job, an interruption or a failure may
\* drop some.
LEMMA OnlySlicesFetch ==
    ASSUME PublicationInv, SlicesFollowPlan, [Next]_vars, ~SliceFetches
    PROVE  Fetches' \subseteq Fetches /\ \A i \in Fetches' : Fetch(i)' = Fetch(i)
<1> USE DEF SlicesFollowPlan, Fetches, Fetch, InFlight
<1>1. CASE UNCHANGED <<sums, worker>>
    BY <1>1 DEF worker
<1>2. CASE StartJob
    <2>1. ~InFlight
        BY <1>2 DEF StartJob, PublicationInv, SnapshotIsFinal
    <2> QED
        BY <1>2, <2>1 DEF StartJob, worker
<1>3. CASE SliceStores
    BY <1>3 DEF SliceStores, job
<1>4. CASE SliceCommits
    <2>1. Len(sums') = Len(sums) + 1 /\ sums'[Len(sums) + 1] = fetched
          /\ \A i \in 1 .. Len(sums) : sums'[i] = sums[i]
        BY <1>4 DEF SliceCommits
    <2> QED
        BY <1>4, <2>1 DEF SliceCommits
<1>5. CASE FinalizeSnapshot \/ FinalizeManifest \/ FinalizeCursor \/ Complete
    BY <1>5 DEF FinalizeSnapshot, FinalizeManifest, FinalizeCursor, Complete, job
<1>6. CASE Interrupt \/ Abort
    BY <1>6 DEF Interrupt, Abort, job
<1>7. UNCHANGED <<sums, worker>> \/ ~(NextDay \/ (\E r \in Records : HccPublishes(r) \/ HccAmends(r)) \/ UNCHANGED vars)
    BY DEF NextDay, HccPublishes, HccAmends, vars, job
<1> QED
    BY <1>1, <1>2, <1>3, <1>4, <1>5, <1>6, <1>7 DEF Next

\* A new job begins with nothing done and nothing in flight.
LEMMA StartHasNoFetches ==
    ASSUME PublicationInv, StartJob
    PROVE  Fetches' = {} /\ sums' = <<>> /\ pc' = pc /\ ~InFlight' /\ phase' = "running"
<1>1. sums' = <<>> /\ UNCHANGED worker /\ phase # "running" /\ phase' = "running"
    BY DEF StartJob
<1>2. ~InFlight'
    BY <1>1 DEF PublicationInv, SnapshotIsFinal, InFlight, worker
<1>3. Len(sums') = 0
    BY <1>1
<1> QED
    BY <1>1, <1>2, <1>3 DEF Fetches, worker

\* A plan is drawn up by the start of a job, and cursor and manifest are lost there if
\* anywhere.
LEMMA OnlyStartPlans ==
    ASSUME PublicationInv, [Next]_vars, ~StartJob
    PROVE  /\ plan' = plan /\ cursorLost' = cursorLost /\ manifestLost' = manifestLost
           /\ phase' = phase \/ (phase = "running" /\ phase' \in {"complete", "errored"})
BY DEF Next, NextDay, HccPublishes, HccAmends, SliceFetches, SliceStores, SliceCommits,
       FinalizeSnapshot, FinalizeManifest, FinalizeCursor, Complete, Interrupt, Abort, vars, job,
       history, PublicationInv, SnapshotIsFinal, Finalizing

\* The export is what it was.
LEMMA SeedIsConstant ==
    ASSUME [Next]_vars
    PROVE  seeded' = seeded /\ seedNewest' = seedNewest
BY DEF Next, NextDay, HccPublishes, HccAmends, StartJob, SliceFetches, SliceStores, SliceCommits,
       FinalizeSnapshot, FinalizeManifest, FinalizeCursor, Complete, Interrupt, Abort, vars,
       history

\* Snapshot and count change with the first write of a finalization, the cursor with the
\* third.
LEMMA OnlyFinalizeCounts ==
    ASSUME [Next]_vars
    PROVE  /\ ~FinalizeSnapshot => UNCHANGED <<snapshot, counted>>
           /\ ~FinalizeManifest => UNCHANGED manifest
           /\ ~FinalizeCursor => UNCHANGED cursor
BY DEF Next, NextDay, HccPublishes, HccAmends, StartJob, SliceFetches, SliceStores, SliceCommits,
       FinalizeSnapshot, FinalizeManifest, FinalizeCursor, Complete, Interrupt, Abort, vars,
       objects

\* Summaries are what was fetched first.
LEMMA SumsAreFetches ==
    ASSUME SlicesFollowPlan
    PROVE  /\ Len(sums) \in Nat /\ DOMAIN sums = 1 .. Len(sums)
           /\ \A i \in DOMAIN sums : i \in Fetches /\ Fetch(i) = sums[i] /\ sums[i] \in Summaries
           /\ \A i \in Fetches : Fetch(i) \in Summaries /\ i \in DOMAIN plan.windows /\ i \in Nat
BY DEF SlicesFollowPlan, Fetches, Fetch

\* The range a job refreshes, and its windows.
LEMMA RangeFacts ==
    ASSUME PublicationTypes, SlicesFollowPlan, phase # "none"
    PROVE  /\ RangeStart \in Nat /\ RangeStart >= 1 /\ RangeEnd \in Nat /\ RangeEnd <= today
           /\ plan.windows # <<>>
           /\ \A i \in DOMAIN plan.windows : \A d \in Days(i) :
                 d \in Nat /\ RangeStart <= d /\ d <= RangeEnd
           /\ \A d \in RangeStart .. RangeEnd : \E i \in DOMAIN plan.windows : d \in Days(i)
           /\ \A i, j \in DOMAIN plan.windows : i # j => Days(i) \cap Days(j) = {}
<1>1. SeedDay \in Nat /\ RefreshDays \in Nat /\ RefreshDays <= SeedDay
    BY PublicationAssumption
<1>2. RangeEnd \in SeedDay .. today /\ RangeStart = RangeEnd - RefreshDays + 1 /\ today \in Nat
      /\ IsPartition(plan.windows, RangeStart, RangeEnd)
    BY DEF SlicesFollowPlan, PublicationTypes
<1>3. RangeStart \in Nat /\ RangeStart >= 1 /\ RangeEnd \in Nat /\ RangeEnd <= today
    BY <1>1, <1>2
<1>4. \A i \in DOMAIN plan.windows : plan.windows[i] \in Int \X Int /\ i \in Nat
    BY DEF SlicesFollowPlan
<1>5. \A i \in DOMAIN plan.windows : \A d \in Days(i) : d \in Nat /\ RangeStart <= d /\ d <= RangeEnd
    BY <1>2, <1>3, <1>4 DEF IsPartition, Days
<1>6. ASSUME NEW i \in DOMAIN plan.windows, NEW j \in DOMAIN plan.windows, i # j
      PROVE  Days(i) \cap Days(j) = {}
    <2>1. i < j \/ j < i
        BY <1>4, <1>6
    <2>2. plan.windows[i][2] < plan.windows[j][1] \/ plan.windows[j][2] < plan.windows[i][1]
        BY <1>2, <2>1 DEF IsPartition
    <2> QED
        BY <1>4, <2>2 DEF Days
<1> QED
    BY <1>2, <1>3, <1>5, <1>6 DEF IsPartition, Days

\* What a slice gets: the records its window has now, of which those are new that neither
\* the plan nor an earlier window of the job holds, dated after what the plan says.
LEMMA SliceGets ==
    ASSUME PublicationInv, PublicationTypes, SlicesFollowPlan, SliceFetches
    PROVE  /\ UNCHANGED <<world, objects, job, history>> /\ pc = "idle" /\ pc' = "fetched"
           /\ phase = "running" /\ ~SnapshotWritten /\ Len(sums) < Len(plan.windows)
           /\ Fetches = 1 .. Len(sums) /\ Fetches' = 1 .. Len(sums) + 1
           /\ \A i \in Fetches : Fetch(i)' = Fetch(i)
           /\ \A i \in Fetches' \ Fetches : i = Len(sums) + 1 /\ Fetch(i)' = fetched'
           /\ fetched' \in Summaries
           /\ fetched'.chunk = plan.windows[Len(sums) + 1]
           /\ fetched'.ids = {r \in Records : dayOf[r] \in Days(Len(sums) + 1)}
           /\ \A r \in fetched'.ids : r \in fetched'.new <=>
                 /\ r \notin plan.published /\ dayOf[r] > plan.after
                 /\ \A i \in Fetches : r \notin Fetch(i).ids
           /\ fetched'.new \subseteq fetched'.ids
           /\ fetched'.newest \in 0 .. today
           /\ \A r \in fetched'.ids : dayOf[r] <= fetched'.newest
           /\ fetched'.newest = 0 \/ \E r \in fetched'.ids : dayOf[r] = fetched'.newest
<1> DEFINE n == Len(sums) + 1
           ids == {r \in Records : dayOf[r] \in plan.windows[n][1] .. plan.windows[n][2]}
<1>1. /\ phase = "running" /\ pc = "idle" /\ pc' = "fetched" /\ Len(sums) < Len(plan.windows)
      /\ UNCHANGED <<world, objects, job, history>>
      /\ fetched' = [chunk |-> plan.windows[n], ids |-> ids, new |-> {r \in ids : IsNew(r)},
                     newest |-> NewestDay({<<r, dayOf[r]>> : r \in ids})]
    BY DEF SliceFetches
<1>2. Len(sums) \in Nat /\ n \in DOMAIN plan.windows /\ plan.windows[n] \in Int \X Int
    BY <1>1 DEF SlicesFollowPlan
<1>3. ~SnapshotWritten
    BY <1>1, <1>2 DEF PublicationInv, SnapshotIsFinal
<1>4. /\ Fetches = 1 .. Len(sums) /\ Fetches' = 1 .. Len(sums) + 1
      /\ \A i \in Fetches : Fetch(i)' = Fetch(i)
      /\ \A i \in Fetches' \ Fetches : i = n /\ Fetch(i)' = fetched'
      /\ \A i \in Fetches : Fetch(i) = sums[i]
    BY <1>1, <1>2 DEF Fetches, Fetch, InFlight, job
<1>5. \A r \in ids : IsNew(r) <=> /\ r \notin plan.published /\ dayOf[r] > plan.after
                                  /\ \A i \in Fetches : r \notin Fetch(i).ids
    <2>1. DOMAIN sums = Fetches
        BY <1>4 DEF SlicesFollowPlan
    <2> QED
        BY <1>4, <2>1 DEF IsNew, PublishedBefore
<1>6. \A r \in ids : dayOf[r] \in 0 .. today
    BY DEF PublicationTypes
<1>7. /\ fetched'.newest \in 0 .. today
      /\ \A r \in ids : dayOf[r] <= fetched'.newest
      /\ fetched'.newest = 0 \/ \E r \in ids : dayOf[r] = fetched'.newest
    <2>1. today \in Nat
        BY DEF PublicationTypes
    <2>2. fetched'.newest = NewestDay({<<r, dayOf[r]>> : r \in ids})
        BY <1>1
    <2> HIDE DEF ids
    <2> QED
        BY <1>6, <2>1, <2>2, NewestOfRecords
<1>8. /\ fetched'.chunk = plan.windows[n] /\ fetched'.ids = ids
      /\ fetched'.new = {r \in ids : IsNew(r)}
    BY <1>1
<1>9. fetched' \in Summaries
    <2>1. fetched'.newest \in Nat
        BY <1>7 DEF PublicationTypes
    <2>2. fetched' = [chunk |-> fetched'.chunk, ids |-> fetched'.ids, new |-> fetched'.new,
                      newest |-> fetched'.newest]
        BY <1>1
    <2> QED
        BY <1>2, <1>8, <2>1, <2>2 DEF Summaries
<1> QED
    BY <1>1, <1>3, <1>4, <1>5, <1>7, <1>8, <1>9 DEF Days

\* The sums of the two counts of the summaries.
LEMMA CountsOfSums ==
    ASSUME sums \in Seq(Summaries)
    PROVE  /\ RecordCount \in Nat /\ NewCount \in Nat
           /\ Cardinality(SummaryIds) <= RecordCount
           /\ (\A i, j \in DOMAIN sums : i # j => sums[i].ids \cap sums[j].ids = {})
                 => RecordCount = Cardinality(SummaryIds)
           /\ (\A i, j \in DOMAIN sums : i # j => sums[i].new \cap sums[j].new = {})
                 => NewCount = Cardinality(UNION {sums[i].new : i \in DOMAIN sums})
<1> DEFINE n == Len(sums)
           ids == [i \in 1 .. n |-> sums[i].ids]
           new == [i \in 1 .. n |-> sums[i].new]
<1>1. n \in Nat /\ DOMAIN sums = 1 .. n
    OBVIOUS
<1>2. \A i \in 1 .. n : sums[i] \in Summaries
    BY <1>1
<1>3. \A i \in 1 .. n : ids[i] = sums[i].ids /\ ids[i] \subseteq Records
                        /\ new[i] = sums[i].new /\ new[i] \subseteq Records
    BY <1>2 DEF Summaries
<1>4. RecordCount = Cardinality(Pairs(ids, n)) /\ NewCount = Cardinality(Pairs(new, n))
    <2>1. {{i} \X sums[i].ids : i \in DOMAIN sums} = {{i} \X ids[i] : i \in 1 .. n}
        BY <1>1, <1>3
    <2>2. {{i} \X sums[i].new : i \in DOMAIN sums} = {{i} \X new[i] : i \in 1 .. n}
        BY <1>1, <1>3
    <2> QED
        BY <2>1, <2>2 DEF RecordCount, NewCount, Pairs
<1>5. /\ SummaryIds = RecordsOf(ids, n)
      /\ UNION {sums[i].new : i \in DOMAIN sums} = RecordsOf(new, n)
    BY <1>1, <1>3 DEF SummaryIds, RecordsOf
<1> HIDE DEF n, ids, new
<1>6. /\ RecordCount \in Nat
      /\ Cardinality(SummaryIds) <= RecordCount
      /\ (\A i, j \in 1 .. n : i # j => ids[i] \cap ids[j] = {})
            => RecordCount = Cardinality(SummaryIds)
    BY <1>1, <1>3, <1>4, <1>5, PairsCounted
<1>7. /\ NewCount \in Nat
      /\ (\A i, j \in 1 .. n : i # j => new[i] \cap new[j] = {})
            => NewCount = Cardinality(UNION {sums[i].new : i \in DOMAIN sums})
    BY <1>1, <1>3, <1>4, <1>5, PairsCounted
<1> QED
    BY <1>1, <1>3, <1>6, <1>7

\* The newest day of the range that the summaries found.
NewestOfSums == Max({sums[i].newest : i \in DOMAIN sums} \cup {0})

LEMMA NewestOfSummaries ==
    ASSUME PublicationTypes, SlicesFollowPlan
    PROVE  /\ NewestOfSums \in Nat
           /\ \A i \in DOMAIN sums : sums[i].newest <= NewestOfSums
           /\ NewestOfSums = 0 \/ \E i \in DOMAIN sums : sums[i].newest = NewestOfSums
<1> DEFINE days == {sums[i].newest : i \in DOMAIN sums} \cup {0}
<1>1. \A i \in DOMAIN sums : i \in Fetches /\ Fetch(i) = sums[i] /\ sums[i] \in Summaries
    BY SumsAreFetches
<1>2. \A i \in DOMAIN sums : sums[i].newest \in Nat /\ sums[i].newest <= today
    BY <1>1 DEF SlicesFollowPlan, Summaries
<1>3. days \subseteq Nat /\ days # {} /\ \A d \in days : d <= today
    BY <1>2 DEF PublicationTypes
<1>4. today \in Nat
    BY DEF PublicationTypes
<1>5. Max(days) \in days /\ \A d \in days : d <= Max(days)
    <2> HIDE DEF days
    <2> QED
        BY <1>3, <1>4, MaxOfBounded
<1> QED
    BY <1>3, <1>5 DEF NewestOfSums

\* What a finalization computes.
LEMMA FinalValues ==
    ASSUME PublicationTypes, SlicesFollowPlan, phase = "running"
    PROVE  /\ FinalSnapshot.total = IF plan.snapshot = None THEN RecordCount
                                    ELSE plan.snapshot.total + NewCount
           /\ FinalSnapshot.newest = IF NewestOfSums = 0 /\ plan.snapshot # None
                                     THEN plan.snapshot.newest ELSE NewestOfSums
           /\ FinalManifest.total >= RecordCount
           /\ plan.manifest # None => FinalManifest.total >= plan.manifest.total + NewCount
           /\ FinalManifest.total \in {RecordCount} \cup
                 (IF plan.manifest = None THEN {} ELSE {plan.manifest.total + NewCount})
           /\ FinalSnapshot.total \in Nat /\ FinalSnapshot.newest \in Nat
           /\ FinalManifest.total \in Nat
<1>1. RecordCount \in Nat /\ NewCount \in Nat
    BY CountsOfSums DEF SlicesFollowPlan
<1>2. NewestOfSums \in Nat
    BY NewestOfSummaries
<1>3. TotalFrom(plan.snapshot) \in Nat /\ TotalFrom(plan.manifest) \in Nat
    BY <1>1 DEF TotalFrom, PublicationTypes
<1>4. /\ FinalSnapshot.total = TotalFrom(plan.snapshot)
      /\ FinalSnapshot.newest = IF NewestOfSums = 0 /\ plan.snapshot # None
                                THEN plan.snapshot.newest ELSE NewestOfSums
    BY DEF FinalSnapshot, PlannedSnapshot, NewestOfSums
<1>5. FinalManifest.total = IF TotalFrom(plan.manifest) > RecordCount
                            THEN TotalFrom(plan.manifest) ELSE RecordCount
    BY DEF FinalManifest, PlannedManifest
<1>6. FinalManifest.total >= RecordCount /\ FinalManifest.total >= TotalFrom(plan.manifest)
      /\ FinalManifest.total \in {RecordCount, TotalFrom(plan.manifest)}
    BY <1>1, <1>3, <1>5
<1>7. FinalSnapshot.newest \in Nat
    BY <1>2, <1>4 DEF PublicationTypes
<1> QED
    BY <1>1, <1>3, <1>4, <1>6, <1>7 DEF TotalFrom

\* A finalization that was begun writes the same again.
LEMMA RepeatedWrite ==
    ASSUME PublicationInv, FinalizeSnapshot, SnapshotWritten
    PROVE  snapshot' = snapshot
BY DEF FinalizeSnapshot, PublicationInv, SnapshotIsFinal

-----------------------------------------------------------------------------
(* Each part is preserved                                                  *)

LEMMA PublicationTypesStep ==
    ASSUME PublicationInv, PublicationTypes, SlicesFollowPlan, PlanIsBaseline, [Next]_vars
    PROVE  PublicationTypes'
<1>1. /\ today' \in Nat /\ SeedDay <= today' /\ dayOf' \in [Records -> 0 .. today']
      /\ amends' \in Nat
    BY RecordsKeepDays, PublicationAssumption DEF PublicationTypes
<1>2. seeded' = seeded /\ seedNewest' = seedNewest
    BY SeedIsConstant
<1> USE DEF PublicationTypes
<1>3. CASE UNCHANGED <<objects, cursorLost, manifestLost>> /\ (phase' # "running" \/ UNCHANGED <<phase, plan>>)
    BY <1>1, <1>2, <1>3 DEF objects
<1>4. CASE StartJob
    <2>1. plan'.snapshot \in {None, snapshot} /\ plan'.manifest \in {None, manifest}
        BY <1>4 DEF StartJob, ExistingSeedState
    <2>2. UNCHANGED objects /\ cursorLost' \in BOOLEAN /\ (manifestLost' => cursorLost')
        BY <1>4 DEF StartJob
    <2> QED
        BY <1>1, <1>2, <2>1, <2>2 DEF objects
<1>5. CASE FinalizeSnapshot
    <2>1. snapshot' = FinalSnapshot /\ FinalSnapshot.total \in Nat /\ FinalSnapshot.newest \in Nat
        BY <1>5, FinalValues DEF FinalizeSnapshot
    <2>2. \A i \in DOMAIN sums : sums[i] \in Summaries
        BY SumsAreFetches
    <2>3. SummaryIds \subseteq Records
        BY <2>2 DEF SummaryIds, Summaries
    <2> QED
        BY <1>1, <1>2, <1>5, <2>1, <2>3 DEF FinalizeSnapshot, job, history
<1>6. CASE FinalizeManifest
    <2>1. phase = "running"
        BY <1>6 DEF FinalizeManifest, PublicationInv, SnapshotIsFinal, Finalizing
    <2>2. manifest' = FinalManifest /\ FinalManifest.total \in Nat
        BY <1>6, <2>1, FinalValues DEF FinalizeManifest
    <2> QED
        BY <1>1, <1>2, <1>6, <2>2 DEF FinalizeManifest, job, history
<1>7. CASE FinalizeCursor
    <2>1. Written
        BY <1>7 DEF FinalizeCursor, PublicationInv, SnapshotIsFinal, Finalizing, Written
    <2>2. plan.published \subseteq cursor /\ SummaryIds \subseteq counted
        BY <2>1 DEF PublicationInv, CountedIsKept, PlanIsBaseline, Written
    <2>3. cursor' \subseteq counted
        BY <1>7, <2>2 DEF FinalizeCursor, FinalCursor
    <2> QED
        BY <1>1, <1>2, <1>7, <2>3 DEF FinalizeCursor, job, history
<1>8. CASE SliceStores
    BY <1>1, <1>2, <1>8 DEF SliceStores, job, history
<1>9. \/ UNCHANGED <<objects, cursorLost, manifestLost>> /\ (phase' # "running" \/ UNCHANGED <<phase, plan>>)
      \/ StartJob \/ FinalizeSnapshot \/ FinalizeManifest \/ FinalizeCursor \/ SliceStores
    BY DEF Next, NextDay, HccPublishes, HccAmends, SliceFetches, SliceCommits, Complete,
           Interrupt, Abort, vars, history, job
<1> QED
    BY <1>3, <1>4, <1>5, <1>6, <1>7, <1>8, <1>9

LEMMA SlicesFollowPlanStep ==
    ASSUME PublicationInv, PublicationTypes, SlicesFollowPlan, [Next]_vars
    PROVE  SlicesFollowPlan'
<1>1. today' \in Nat /\ today <= today' /\ today \in Nat
    BY RecordsKeepDays DEF PublicationTypes
<1>2. CASE SliceFetches
    <2>1. /\ UNCHANGED <<sums, plan, phase, today>> /\ Len(sums) < Len(plan.windows)
          /\ fetched' \in Summaries
        BY <1>2, SliceGets DEF job, world
    <2>2. ASSUME NEW i \in Fetches'
          PROVE  Fetch(i)'.chunk = plan.windows[i] /\ Fetch(i)'.newest <= today
        <3>1. CASE i \in Fetches
            BY <1>2, <3>1, SliceGets DEF SlicesFollowPlan
        <3>2. CASE i \notin Fetches
            <4>1. i = Len(sums) + 1 /\ Fetch(i)' = fetched'
                BY <1>2, <3>2, SliceGets
            <4>2. fetched'.chunk = plan.windows[Len(sums) + 1] /\ fetched'.newest \in 0 .. today
                BY <1>2, SliceGets
            <4> QED
                BY <1>1, <4>1, <4>2
        <3> QED
            BY <3>1, <3>2
    <2> QED
        BY <2>1, <2>2 DEF SlicesFollowPlan, RangeStart, RangeEnd
<1>3. CASE StartJob
    <2> DEFINE ws == PlanWindows(today)
    <2>1. today >= RefreshDays /\ SeedDay \in Int /\ RefreshDays \in Nat
        BY PublicationAssumption DEF PublicationTypes
    <2>2. plan'.windows = ws /\ sums' = <<>> /\ phase' = "running" /\ UNCHANGED <<today, worker>>
        BY <1>3 DEF StartJob, world
    <2>3. ~InFlight'
        BY <1>3, <2>2 DEF StartJob, PublicationInv, SnapshotIsFinal, InFlight, worker
    <2>4. /\ ws[1][1] = today - RefreshDays + 1 /\ ws[Len(ws)][2] = today
          /\ IsPartition(ws, today - RefreshDays + 1, today) /\ ws \in Seq(Int \X Int)
        BY <1>1, <2>1, PlanWindowsPartition
    <2> HIDE DEF ws
    <2>5. RangeStart' = today - RefreshDays + 1 /\ RangeEnd' = today
        BY <2>2, <2>4 DEF RangeStart, RangeEnd
    <2>6. Fetches' = {} /\ Len(sums') = 0 /\ sums' \in Seq(Summaries) /\ Len(ws) \in Nat
        BY <2>2, <2>3, <2>4 DEF Fetches
    <2>7. today \in SeedDay .. today
        BY <1>1, <2>1 DEF PublicationTypes
    <2> QED
        BY <1>1, <2>2, <2>3, <2>4, <2>5, <2>6, <2>7 DEF SlicesFollowPlan
<1>4. CASE ~SliceFetches /\ ~StartJob
    <2>1. Fetches' \subseteq Fetches /\ \A i \in Fetches' : Fetch(i)' = Fetch(i)
        BY <1>4, OnlySlicesFetch
    <2>2. plan' = plan /\ (phase' = phase \/ (phase # "none" /\ phase' # "none"))
        BY <1>4 DEF Next, NextDay, HccPublishes, HccAmends, SliceStores, SliceCommits,
               FinalizeSnapshot, FinalizeManifest, FinalizeCursor, Complete, Interrupt, Abort,
               vars, job, PublicationInv, SnapshotIsFinal, Finalizing
    <2>3. /\ sums' \in Seq(Summaries) /\ Len(sums') <= Len(plan.windows)
          /\ InFlight' => Len(sums') < Len(plan.windows) /\ fetched' \in Summaries
        <3>1. CASE SliceCommits
            <4>1. sums' = Append(sums, fetched) /\ InFlight /\ ~InFlight'
                BY <3>1 DEF SliceCommits, InFlight
            <4> QED
                BY <4>1 DEF SlicesFollowPlan
        <3>2. CASE sums' = sums /\ (~InFlight' \/ (InFlight /\ fetched' = fetched))
            BY <3>2 DEF SlicesFollowPlan
        <3> QED
            BY <1>4, <3>1, <3>2 DEF Next, NextDay, HccPublishes, HccAmends, SliceStores,
                   FinalizeSnapshot, FinalizeManifest, FinalizeCursor, Complete, Interrupt, Abort,
                   vars, job, worker, InFlight
    <2>4. \A i \in Fetches' : Fetch(i)'.chunk = plan.windows[i] /\ Fetch(i)'.newest <= today'
        <3>1. \A i \in Fetches : Fetch(i) \in Summaries
            BY SumsAreFetches
        <3> QED
            BY <1>1, <2>1, <3>1 DEF SlicesFollowPlan, Summaries
    <2>5. RangeStart' = RangeStart /\ RangeEnd' = RangeEnd
        BY <2>2 DEF RangeStart, RangeEnd
    <2>6. phase # "none" => RangeEnd \in SeedDay .. today'
        BY <1>1, PublicationAssumption DEF SlicesFollowPlan
    <2> QED
        BY <2>2, <2>3, <2>4, <2>5, <2>6 DEF SlicesFollowPlan
<1> QED
    BY <1>2, <1>3, <1>4

LEMMA SeedDaysStep ==
    ASSUME PublicationInv, PublicationTypes, SlicesFollowPlan, SeedDays, PlanIsBaseline,
           SlicesFindNew, [Next]_vars
    PROVE  SeedDays'
<1>1. seeded' = seeded /\ seedNewest' = seedNewest /\ seedNewest \in Nat
    BY SeedIsConstant, PublicationAssumption DEF PublicationTypes
<1>2. \A r \in Records : dayOf[r] >= 1 =>
          dayOf'[r] \in Nat /\ dayOf'[r] >= 1 /\ (dayOf'[r] <= seedNewest <=> dayOf[r] <= seedNewest)
    BY RecordsKeepDays
<1>3. seeded \subseteq Records /\ counted \subseteq Records
    BY DEF PublicationTypes
<1>4. \A r \in seeded : dayOf'[r] \in 1 .. seedNewest
    BY <1>1, <1>2, <1>3 DEF SeedDays, PublicationTypes
<1>5. \A r \in counted' : dayOf'[r] >= 1
    <2>1. CASE FinalizeSnapshot
        <3>1. \A i \in DOMAIN sums : \A r \in sums[i].ids : dayOf[r] >= 1
            BY SumsAreFetches DEF SeedDays
        <3>2. counted' = counted \cup SummaryIds /\ dayOf' = dayOf
            BY <2>1 DEF FinalizeSnapshot, world
        <3> QED
            BY <3>1, <3>2 DEF SummaryIds, SeedDays
    <2>2. CASE ~FinalizeSnapshot
        BY <2>2, <1>2, <1>3, OnlyFinalizeCounts DEF SeedDays
    <2> QED
        BY <2>1, <2>2
<1>6. ASSUME NEW i \in Fetches', NEW r \in Fetch(i)'.ids
      PROVE  dayOf'[r] >= 1
    <2>1. CASE SliceFetches /\ i \notin Fetches
        <3>1. /\ dayOf' = dayOf /\ r \in Records /\ dayOf[r] \in Days(Len(sums) + 1)
              /\ phase = "running" /\ Len(sums) < Len(plan.windows)
            BY <2>1, <1>6, SliceGets DEF world
        <3>2. Len(sums) + 1 \in DOMAIN plan.windows
            BY <3>1 DEF SlicesFollowPlan
        <3>3. RangeStart <= plan.windows[Len(sums) + 1][1] /\ RangeStart >= 1
            BY <3>1, <3>2, PublicationAssumption DEF SlicesFollowPlan, IsPartition
        <3>4. plan.windows[Len(sums) + 1] \in Int \X Int
            BY <3>2 DEF SlicesFollowPlan
        <3>5. RangeStart \in Int
            BY <3>1, PublicationAssumption DEF SlicesFollowPlan, PublicationTypes
        <3> QED
            BY <3>1, <3>3, <3>4, <3>5 DEF Days
    <2>2. CASE ~(SliceFetches /\ i \notin Fetches)
        <3>1. i \in Fetches /\ Fetch(i)' = Fetch(i)
            BY <2>2, <1>6, SliceGets, OnlySlicesFetch
        <3>2. r \in Records
            BY <3>1, <1>6, SumsAreFetches DEF Summaries
        <3> QED
            BY <3>1, <3>2, <1>2, <1>6 DEF SeedDays
    <2> QED
        BY <2>1, <2>2
<1>7. snapshot' = None => seeded' = {} /\ counted' = {} /\ seedNewest' = 0
    <2>1. CASE FinalizeSnapshot
        BY <2>1, FinalSnapshotIsJobs DEF FinalizeSnapshot
    <2>2. CASE ~FinalizeSnapshot
        BY <2>2, <1>1, OnlyFinalizeCounts DEF SeedDays
    <2> QED
        BY <2>1, <2>2
<1>8. snapshot' # None /\ counted' = {} /\ ~cursorLost' => snapshot'.newest = seedNewest
    <2>1. CASE FinalizeSnapshot /\ ~SnapshotWritten
        <3>1. SUFFICES ASSUME counted' = {}, ~cursorLost' PROVE snapshot'.newest = seedNewest
            OBVIOUS
        <3>2. /\ snapshot' = FinalSnapshot /\ phase = "running" /\ counted = {} /\ SummaryIds = {}
              /\ ~cursorLost
            BY <2>1, <3>1 DEF FinalizeSnapshot, history
        <3>3. \A i \in DOMAIN sums : sums[i].ids = {}
            BY <3>2 DEF SummaryIds
        <3>4. \A i \in DOMAIN sums : sums[i].newest = 0
            BY <3>3, SumsAreFetches DEF SlicesFindNew, FindsNew
        <3>5. NewestOfSums = 0
            BY <3>4, NewestOfSummaries
        <3>6. plan.snapshot = snapshot
            BY <2>1, <3>2 DEF PlanIsBaseline, PlanIsPublished, PlanIsBlind
        <3> QED
            BY <3>2, <3>5, <3>6, FinalValues DEF SeedDays
    <2>2. CASE FinalizeSnapshot /\ SnapshotWritten
        <3>1. /\ snapshot' = snapshot /\ counted' = counted \cup SummaryIds /\ snapshot # None
              /\ cursorLost' = cursorLost
            BY <2>2, RepeatedWrite DEF FinalizeSnapshot, SnapshotWritten, history
        <3> QED
            BY <3>1 DEF SeedDays
    <2>3. CASE ~FinalizeSnapshot
        <3>1. ~cursorLost' => ~cursorLost
            <4>1. StartJob => (cursorLost => cursorLost')
                BY DEF StartJob
            <4> QED
                BY <4>1, OnlyStartPlans
        <3> QED
            BY <2>3, <3>1, OnlyFinalizeCounts DEF SeedDays
    <2> QED
        BY <2>1, <2>2, <2>3
<1> QED
    BY <1>1, <1>4, <1>5, <1>6, <1>7, <1>8 DEF SeedDays

LEMMA PlanIsBaselineStep ==
    ASSUME RetriedFinalize, PublicationInv, PublicationTypes, SlicesFollowPlan,
           SeedDays, PlanIsBaseline, [Next]_vars
    PROVE  PlanIsBaseline'
<1> USE DEF Written, SnapshotWritten, PlanIsPublished, PlanIsBlind
<1>1. CASE StartJob
    <2>1. PICK fault \in {"none"} \cup (Faults \ {"finalize"}) :
              /\ manifestLost' = (manifestLost \/ (fault = "manifest_read" /\ manifest # None))
              /\ cursorLost' = \/ cursorLost \/ manifestLost'
                               \/ fault = "cursor_read" /\ cursor # {}
              /\ plan'.snapshot = ExistingSeedState(fault).snapshot
              /\ plan'.manifest = ExistingSeedState(fault).manifest
              /\ plan'.published = ExistingSeedState(fault).published
              /\ plan'.after = ExistingSeedState(fault).after
        BY <1>1 DEF StartJob
    <2>2. UNCHANGED objects /\ phase # "running" /\ phase' = "running" /\ jobs' = jobs + 1
        BY <1>1 DEF StartJob
    <2>3. ~SnapshotWritten'
        BY <2>2 DEF PublicationInv, SnapshotOfJob, objects
    <2>4. manifest = None <=> snapshot = None
        BY <2>2 DEF PlanIsBaseline
    <2>5. snapshot = None => cursor = {}
        BY DEF SeedDays, PublicationTypes
    <2>6. UNCHANGED <<snapshot, manifest, cursor, counted>>
        BY <2>2 DEF objects
    <2>7. CASE fault = "manifest_read" /\ manifest # None
        <3>1. PlanIsBlind'
            BY <2>1, <2>7 DEF ExistingSeedState, PlanIsBlind
        <3> HIDE DEF SnapshotWritten
        <3> QED
            BY <2>2, <2>3, <2>4, <2>6, <3>1 DEF PlanIsBaseline, PlanIsBlind
    <2>8. CASE ~(fault = "manifest_read" /\ manifest # None)
        <3>1. plan'.snapshot = snapshot /\ plan'.manifest = manifest
            BY <2>1, <2>4, <2>8 DEF ExistingSeedState
        <3>2. plan'.published = cursor \/ (plan'.published = {} /\ cursorLost')
            BY <2>1, <2>4, <2>5, <2>8 DEF ExistingSeedState
        <3>3. plan'.after = IF plan'.published = {} /\ snapshot # None THEN snapshot.newest ELSE 0
            BY <2>1, <2>4, <2>8 DEF ExistingSeedState
        <3>4. PlanIsPublished'
            BY <2>6, <3>1, <3>2, <3>3 DEF PlanIsPublished
        <3>5. ~cursorLost' => cursor \subseteq FinalCursor'
            <4>1. plan'.published \subseteq FinalCursor'
                BY DEF FinalCursor
            <4> QED
                BY <3>2, <4>1
        <3> HIDE DEF SnapshotWritten
        <3> QED
            BY <2>2, <2>3, <2>4, <2>6, <3>4, <3>5 DEF PlanIsBaseline
    <2> QED
        BY <2>7, <2>8
<1>2. CASE FinalizeSnapshot
    <2>1. /\ Written' /\ phase' = "running" /\ SnapshotWritten' /\ UNCHANGED <<job, cursor, history>>
          /\ counted' = counted \cup SummaryIds
        BY <1>2, FinalSnapshotIsJobs DEF FinalizeSnapshot, job
    <2>2. SummaryIds' = SummaryIds /\ FinalCursor' = FinalCursor
        BY <2>1, FinalSnapshotDepends DEF job
    <2> HIDE DEF SnapshotWritten
    <2> QED
        BY <2>1, <2>2, <1>2 DEF PlanIsBaseline, job, history, FinalizeSnapshot
<1>3. CASE FinalizeManifest \/ FinalizeCursor
    <2>1. Written /\ UNCHANGED <<job, snapshot, counted, history>>
        BY <1>3 DEF FinalizeManifest, FinalizeCursor, PublicationInv, SnapshotIsFinal, Finalizing
    <2>2. SummaryIds' = SummaryIds /\ FinalCursor' = FinalCursor
        BY <2>1, FinalSnapshotDepends DEF job
    <2>3. cursor' = cursor \/ cursor' = FinalCursor
        BY <1>3 DEF FinalizeManifest, FinalizeCursor
    <2> QED
        BY <2>1, <2>2, <2>3 DEF PlanIsBaseline, job, history
<1>4. CASE Complete
    <2>1. manifest # None /\ snapshot # None
        BY <1>4 DEF Complete, PublicationInv, SnapshotIsFinal, Finalizing, CountedHasManifest
    <2> QED
        BY <1>4, <2>1 DEF Complete, PlanIsBaseline, objects
<1>5. CASE Abort
    <2>1. ~Written
        BY <1>5 DEF Abort, RetriedFinalize
    <2> QED
        BY <1>5, <2>1 DEF Abort, PlanIsBaseline, objects
<1>6. CASE SliceCommits
    <2>1. /\ phase = "running" /\ ~SnapshotWritten /\ sums' = Append(sums, fetched)
          /\ UNCHANGED <<objects, phase, plan, jobs, history>>
        BY <1>6 DEF SliceCommits, PublicationInv, SnapshotIsFinal
    <2>2. SummaryIds \subseteq SummaryIds'
        <3>1. /\ Len(sums) \in Nat /\ DOMAIN sums = 1 .. Len(sums)
              /\ DOMAIN sums' = 1 .. Len(sums) + 1
              /\ \A i \in DOMAIN sums : sums'[i] = sums[i]
            BY <2>1 DEF SlicesFollowPlan
        <3> QED
            BY <3>1 DEF SummaryIds
    <2>3. FinalCursor \subseteq FinalCursor'
        BY <2>1, <2>2 DEF FinalCursor
    <2> QED
        BY <2>1, <2>3 DEF PlanIsBaseline, objects, history
<1>7. CASE UNCHANGED <<snapshot, manifest, cursor, counted, job, cursorLost, manifestLost>>
    <2>1. SummaryIds' = SummaryIds /\ FinalCursor' = FinalCursor
        BY <1>7, FinalSnapshotDepends DEF job
    <2> QED
        BY <1>7, <2>1 DEF PlanIsBaseline, job
<1>8. \/ UNCHANGED <<snapshot, manifest, cursor, counted, job, cursorLost, manifestLost>>
      \/ StartJob \/ FinalizeSnapshot \/ FinalizeManifest \/ FinalizeCursor \/ Complete \/ Abort
      \/ SliceCommits
    BY DEF Next, NextDay, HccPublishes, HccAmends, SliceFetches, SliceStores, Interrupt, vars,
           objects, history
<1> QED
    BY <1>1, <1>2, <1>3, <1>4, <1>5, <1>6, <1>7, <1>8

LEMMA SlicesFindNewStep ==
    ASSUME PublicationInv, PublicationTypes, SlicesFollowPlan, SeedDays, PlanIsBaseline,
           SlicesFindNew, [Next]_vars
    PROVE  SlicesFindNew'
<1>1. CASE StartJob
    BY <1>1, StartHasNoFetches DEF SlicesFindNew
<1>2. CASE SliceFetches
    <2>1. PICK n \in Nat : n = Len(sums) + 1
        BY SumsAreFetches
    <2>2. /\ UNCHANGED <<world, plan, cursorLost, seedNewest>>
          /\ Fetches = 1 .. (n - 1) /\ Fetches' = 1 .. n
          /\ \A i \in Fetches : Fetch(i)' = Fetch(i)
          /\ \A i \in Fetches' \ Fetches : Fetch(i)' = fetched'
          /\ Len(sums) < Len(plan.windows)
        BY <1>2, <2>1, SumsAreFetches, SliceGets DEF job, history
    <2>3. n \in DOMAIN plan.windows /\ n \in 1 .. n /\ n \notin Fetches
        BY <2>1, <2>2, SumsAreFetches DEF SlicesFollowPlan
    <2>4. Fetch(n)' = fetched'
        BY <2>2, <2>3
    <2>5. /\ phase = "running" /\ ~SnapshotWritten
          /\ fetched'.ids = {r \in Records : dayOf[r] \in Days(n)}
          /\ \A r \in fetched'.ids : r \in fetched'.new <=>
                /\ r \notin plan.published /\ dayOf[r] > plan.after
                /\ \A i \in Fetches : r \notin Fetch(i).ids
          /\ fetched'.new \subseteq fetched'.ids
          /\ \A r \in fetched'.ids : dayOf[r] <= fetched'.newest
          /\ fetched'.newest = 0 \/ \E r \in fetched'.ids : dayOf[r] = fetched'.newest
        BY <1>2, <2>1, SliceGets
    <2>6. /\ RangeStart' = RangeStart /\ \A i \in Fetches' : Days(i)' = Days(i)
          /\ plan' = plan /\ dayOf' = dayOf /\ amends' = amends /\ cursorLost' = cursorLost
          /\ seedNewest' = seedNewest
        BY <2>2 DEF RangeStart, Days, world
    <2>7. \A r \in fetched'.ids : dayOf[r] >= RangeStart /\ dayOf[r] >= 1
        BY <2>3, <2>5, RangeFacts
    <2>8. \A r \in Records : dayOf[r] \in Nat /\ seedNewest \in Nat
        BY PublicationAssumption DEF PublicationTypes
    <2>9. ASSUME ~cursorLost, NEW r \in fetched'.ids, r \notin plan.published,
                 ~(dayOf[r] <= seedNewest)
          PROVE  \E j \in 1 .. n : r \in Fetch(j)'.new
        <3>1. CASE \E i \in Fetches : r \in Fetch(i).ids
            <4>1. PICK i \in Fetches : r \in Fetch(i).ids
                BY <3>1
            <4>2. PICK j \in 1 .. i : r \in Fetch(j).new
                BY <2>9, <4>1 DEF SlicesFindNew, FindsNew
            <4>3. j \in Fetches /\ j \in 1 .. n
                BY <2>2, <4>1, <4>2
            <4>4. Fetch(j)' = Fetch(j)
                BY <2>2, <4>3
            <4> QED
                BY <4>2, <4>3, <4>4
        <3>2. CASE \A i \in Fetches : r \notin Fetch(i).ids
            <4>1. counted \subseteq plan.published
                BY <2>5, <2>9 DEF PublicationInv, CountedIsKept
            <4>2. plan.after = 0 \/ plan.after = seedNewest
                BY <2>5, <2>9, <4>1 DEF PlanIsBaseline, PlanIsPublished, PlanIsBlind, SeedDays
            <4>3. dayOf[r] > plan.after
                BY <2>5, <2>7, <2>8, <2>9, <4>2
            <4>4. r \in Fetch(n)'.new
                BY <2>4, <2>5, <2>9, <3>2, <4>3
            <4> QED
                BY <2>3, <4>4
        <3> QED
            BY <3>1, <3>2
    <2>10. ASSUME NEW i \in Fetches
           PROVE  FindsNew(i)'
        <3>1. \A j \in Fetches' : j < i => j \in Fetches
            BY <2>2
        <3>2. i \in 1 .. i /\ \A j \in 1 .. i : j \in Fetches
            BY <2>2
        <3>3. \A j \in 1 .. i : Fetch(j)' = Fetch(j)
            BY <2>2, <3>2
        <3>4. \A j \in Fetches' : j < i => Fetch(j)' = Fetch(j)
            BY <2>2, <3>1
        <3>5. Days(i)' = Days(i) /\ Fetch(i)' = Fetch(i)
            BY <2>2, <2>6
        <3> QED
            BY <2>6, <3>1, <3>3, <3>4, <3>5 DEF SlicesFindNew, FindsNew
    <2>11. FindsNew(n)'
        <3>1. \A j \in Fetches' : j < n => j \in Fetches
            BY <2>2
        <3>2. \A j \in Fetches' : j < n => Fetch(n)'.new \cap Fetch(j)'.ids = {}
            BY <2>2, <2>4, <2>5, <3>1
        <3>3. Days(n)' = Days(n)
            BY <2>2, <2>3, <2>6
        <3>4. \A r \in fetched'.ids : \/ cursorLost \/ r \in plan.published
                                      \/ dayOf[r] <= seedNewest
                                      \/ \E j \in 1 .. n : r \in Fetch(j)'.new
            BY <2>9
        <3> QED
            BY <2>4, <2>5, <2>6, <2>7, <3>2, <3>3, <3>4 DEF FindsNew
    <2>12. \A i \in Fetches' : i \in Fetches \/ i = n
        BY <2>2
    <2> QED
        BY <2>10, <2>11, <2>12 DEF SlicesFindNew
<1>3. CASE ~StartJob /\ ~SliceFetches
    <2>1. /\ Fetches' \subseteq Fetches /\ \A i \in Fetches' : Fetch(i)' = Fetch(i)
          /\ plan' = plan /\ cursorLost' = cursorLost /\ seedNewest' = seedNewest
        BY <1>3, OnlySlicesFetch, OnlyStartPlans, SeedIsConstant
    <2>2. RangeStart' = RangeStart /\ \A i \in Fetches' : Days(i)' = Days(i)
        BY <2>1 DEF RangeStart, Days
    <2>3. \A i \in Fetches : \A r \in Fetch(i).ids :
              /\ dayOf'[r] <= seedNewest <=> dayOf[r] <= seedNewest
              /\ amends' = 0 => dayOf'[r] = dayOf[r]
        <3>1. \A i \in Fetches : \A r \in Fetch(i).ids : r \in Records /\ dayOf[r] >= 1
            BY SumsAreFetches DEF SeedDays, Summaries
        <3> QED
            BY <3>1, RecordsKeepDays
    <2>4. amends' = 0 => amends = 0
        BY RecordsKeepDays DEF PublicationTypes
    <2>5. \A i \in Fetches' : \A j \in 1 .. i : j \in Fetches'
        <3>1. Len(sums') \in Nat
            BY SlicesFollowPlanStep DEF SlicesFollowPlan
        <3> QED
            BY <3>1 DEF Fetches
    <2>6. ASSUME NEW i \in Fetches'
          PROVE  FindsNew(i)'
        <3>1. i \in Fetches /\ Fetch(i)' = Fetch(i) /\ Days(i)' = Days(i)
            BY <2>1, <2>2
        <3>2. \A j \in 1 .. i : Fetch(j)' = Fetch(j)
            BY <2>1, <2>5
        <3>3. \A j \in Fetches' : j \in Fetches /\ Fetch(j)' = Fetch(j)
            BY <2>1
        <3> QED
            BY <2>1, <2>2, <2>3, <2>4, <3>1, <3>2, <3>3 DEF SlicesFindNew, FindsNew
    <2> QED
        BY <2>6 DEF SlicesFindNew
<1> QED
    BY <1>1, <1>2, <1>3

\* What stays dated was so before, or is counted by the step, and keeps its day.
LEMMA StillDatedKept ==
    ASSUME PublicationInv, PublicationTypes, SlicesFollowPlan, SeedDays, PlanIsBaseline,
           [Next]_vars
    PROVE  /\ \A r \in StillDated :
                 r \in Records /\ dayOf[r] \in Nat /\ dayOf[r] >= 1 /\ dayOf[r] <= today
           /\ \A r \in StillDated' :
                 /\ dayOf'[r] = dayOf[r]
                 /\ r \in StillDated \/ (FinalizeSnapshot /\ amends = 0 /\ r \in SummaryIds)
<1>1. \A r \in StillDated :
          r \in Records /\ dayOf[r] \in Nat /\ dayOf[r] >= 1 /\ dayOf[r] <= today
    BY DEF StillDated, PublicationTypes, SeedDays
<1>2. seeded' = seeded /\ (amends' = 0 => amends = 0)
    BY SeedIsConstant, RecordsKeepDays DEF PublicationTypes
<1>3. ~cursorLost' => ~cursorLost
    <2>1. StartJob => (cursorLost => cursorLost')
        BY DEF StartJob
    <2> QED
        BY <2>1, OnlyStartPlans
<1>4. ~cursorLost => cursor \subseteq cursor'
    <2>1. FinalizeCursor => phase = "running" /\ cursor' = FinalCursor
        BY DEF FinalizeCursor, PublicationInv, SnapshotIsFinal, Finalizing
    <2> QED
        BY <2>1, OnlyFinalizeCounts DEF PlanIsBaseline
<1>5. ASSUME NEW r \in StillDated'
      PROVE  /\ dayOf'[r] = dayOf[r]
             /\ r \in StillDated \/ (FinalizeSnapshot /\ amends = 0 /\ r \in SummaryIds)
    <2>1. CASE r \in StillDated
        <3>1. amends' = 0 \/ r \in seeded \ cursor
            BY <1>2, <1>3, <1>4, <1>5 DEF StillDated
        <3> QED
            BY <1>1, <2>1, <3>1, RecordsKeepDays
    <2>2. CASE r \notin StillDated
        <3>1. amends' = 0 /\ amends = 0 /\ r \in counted' /\ r \notin counted
            BY <1>2, <1>3, <1>4, <1>5, <2>2 DEF StillDated
        <3>2. FinalizeSnapshot /\ r \in SummaryIds /\ dayOf' = dayOf
            BY <3>1, OnlyFinalizeCounts DEF FinalizeSnapshot, world
        <3> QED
            BY <3>1, <3>2
    <2> QED
        BY <2>1, <2>2
<1> QED
    BY <1>1, <1>5

\* Once all windows are done, what no summary holds lies before the range.
LEMMA AllWindowsDone ==
    ASSUME PublicationInv, PublicationTypes, SlicesFollowPlan, SeedDays, PlanIsBaseline,
           SlicesGetAll, NoneAfterRange, phase # "none", Len(sums) = Len(plan.windows),
           NEW r \in StillDated, r \notin SummaryIds
    PROVE  dayOf[r] < RangeStart
<1>1. SUFFICES ASSUME ~(dayOf[r] < RangeStart) PROVE FALSE
    OBVIOUS
<1>2. dayOf[r] \in Nat /\ dayOf[r] <= RangeEnd /\ RangeStart \in Nat /\ RangeEnd \in Nat
    BY RangeFacts DEF StillDated, PublicationTypes, NoneAfterRange
<1>3. PICK i \in DOMAIN plan.windows : dayOf[r] \in Days(i)
    BY <1>1, <1>2, RangeFacts
<1>4. i \in DOMAIN sums
    BY DEF SlicesFollowPlan
<1>5. r \in sums[i].ids
    BY <1>3, <1>4, SumsAreFetches DEF SlicesGetAll
<1> QED
    BY <1>4, <1>5 DEF SummaryIds

\* A record a summary holds is dated in its window, as long as HCC moves nothing.
LEMMA SummariesAreDated ==
    ASSUME PublicationTypes, SlicesFollowPlan, SlicesFindNew, phase # "none", amends = 0,
           NEW r \in SummaryIds
    PROVE  \E i \in DOMAIN sums : /\ r \in sums[i].ids /\ i \in Fetches /\ Fetch(i) = sums[i]
                                  /\ dayOf[r] \in Days(i) /\ dayOf[r] <= sums[i].newest
                                  /\ RangeStart <= dayOf[r] /\ dayOf[r] <= RangeEnd
<1>1. PICK i \in DOMAIN sums : r \in sums[i].ids
    BY DEF SummaryIds
<1>2. i \in Fetches /\ Fetch(i) = sums[i] /\ i \in DOMAIN plan.windows
    BY SumsAreFetches
<1>3. dayOf[r] \in Days(i) /\ dayOf[r] <= sums[i].newest
    BY <1>1, <1>2 DEF SlicesFindNew, FindsNew
<1> QED
    BY <1>1, <1>2, <1>3, RangeFacts

LEMMA SlicesGetAllStep ==
    ASSUME PublicationInv, PublicationTypes, SlicesFollowPlan, SeedDays, PlanIsBaseline,
           SlicesFindNew, SlicesGetAll, [Next]_vars
    PROVE  SlicesGetAll'
<1>1. CASE StartJob
    BY <1>1, StartHasNoFetches DEF SlicesGetAll
<1>2. ASSUME ~StartJob, NEW r \in StillDated', NEW i \in Fetches', dayOf'[r] \in Days(i)'
      PROVE  r \in Fetch(i)'.ids
    <2>1. dayOf[r] \in Days(i)
        <3>1. Days(i)' = Days(i)
            BY <1>2, OnlyStartPlans DEF Days
        <3> QED
            BY <1>2, <3>1, StillDatedKept
    <2>2. CASE i \notin Fetches
        <3>1. SliceFetches
            BY <1>2, <2>2, OnlySlicesFetch
        <3>2. ~FinalizeSnapshot
            BY <3>1 DEF SliceFetches, FinalizeSnapshot
        <3>3. r \in Records
            BY <3>2, StillDatedKept
        <3> QED
            BY <2>1, <2>2, <3>1, <3>3, SliceGets
    <2>3. CASE i \in Fetches
        <3>1. Fetch(i)' = Fetch(i)
            BY <1>2, <2>3, OnlySlicesFetch, SliceGets
        <3>2. CASE r \in StillDated
            BY <2>1, <2>3, <3>1, <3>2 DEF SlicesGetAll
        <3>3. CASE FinalizeSnapshot /\ amends = 0 /\ r \in SummaryIds
            <4>1. phase # "none"
                BY <3>3 DEF FinalizeSnapshot
            <4>2. PICK j \in DOMAIN sums : r \in sums[j].ids /\ j \in Fetches
                                           /\ Fetch(j) = sums[j] /\ dayOf[r] \in Days(j)
                BY <3>3, <4>1, SummariesAreDated
            <4>3. i = j
                BY <2>1, <2>3, <4>1, <4>2, SumsAreFetches, RangeFacts
            <4> QED
                BY <3>1, <4>2, <4>3
        <3> QED
            BY <1>2, <3>2, <3>3, StillDatedKept
    <2> QED
        BY <2>2, <2>3
<1> QED
    BY <1>1, <1>2 DEF SlicesGetAll

\* A new job's range ends on the day it is planned, and begins no earlier than the last.
LEMMA StartMovesRange ==
    ASSUME PublicationInv, PublicationTypes, SlicesFollowPlan, StartJob, [Next]_vars
    PROVE  /\ RangeEnd' = today /\ RangeStart' \in Nat
           /\ phase # "none" => RangeStart <= RangeStart'
<1>1. /\ plan'.windows = PlanWindows(today) /\ today \in Nat /\ SeedDay <= today
    BY DEF StartJob, PublicationTypes
<1>2. RefreshDays \in Nat /\ SeedDay \in Nat /\ RefreshDays <= SeedDay
    BY PublicationAssumption
<1>3. RangeEnd' = today /\ RangeStart' = today - RefreshDays + 1
    BY <1>1, <1>2, PlanWindowsPartition DEF RangeEnd, RangeStart
<1>4. phase # "none" => RangeEnd \in SeedDay .. today /\ RangeStart = RangeEnd - RefreshDays + 1
    BY DEF SlicesFollowPlan
<1> QED
    BY <1>1, <1>2, <1>3, <1>4

LEMMA NoneAfterRangeStep ==
    ASSUME PublicationInv, PublicationTypes, SlicesFollowPlan, SeedDays, PlanIsBaseline,
           SlicesFindNew, NoneAfterRange, [Next]_vars
    PROVE  NoneAfterRange'
<1>1. SUFFICES ASSUME phase' # "none", NEW r \in StillDated'
               PROVE  dayOf'[r] <= RangeEnd'
    BY DEF NoneAfterRange
<1>2. dayOf'[r] = dayOf[r]
    BY StillDatedKept
<1>3. CASE StartJob
    <2>1. ~FinalizeSnapshot
        BY <1>3 DEF StartJob, FinalizeSnapshot
    <2> QED
        BY <1>2, <1>3, <2>1, StillDatedKept, StartMovesRange
<1>4. CASE ~StartJob
    <2>1. phase # "none" /\ RangeEnd' = RangeEnd
        BY <1>1, <1>4, OnlyStartPlans DEF RangeEnd
    <2>2. CASE r \in StillDated
        BY <1>2, <2>1, <2>2 DEF NoneAfterRange
    <2>3. CASE amends = 0 /\ r \in SummaryIds
        BY <1>2, <2>1, <2>3, SummariesAreDated
    <2> QED
        BY <2>2, <2>3, StillDatedKept
<1> QED
    BY <1>3, <1>4

\* A finalization that was begun goes on with the summaries it has, until it has written
\* the cursor.
LEMMA WrittenStays ==
    ASSUME RetriedFinalize, PublicationInv, SlicesFollowPlan, [Next]_vars, Written
    PROVE  /\ SummaryIds' = SummaryIds /\ UNCHANGED <<plan, sums>> /\ phase # "none" /\ ~StartJob
           /\ jobs' = jobs
           /\ Written' \/ (Complete /\ cursor = FinalCursor)
<1>1. phase = "running" /\ SnapshotWritten /\ Len(sums) = Len(plan.windows) /\ ~InFlight
    BY DEF Written, PublicationInv, SnapshotIsFinal, InFlight
<1>2. ~StartJob /\ ~SliceFetches /\ ~SliceStores /\ ~SliceCommits /\ ~Abort
    BY <1>1, SumsAreFetches
       DEF StartJob, SliceFetches, SliceStores, SliceCommits, Abort, RetriedFinalize, InFlight
<1>3. sums' = sums => SummaryIds' = SummaryIds
    BY DEF SummaryIds
<1>4. CASE UNCHANGED <<snapshot, job>>
    BY <1>1, <1>2, <1>3, <1>4 DEF job, Written, SnapshotWritten
<1>5. CASE FinalizeSnapshot
    BY <1>1, <1>2, <1>3, <1>5, FinalSnapshotIsJobs
       DEF FinalizeSnapshot, job, Written, SnapshotWritten
<1>6. CASE Complete
    BY <1>1, <1>2, <1>3, <1>6 DEF Complete, PublicationInv, CountedIsKept
<1>7. UNCHANGED <<snapshot, job>> \/ FinalizeSnapshot \/ Complete
    BY <1>2 DEF Next, NextDay, HccPublishes, HccAmends, FinalizeManifest, FinalizeCursor,
                Interrupt, vars, objects
<1> QED
    BY <1>4, <1>5, <1>6, <1>7

LEMMA CursorHoldsRangeStep ==
    ASSUME RetriedFinalize, PublicationInv, PublicationTypes, SlicesFollowPlan, SeedDays,
           PlanIsBaseline, SlicesFindNew, SlicesGetAll, NoneAfterRange, CursorHoldsRange,
           [Next]_vars
    PROVE  CursorHoldsRange'
<1>1. CASE FinalizeCursor
    <2>1. /\ phase = "running" /\ phase' = phase /\ plan' = plan /\ cursor' = FinalCursor
          /\ Len(sums) = Len(plan.windows)
        BY <1>1 DEF FinalizeCursor, PublicationInv, SnapshotIsFinal, Finalizing, job
    <2>2. ~FinalizeSnapshot /\ RangeStart' = RangeStart
        BY <1>1, <2>1 DEF FinalizeCursor, FinalizeSnapshot, RangeStart
    <2>3. ASSUME NEW r \in StillDated' \ cursor'
          PROVE  dayOf'[r] < RangeStart'
        <3>1. r \in StillDated /\ dayOf'[r] = dayOf[r]
            BY <2>2, StillDatedKept
        <3>2. r \notin SummaryIds
            BY <2>1, <2>3 DEF FinalCursor
        <3> QED
            BY <2>1, <2>2, <3>1, <3>2, AllWindowsDone
    <2> QED
        BY <2>1, <2>3 DEF CursorHoldsRange
<1>2. CASE ~FinalizeCursor
    <2>1. cursor' = cursor
        BY <1>2, OnlyFinalizeCounts
    <2>2. SUFFICES ASSUME cursor # {}
                   PROVE  /\ phase' # "none"
                          /\ \A r \in StillDated' \ cursor :
                                dayOf'[r] < RangeStart' \/ (Written' /\ r \in SummaryIds')
        BY <2>1 DEF CursorHoldsRange
    <2>3. phase # "none" /\ RangeStart \in Nat
        BY <2>2, RangeFacts DEF CursorHoldsRange
    <2>4. phase' # "none"
        BY <2>3, OnlyStartPlans DEF StartJob
    <2>5. RangeStart' \in Nat /\ RangeStart <= RangeStart'
        <3>1. CASE StartJob
            BY <2>3, <3>1, StartMovesRange
        <3>2. CASE ~StartJob
            BY <2>3, <3>2, OnlyStartPlans DEF RangeStart
        <3> QED
            BY <3>1, <3>2
    <2>6. ASSUME NEW r \in StillDated' \ cursor
          PROVE  dayOf'[r] < RangeStart' \/ (Written' /\ r \in SummaryIds')
        <3>1. CASE r \notin StillDated
            <4>1. FinalizeSnapshot /\ r \in SummaryIds
                BY <2>6, <3>1, StillDatedKept
            <4>2. SummaryIds' = SummaryIds /\ Written'
                BY <4>1, FinalSnapshotIsJobs
                   DEF FinalizeSnapshot, job, SummaryIds, Written, SnapshotWritten
            <4> QED
                BY <4>1, <4>2
        <3>2. CASE r \in StillDated /\ dayOf[r] < RangeStart
            <4>1. dayOf'[r] = dayOf[r] /\ dayOf[r] \in Nat
                BY <2>6, <3>2, StillDatedKept
            <4> QED
                BY <2>3, <2>5, <3>2, <4>1
        <3>3. CASE Written /\ r \in SummaryIds
            <4>1. ~(Complete /\ cursor = FinalCursor)
                BY <2>6, <3>3 DEF FinalCursor
            <4> QED
                BY <3>3, <4>1, WrittenStays
        <3> QED
            BY <2>2, <2>6, <3>1, <3>2, <3>3 DEF CursorHoldsRange
    <2> QED
        BY <2>4, <2>6
<1> QED
    BY <1>1, <1>2

LEMMA SnapshotIsNewestStep ==
    ASSUME PublicationInv, PublicationTypes, SlicesFollowPlan, SeedDays, PlanIsBaseline,
           SlicesFindNew, SlicesGetAll, NoneAfterRange, SnapshotIsNewest, [Next]_vars
    PROVE  SnapshotIsNewest'
<1>1. SUFFICES ASSUME amends' = 0, snapshot' # None, NEW r \in seeded' \cup counted'
               PROVE  dayOf'[r] <= snapshot'.newest \/ (phase' # "none" /\ dayOf'[r] < RangeStart')
    BY DEF SnapshotIsNewest
<1>2. amends = 0 /\ seeded' = seeded
    BY <1>1, RecordsKeepDays, SeedIsConstant DEF PublicationTypes
<1>3. r \in StillDated' /\ dayOf'[r] = dayOf[r]
    BY <1>1, StillDatedKept DEF StillDated
<1>4. CASE UNCHANGED <<snapshot, counted>>
    <2>1. /\ r \in StillDated /\ dayOf[r] \in Nat
          /\ dayOf[r] <= snapshot.newest \/ (phase # "none" /\ dayOf[r] < RangeStart)
        BY <1>1, <1>2, <1>4, StillDatedKept DEF SnapshotIsNewest, StillDated
    <2>2. phase # "none" => phase' # "none" /\ RangeStart \in Nat /\ RangeStart' \in Nat
                            /\ RangeStart <= RangeStart'
        <3>1. phase # "none" => RangeStart \in Nat
            BY RangeFacts
        <3>2. CASE StartJob
            BY <3>1, <3>2, StartMovesRange DEF StartJob
        <3>3. CASE ~StartJob
            BY <3>1, <3>3, OnlyStartPlans DEF RangeStart
        <3> QED
            BY <3>2, <3>3
    <2> QED
        BY <1>3, <1>4, <2>1, <2>2
<1>5. CASE FinalizeSnapshot /\ SnapshotWritten
    <2>1. snapshot' = snapshot /\ counted' = counted
        BY <1>5, RepeatedWrite DEF FinalizeSnapshot, PlanIsBaseline, Written
    <2> QED
        BY <1>4, <2>1
<1>6. CASE FinalizeSnapshot /\ ~SnapshotWritten
    <2>1. /\ phase = "running" /\ phase' = phase /\ RangeStart' = RangeStart
          /\ snapshot' = FinalSnapshot /\ Len(sums) = Len(plan.windows)
          /\ counted' = counted \cup SummaryIds
        BY <1>6 DEF FinalizeSnapshot, job, RangeStart
    <2>2. CASE r \in SummaryIds
        <3>1. PICK i \in DOMAIN sums : dayOf[r] <= sums[i].newest
            BY <1>2, <2>1, <2>2, SummariesAreDated
        <3>2. /\ sums[i].newest \in Nat /\ sums[i].newest <= NewestOfSums /\ NewestOfSums \in Nat
            BY SumsAreFetches, NewestOfSummaries DEF Summaries
        <3>3. dayOf[r] \in Nat /\ dayOf[r] >= 1
            <4>1. PICK j \in DOMAIN sums : r \in sums[j].ids
                BY <2>2 DEF SummaryIds
            <4> QED
                BY <4>1, SumsAreFetches DEF SeedDays, Summaries, PublicationTypes
        <3>4. NewestOfSums # 0
            BY <3>1, <3>2, <3>3
        <3>5. snapshot'.newest = NewestOfSums
            BY <2>1, <3>4, FinalValues
        <3> QED
            BY <1>3, <3>1, <3>2, <3>3, <3>5
    <2>3. CASE r \notin SummaryIds
        <3>1. r \in StillDated
            BY <1>1, <1>2, <2>1, <2>3 DEF StillDated
        <3> QED
            BY <1>3, <2>1, <2>3, <3>1, AllWindowsDone
    <2> QED
        BY <2>2, <2>3
<1> QED
    BY <1>4, <1>5, <1>6, OnlyFinalizeCounts

LEMMA NewIsUncountedStep ==
    ASSUME PublicationInv, PublicationTypes, SlicesFollowPlan, SeedDays, PlanIsBaseline,
           CursorHoldsRange, SnapshotIsNewest, NewIsUncounted, [Next]_vars
    PROVE  NewIsUncounted'
<1>1. CASE StartJob
    BY <1>1, StartHasNoFetches DEF NewIsUncounted
<1>2. CASE SliceFetches
    <2>1. SUFFICES ASSUME plan.snapshot # None, amends = 0 \/ ~cursorLost, NEW r \in fetched'.new,
                          r \in seeded \cup counted
                   PROVE  FALSE
        <3>1. UNCHANGED <<snapshot, phase, plan, jobs, amends, cursorLost, seeded, counted>>
            BY <1>2, SliceGets DEF objects, job, world, history
        <3>2. \A i \in Fetches' :
                  (i \in Fetches /\ Fetch(i)' = Fetch(i)) \/ Fetch(i)' = fetched'
            BY <1>2, SliceGets
        <3>3. phase = "running" /\ ~SnapshotWritten
            BY <1>2, SliceGets
        <3> QED
            BY <2>1, <3>1, <3>2, <3>3 DEF NewIsUncounted
    <2>2. /\ phase = "running" /\ ~SnapshotWritten /\ Len(sums) + 1 \in DOMAIN plan.windows
          /\ r \in Records /\ dayOf[r] \in Days(Len(sums) + 1)
          /\ r \notin plan.published /\ dayOf[r] > plan.after
        <3>1. Len(sums) < Len(plan.windows)
            BY <1>2, SliceGets
        <3>2. Len(sums) + 1 \in DOMAIN plan.windows
            BY <3>1, SumsAreFetches DEF SlicesFollowPlan
        <3> QED
            BY <1>2, <2>1, <3>2, SliceGets
    <2>3. dayOf[r] \in Nat /\ RangeStart \in Nat /\ RangeStart <= dayOf[r]
        BY <2>2, RangeFacts
    <2>4. ~cursorLost => r \notin counted /\ r \in seeded \ cursor
        <3>1. ~cursorLost => counted \subseteq plan.published /\ cursor = plan.published
            BY <2>2 DEF PublicationInv, CountedIsKept, PlanIsBaseline, PlanIsPublished, PlanIsBlind
        <3> QED
            BY <2>1, <2>2, <3>1
    <2>5. r \in StillDated
        BY <2>1, <2>4 DEF StillDated
    <2>6. CASE plan.published = {}
        <3>1. plan.after = snapshot.newest /\ snapshot # None
            BY <2>1, <2>2, <2>6 DEF PlanIsBaseline, PlanIsPublished, PlanIsBlind
        <3>2. CASE amends = 0
            <4>1. dayOf[r] <= snapshot.newest
                BY <2>1, <2>3, <3>1, <3>2 DEF SnapshotIsNewest
            <4> QED
                BY <2>2, <2>3, <3>1, <4>1 DEF PublicationTypes
        <3>3. CASE ~cursorLost
            <4>1. counted = {}
                BY <2>2, <2>6, <3>3 DEF PublicationInv, CountedIsKept
            <4>2. snapshot.newest = seedNewest /\ dayOf[r] \in 1 .. seedNewest
                BY <2>1, <2>4, <3>1, <3>3, <4>1 DEF SeedDays
            <4> QED
                BY <2>2, <2>3, <3>1, <4>2 DEF PublicationTypes
        <3> QED
            BY <2>1, <3>2, <3>3
    <2>7. CASE plan.published # {}
        <3>1. cursor = plan.published
            BY <2>2, <2>7 DEF PlanIsBaseline, PlanIsPublished, PlanIsBlind
        <3>2. dayOf[r] < RangeStart
            BY <2>2, <2>5, <2>7, <3>1 DEF CursorHoldsRange, Written
        <3> QED
            BY <2>3, <3>2
    <2> QED
        BY <2>6, <2>7
<1>3. CASE FinalizeSnapshot
    <2>1. SnapshotWritten'
        BY <1>3, FinalSnapshotIsJobs DEF FinalizeSnapshot, job, SnapshotWritten
    <2> QED
        BY <2>1 DEF NewIsUncounted
<1>4. CASE ~StartJob /\ ~SliceFetches /\ ~FinalizeSnapshot
    <2>1. /\ Fetches' \subseteq Fetches /\ \A i \in Fetches' : Fetch(i)' = Fetch(i)
          /\ cursorLost' = cursorLost /\ seeded' = seeded /\ UNCHANGED <<snapshot, counted, plan>>
          /\ phase' = "running" => phase = "running"
        BY <1>4, OnlySlicesFetch, OnlyStartPlans, SeedIsConstant, OnlyFinalizeCounts
    <2>2. amends' = 0 => amends = 0
        BY RecordsKeepDays DEF PublicationTypes
    <2>3. jobs' = jobs
        BY <1>4 DEF Next, NextDay, HccPublishes, HccAmends, SliceStores, SliceCommits,
               FinalizeManifest, FinalizeCursor, Complete, Interrupt, Abort, vars, job
    <2> QED
        BY <2>1, <2>2, <2>3 DEF NewIsUncounted, SnapshotWritten
<1> QED
    BY <1>1, <1>2, <1>3, <1>4

-----------------------------------------------------------------------------
(* What a finalization counts                                              *)

\* Counting sets of records.
LEMMA CountingRecords ==
    ASSUME NEW A \in SUBSET Records, NEW B \in SUBSET Records
    PROVE  /\ Cardinality(A) \in Nat
           /\ A \subseteq B => Cardinality(A) <= Cardinality(B)
           /\ Cardinality(A \cup B) <= Cardinality(A) + Cardinality(B)
           /\ A \cap B = {} => Cardinality(A \cup B) = Cardinality(A) + Cardinality(B)
<1>1. IsFiniteSet(A) /\ IsFiniteSet(B)
    BY PublicationAssumption, FS_Subset
<1>2. Cardinality(A) \in Nat /\ Cardinality(B) \in Nat /\ Cardinality(A \cap B) \in Nat
    BY <1>1, FS_CardinalityType, FS_Intersection
<1>3. Cardinality(A \cup B) = Cardinality(A) + Cardinality(B) - Cardinality(A \cap B)
    BY <1>1, FS_Union
<1>4. A \subseteq B => Cardinality(A) <= Cardinality(B)
    BY <1>1, FS_Subset
<1>5. A \cap B = {} => Cardinality(A \cap B) = 0
    BY FS_EmptySet
<1> QED
    BY <1>2, <1>3, <1>4, <1>5

\* What the summaries of a job found new.
NewIds == UNION {sums[i].new : i \in DOMAIN sums}

\* The records of the summaries, those found new, and the counts of both.
LEMMA SummaryCounts ==
    ASSUME PublicationInv, PublicationTypes, SlicesFollowPlan, SlicesFindNew, PlanIsBaseline,
           phase = "running"
    PROVE  /\ SummaryIds \subseteq Records /\ NewIds \subseteq SummaryIds
           /\ NewCount = Cardinality(NewIds) /\ NewCount \in Nat /\ RecordCount \in Nat
           /\ Cardinality(SummaryIds) <= RecordCount
           /\ amends = 0 => RecordCount = Cardinality(SummaryIds)
           /\ ~cursorLost => \A r \in SummaryIds :
                 r \in counted \/ dayOf[r] <= seedNewest \/ r \in NewIds
<1>1. /\ DOMAIN sums = 1 .. Len(sums) /\ Len(sums) \in Nat
      /\ \A i \in DOMAIN sums : i \in Fetches /\ Fetch(i) = sums[i] /\ sums[i] \in Summaries
      /\ \A i \in Fetches : i \in DOMAIN plan.windows
    BY SumsAreFetches
<1>2. \A i \in DOMAIN sums : FindsNew(i) /\ sums[i].new \subseteq sums[i].ids
                             /\ sums[i].ids \subseteq Records
    BY <1>1 DEF SlicesFindNew, FindsNew, Summaries
<1>3. SummaryIds \subseteq Records /\ NewIds \subseteq SummaryIds
    BY <1>2 DEF SummaryIds, NewIds
<1>4. \A i, j \in DOMAIN sums : i # j => sums[i].new \cap sums[j].new = {}
    <2>1. \A i, j \in DOMAIN sums : j < i => sums[i].new \cap sums[j].ids = {}
        BY <1>1, <1>2 DEF FindsNew
    <2>2. \A i, j \in DOMAIN sums : i # j => i < j \/ j < i
        BY <1>1
    <2> QED
        BY <1>2, <2>1, <2>2
<1>5. amends = 0 => \A i, j \in DOMAIN sums : i # j => sums[i].ids \cap sums[j].ids = {}
    <2>1. amends = 0 => \A i \in DOMAIN sums : \A r \in sums[i].ids : dayOf[r] \in Days(i)
        BY <1>1, <1>2 DEF FindsNew
    <2> QED
        BY <1>1, <2>1, RangeFacts
<1>6. sums \in Seq(Summaries)
    BY DEF SlicesFollowPlan
<1>7. /\ RecordCount \in Nat /\ NewCount \in Nat /\ Cardinality(SummaryIds) <= RecordCount
      /\ NewCount = Cardinality(NewIds)
      /\ amends = 0 => RecordCount = Cardinality(SummaryIds)
    BY <1>4, <1>5, <1>6, CountsOfSums DEF NewIds
<1>8. ASSUME ~cursorLost, NEW r \in SummaryIds
      PROVE  r \in counted \/ dayOf[r] <= seedNewest \/ r \in NewIds
    <2>1. PICK i \in DOMAIN sums : r \in sums[i].ids
        BY DEF SummaryIds
    <2>2. r \in plan.published \/ dayOf[r] <= seedNewest \/ \E j \in 1 .. i : r \in Fetch(j).new
        BY <1>1, <1>2, <1>8, <2>1 DEF FindsNew
    <2>3. \A j \in 1 .. i : j \in DOMAIN sums /\ Fetch(j) = sums[j]
        BY <1>1, <2>1
    <2>4. plan.published \subseteq counted
        BY DEF PublicationInv, CountedIsKept, PublicationTypes
    <2> QED
        BY <2>2, <2>3, <2>4 DEF NewIds
<1> QED
    BY <1>3, <1>7, <1>8

\* The first write of a finalization publishes no more than there is, nor less.
LEMMA FirstWriteCounts ==
    ASSUME PublicationInv, PublicationTypes, SlicesFollowPlan, SeedDays, PlanIsBaseline,
           SlicesFindNew, NewIsUncounted, TotalsInBounds, phase = "running", ~SnapshotWritten
    PROVE  /\ amends = 0 \/ (seeded # {} /\ ~cursorLost) =>
                 FinalSnapshot.total <= Cardinality(seeded \cup (counted \cup SummaryIds))
           /\ ~cursorLost =>
                 FinalSnapshot.total >=
                    Cardinality(seeded \cup {r \in counted \cup SummaryIds : dayOf[r] > seedNewest})
           /\ FinalManifest.total >= FinalSnapshot.total
           /\ amends = 0 =>
                 FinalManifest.total <= Cardinality(seeded \cup (counted \cup SummaryIds))
<1> DEFINE all == seeded \cup (counted \cup SummaryIds)
           old == seeded \cup counted
<1>1. /\ SummaryIds \subseteq Records /\ NewIds \subseteq SummaryIds
      /\ NewCount = Cardinality(NewIds) /\ NewCount \in Nat /\ RecordCount \in Nat
      /\ Cardinality(SummaryIds) <= RecordCount
      /\ amends = 0 => RecordCount = Cardinality(SummaryIds)
      /\ ~cursorLost => \A r \in SummaryIds :
            r \in counted \/ dayOf[r] <= seedNewest \/ r \in NewIds
    BY SummaryCounts
<1>2. old \in SUBSET Records /\ all \in SUBSET Records /\ NewIds \in SUBSET Records
      /\ SummaryIds \in SUBSET Records
    BY <1>1 DEF PublicationTypes
<1>3. /\ ~Written /\ (manifest = None <=> snapshot = None)
      /\ plan.manifest = None <=> plan.snapshot = None
      /\ plan.snapshot # None => plan.snapshot = snapshot /\ plan.manifest = manifest
      /\ plan.snapshot = None => cursorLost \/ snapshot = None
    BY DEF PlanIsBaseline, PlanIsPublished, PlanIsBlind, Written
<1>4. /\ FinalSnapshot.total = IF plan.snapshot = None THEN RecordCount
                               ELSE snapshot.total + NewCount
      /\ FinalManifest.total >= RecordCount
      /\ plan.snapshot # None => FinalManifest.total >= manifest.total + NewCount
      /\ FinalManifest.total \in {RecordCount} \cup
            (IF plan.manifest = None THEN {} ELSE {manifest.total + NewCount})
    BY <1>3, FinalValues
<1>5. snapshot # None => snapshot.total \in Nat /\ manifest.total \in Nat
    BY <1>3 DEF PublicationTypes
<1>6. amends = 0 => RecordCount <= Cardinality(all)
    <2>1. SummaryIds \subseteq all
        OBVIOUS
    <2>2. Cardinality(SummaryIds) <= Cardinality(all)
        BY <1>2, <2>1, CountingRecords
    <2> QED
        BY <1>1, <2>2
<1>7. plan.snapshot # None /\ (amends = 0 \/ ~cursorLost) =>
          Cardinality(old) + NewCount <= Cardinality(all)
    <2>1. SUFFICES ASSUME plan.snapshot # None, amends = 0 \/ ~cursorLost
                   PROVE  Cardinality(old) + Cardinality(NewIds) <= Cardinality(all)
        BY <1>1
    <2>2. NewIds \cap old = {}
        BY <2>1, SumsAreFetches DEF NewIsUncounted, NewIds
    <2>3. Cardinality(old \cup NewIds) = Cardinality(old) + Cardinality(NewIds)
        BY <1>2, <2>2, CountingRecords
    <2>4. old \cup NewIds \subseteq all /\ old \cup NewIds \in SUBSET Records
        BY <1>1, <1>2
    <2>5. Cardinality(old \cup NewIds) <= Cardinality(all)
        BY <1>2, <2>4, CountingRecords
    <2> QED
        BY <2>3, <2>5
<1>8. snapshot = None => seeded = {} /\ counted = {}
    BY DEF SeedDays
<1>9. Cardinality(old) \in Nat /\ Cardinality(all) \in Nat
    BY <1>2, CountingRecords
<1>10. ASSUME amends = 0 \/ (seeded # {} /\ ~cursorLost)
       PROVE  FinalSnapshot.total <= Cardinality(all)
    <2>1. CASE plan.snapshot = None
        <3>1. amends = 0
            BY <1>3, <1>8, <1>10, <2>1
        <3> QED
            BY <1>4, <1>6, <2>1, <3>1
    <2>2. CASE plan.snapshot # None
        <3>1. snapshot # None /\ snapshot.total <= Cardinality(old)
            BY <1>3, <1>10, <2>2 DEF TotalsInBounds, NeverOvercounts
        <3> QED
            BY <1>1, <1>4, <1>5, <1>7, <1>9, <1>10, <2>2, <3>1
    <2> QED
        BY <2>1, <2>2
<1>11. ASSUME ~cursorLost
       PROVE  FinalSnapshot.total >=
                  Cardinality(seeded \cup {r \in counted \cup SummaryIds : dayOf[r] > seedNewest})
    <2> DEFINE kept == seeded \cup {r \in counted : dayOf[r] > seedNewest}
               due  == seeded \cup {r \in counted \cup SummaryIds : dayOf[r] > seedNewest}
    <2>1. kept \in SUBSET Records /\ due \in SUBSET Records
        BY <1>1 DEF PublicationTypes
    <2>2. CASE plan.snapshot = None
        <3>1. due \subseteq SummaryIds
            BY <1>3, <1>8, <1>11, <2>2
        <3>2. Cardinality(due) <= Cardinality(SummaryIds)
            BY <1>2, <2>1, <3>1, CountingRecords
        <3>3. Cardinality(due) \in Nat /\ Cardinality(SummaryIds) \in Nat
            BY <1>2, <2>1, CountingRecords
        <3> HIDE DEF due
        <3>4. FinalSnapshot.total >= Cardinality(due)
            BY <1>1, <1>4, <2>2, <3>2, <3>3
        <3> QED
            BY <3>4 DEF due
    <2>3. CASE plan.snapshot # None
        <3>1. snapshot # None /\ snapshot.total >= Cardinality(kept)
            BY <1>3, <1>11, <2>3 DEF TotalsInBounds, NeverUndercounts
        <3>2. due \subseteq kept \cup NewIds
            <4>1. \A r \in SummaryIds : dayOf[r] \in Int /\ seedNewest \in Int
                BY <1>1, PublicationAssumption DEF PublicationTypes
            <4>2. \A r \in SummaryIds : dayOf[r] > seedNewest => r \in counted \/ r \in NewIds
                BY <1>1, <1>11, <4>1
            <4> QED
                BY <4>2
        <3>3. kept \cup NewIds \in SUBSET Records
            BY <1>2, <2>1
        <3> HIDE DEF due, kept
        <3>4. Cardinality(due) <= Cardinality(kept \cup NewIds)
            BY <2>1, <3>2, <3>3, CountingRecords
        <3>5. Cardinality(kept \cup NewIds) <= Cardinality(kept) + Cardinality(NewIds)
            BY <1>2, <2>1, CountingRecords
        <3>6. Cardinality(due) \in Nat /\ Cardinality(kept) \in Nat
              /\ Cardinality(kept \cup NewIds) \in Nat
            BY <2>1, <3>3, CountingRecords
        <3>7. FinalSnapshot.total >= Cardinality(due)
            BY <1>1, <1>4, <1>5, <2>3, <3>1, <3>4, <3>5, <3>6
        <3> QED
            BY <3>7 DEF due
    <2> QED
        BY <2>2, <2>3
<1>12. FinalManifest.total >= FinalSnapshot.total
    <2>1. snapshot # None => manifest.total >= snapshot.total
        BY <1>3 DEF TotalsInBounds
    <2> QED
        BY <1>1, <1>3, <1>4, <1>5, <2>1, FinalValues
<1>13. ASSUME amends = 0
       PROVE  FinalManifest.total <= Cardinality(all)
    <2>1. CASE FinalManifest.total = RecordCount
        BY <1>6, <1>13, <2>1
    <2>2. CASE plan.manifest # None /\ FinalManifest.total = manifest.total + NewCount
        <3>1. manifest.total <= Cardinality(old)
            BY <1>3, <1>13, <2>2 DEF TotalsInBounds
        <3> QED
            BY <1>1, <1>3, <1>5, <1>7, <1>9, <1>13, <2>2, <3>1
    <2> QED
        BY <1>3, <1>4, <2>1, <2>2
<1> QED
    BY <1>10, <1>11, <1>12, <1>13

\* A finalization under way has begun with its first write.
LEMMA OnlyFinalizeBegins ==
    ASSUME PublicationInv, [Next]_vars, ~Written, Written'
    PROVE  FinalizeSnapshot /\ ~SnapshotWritten
<1>1. StartJob => ~Written'
    BY DEF StartJob, objects, PublicationInv, SnapshotOfJob, Written, SnapshotWritten
<1>2. CASE phase' = "running" /\ phase = "running" /\ UNCHANGED <<snapshot, jobs>>
    BY <1>2 DEF Written, SnapshotWritten
<1>3. FinalizeSnapshot => ~SnapshotWritten
    BY DEF FinalizeSnapshot, Written
<1>4. FinalizeSnapshot \/ (phase' = "running" /\ phase = "running" /\ UNCHANGED <<snapshot, jobs>>)
    BY <1>1 DEF Next, NextDay, HccPublishes, HccAmends, SliceFetches, SliceStores, SliceCommits,
           FinalizeManifest, FinalizeCursor, Complete, Interrupt, Abort, vars, objects, job,
           Written
<1> QED
    BY <1>2, <1>3, <1>4

\* What holds of the published totals and the numbers there are holds until the next first
\* write.
LEMMA FirstWriteOrSame ==
    ASSUME PublicationInv, PublicationTypes, PlanIsBaseline, [Next]_vars
    PROVE  /\ \/ UNCHANGED <<snapshot, counted, seeded, seedNewest>>
              \/ FinalizeSnapshot /\ ~SnapshotWritten
           /\ FinalizeSnapshot =>
              /\ phase = "running"
              /\ snapshot' = FinalSnapshot /\ counted' = counted \cup SummaryIds
              /\ UNCHANGED <<seeded, seedNewest, dayOf, amends, cursorLost, plan, sums, jobs, manifest>>
<1>1. FinalizeSnapshot /\ SnapshotWritten => UNCHANGED <<snapshot, counted>>
    BY RepeatedWrite DEF FinalizeSnapshot, PlanIsBaseline, Written
<1>2. ~FinalizeSnapshot => UNCHANGED <<snapshot, counted>>
    BY OnlyFinalizeCounts
<1> QED
    BY <1>1, <1>2, SeedIsConstant DEF FinalizeSnapshot, world, job, history

LEMMA TotalsInBoundsStep ==
    ASSUME RetriedFinalize, PublicationInv, PublicationTypes, SlicesFollowPlan, SeedDays,
           PlanIsBaseline, SlicesFindNew, NewIsUncounted, TotalsInBounds, [Next]_vars
    PROVE  TotalsInBounds'
<1>1. /\ amends' = 0 => amends = 0
      /\ \A r \in Records : dayOf[r] >= 1 => (dayOf'[r] <= seedNewest <=> dayOf[r] <= seedNewest)
      /\ \A r \in Records : dayOf[r] \in Int /\ dayOf'[r] \in Int
      /\ seedNewest \in Int /\ seeded' = seeded /\ seedNewest' = seedNewest
    <2>1. dayOf' \in [Records -> 0 .. today'] /\ today' \in Nat
        BY RecordsKeepDays
    <2>2. \A r \in Records : dayOf[r] \in Int /\ dayOf'[r] \in Int
        BY <2>1 DEF PublicationTypes
    <2> QED
        BY <2>2, RecordsKeepDays, SeedIsConstant, PublicationAssumption DEF PublicationTypes
<1>2. ~cursorLost' => ~cursorLost
    <2>1. StartJob => (cursorLost => cursorLost')
        BY DEF StartJob
    <2> QED
        BY <2>1, OnlyStartPlans
<1>3. NeverOvercounts'
    <2>1. CASE UNCHANGED <<snapshot, counted, seeded>>
        BY <1>1, <1>2, <2>1 DEF TotalsInBounds, NeverOvercounts
    <2>2. CASE FinalizeSnapshot /\ ~SnapshotWritten
        BY <2>2, FirstWriteCounts, FirstWriteOrSame DEF NeverOvercounts
    <2> QED
        BY <2>1, <2>2, FirstWriteOrSame
<1>4. NeverUndercounts'
    <2>1. CASE UNCHANGED <<snapshot, counted, seeded, seedNewest>>
        <3>1. \A r \in counted : dayOf'[r] > seedNewest <=> dayOf[r] > seedNewest
            <4>1. \A r \in counted : r \in Records /\ dayOf[r] >= 1
                BY DEF SeedDays, PublicationTypes
            <4> QED
                BY <1>1, <4>1
        <3>2. {r \in counted' : dayOf'[r] > seedNewest'} = {r \in counted : dayOf[r] > seedNewest}
            BY <2>1, <3>1
        <3> QED
            BY <1>2, <2>1, <3>2 DEF TotalsInBounds, NeverUndercounts
    <2>2. CASE FinalizeSnapshot /\ ~SnapshotWritten
        <3>1. /\ snapshot' = FinalSnapshot /\ counted' = counted \cup SummaryIds
              /\ UNCHANGED <<seeded, seedNewest, dayOf, cursorLost>> /\ phase = "running"
            BY <2>2, FirstWriteOrSame
        <3>2. {r \in counted' : dayOf'[r] > seedNewest'}
                  = {r \in counted \cup SummaryIds : dayOf[r] > seedNewest}
            BY <3>1
        <3> QED
            BY <2>2, <3>1, <3>2, FirstWriteCounts DEF NeverUndercounts
    <2> QED
        BY <2>1, <2>2, FirstWriteOrSame
<1>5. ASSUME Written'
      PROVE  /\ FinalManifest'.total >= FinalSnapshot'.total
             /\ amends' = 0 => FinalManifest'.total <= Cardinality((seeded \cup counted)')
    <2>1. CASE Written
        <3>1. UNCHANGED <<plan, sums, jobs>> /\ counted' = counted
            <4>1. SummaryIds \subseteq counted
                BY <2>1 DEF PlanIsBaseline
            <4> QED
                BY <2>1, <4>1, WrittenStays, OnlyFinalizeCounts DEF FinalizeSnapshot
        <3>2. FinalManifest' = FinalManifest /\ FinalSnapshot' = FinalSnapshot
            BY <3>1, FinalSnapshotDepends, FinalManifestDepends
        <3> QED
            BY <1>1, <2>1, <3>1, <3>2 DEF TotalsInBounds
    <2>2. CASE ~Written
        <3>1. /\ FinalizeSnapshot /\ ~SnapshotWritten /\ phase = "running"
              /\ counted' = counted \cup SummaryIds /\ UNCHANGED <<amends, plan, sums, jobs>>
            BY <1>5, <2>2, OnlyFinalizeBegins DEF FinalizeSnapshot, job, world
        <3>2. FinalManifest' = FinalManifest /\ FinalSnapshot' = FinalSnapshot
            BY <3>1, FinalSnapshotDepends, FinalManifestDepends
        <3> QED
            BY <1>1, <3>1, <3>2, FirstWriteCounts
    <2> QED
        BY <2>1, <2>2
<1>6. ASSUME pc' \in {"manifest", "cursor"}
      PROVE  manifest' = FinalManifest'
    <2>1. CASE FinalizeManifest
        <3>1. manifest' = FinalManifest /\ UNCHANGED <<plan, sums, jobs>>
            BY <2>1 DEF FinalizeManifest, job
        <3> QED
            BY <3>1, FinalManifestDepends
    <2>2. CASE ~FinalizeManifest
        <3>1. \/ pc \in {"manifest", "cursor"} /\ manifest' = manifest /\ UNCHANGED pc
              \/ FinalizeCursor
            BY <1>6, <2>2, OnlyFinalizeCounts
               DEF Next, NextDay, HccPublishes, HccAmends, StartJob, SliceFetches, SliceStores,
                   SliceCommits, FinalizeSnapshot, Complete, Interrupt, Abort, vars, worker
        <3>2. pc \in {"manifest", "cursor"} /\ manifest' = manifest
            BY <3>1 DEF FinalizeCursor
        <3>3. Written
            BY <3>2 DEF PublicationInv, SnapshotIsFinal, Finalizing, Written
        <3>4. ~Complete
            BY <1>6 DEF Complete
        <3>5. UNCHANGED <<plan, sums, jobs>>
            BY <3>3, <3>4, WrittenStays
        <3> QED
            BY <3>2, <3>5, FinalManifestDepends DEF TotalsInBounds
    <2> QED
        BY <2>1, <2>2
<1>7. ASSUME ~Written', manifest' # None
      PROVE  /\ manifest'.total >= snapshot'.total
             /\ amends' = 0 => manifest'.total <= Cardinality((seeded \cup counted)')
    <2>1. CASE Written
        <3>1. Complete
            BY <1>7, <2>1, WrittenStays
        <3>2. /\ UNCHANGED <<manifest, snapshot, counted>> /\ pc = "cursor"
            BY <3>1 DEF Complete, objects
        <3>3. manifest = FinalManifest /\ snapshot = FinalSnapshot
            BY <2>1, <3>2 DEF TotalsInBounds, PublicationInv, SnapshotIsFinal, Written
        <3> QED
            BY <1>1, <2>1, <3>2, <3>3 DEF TotalsInBounds
    <2>2. CASE ~Written
        <3>1. ~FinalizeManifest /\ ~FinalizeSnapshot
            <4>1. FinalizeManifest => Written
                BY DEF FinalizeManifest, PublicationInv, SnapshotIsFinal, Finalizing, Written
            <4>2. FinalizeSnapshot => Written'
                BY FinalSnapshotIsJobs DEF FinalizeSnapshot, job, Written, SnapshotWritten
            <4> QED
                BY <1>7, <2>2, <4>1, <4>2
        <3>2. UNCHANGED <<manifest, snapshot, counted>>
            BY <3>1, OnlyFinalizeCounts
        <3> QED
            BY <1>1, <1>7, <2>2, <3>2 DEF TotalsInBounds
    <2> QED
        BY <2>1, <2>2
<1> QED
    BY <1>3, <1>4, <1>5, <1>6, <1>7 DEF TotalsInBounds

-----------------------------------------------------------------------------
(* What R2 holds                                                           *)

\* Slices store chunks of different names, and none of the name of the exported one.
LEMMA ChunksDiffer ==
    ASSUME PublicationTypes, SlicesFollowPlan, phase # "none",
           NEW i \in DOMAIN plan.windows, NEW j \in DOMAIN plan.windows
    PROVE  /\ plan.windows[i] # HistoryChunk
           /\ i # j => plan.windows[i] # plan.windows[j]
<1>1. \A k \in DOMAIN plan.windows : plan.windows[k] \in Int \X Int /\ k \in Nat
    BY DEF SlicesFollowPlan
<1>2. IsPartition(plan.windows, RangeStart, RangeEnd) /\ RangeStart \in Nat /\ RangeStart >= 1
    BY RangeFacts DEF SlicesFollowPlan
<1>3. /\ RangeStart <= plan.windows[i][1] /\ plan.windows[i][1] <= plan.windows[i][2]
      /\ plan.windows[j][1] <= plan.windows[j][2]
      /\ i < j => plan.windows[i][2] < plan.windows[j][1]
      /\ j < i => plan.windows[j][2] < plan.windows[i][1]
    BY <1>2 DEF IsPartition
<1>4. plan.windows[i] # HistoryChunk
    BY <1>1, <1>2, <1>3 DEF HistoryChunk
<1>5. ASSUME i # j
      PROVE  plan.windows[i] # plan.windows[j]
    <2>1. i < j \/ j < i
        BY <1>1, <1>5
    <2> QED
        BY <1>1, <1>3, <2>1
<1> QED
    BY <1>4, <1>5

\* A slice that stores its chunk overwrites no other chunk of the job and no exported one.
LEMMA SliceStoresKeeps ==
    ASSUME PublicationInv, PublicationTypes, SlicesFollowPlan, ChunksAreKept, SliceStores
    PROVE  ChunksAreKept'
<1>1. /\ pc = "fetched" /\ pc' = "stored" /\ InFlight /\ phase = "running"
      /\ UNCHANGED <<manifest, plan, phase, sums, fetched, seeded, manifestLost>>
      /\ chunks' = [c \in DOMAIN chunks \cup {fetched.chunk} |->
                       IF c = fetched.chunk THEN fetched.ids ELSE chunks[c]]
    BY DEF SliceStores, job, history, InFlight, PublicationInv, SnapshotIsFinal
<1>2. PICK n \in Nat : n = Len(sums) + 1
    BY SumsAreFetches
<1>3. /\ Fetches' = Fetches /\ Fetches = 1 .. n /\ n \in Fetches /\ Fetch(n) = fetched
      /\ \A i \in Fetches : Fetch(i)' = Fetch(i)
      /\ \A i \in Fetches : i # n => i <= Len(sums)
    BY <1>1, <1>2, SumsAreFetches DEF Fetches, Fetch, InFlight
<1>4. /\ fetched.chunk # HistoryChunk
      /\ \A i \in Fetches : i # n => Fetch(i).chunk # fetched.chunk
    <2>1. \A i \in Fetches : i \in DOMAIN plan.windows /\ Fetch(i).chunk = plan.windows[i]
        BY SumsAreFetches DEF SlicesFollowPlan
    <2> QED
        BY <1>1, <1>3, <2>1, ChunksDiffer
<1>5. /\ DOMAIN chunks \subseteq DOMAIN chunks'
      /\ \A c \in DOMAIN chunks : c # fetched.chunk => chunks'[c] = chunks[c]
      /\ fetched.chunk \in DOMAIN chunks' /\ chunks'[fetched.chunk] = fetched.ids
    BY <1>1
<1>6. \A i \in Fetches : Fetch(i).chunk \in DOMAIN chunks' /\ chunks'[Fetch(i).chunk] = Fetch(i).ids
    BY <1>3, <1>4, <1>5 DEF ChunksAreKept
<1> QED
    BY <1>1, <1>3, <1>4, <1>5, <1>6 DEF ChunksAreKept

LEMMA ChunksAreKeptStep ==
    ASSUME RetriedFinalize, PublicationInv, PublicationTypes, SlicesFollowPlan,
           TotalsInBounds, ChunksAreKept, [Next]_vars
    PROVE  ChunksAreKept'
<1>1. CASE SliceStores
    BY <1>1, SliceStoresKeeps
<1>2. CASE ~SliceStores
    <2>1. chunks' = chunks /\ seeded' = seeded
        BY <1>2, SeedIsConstant
           DEF Next, NextDay, HccPublishes, HccAmends, StartJob, SliceFetches, SliceCommits,
               FinalizeSnapshot, FinalizeManifest, FinalizeCursor, Complete, Interrupt, Abort,
               vars, objects
    <2>2. \A i \in DOMAIN sums : sums[i].chunk \in DOMAIN chunks
        BY SumsAreFetches DEF ChunksAreKept
    <2>3. /\ manifest' # None => manifest'.chunks \subseteq DOMAIN chunks
          /\ seeded # {} /\ ~manifestLost' => manifest' # None /\ HistoryChunk \in manifest'.chunks
        <3>1. CASE FinalizeManifest
            <4>1. phase = "running" /\ manifest' = FinalManifest /\ manifestLost' = manifestLost
                BY <3>1 DEF FinalizeManifest, history, PublicationInv, SnapshotIsFinal, Finalizing
            <4>2. FinalManifest.chunks = HistoricalChunks \cup {sums[i].chunk : i \in DOMAIN sums}
                BY DEF FinalManifest
            <4>3. /\ HistoricalChunks \subseteq DOMAIN chunks
                  /\ seeded # {} /\ ~manifestLost => HistoryChunk \in HistoricalChunks
                BY <4>1 DEF HistoricalChunks, PlannedManifest, ChunksAreKept
            <4> QED
                BY <2>2, <4>1, <4>2, <4>3, FinalManifestIsOne
        <3>2. CASE ~FinalizeManifest
            <4>1. ~manifestLost' => ~manifestLost
                <5>1. StartJob => (manifestLost => manifestLost')
                    BY DEF StartJob
                <5> QED
                    BY <5>1, OnlyStartPlans
            <4> QED
                BY <3>2, <4>1, OnlyFinalizeCounts DEF ChunksAreKept
        <3> QED
            BY <3>1, <3>2
    <2>4. phase' = "running" =>
              /\ seeded # {} /\ ~manifestLost' => plan'.manifest # None /\ HistoryChunk \in plan'.manifest.chunks
              /\ plan'.manifest # None => plan'.manifest.chunks \subseteq DOMAIN chunks
        <3>1. CASE StartJob
            <4>1. /\ plan'.manifest \in {None, manifest}
                  /\ ~manifestLost' => plan'.manifest = manifest /\ ~manifestLost
                <5>1. PICK fault \in {"none"} \cup (Faults \ {"finalize"}) :
                          /\ manifestLost' =
                                (manifestLost \/ (fault = "manifest_read" /\ manifest # None))
                          /\ plan'.manifest = ExistingSeedState(fault).manifest
                    BY <3>1 DEF StartJob
                <5>2. \/ plan'.manifest = None /\ (manifest = None \/ fault = "manifest_read")
                      \/ plan'.manifest = manifest
                    BY <5>1 DEF ExistingSeedState
                <5> QED
                    BY <5>1, <5>2
            <4> QED
                BY <4>1 DEF ChunksAreKept
        <3>2. CASE ~StartJob
            BY <3>2, OnlyStartPlans DEF ChunksAreKept
        <3> QED
            BY <3>1, <3>2
    <2>5. ASSUME NEW i \in Fetches', i <= Len(sums') \/ pc' = "stored"
          PROVE  Fetch(i)'.chunk \in DOMAIN chunks /\ chunks[Fetch(i)'.chunk] = Fetch(i)'.ids
        <3>1. i \in Fetches /\ Fetch(i)' = Fetch(i)
            <4>1. SliceFetches => i \in Fetches
                BY <2>5, SliceGets DEF job, SliceFetches
            <4> QED
                BY <4>1, OnlySlicesFetch, SliceGets
        <3>2. i <= Len(sums) \/ pc = "stored"
            <4>1. ~StartJob
                BY StartHasNoFetches
            <4>2. SliceCommits => pc = "stored"
                BY DEF SliceCommits
            <4>3. SliceCommits \/ (sums' = sums /\ (pc' = "stored" => pc = "stored"))
                BY <1>2, <4>1 DEF Next, NextDay, HccPublishes, HccAmends, SliceFetches,
                       FinalizeSnapshot, FinalizeManifest, FinalizeCursor, Complete, Interrupt,
                       Abort, vars, job, worker
            <4> QED
                BY <2>5, <4>2, <4>3
        <3> QED
            BY <3>1, <3>2 DEF ChunksAreKept
    <2>6. ASSUME phase' = "complete"
          PROVE  /\ Len(sums') = Len(plan'.windows)
                 /\ \A i \in DOMAIN sums' : sums'[i].chunk \in manifest'.chunks
        <3>1. CASE Complete
            <4>1. /\ UNCHANGED <<sums, plan, manifest>> /\ manifest = FinalManifest
                  /\ Len(sums) = Len(plan.windows)
                BY <3>1 DEF Complete, objects, TotalsInBounds, PublicationInv, SnapshotIsFinal,
                       Finalizing
            <4> QED
                BY <4>1 DEF FinalManifest
        <3>2. CASE ~Complete
            <4>1. phase = "complete" /\ UNCHANGED <<sums, plan, manifest>>
                BY <2>6, <3>2 DEF Next, NextDay, HccPublishes, HccAmends, StartJob, SliceFetches,
                       SliceStores, SliceCommits, FinalizeSnapshot, FinalizeManifest,
                       FinalizeCursor, Interrupt, Abort, vars, job, objects, PublicationInv,
                       SnapshotIsFinal, Finalizing
            <4> QED
                BY <4>1 DEF ChunksAreKept
        <3> QED
            BY <3>1, <3>2
    <2> QED
        BY <2>1, <2>3, <2>4, <2>5, <2>6 DEF ChunksAreKept
<1> QED
    BY <1>1, <1>2

-----------------------------------------------------------------------------
(* The invariant holds                                                     *)

\* It holds of an empty bucket and of an exported seed.
LEMMA CountInit == Init => CountInv
<1> SUFFICES ASSUME Init PROVE CountInv
    OBVIOUS
<1>1. /\ today = SeedDay /\ dayOf \in [Records -> 0 .. SeedDay] /\ cursor = {}
      /\ phase = "none" /\ plan = NoPlan /\ sums = <<>> /\ pc = "idle" /\ counted = {}
      /\ cursorLost = FALSE /\ manifestLost = FALSE /\ amends = 0 /\ (ExportedSeed \/ NoSeed)
    BY DEF Init
<1>2. SeedDay \in Nat
    BY PublicationAssumption
<1>3. /\ seeded \subseteq Records /\ seedNewest \in 0 .. SeedDay
      /\ \A r \in seeded : dayOf[r] \in 1 .. seedNewest
    <2>1. CASE ExportedSeed
        <3>1. seeded = {r \in Records : dayOf[r] # 0}
              /\ seedNewest = NewestDay({<<r, dayOf[r]>> : r \in seeded})
            BY <2>1 DEF ExportedSeed
        <3>2. \A r \in seeded : dayOf[r] \in 0 .. SeedDay
            BY <1>1, <3>1
        <3>3. seedNewest \in 0 .. SeedDay /\ \A r \in seeded : dayOf[r] <= seedNewest
            BY <1>2, <3>1, <3>2, NewestOfRecords
        <3> QED
            BY <1>1, <1>2, <3>1, <3>2, <3>3
    <2>2. CASE NoSeed
        BY <1>2, <2>2 DEF NoSeed
    <2> QED
        BY <1>1, <2>1, <2>2
<1>4. Cardinality(seeded) \in Nat /\ seeded \cup counted = seeded
    BY <1>1, <1>3, CountingRecords
<1>5. \/ /\ snapshot # None /\ snapshot.total = Cardinality(seeded) /\ snapshot.newest = seedNewest
         /\ manifest # None /\ manifest.total = Cardinality(seeded)
         /\ manifest.chunks = {HistoryChunk}
         /\ HistoryChunk \in DOMAIN chunks /\ chunks[HistoryChunk] = seeded
      \/ snapshot = None /\ manifest = None /\ seeded = {} /\ seedNewest = 0
    <2>1. \A total, newest, at : [total |-> total, newest |-> newest, at |-> at] # None
        BY DEF None
    <2>2. \A total, names : [total |-> total, chunks |-> names] # None
        BY DEF None
    <2>3. CASE ExportedSeed
        BY <2>1, <2>2, <2>3 DEF ExportedSeed
    <2>4. CASE NoSeed
        BY <2>4 DEF NoSeed
    <2> QED
        BY <1>1, <2>3, <2>4
<1>6. Len(sums) = 0 /\ Fetches = {} /\ ~Written /\ SummaryIds = {} /\ DOMAIN sums = {}
      /\ sums \in Seq(Summaries) /\ plan.windows = <<>> /\ ~InFlight
    <2>1. Len(sums) = 0 /\ DOMAIN sums = {} /\ sums \in Seq(Summaries)
        BY <1>1
    <2> QED
        BY <1>1, <2>1 DEF Fetches, InFlight, Written, SummaryIds, NoPlan
<1>7. PublicationTypes
    <2>1. snapshot # None => snapshot.total \in Nat /\ snapshot.newest \in Nat
        BY <1>2, <1>3, <1>4, <1>5
    <2>2. manifest # None => manifest.total \in Nat
        BY <1>4, <1>5
    <2>3. phase # "running" /\ today \in Nat /\ SeedDay <= today /\ amends \in Nat
        BY <1>1, <1>2
    <2> QED
        BY <1>1, <1>3, <2>1, <2>2, <2>3 DEF PublicationTypes
<1>8. SlicesFollowPlan
    <2>1. plan.windows \in Seq(Int \X Int) /\ Len(plan.windows) = 0
        BY <1>6
    <2> QED
        BY <1>1, <1>6, <2>1 DEF SlicesFollowPlan
<1>9. SeedDays /\ PlanIsBaseline
    BY <1>1, <1>3, <1>5, <1>6 DEF SeedDays, PlanIsBaseline
<1>10. SlicesFindNew /\ SlicesGetAll /\ NoneAfterRange /\ CursorHoldsRange /\ NewIsUncounted
    BY <1>1, <1>6 DEF SlicesFindNew, SlicesGetAll, NoneAfterRange, CursorHoldsRange, NewIsUncounted
<1>11. SnapshotIsNewest
    BY <1>1, <1>3, <1>5 DEF SnapshotIsNewest
<1>12. TotalsInBounds
    <2>1. {r \in counted : dayOf[r] > seedNewest} = {}
        BY <1>1
    <2>2. NeverOvercounts /\ NeverUndercounts
        BY <1>4, <1>5, <2>1 DEF NeverOvercounts, NeverUndercounts
    <2> QED
        BY <1>1, <1>4, <1>5, <1>6, <2>2 DEF TotalsInBounds
<1>13. ChunksAreKept
    BY <1>1, <1>5, <1>6 DEF ChunksAreKept
<1> QED
    BY <1>7, <1>8, <1>9, <1>10, <1>11, <1>12, <1>13 DEF CountInv

LEMMA CountStep ==
    ASSUME RetriedFinalize, PublicationInv, CountInv, [Next]_vars
    PROVE  CountInv'
<1> USE DEF CountInv
<1>1. PublicationTypes' /\ SlicesFollowPlan'
    BY PublicationTypesStep, SlicesFollowPlanStep
<1>2. SeedDays' /\ PlanIsBaseline'
    BY SeedDaysStep, PlanIsBaselineStep
<1>3. SlicesFindNew' /\ SlicesGetAll' /\ NoneAfterRange'
    BY SlicesFindNewStep, SlicesGetAllStep, NoneAfterRangeStep
<1>4. CursorHoldsRange' /\ SnapshotIsNewest' /\ NewIsUncounted'
    BY CursorHoldsRangeStep, SnapshotIsNewestStep, NewIsUncountedStep
<1>5. TotalsInBounds' /\ ChunksAreKept'
    BY TotalsInBoundsStep, ChunksAreKeptStep
<1> QED
    BY <1>1, <1>2, <1>3, <1>4, <1>5

\* What is counted, and what of it the cursor, the days and the chunks tell, at every step
\* of planning, slices, finalization and their interruptions.
THEOREM CountInvariant ==
    ASSUME RetriedFinalize
    PROVE  Spec => []CountInv
<1>1. Init => CountInv
    BY CountInit
<1>2. PublicationInv /\ CountInv /\ [Next]_vars => CountInv'
    BY CountStep
<1> QED
    BY <1>1, <1>2, PublicationInvariant, PTL DEF Spec

-----------------------------------------------------------------------------
(* The published totals                                                    *)

\* The all-time total of the snapshot never exceeds the distinct numbers of the export and
\* the refreshes, over any number of jobs, interruptions, late and moved records.
THEOREM TotalNotOver ==
    ASSUME RetriedFinalize
    PROVE  Spec => []NeverOvercounts
<1>1. CountInv => NeverOvercounts
    BY DEF CountInv, TotalsInBounds
<1> QED
    BY <1>1, CountInvariant, PTL

\* Nor does it fall short of what a refresh has published that is dated after the export.
THEOREM TotalNotUnder ==
    ASSUME RetriedFinalize
    PROVE  Spec => []NeverUndercounts
<1>1. CountInv => NeverUndercounts
    BY DEF CountInv, TotalsInBounds
<1> QED
    BY <1>1, CountInvariant, PTL

\* The manifest's total lies between the snapshot's and the numbers there are.
THEOREM ManifestTotal ==
    ASSUME RetriedFinalize
    PROVE  Spec => []ManifestTotalInBounds
<1>1. PublicationInv /\ CountInv => ManifestTotalInBounds
    <2>1. SUFFICES ASSUME PublicationInv, CountInv, phase = "complete", amends = 0
                   PROVE  manifest.total \in snapshot.total .. Cardinality(seeded \cup counted)
        BY DEF ManifestTotalInBounds
    <2>2. snapshot # None /\ manifest # None /\ ~Written
        BY <2>1 DEF CountInv, PlanIsBaseline, Written
    <2>3. snapshot.total \in Nat /\ manifest.total \in Nat
          /\ seeded \cup counted \in SUBSET Records
        BY <2>1, <2>2 DEF CountInv, PublicationTypes
    <2>4. Cardinality(seeded \cup counted) \in Nat
        BY <2>3, CountingRecords
    <2> QED
        BY <2>1, <2>2, <2>3, <2>4 DEF CountInv, TotalsInBounds
<1> QED
    BY <1>1, PublicationInvariant, CountInvariant, PTL

\* Listed chunks exist.  Once a refresh is complete, and while HCC has moved no record, they
\* hold all that was counted but for what lies before the rolling range: of that, what was
\* never in the export, and all of it once a job could not read the manifest.
THEOREM CountedListed ==
    ASSUME RetriedFinalize
    PROVE  Spec => []CountedAreListed
<1>1. PublicationInv /\ CountInv => CountedAreListed
    <2>1. SUFFICES ASSUME PublicationInv, CountInv, phase = "complete", amends = 0,
                          NEW r \in seeded \cup counted,
                          (r \in seeded /\ ~manifestLost) \/ ~(dayOf[r] < plan.windows[1][1])
                   PROVE  \E c \in manifest.chunks : r \in chunks[c]
        BY DEF CountedAreListed, CountInv, ChunksAreKept
    <2> USE <2>1 DEF CountInv
    <2>2. CASE r \in seeded /\ ~manifestLost
        BY <2>2 DEF ChunksAreKept
    <2>3. CASE ~(r \in seeded /\ ~manifestLost)
        <3>1. r \in StillDated /\ Len(sums) = Len(plan.windows)
            BY DEF StillDated, ChunksAreKept
        <3>2. r \in SummaryIds
            BY <2>3, <3>1, AllWindowsDone DEF RangeStart
        <3>3. PICK i \in DOMAIN sums : r \in sums[i].ids
            BY <3>2 DEF SummaryIds
        <3>4. sums[i].chunk \in manifest.chunks /\ chunks[sums[i].chunk] = sums[i].ids
            BY <3>3, SumsAreFetches DEF ChunksAreKept
        <3> QED
            BY <3>3, <3>4
    <2> QED
        BY <2>2, <2>3
<1> QED
    BY <1>1, PublicationInvariant, CountInvariant, PTL

\* No job that has a manifest in its plan lowers the total visitors see
\* (finalizeLiveSeedRefresh adds what is new to the total the job was planned from).
THEOREM TotalAdvances ==
    ASSUME RetriedFinalize
    PROVE  Spec => TotalNeverFalls
<1>1. PublicationInv /\ CountInv /\ [Next]_vars =>
          [snapshot # None /\ plan.manifest # None => snapshot'.total >= snapshot.total]_vars
    <2>1. SUFFICES ASSUME PublicationInv, CountInv, [Next]_vars, snapshot # None,
                          plan.manifest # None
                   PROVE  snapshot'.total >= snapshot.total
        OBVIOUS
    <2> USE <2>1 DEF CountInv
    <2>2. snapshot.total \in Nat
        BY DEF PublicationTypes
    <2>3. CASE snapshot' = snapshot
        BY <2>2, <2>3
    <2>4. CASE FinalizeSnapshot /\ ~SnapshotWritten
        <3>1. snapshot' = FinalSnapshot /\ phase = "running" /\ plan.snapshot = snapshot
            BY <2>1, <2>4, FirstWriteOrSame DEF PlanIsBaseline, PlanIsPublished, PlanIsBlind
        <3>2. FinalSnapshot.total = snapshot.total + NewCount /\ NewCount \in Nat
            BY <3>1, FinalValues, SummaryCounts
        <3> QED
            BY <2>2, <3>1, <3>2
    <2> QED
        BY <2>3, <2>4, FirstWriteOrSame
<1> QED
    BY <1>1, PublicationInvariant, CountInvariant, PTL DEF Spec, TotalNeverFalls

-----------------------------------------------------------------------------
(* Types                                                                   *)

\* R2, the plan and the slices hold what planning, slices and finalization write there.
THEOREM PublicationTypeCorrect ==
    ASSUME RetriedFinalize
    PROVE  Spec => []TypeOK
<1>1. Init => TypeOK
    <2>1. SUFFICES ASSUME Init PROVE TypeOK
        OBVIOUS
    <2>2. CountInv
        BY <2>1, CountInit
    <2>3. ExportedSeed \/ NoSeed
        BY <2>1 DEF Init
    <2>4. /\ \A c \in DOMAIN chunks : chunks[c] \subseteq Records
          /\ manifest = None \/ manifest.chunks \subseteq (Int \X Int)
        BY <2>3 DEF ExportedSeed, NoSeed, HistoryChunk
    <2>5. snapshot = None \/ snapshot.total \in Nat
        BY <2>2 DEF CountInv, PublicationTypes
    <2>6. Len(sums) <= Len(plan.windows)
        BY <2>2 DEF CountInv, SlicesFollowPlan
    <2> QED
        BY <2>1, <2>4, <2>5, <2>6, PublicationAssumption DEF Init, TypeOK
<1>2. PublicationInv /\ CountInv /\ CountInv' /\ TypeOK /\ [Next]_vars => TypeOK'
    <2>1. SUFFICES ASSUME PublicationInv, CountInv, CountInv', TypeOK, [Next]_vars
                   PROVE  TypeOK'
        OBVIOUS
    <2>2. /\ today' \in SeedDay .. LastDay /\ dayOf' \in [Records -> 0 .. LastDay]
        <3>1. today' <= LastDay
            <4>1. NextDay \/ today' = today
                <5>1. StartJob => today' = today
                    BY DEF StartJob, world
                <5> QED
                    BY <2>1, <5>1
                       DEF Next, HccPublishes, HccAmends, SliceFetches, SliceStores, SliceCommits,
                           FinalizeSnapshot, FinalizeManifest, FinalizeCursor, Complete,
                           Interrupt, Abort, vars, world
            <4> QED
                BY <2>1, <4>1, PublicationAssumption DEF NextDay, TypeOK
        <3>2. today' \in Nat /\ SeedDay <= today' /\ dayOf' \in [Records -> 0 .. today']
            BY <2>1 DEF CountInv, PublicationTypes
        <3> QED
            BY <3>1, <3>2, PublicationAssumption
    <2>3. \A c \in DOMAIN chunks' : chunks'[c] \subseteq Records
        <3>1. CASE SliceStores
            <4>1. fetched.ids \subseteq Records
                BY <2>1, <3>1 DEF SliceStores, CountInv, SlicesFollowPlan, InFlight, Summaries
            <4> QED
                BY <2>1, <3>1, <4>1 DEF SliceStores, TypeOK
        <3>2. CASE UNCHANGED chunks
            BY <2>1, <3>2 DEF TypeOK
        <3> QED
            BY <2>1, <3>1, <3>2
               DEF Next, NextDay, HccPublishes, HccAmends, StartJob, SliceFetches, SliceCommits,
                   FinalizeSnapshot, FinalizeManifest, FinalizeCursor, Complete, Interrupt, Abort,
                   vars, objects
    <2>4. manifest' = None \/ manifest'.chunks \subseteq (Int \X Int)
        <3>1. CASE FinalizeManifest
            <4>1. FinalManifest.chunks \subseteq {HistoryChunk} \cup {sums[i].chunk : i \in DOMAIN sums}
                BY DEF FinalManifest, HistoricalChunks
            <4>2. \A i \in DOMAIN sums : sums[i].chunk \in Int \X Int
                BY <2>1, SumsAreFetches DEF CountInv, Summaries
            <4> QED
                BY <3>1, <4>1, <4>2 DEF FinalizeManifest, HistoryChunk
        <3>2. CASE ~FinalizeManifest
            BY <2>1, <3>2, OnlyFinalizeCounts DEF TypeOK
        <3> QED
            BY <3>1, <3>2
    <2>5. /\ phase' \in {"none", "running", "complete", "errored"}
          /\ pc' \in {"idle", "fetched", "stored", "snapshot", "manifest", "cursor"}
          /\ jobs' \in 0 .. MaxJobs
        <3>1. CASE StartJob
            <4>1. phase' = "running" /\ pc' = pc /\ jobs' = jobs + 1 /\ jobs < MaxJobs
                BY <3>1 DEF StartJob, worker
            <4> QED
                BY <2>1, <4>1, PublicationAssumption DEF TypeOK
        <3> QED
            BY <2>1, <3>1, PublicationAssumption
               DEF TypeOK, Next, NextDay, HccPublishes, HccAmends, SliceFetches, SliceStores,
                   SliceCommits, FinalizeSnapshot, FinalizeManifest, FinalizeCursor, Complete,
                   Interrupt, Abort, vars, worker, job
    <2>6. /\ snapshot' = None \/ snapshot'.total \in Nat
          /\ cursor' \subseteq Records /\ counted' \subseteq Records
        BY <2>1 DEF CountInv, PublicationTypes
    <2>7. Len(sums') <= Len(plan'.windows)
        BY <2>1 DEF CountInv, SlicesFollowPlan
    <2> QED
        BY <2>2, <2>3, <2>4, <2>5, <2>6, <2>7 DEF TypeOK
<1> QED
    BY <1>1, <1>2, PublicationInvariant, CountInvariant, PTL DEF Spec
=============================================================================
