--------------------------- MODULE ParkingStore ---------------------------
(***************************************************************************)
(* The SQLite Durable Object of the store mode                             *)
(* (src/durable-objects/parking-store/), as operators on its tables.       *)
(*                                                                         *)
(* A call of the store is synchronous, and the platform commits what it    *)
(* wrote as a whole, so each call is one step of the modules that use this *)
(* one. A call that throws halfway keeps what it had written: there is no  *)
(* transaction around it (TornWindow).                                     *)
(*                                                                         *)
(* An infringement is its number, a date is a day. `stats' stands for all  *)
(* that recomputeStatsLive and the broadcast derive: it is the set of rows *)
(* they were computed from.                                                *)
(***************************************************************************)
EXTENDS Integers, Sequences, SequencesExt, FiniteSets, FiniteSetsExt

CONSTANTS
    Records,    \* infringement numbers
    LastDay     \* today in Auckland; the first day of the calendar is 1

ASSUME StoreAssumption ==
    /\ Records \subseteq Nat \ {0}
    /\ IsFiniteSet(Records)
    /\ LastDay \in Nat \ {0}

Days == 1 .. LastDay

Windows == {w \in Days \X Days : w[1] <= w[2]}

\* infringement_count is absent until the first import.
NoCount == -1

\* The cached count only grows between two recounts: the model stops at one
\* more than there are records, which stands for every inflated value.
CountCap == Cardinality(Records) + 1

\* rows: infringements; marks: ingest_watermarks; errors: the windows with a
\* sync run of status "error"; count, dirty: rows of sync_meta; stats: the rows
\* behind stats_live, daily_counts and the cached snapshot.
StoreStates ==
    [rows : SUBSET Records, marks : SUBSET Windows, errors : SUBSET Windows,
     count : NoCount .. CountCap, dirty : BOOLEAN, stats : SUBSET Records]

EmptyStore ==
    [rows |-> {}, marks |-> {}, errors |-> {},
     count |-> NoCount, dirty |-> FALSE, stats |-> {}]

-----------------------------------------------------------------------------
(* Writes                                                                  *)

\* How many numbers come before r: its place, and its OFFSET, where they are in order.
NumberRank(rs, r) == Cardinality({q \in rs : q < r})

\* Records by number: the order of HCC's pages and of the exports.
InOrder(rs) == [i \in 1 .. Cardinality(rs) |-> CHOOSE r \in rs : NumberRank(rs, r) = i - 1]

Upserted(store, rs) == [store EXCEPT !.rows = @ \cup rs]

\* bumpCachedInfringementCount: an absent count counts as zero, an empty batch
\* leaves it absent.
Bumped(store, n) ==
    LET current == IF store.count = NoCount THEN 0 ELSE store.count
    IN  IF n <= 0 THEN store
        ELSE [store EXCEPT !.count =
                 IF current + n > CountCap THEN CountCap ELSE current + n]

Recounted(store) == [store EXCEPT !.count = Cardinality(store.rows)]

\* recomputeAndBroadcast
Recomputed(store) == [store EXCEPT !.stats = store.rows]

MarkedDirty(store) == [store EXCEPT !.dirty = TRUE]

\* recordWatermark
Watermarked(store, w) == [store EXCEPT !.marks = @ \cup {w}]

\* recordBackfillFailure, and the catch of applySyncWindow: an error run.
FailureRecorded(store, w) == [store EXCEPT !.errors = @ \cup {w}]

\* Mutant: the flag is cleared and the statistics are not recomputed.
FlushedOnlyFlag(store) == [store EXCEPT !.dirty = FALSE]

\* flushBackfillDerivedState: nothing to do unless a backfill wrote rows.
Flushed(store) ==
    IF store.dirty THEN [Recomputed(store) EXCEPT !.dirty = FALSE] ELSE store

\* The part of applySyncWindow before the run is finished: a backfill leaves
\* the statistics to the next flush, the hourly run recomputes them at once.
Ingested(store, fetched, runType) ==
    LET stored == Bumped(Upserted(store, Range(fetched)), Len(fetched))
    IN  IF runType = "backfill" THEN MarkedDirty(stored) ELSE Recomputed(stored)

\* applySyncWindow when nothing throws; `fetched' may name a record twice.
AppliedWindow(store, w, fetched, runType) ==
    Watermarked(Ingested(store, fetched, runType), w)

\* applySyncWindow when a statement throws: some records are stored; or all
\* and they are counted; or the hook ran too; or only the time of the fetch is
\* missing after the watermark. The error run is recorded, then the call throws.
TornWindow(store, w, fetched, runType) ==
    LET prefixes == {Upserted(store, {fetched[i] : i \in 1 .. n}) :
                        n \in 0 .. Len(fetched)}
        counted  == Bumped(Upserted(store, Range(fetched)), Len(fetched))
        hooked   == Ingested(store, fetched, runType)
    IN  {FailureRecorded(s, w) :
            s \in prefixes \cup {counted, hooked, Watermarked(hooked, w)}}

\* importStoredInfringements: the statistics wait for finalizeStoredImport.
Imported(store, rs) == Bumped(Upserted(store, rs), Cardinality(rs))

ImportedWatermarks(store, ws) == [store EXCEPT !.marks = @ \cup ws]

\* finalizeStoredImport: a recount that fails is logged and swallowed, and leaves the
\* count as the batches bumped it; the statistics are recomputed all the same.
FinalizedImport(store) == {Recomputed(Recounted(store)), Recomputed(store)}

-----------------------------------------------------------------------------
(* Reads                                                                   *)

IsWindowIngested(store, w) == w \in store.marks

\* The chunks that are left, in their order.
FilterPendingChunks(store, chunks) ==
    LET left == InOrder({i \in DOMAIN chunks : ~IsWindowIngested(store, chunks[i])})
    IN  [k \in DOMAIN left |-> chunks[left[k]]]

\* Mutant: every watermark in the range is counted.
CountEveryWatermark(store, start, end, chunkDays) ==
    Cardinality({w \in store.marks : start <= w[1] /\ w[2] <= end})

\* countIngestWatermarksInRange: the windows of one day, or those of several.
CountIngestWatermarksInRange(store, start, end, chunkDays) ==
    Cardinality({w \in store.marks :
        start <= w[1] /\ w[2] <= end /\ (w[1] = w[2] <=> chunkDays = 1)})

\* exportInfringements: the first records after a cursor, and the next cursor (0 for
\* null), the last of them, which a short page does not have.
ExportInfringements(store, after, limit) ==
    LET later == {r \in store.rows : r > after}
        page  == {r \in later : NumberRank(later, r) < limit}
    IN  [records |-> page,
         nextCursor |-> IF Cardinality(page) < limit THEN 0 ELSE Max(page)]

\* ORDER BY window_start, window_end
WindowBefore(v, w) == v[1] < w[1] \/ (v[1] = w[1] /\ v[2] < w[2])

WindowRank(ws, w) == Cardinality({v \in ws : WindowBefore(v, w)})

\* exportWatermarks: a page at an offset, and the next offset or null (0).
ExportWatermarks(store, offset, limit) ==
    LET page == {w \in store.marks :
                    WindowRank(store.marks, w) \in offset .. offset + limit - 1}
        next == offset + Cardinality(page)
    IN  [watermarks |-> page,
         nextOffset |-> IF next >= Cardinality(store.marks) THEN 0 ELSE next]

=============================================================================
