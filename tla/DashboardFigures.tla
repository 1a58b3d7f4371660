-------------------------- MODULE DashboardFigures --------------------------
(***************************************************************************)
(* What the dashboard's figures count, in both modes of storage.           *)
(*                                                                         *)
(* Seed mode: a refresh summarises the records of one window at a time and *)
(* merges the summaries into the snapshot (live-seed-refresh.ts).  Store   *)
(* mode: ParkingStore recomputes stats_live and daily_counts from its rows *)
(* and assembles the snapshot from these and from queries of its own.      *)
(*                                                                         *)
(* Instants are those of AucklandTime.  A record is the pair of its number *)
(* and its instant; `short' stands for the windows of 7, 30 and 365 days,  *)
(* and a record's label for its street, suburb, offence and vehicle.  Left *)
(* out: amounts, the all-time total and the writes of finalization         *)
(* (SeedPublication), and how the store comes by its rows                  *)
(* (BackfillPipeline).                                                     *)
(***************************************************************************)
EXTENDS Integers, Sequences, FiniteSets, FiniteSetsExt, SequencesExt

CONSTANTS
    Records,        \* infringement numbers
    LabelOf,        \* of every record: its label, or Unknown
    Unknown,
    Towed,          \* the records that were towed
    PerDay,         \* instants of 24 hours
    MonthDays,      \* days of a month
    Summers,        \* what may be the instants of daylight saving time
    RefreshDays,    \* PARKING_AUTO_REFRESH_DAYS
    ChunkDays,      \* days of a window
    ShortDays,      \* days of the window `short'
    RankLimit,      \* RANK_LIMIT
    RecentLimit,    \* RECENT_LIMIT
    PageSize,       \* INFRINGEMENTS_DEFAULT_PAGE_SIZE
    Week,           \* days of a bucket of the chart of `short'
    Start,          \* the first instant of the clock
    Hcc0,           \* what HCC may have at first
    OldForms,       \* of every record: the form an older version stored its time in
    Changed,        \* bound: the wall clocks of records that HCC changes
    LastInstant,    \* bound: the last one
    MaxChanges,     \* bound: changes at HCC
    MaxJobs         \* bound: refreshes

ASSUME FiguresAssumption ==
    /\ {PerDay, MonthDays, RefreshDays, ChunkDays, ShortDays, Week, RankLimit, RecentLimit,
        PageSize, Start} \subseteq Nat \ {0}
    /\ PerDay % 2 = 0 /\ PerDay > 2
    /\ PerDay * RefreshDays < Start /\ LastInstant \in Nat /\ Start <= LastInstant
    /\ Records \subseteq Nat /\ IsFiniteSet(Records) /\ Towed \subseteq Records
    /\ OldForms \in [Records -> {"utc", "wall", "date"}]
    /\ Hcc0 \subseteq [Records -> Nat] /\ Changed \subseteq Nat
    /\ \A h \in Hcc0 : \A r \in Records : h[r] = 0 \/ h[r] >= PerDay
    /\ \A wall \in Changed : wall >= PerDay

\* Pacific/Auckland: the clocks change at two or three in the morning, so the hour they
\* skip or repeat, which ends or begins with the instant, is not the first of a day; and
\* when they were put back, they are not put forward for months, so not for a day.
ASSUME ClocksAssumption ==
    \A instants \in Summers :
        /\ instants \subseteq Int
        /\ \A i \in instants :
               /\ i - 1 \in instants \/ (i + PerDay \div 2) % PerDay # 0
               /\ i + 1 \in instants \/ (i + 1 + PerDay \div 2) % PerDay # 0
               /\ i + 1 \in instants \/ \A j \in i + 1 .. i + PerDay : j \notin instants

VARIABLES
    summer,     \* one of Summers
    clock,
    hcc,        \* of every record: its wall clock, 0 while HCC does not have it
    pc,         \* of the refresh: "idle", "slice", "stored", "publish"
    plan,       \* what planLiveSeedRefresh captured
    summary,    \* of the slice under way
    sums,       \* refresh_summaries
    chunks,     \* by the window's first day
    seed,       \* the snapshot of seed mode
    rows,       \* of every record: its instant in the store, or 0
    legacy,     \* what an older version of the store left, or <<>>
    daily,      \* daily_counts, by day
    stats,      \* stats_live
    dirty,      \* STATS_DIRTY
    store,      \* the snapshot of store mode
    changes, jobs   \* counted against the bounds

seedVars == <<pc, plan, summary, sums, chunks, seed, jobs>>
storeVars == <<rows, legacy, daily, stats, dirty, store>>
vars == <<summer, clock, hcc, seedVars, storeVars, changes>>

INSTANCE AucklandTime WITH Summer <- summer

-----------------------------------------------------------------------------
(* Days and counts                                                         *)

Days == 0 .. LastInstant \div PerDay + 1

Number(copy) == copy[1]
Instant(copy) == copy[2]

\* What HCC has between two days, cleaned
Fetched(from, to) ==
    {<<r, FromZoned(hcc[r])>> : r \in {x \in Records : hcc[x] > 0 /\ hcc[x] \div PerDay \in from .. to}}

\* What a table of the store has
Stored(table) == {<<r, table[r]>> : r \in {x \in Records : table[x] > 0}}

\* aggregateWindow, between bounds in the order of text
InBounds(table, bounds) ==
    {c \in Stored(table) : Text(Instant(c)) \in bounds.start .. bounds.end}

DailyCounts(copies) == [d \in Days |-> Cardinality({c \in copies : DayOf(Instant(c)) = d})]

LabelCounts(copies) ==
    [l \in {LabelOf[Number(c)] : c \in copies} |->
        Cardinality({c \in copies : LabelOf[Number(c)] = l})]

\* incrementRank; "Unknown" has no rank, but it is charted.
Known(counts) == [l \in DOMAIN counts \ {Unknown} |-> counts[l]]

\* Some n of a set, none of them smaller than one that is left out.
FirstN(set, n, size) ==
    CHOOSE s \in kSubset(IF n < Cardinality(set) THEN n ELSE Cardinality(set), set) :
        \A x \in s, y \in set \ s : size[x] >= size[y]

\* topItemsFromMap
TopItems(counts, n) == Restrict(counts, FirstN(DOMAIN counts, n, counts))

Newest(copies, n) == FirstN(copies, n, [c \in copies |-> Instant(c)])

\* buildLiveStats, and its part of a summary
Counts(copies, at, to) ==
    [today      |-> Cardinality({c \in copies : DayOf(Instant(c)) = to}),
     towedToday |-> Cardinality({c \in copies : DayOf(Instant(c)) = to /\ Number(c) \in Towed}),
     last24h    |-> Cardinality({c \in copies : Instant(c) >= at - PerDay}),
     short      |-> Cardinality({c \in copies : DayOf(Instant(c)) >= WindowStart(at, ShortDays)}),
     month      |-> Cardinality({c \in copies : DayOf(Instant(c)) >= MonthStart(to)})]

AddFunctions(f, g) ==
    [x \in DOMAIN f \cup DOMAIN g |->
        (IF x \in DOMAIN f THEN f[x] ELSE 0) + (IF x \in DOMAIN g THEN g[x] ELSE 0)]

SumOfDays(trend, first, last) == MapThenSumSet(LAMBDA d : trend[d], (first .. last) \cap DOMAIN trend)

-----------------------------------------------------------------------------
(* Seed mode                                                               *)

NoPlan == [at |-> 0, from |-> 0, to |-> 0]
NoSummary == [counts |-> [today |-> 0, towedToday |-> 0, last24h |-> 0, short |-> 0,
                         month |-> 0],
              labels |-> <<>>, trend |-> <<>>, recent |-> {}]
NoSnapshot == [at |-> 0]

\* The planned windows start at these days.
WindowStarts == {d \in plan.from .. plan.to : (d - plan.from) % ChunkDays = 0}

WindowDays(start) == start .. (IF start + ChunkDays - 1 > plan.to THEN plan.to ELSE start + ChunkDays - 1)

\* Mutant: the cut-offs are taken from the clock.
SummarizeNow(copies, start) ==
    [counts |-> Counts(copies, clock, plan.to),
     labels |-> LabelCounts(copies),
     trend  |-> [d \in WindowDays(start) |-> DailyCounts(copies)[d]],
     recent |-> Newest(copies, RecentLimit)]

\* The summary of refreshLiveSeedChunkFromHcc: `at' is the instant of the plan.
Summarize(copies, start) ==
    [counts |-> Counts(copies, plan.at, plan.to),
     labels |-> LabelCounts(copies),
     trend  |-> [d \in WindowDays(start) |-> DailyCounts(copies)[d]],
     recent |-> Newest(copies, RecentLimit)]

\* comparePeriods: windows that end on the day of the clock, not of the plan.
ComparePeriods(trend) ==
    LET today == DayOf(clock)
        first(days) == AddDays(today, 1 - days)
        known == \E d \in DOMAIN trend : d <= first(2 * ShortDays)
    IN  [current  |-> SumOfDays(trend, first(ShortDays), today),
         previous |-> IF known
                      THEN SumOfDays(trend, first(2 * ShortDays), first(ShortDays) - 1)
                      ELSE 0,
         known    |-> known]

\* The loop over the summaries, for one part of them
Merged(part, none) ==
    FoldSeq(LAMBDA s, sum : AddFunctions(sum, s[part]), none, sums)

FinalSnapshot ==
    LET labels == Merged("labels", <<>>)
        trend  == Merged("trend", [d \in plan.from .. plan.to |-> 0])
        recent == UNION {s.recent : s \in Range(sums)}
    IN  [at      |-> plan.at,
         counts  |-> Merged("counts", NoSummary.counts),
         ranked  |-> TopItems(Known(labels), RankLimit),
         charted |-> TopItems(labels, RankLimit),
         top     |-> TopItems(Known(labels), RankLimit),
         trend   |-> trend,
         recent  |-> Newest(recent, RecentLimit),
         pace    |-> ComparePeriods(trend)]

\* buildLiveSeedSnapshot: the same from all records at once
WholeSnapshot(copies) ==
    LET labels == LabelCounts(copies)
        trend  == [d \in plan.from .. plan.to |-> DailyCounts(copies)[d]]
    IN  [at      |-> plan.at,
         counts  |-> Counts(copies, plan.at, plan.to),
         ranked  |-> TopItems(Known(labels), RankLimit),
         charted |-> TopItems(labels, RankLimit),
         trend   |-> trend,
         recent  |-> Newest(copies, RecentLimit),
         pace    |-> ComparePeriods(trend)]

-----------------------------------------------------------------------------
(* Store mode                                                              *)

\* recomputeStatsLive
StatsLive(table) ==
    LET today == DateBounds(DayOf(clock))
    IN  [today      |-> Cardinality(InBounds(table, today)),
         towedToday |-> Cardinality({c \in InBounds(table, today) : Number(c) \in Towed}),
         last24h    |-> Cardinality(InBounds(table, RollingBounds(clock))),
         short      |-> Cardinality(InBounds(table, 
                            [today EXCEPT !.start = StartOfDay(WindowStart(clock, ShortDays))])),
         month      |-> Cardinality(InBounds(table, MonthBounds(clock))),
         allTime    |-> Cardinality(Stored(table)),
         at         |-> clock]

\* getLiveStats: not from stats_live
LiveStats(table) ==
    [today |-> Cardinality(InBounds(table, DateBounds(DayOf(clock)))),
     month |-> Cardinality(InBounds(table, MonthBounds(clock)))]

\* Every day with rows is upserted; a day without keeps its row in daily_counts.
DailyUpserted(counts) ==
    [d \in Days |-> IF counts[d] > 0 THEN counts[d] ELSE daily[d]]

\* computePaceTrend: `T12:00:00' without a zone is noon of the Worker's clock, in UTC.
PaceTrend(table) ==
    LET start == WindowStart(clock, ShortDays)
        noon  == start * PerDay + PerDay \div 2
        prior == DayOf(noon - ShortDays * PerDay)
        Rows(from, to) == Cardinality(InBounds(table,
                            [start |-> StartOfDay(from), end |-> EndOfDay(to)]))
    IN  [current  |-> Rows(start, DayOf(clock)),
         previous |-> Rows(prior, DayOf(noon - PerDay)),
         known    |-> Stored(table) = {} \/ \E c \in Stored(table) : DayOf(Instant(c)) <= prior]

\* GROUP BY over the rows that have a label
Grouped(table) == Known(LabelCounts(Stored(table)))

\* Mutant: a row without a label is ranked too.
RankedUnknown(table) == TopItems(LabelCounts(Stored(table)), RankLimit)

\* getTopStreets, getTopSuburbs and getTopVehicles
StoreRanked(table) == TopItems(Grouped(table), RankLimit)

\* readChartBreakdown: no limit, and the unknown have a slice of their own.
StoreCharted(table) == LabelCounts(Stored(table))

\* getDailyStats
DailyStats(counts, first, last) == Restrict(counts, {d \in first .. last : counts[d] > 0})

\* getTopStats of a window of some days, which is a day longer than that of stats_live
TopStats(table, days, n) ==
    LET start == StartOfDay(WindowStart(clock, days + 1))
    IN  TopItems(Known(LabelCounts({c \in Stored(table) : Text(Instant(c)) >= start})), n)

\* getPublicTop, and getTopStats of all time
PublicTop(table, n) == TopItems(Grouped(table), n)

\* ORDER BY occurred_at DESC, an order of texts; what it leaves open follows the index.
Later(c, e) ==
    \/ Text(Instant(c)) > Text(Instant(e))
    \/ Text(Instant(c)) = Text(Instant(e)) /\ Number(c) > Number(e)

PageOf(list, page, limit) ==
    Range(SubSeq(list, (page - 1) * limit + 1, Min({page * limit, Len(list)})))

\* The rows in this order: before the i-th there are i - 1.
Listed(table) ==
    [i \in 1 .. Cardinality(Stored(table)) |->
        CHOOSE c \in Stored(table) : Cardinality({e \in Stored(table) : Later(e, c)}) = i - 1]

\* listInfringements without filters
StorePage(table, page, limit) == PageOf(Listed(table), page, limit)

FirstPage(table) == StorePage(table, 1, RecentLimit)

\* All the pages of browseSuburbs
BrowsedSuburbs(table) == LabelCounts(Stored(table))

\* All the pages of browseStreets, or of browseVehicles
Browsed(table) == Grouped(table)

\* assembleFullDashboardSnapshot: only stats_live and daily_counts are stored.
Assembled(table, live, counts) ==
    [at      |-> clock,
     counts  |-> live,
     ranked  |-> StoreRanked(table),
     charted |-> StoreCharted(table),
     trend   |-> DailyStats(counts, 0, DayOf(clock)),
     recent  |-> FirstPage(table),
     pace    |-> PaceTrend(table)]

-----------------------------------------------------------------------------
(* The browser                                                             *)

\* fillDailySeries, up to the day of the browser's clock
Series(trend, days) ==
    [i \in 1 .. days |->
        LET day == AddDays(DayOf(clock), i - days) IN IF day \in DOMAIN trend THEN trend[day] ELSE 0]

SumOfSeries(series) == FoldSeq(LAMBDA n, sum : n + sum, 0, series)

\* Mutant: only whole weeks.
BucketWhole(series) ==
    [i \in 1 .. Len(series) \div Week |-> SumOfSeries(SubSeq(series, (i - 1) * Week + 1, i * Week))]

\* bucketWeekly: the last bucket may be short.
BucketWeekly(series) ==
    [i \in 1 .. (Len(series) + Week - 1) \div Week |->
        SumOfSeries(SubSeq(series, (i - 1) * Week + 1,
                           IF i * Week < Len(series) THEN i * Week ELSE Len(series)))]

\* buildPacePanelData: the larger of the live figure and the sum of the days
PacePanel(snapshot) ==
    LET series == Series(snapshot.trend, ShortDays)
        sum    == SumOfSeries(series)
        live   == snapshot.counts.short
    IN  [value |-> IF live > sum THEN live ELSE sum,
         chart |-> BucketWeekly(series)]

\* pickRicherTopItems
Richer(primary, secondary) ==
    IF Cardinality(DOMAIN secondary) > Cardinality(DOMAIN primary) THEN secondary ELSE primary

\* resolveChartBreakdowns, for a chart that has a ranking too
ResolvedChart(snapshot) ==
    Richer(Richer(snapshot.ranked, snapshot.charted), snapshot.charted)

\* applyDashboardSnapshot: what the panels read, with the charts resolved
Applied(snapshot) == [snapshot EXCEPT !.charted = ResolvedChart(snapshot)]

Total(counts) == MapThenSumSet(LAMBDA l : counts[l], DOMAIN counts)

\* resolveChartStreetItems, of two rankings of the streets
LargerRanking(ranked, top) ==
    IF \/ Cardinality(DOMAIN ranked) > Cardinality(DOMAIN top)
       \/ Cardinality(DOMAIN ranked) = Cardinality(DOMAIN top) /\ Total(ranked) >= Total(top)
    THEN ranked ELSE top

\* dailyTrendSpanDays
SpanDays(trend) ==
    IF DOMAIN trend = {} THEN 2 * ShortDays ELSE Max({1, DayOf(clock) - Min(DOMAIN trend) + 1})

\* DailyTrendPanel, of all the days: sumTrendWindow
TrendTotal(snapshot) == SumOfSeries(Series(snapshot.trend, SpanDays(snapshot.trend)))

\* mergeInfringements: of two rows with a number, the first
MergeRows(initial, extra) ==
    initial \cup {c \in extra : \A e \in initial : Number(e) # Number(c)}

\* Mutant: a whole page is taken for one that is still to be loaded.
NextPageAgain(loaded) == IF loaded < PageSize THEN 1 ELSE (loaded - 1) \div PageSize + 1

\* getNextInfringementsPage, of the number of rows
NextPage(loaded) == IF loaded < PageSize THEN 1 ELSE loaded \div PageSize + 1

\* LatestInstances: the rows of the snapshot, and loadMore of a page of the API as long
\* as there are fewer than the total of the snapshot; each request adds a row or none
\* that follows does.
Scrolled(snapshot, table) ==
    LET rowsAfter[n \in 0 .. Cardinality(Records)] ==
            IF n = 0 THEN snapshot.recent
            ELSE LET shown == rowsAfter[n - 1]
                 IN  IF Cardinality(shown) < snapshot.counts.allTime
                     THEN MergeRows(shown, StorePage(table, NextPage(Cardinality(shown)), PageSize))
                     ELSE shown
    IN  rowsAfter[Cardinality(Records)]

-----------------------------------------------------------------------------
(* The API in seed mode (SeedParkingStoreReader)                           *)

\* readDashboardSnapshotPayload: the charts are resolved before they are served, and
\* before the first refresh every figure is 0.
SeedPayload ==
    IF seed = NoSnapshot
    THEN [at |-> 0, counts |-> NoSummary.counts, ranked |-> <<>>, charted |-> <<>>, top |-> <<>>,
          trend |-> <<>>, recent |-> {}, pace |-> [current |-> 0, previous |-> 0, known |-> TRUE]]
    ELSE [seed EXCEPT !.charted = ResolvedChart(seed),
                      !.top = LargerRanking(seed.ranked, seed.top)]

\* getPublicLiveStats and getLiveStats, whose `thisYear' is the window of 365 days
SeedLiveStats == [today |-> SeedPayload.counts.today, month |-> SeedPayload.counts.month]

\* getDailyStats
SeedDailyStats(first, last) == Restrict(SeedPayload.trend, (first .. last) \cap DOMAIN SeedPayload.trend)

\* getPublicTop, and getTopStats whatever its window
SeedTop(n) == TopItems(SeedPayload.top, n)

\* getTopStreets, getTopSuburbs and getTopVehicles
SeedRanked(n) == TopItems(SeedPayload.ranked, n)

\* exportInfringements, from the start: chunk after chunk, in the order of the manifest,
\* which lists those of the summaries and drops the chunks of earlier refreshes.
Exported ==
    FlattenSeq([i \in 1 .. Len(sums) |-> SetToSeq(chunks[plan.from + (i - 1) * ChunkDays])])

\* listInfringements without filters: a first page that the snapshot holds is of the
\* newest records, every other one is counted from the start of the export.
SeedPage(page, limit) ==
    IF page = 1 /\ limit <= Cardinality(SeedPayload.recent)
    THEN Newest(SeedPayload.recent, limit)
    ELSE PageOf(Exported, page, limit)

-----------------------------------------------------------------------------
Init ==
    /\ summer \in Summers
    /\ clock = Start
    /\ hcc \in {h \in Hcc0 : \A r \in Records : h[r] <= Wall(Start)}
    /\ pc = "idle" /\ plan = NoPlan /\ summary = NoSummary /\ sums = <<>>
    /\ chunks = [d \in Days |-> {}]
    /\ seed = NoSnapshot
    /\ rows = [r \in Records |-> 0]
    /\ legacy \in {<<>>, [r \in {x \in Records : hcc[x] > 0} |-> OldForm(OldForms[r], FromZoned(hcc[r]))]}
    /\ daily = [d \in Days |-> 0]
    /\ stats = [today |-> 0, towedToday |-> 0, last24h |-> 0, short |-> 0, month |-> 0,
                allTime |-> 0, at |-> 0]
    /\ dirty = FALSE
    /\ store = NoSnapshot
    /\ changes = 0 /\ jobs = 0

TimePasses ==
    /\ clock < LastInstant
    /\ clock' = clock + 1
    /\ UNCHANGED <<summer, hcc, seedVars, storeVars, changes>>

\* HCC publishes a record, perhaps late, or corrects its time.
HccChanges(r, wall) ==
    /\ changes < MaxChanges
    /\ wall <= Wall(clock)
    /\ hcc[r] # wall
    /\ hcc' = [hcc EXCEPT ![r] = wall]
    /\ changes' = changes + 1
    /\ UNCHANGED <<summer, clock, seedVars, storeVars>>

-----------------------------------------------------------------------------
\* planLiveSeedRefresh
Plans ==
    /\ pc = "idle"
    /\ jobs < MaxJobs
    /\ plan' = [at |-> clock, from |-> WindowStart(clock, RefreshDays), to |-> DayOf(clock)]
    /\ pc' = "slice" /\ sums' = <<>> /\ jobs' = jobs + 1
    /\ UNCHANGED <<summer, clock, hcc, summary, chunks, seed, storeVars, changes>>

\* refreshLiveSeedChunkFromHcc: the window is fetched, and its chunk written.
Stores ==
    LET start  == plan.from + Len(sums) * ChunkDays
        copies == Fetched(Min(WindowDays(start)), Max(WindowDays(start)))
    IN  /\ pc = "slice"
        /\ chunks' = [chunks EXCEPT ![start] = copies]
        /\ summary' = Summarize(copies, start)
        /\ pc' = "stored"
        /\ UNCHANGED <<summer, clock, hcc, plan, sums, seed, jobs, storeVars, changes>>

Commits ==
    /\ pc = "stored"
    /\ sums' = Append(sums, summary)
    /\ summary' = NoSummary
    /\ pc' = IF Len(sums') = Cardinality(WindowStarts) THEN "publish" ELSE "slice"
    /\ UNCHANGED <<summer, clock, hcc, plan, chunks, seed, jobs, storeVars, changes>>

\* An eviction or a retried failure: the window is fetched again.
Interrupted ==
    /\ pc = "stored"
    /\ summary' = NoSummary
    /\ pc' = "slice"
    /\ UNCHANGED <<summer, clock, hcc, plan, sums, chunks, seed, jobs, storeVars, changes>>

\* finalizeLiveSeedRefresh
Publishes ==
    /\ pc = "publish"
    /\ seed' = FinalSnapshot
    /\ pc' = "idle"
    /\ UNCHANGED <<summer, clock, hcc, plan, summary, sums, chunks, jobs, storeVars, changes>>

-----------------------------------------------------------------------------
\* The statistics are recomputed, and the snapshot is assembled from them.
Recomputed(table) ==
    /\ stats' = StatsLive(table)
    /\ daily' = DailyUpserted(DailyCounts(Stored(table)))
    /\ store' = Assembled(table, stats', daily')

\* The constructor brings the tables of an older version up to date.
StoreMigrates ==
    /\ legacy # <<>>
    /\ rows' = [r \in Records |-> IF r \in DOMAIN legacy THEN Migrated(legacy[r]) ELSE 0]
    /\ legacy' = <<>>
    /\ Recomputed(rows')
    /\ UNCHANGED <<summer, clock, hcc, seedVars, dirty, changes>>

\* A backfill stores what HCC has, and marks the statistics dirty.
StoreIngests ==
    /\ legacy = <<>>
    /\ Stored(rows) # Fetched(0, Max(Days))
    /\ rows' = [r \in Records |-> IF hcc[r] > 0 THEN FromZoned(hcc[r]) ELSE 0]
    /\ dirty' = TRUE
    /\ UNCHANGED <<summer, clock, hcc, seedVars, legacy, daily, stats, store, changes>>

\* recomputeAndBroadcast, of an hourly sync or a flush
StoreRecomputes ==
    /\ legacy = <<>>
    /\ Recomputed(rows)
    /\ dirty' = FALSE
    /\ UNCHANGED <<summer, clock, hcc, seedVars, rows, legacy, changes>>

\* broadcastLiveUpdate alone, when a location is geocoded
StoreBroadcasts ==
    /\ legacy = <<>>
    /\ store' = Assembled(rows, stats, daily)
    /\ UNCHANGED <<summer, clock, hcc, seedVars, rows, legacy, daily, stats, dirty, changes>>

-----------------------------------------------------------------------------
Next ==
    \/ TimePasses
    \/ Plans \/ Stores \/ Commits \/ Interrupted \/ Publishes
    \/ StoreMigrates \/ StoreIngests \/ StoreRecomputes \/ StoreBroadcasts
    \/ \E r \in Records, wall \in Changed : HccChanges(r, wall)

Spec == Init /\ [][Next]_vars

-----------------------------------------------------------------------------
(* Properties                                                              *)

\* The records behind the snapshot of seed mode
Published == UNION {chunks[d] : d \in WindowStarts}

SeedIsPublished == seed # NoSnapshot /\ pc = "idle"

\* How often each instant occurs: records of one instant may change places.
Instants(copies) == [i \in {Instant(c) : c \in copies} |-> Cardinality({c \in copies : Instant(c) = i})]

\* A snapshot merged from summaries, of windows fetched one after the other across
\* evictions and midnights, has the figures buildLiveSeedSnapshot would have computed
\* from all the records of its chunks at once, unless HCC moved one of them into a
\* second window.  The pace is that of the day of the publication.
WindowsAddUp ==
    SeedIsPublished /\ (\A c, e \in Published : Number(c) = Number(e) => c = e) =>
        LET whole == WholeSnapshot(Published)
        IN  /\ seed.counts = whole.counts
            /\ seed.ranked = whole.ranked
            /\ seed.charted = whole.charted
            /\ seed.trend = whole.trend
            /\ Instants(seed.recent) = Instants(whole.recent)

\* The two modes show the same figures of the same records at the same instant,
\* computed in JavaScript from dates and instants, and in SQL from the order of texts.
\* The texts of the last 24 hours are in order only if the clocks did not change, and
\* leave out a record at the first millisecond.  A day that a record left keeps its
\* count in daily_counts, and the windows of the pace differ.
ModesAgree ==
    /\ SeedIsPublished /\ ~dirty /\ store # NoSnapshot
    /\ seed.at = store.at /\ seed.at = stats.at
    /\ Stored(rows) = Published
    =>  /\ \A f \in DOMAIN seed.counts \ {"last24h"} : seed.counts[f] = store.counts[f]
        /\ \/ seed.counts.last24h = store.counts.last24h
           \/ Offset(seed.at) # Offset(seed.at - PerDay)
           \/ \E c \in Published : Instant(c) = seed.at - PerDay
        /\ DayOf(clock) = DayOf(seed.at) =>
               LiveStats(rows) = SeedLiveStats
        /\ seed.ranked = store.ranked
        /\ \A l \in DOMAIN seed.charted : seed.charted[l] = store.charted[l]
        /\ \A d \in DOMAIN seed.trend :
               seed.trend[d] > 0 => d \in DOMAIN store.trend /\ store.trend[d] = seed.trend[d]
        /\ Instants(seed.recent) = Instants(store.recent)
        /\ \/ seed.pace.current = store.pace.current
           \/ DayOf(clock) > DayOf(seed.at) \/ ~WindowIsExact(seed.at, ShortDays)
        /\ \A l \in DOMAIN seed.ranked : Browsed(rows)[l] = seed.ranked[l]
        /\ \A l \in DOMAIN seed.charted : BrowsedSuburbs(rows)[l] = seed.charted[l]
        /\ \A n \in 1 .. RankLimit :
               /\ Total(SeedTop(n)) = Total(PublicTop(rows, n))
               /\ Total(SeedRanked(n)) = Total(PublicTop(rows, n))
        /\ \A n \in 1 .. RecentLimit :
               Instants(SeedPage(1, n)) = Instants(StorePage(rows, 1, n))
        /\ \A first, last \in plan.from .. plan.to :
               Total(SeedDailyStats(first, last)) <= Total(DailyStats(daily, first, last))
        /\ Total(TopStats(rows, ShortDays, Cardinality(Records))) =
               Cardinality({c \in Published : /\ LabelOf[Number(c)] # Unknown
                                              /\ DayOf(Instant(c)) >= WindowStart(clock, ShortDays + 1)})

\* The browser sums the days and their buckets itself, up to its own clock: as long as
\* the snapshot is of the same day, its panel shows the live figure and the columns of
\* its chart add up to it, and a chart has every label of the ranking.  Store
\* mode without a day that a record left, whose count daily_counts keeps; and the
\* live figure of an instant at which its window has the right number of days.
PanelAddsUp ==
    \A snapshot \in {SeedPayload, store} \ {NoSnapshot} :
        LET countedAt == IF snapshot = store THEN stats.at ELSE snapshot.at
        IN  /\ DayOf(clock) = DayOf(snapshot.at) /\ DayOf(clock) = DayOf(countedAt)
            /\ WindowIsExact(countedAt, ShortDays)
            /\ snapshot = store =>
                   ~dirty /\ \A d \in Days : daily[d] > 0 => DailyCounts(Stored(rows))[d] > 0
            =>  /\ PacePanel(snapshot).value = snapshot.counts.short
                /\ SumOfSeries(PacePanel(snapshot).chart) = snapshot.counts.short
                /\ TrendTotal(snapshot) = Total(snapshot.trend)
                /\ \A l \in DOMAIN snapshot.ranked :
                       /\ l \in DOMAIN Applied(snapshot).charted
                       /\ Applied(snapshot).charted[l] = snapshot.ranked[l]

\* In store mode, with the snapshot of the rows that are there, the table of the latest
\* instances comes to hold every row, none of them twice: pages that are numbered by the
\* rows already loaded leave out none and end.
ScrollShowsAll ==
    store # NoSnapshot /\ ~dirty /\ Stored(rows) # {} =>
        /\ Scrolled(store, rows) = Stored(rows)
        /\ Cardinality(Scrolled(store, rows)) = store.counts.allTime

\* The migration of times keeps the day of every record and, where the old form still
\* told it, the time: the wall clock of an hour that occurs twice as well.
MigrationKeepsTimes ==
    [][legacy' # legacy =>
        \A r \in DOMAIN legacy : rows'[r] > 0 /\ legacy[r] = OldForm(legacy[r].form, rows'[r])]_vars

=============================================================================
