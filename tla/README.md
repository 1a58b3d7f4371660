# HCC parking infringements: TLA+ models

The site shows statistics about the parking infringements that Hamilton City
Council (HCC) publishes. It has two modes of storage. In *seed mode*, which
`wrangler.jsonc` deploys, the data are objects in R2, and a Durable Object, the
*seed refresh coordinator*, refetches a rolling range of days from HCC and
publishes the result. In *store mode* (`wrangler.do.jsonc`) a SQLite Durable
Object, `ParkingStore`, ingests windows of days that arrive through a queue,
and computes the statistics from its rows. Scripts of the operator start,
watch and copy; a page in the browser shows the newest snapshot of either
mode. This directory models both modes, the scripts between them, and the way
to the browser. Paths below are relative to `src/`.

## Inventory

| Component | State | Operations | Works with | Hard behaviour | Correct when | Module |
|---|---|---|---|---|---|---|
| Seed refresh coordinator (`src/durable-objects/seed-refresh-coordinator.ts`) | one SQLite row, summary rows, one alarm | `startRefresh`, `getStatus`, `alarm`, constructor, sockets | HCC, R2, cron, operators | handlers interleave at awaits; evictions; retries | one job at a time; exact checkpoint; no forgotten job | `SeedRefreshCoordinator`, `DailyRefresh` |
| Refresh and publication (`src/server/live-seed-refresh.ts`) | chunks, snapshot, manifest, cursor in R2 | plan, slice, finalize | coordinator, HCC, readers | three writes without a transaction; repeated finalization; late records | totals exact, listed chunks exist, figures those of all records at once | `SeedPublication`, `DashboardFigures` |
| Seed object storage (`src/server/seed-r2-client.ts`) | R2, Cache API entries of 60 s | read, write | every reader | a reader refills the cache after the writer's delete | what is shown never goes back | `LiveFeed` |
| HCC client (`src/server/hcc-client.ts`, `hcc-pagination.ts`, `src/lib/map-with-concurrency.ts`) | slots in use, waiters | acquire, release, fetch a page, fetch a window | HCC | aborts while waiting; pages fetched together | no slot leaked, no page lost | `HccSlots`, `BackfillPipeline` |
| Backfill pipeline (`src/server/sync-backfill.ts`, `backfill-queue.ts`, `scripts/backfill.ts`) | queue messages, the script's wave | start a wave, process, split, settle, track | ParkingStore, queue, HCC | redelivery; workers that outlive a rejection | every window ingested or reported | `BackfillPipeline` |
| ParkingStore (`src/durable-objects/parking-store/`) | infringements, watermarks, sync runs, cached count, dirty flag, statistics | sync, import, flush, recompute, queries, export | pipeline, sockets, scripts | partial failure of a window; repeated windows | count, watermarks and statistics agree with the rows | `ParkingStore`, `DashboardFigures` |
| Replication, seed export and import (`src/server/replication.ts`, `seed-import.ts`, `parking-reader/seed-reader.ts`, `scripts/`) | checkpoint files | push, export, migrate, sync | both modes | resumption after a crash; cursors over unordered chunks | nothing skipped, nothing vouched for early | `Replication` |
| Live dashboard (`src/client/`, `src/components/`) | socket, timers, last snapshot, IndexedDB, localStorage | acquire, release, connect, restore, scroll | coordinator or ParkingStore | late events of an old socket; stored against pushed snapshots | never shows an older snapshot after a newer; panels add up | `LiveFeed`, `DashboardFigures` |
| Geocoding (`src/server/geocode.ts`, `geocode-overpass.ts`) | `location_cache` | run, retry, count | Overpass, cron, visitors, script | runs that know nothing of each other; failures that block | what is on the map stays; what can get there does | `Geocoding` |
| Dates (`src/lib/auckland-time.ts`, `trend.ts`) | none | days, bounds, windows | all | daylight saving time; text order of instants | each record in one day; times survive migration | `AucklandTime`, `DashboardFigures` |
| Cleaning, routes, rendering | none | pure functions, dispatch | all | - | - | - |

`PROJECT.json` lists the same components with what is modelled of each, and
under `hazards` the places in the code where things can go wrong that a test
would hardly reach, each with the properties about it.

## Modules

| Module | What it is | Built on |
|---|---|---|
| `SeedRefreshCoordinator` | the Durable Object: row, alarm, concurrent calls and handlers, evictions | `RefreshJob`, as a refinement |
| `RefreshJob` | the abstract specification: one job at a time, window after window | |
| `DailyRefresh` | the operator's script as one caller of the coordinator | `SeedRefreshCoordinator` |
| `SeedPublication` | what a job reads and publishes: HCC records, chunks, snapshot, manifest, cursor | |
| `HccSlots` | the slots that bound the concurrent page requests to HCC | |
| `ParkingStore` | the store's calls as operators on its tables | |
| `BackfillPipeline` | script, waves, queue, consumer, HCC's pages, hourly sync | `ParkingStore` |
| `Replication` | push, export, migrate and sync between stores and seeds | `ParkingStore` |
| `LiveFeed` | publisher, cache, sockets, the client and its two local stores | |
| `LocationCache` | the table `location_cache` of the store: a geometry saved, a failure marked | |
| `Geocoding` | candidates, Overpass batches, three kinds of runs | `LocationCache` |
| `AucklandTime` | days and bounds over a change of daylight saving time | |
| `DashboardFigures` | what the figures count, in both modes, and in the browser | `AucklandTime` |
| `*_proofs` | inductive invariants and theorems, checked by TLAPS | the module of the name |
| `Dashboard_proofs` | the same for the figures and the map | `DashboardFigures`, `LocationCache` |
| `MC*` | instances for TLC | the module of the name |

The modules cut the system by concern, and each forgets what another keeps.
`SeedRefreshCoordinator` keeps the control of a job and forgets the data: a
chunk, a summary, a published object are only the number of the job they came
from. `SeedPublication` keeps the numbers that are counted and forgets the
concurrency: jobs follow each other, which is what `NoOverlap` is about.
`DashboardFigures` keeps instants, labels and windows of time, and forgets how
publication can fail. `BackfillPipeline` and `Replication` share one account
of what each call of the store does to its tables.

### SeedRefreshCoordinator and DailyRefresh

`status`, `nextIndex`, `attempts`, `lastError` and `plan` are the columns of
`refresh_state`, `summaries` the rows of `refresh_summaries`; a plan and a
summary are represented by the job they were computed for. `alarm` is the one
alarm of the object. `calls` and `handler` hold what `startRefresh` and `alarm`
captured before their external await. `runs` numbers the jobs and `IdOf` says
what `workflowInstanceId` calls them.

A Durable Object is single-threaded and its storage operations hold the input
gate, so a handler is atomic from one external await (R2, HCC) to the next.
Hence one action for what precedes an await and one for what follows it:

| Code | Actions |
|---|---|
| `startRefresh` | `StartJoinsRunning`, `StartJoinsPlanning`, `StartNewJob`, then `CallPlans` or `CallFails` |
| `alarm` before its await | `AlarmPlans`, `AlarmStartsSlice`, `AlarmStartsFinalize`, `AlarmFindsNothing` |
| `alarm` after its await | `HandlerPlans`, `SliceCommits`, `FinalizeWrites` then `MarkComplete` then `BroadcastEnds`; `HandlerFails` for `recordFailure` |
| `getStatus`, `heartbeat` | `GetStatus` |
| eviction, deployment, crash; constructor | `Evict`, `Construct` |

Failures are classes of message, since the message decides whether
`isRetryableError` retries: `http_5xx` stands for all that match a transient
pattern (429 too), `transport` for "HCC transport failed", which matches none.
`CausesAt` says which class can reach which await: planning swallows every read
error, and can fail only when its plan is too big for SQLite (`row_too_big`:
`plan_json` holds every published number, and a value has at most 2 MB).

`DailyRefresh` adds `scripts/daily-refresh.ts`: it posts a refresh, polls until
the job it was told of has ended, and looks at what is published, which may be
an older snapshot from a cache. Its timeouts are a choice at any poll. When the
cron starts another job between two polls the script reports a failure ("job
changed") though its own may be complete; `--no-wait` is left out.

### SeedPublication

`dayOf` is HCC, `chunks`, `snapshot`, `manifest` and `cursor` are R2 objects,
`plan` and `sums` the durable part of the job, `pc` and `fetched` the handler
in flight. `StartJob` is `planLiveSeedRefresh`; `SliceFetches`, `SliceStores`,
`SliceCommits` are one alarm of `processNextSlice`; `FinalizeSnapshot`,
`FinalizeManifest`, `FinalizeCursor`, `Complete` are `complete`, one action per
R2 write. `Interrupt` is an eviction or a retried failure at any await, `Abort`
a failure that ends the job. `counted` (all numbers of every refresh whose
snapshot was written) and `seeded` are history variables: they say what the
totals should be.

What the model assumes of the world:

- An instant is abstracted to its day; a day of the model is any instant that
  `occurredAt > bootstrapAfter` can tell from another.
- HCC may add a record with any past date. It may move a record to another day,
  but not across the newest day of the exported seed, and not a seeded record
  before a cursor holds it: the first job recognises exported records by date
  alone, and nothing in the code could do better.
- The first refresh of an empty bucket adds up the sizes of the windows
  (`live-seed-refresh.ts:727`), and counts a record twice that moves between
  two fetches: `NeverOvercounts` speaks of it only while HCC moves nothing.
- Slices fail for good at any await before the first write of finalization.
  After it only with the fault `finalize`, which the run `PublicationFinalize`
  turns on. Failed reads at planning are the faults `cursor_read` and
  `manifest_read`, both in the run `Publication`. A manifest that cannot be
  read becomes an empty baseline (`live-seed-refresh.ts:392`): the job starts
  the total anew and lists no exported chunk. The properties say which of their
  parts hold in spite of it, by the history variables `cursorLost` and
  `manifestLost`: `TotalNeverFalls` is about jobs that have a manifest in their
  plan, since one that has none may well lower the total.
- `PARKING_AUTO_REFRESH_DAYS` is a constant; raising it between two jobs is not
  modelled.

### HccSlots

`inFlight` and `waiters` are the module-level `hccInFlight` and `hccWaiters`,
`pc` says where each call of `fetchInfringements` is, and `aborted` whose
`AbortSignal` has fired. `RefuseCall`, `TakeSlot` and `JoinQueue` are the three
ways through `acquireHccSlot`; `AbortWaiter` is `onAbort`; `Release` is
`releaseHccSlot`, which runs in the `finally` of `fetchInfringements` when the
request ends (`Settle`) or is not sent after all (`ResumeAborted`). A promise
resumes its awaiter in a later microtask: between `Release` and `Resume` the
call is `granted`, new calls can arrive and its signal can fire. One signal
shared by several calls fires its listeners one after another, which is a
sequence of these actions. What a request returns is left out. So is an
invocation that the platform cancels while it fetches: its slot would never be
released (`hcc-client.ts:89`).

### ParkingStore and BackfillPipeline

`ParkingStore` holds the tables as a record (`rows`, `marks`, `errors`,
`count`, `dirty`, `stats`) and each synchronous call of the Durable Object as
an operator on it. The platform commits the writes of a call that returns as a
whole; a call that throws halfway keeps what it had written, and `TornWindow`
lists what may be left. `stats` stands for everything that is derived: it is
the set of rows it was derived from.

In `BackfillPipeline` the script (`wave`) posts a wave, waits until as many
windows are completed as the wave has or until its timeout, posts the next, and
tracks the last. The Worker plans a wave (`PlanWave`) and sends its messages
(`SendWave`). `queue` is a bag of messages; `Deliver` starts an invocation with
a batch, and `lanes` are the windows its workers are at, through both levels of
`mapWithConcurrency`. `Check`, `FetchFirst`, `FetchRest`, `SplitWindow`,
`ApplyWindow`, `Report` and `Rescue` are `processBackfillMessage` between its
awaits: a fault may strike each of them before, halfway through or after its
effect, and `Escape` is an error that leaves it, which settles the message by
its wording while the other workers go on. `EndBatch` flushes and requeues,
`InvocationDies` loses the invocation at any await.

HCC only adds records, some of them late and in one lot; the operator runs one
script at a time. The hourly sync is one step whose pages may be old; it does
not look at `possiblyTruncated` (`sync-window.ts:102`), so the watermark of its
window is left out of `WatermarkIsComplete`. The tracker of the basic `/status`
is folded into `TrackerPauses`. The direct delivery, which runs the same steps
inside one request, is not modelled.

Limits that the model shows and the properties therefore do not deny: a window
that is split into days, or forced, never counts as drained, so each such wave
waits for the timeout of ten minutes; a last chunk of a single day is not
counted in weekly progress, so the tracker of such a range pauses instead of
completing; the watermark of an hourly sync is counted as progress; a day with
exactly one full page is never ingested, but reported each time.

### Replication

`source`, `dest` and `target` are three stores, `seed` the R2 objects,
`pushFile` and `migrateFile` the checkpoint files; `script` is the one script
that runs. The actions of each script are its awaits: a page exported, a page
imported (retried, or fatal, with its effect or without), a checkpoint written,
the watermarks, the finalization. `ScriptKilled` strikes anywhere and may tear
the checkpoint that is being written. Meanwhile `SourceIngests` changes the
source, and the job `refresh` works on the seed: `SeedPlans` reads the list of
chunks, `SeedStores` writes the chunk of one window, `SeedPublishes` writes the
manifest. A chunk is named by the days of its window (`RefreshChunk`, which is
`chunkName` of the coordinator), so a refresh of the same days overwrites it
with what HCC has by then, one of other days adds chunks of other names, and
the manifest drops those of the refresh before. The three steps of a job
interleave with every script. `Export` includes the upload of
`uploadSeedDirectory`, one file at a time in any order, which may fall between
the steps of a refresh.

What the code does and the properties therefore do not deny:

- A day that the source ingests during a push has its watermark sent by the
  second loop (`push-local.ts:231`), while its records with numbers below the
  cursor are not sent: `MarksFollowRecords` is about the windows that were due
  when the push was begun.
- A batch that is sent twice is counted twice, and the recount at the end may
  fail, which is logged only (`store-api.ts:212`): `FinalizedImport` has both
  outcomes, and `PushIsComplete` claims rows, watermarks and statistics, not
  the cached count.
- A migration goes by names. What a refresh puts into a chunk that was there
  may lie behind the checkpoint (`live-seed-refresh.ts:547`);
  `MigrationIsComplete` leaves it out (`PutLate`, from the history variable
  `late`).
- A seed exported anew has chunks of the same names, and the checkpoint skips
  them (`migration-checkpoint.ts:47`); a refresh planned before the upload
  publishes the list of the export before. `MigrationIsComplete` is stated for
  one export (`migrated`).
- A crash between the finalization of a push and the removal of its checkpoint
  leaves a file that the next push resumes. Watermarks exported from a store
  that goes on ingesting may name windows whose records the seed does not have.

Not modelled: `--start-after`, `--skip-watermarks` (the operator asks for less),
`seed-apply.ts`, the copy of the dashboard snapshot, and a change of
`PARKING_AUTO_REFRESH_DAYS` between refreshes.

### LiveFeed

A snapshot is its version. `sockets` holds both ends of each socket: where the
browser's end is, how far the server is with the upgrade, and the messages
under way. In store mode the upgrade is one turn; in seed mode the coordinator
reads the snapshot through the cache, with awaits, before it accepts the
socket (`Read`, `Put`, then accepted), and the publisher writes the object,
deletes the cache entry, reads it back and broadcasts. `client` is the module
state of `use-live-socket.ts`; `Closes` is the close event of any socket, also
one that the client has replaced, and forgets the current one as the code does
(`use-live-socket.ts:153`). `indexedDb`, `localStorage` and `writes` are the
two stores of the last snapshot and the writes under way; `StoreFails` is a
write that IndexedDB refuses, `Loads` the restoration, `Reloads` a new page.

A read of IndexedDB that fails is not modelled: the code then falls back to
localStorage, which may hold an older snapshot (`dashboard-snapshot-storage.ts:179`).
`StartsFromNewest` is about a page whose stores could be read.

`CatchesUp` is stated of store mode only. In seed mode a client whose upgrade
reads before a broadcast and is accepted after it stays on the older snapshot
until the next refresh or reconnection, and so does one served from an entry
that a slow reader has put into the cache after the writer's delete. Ping,
pong and messages that do not parse are left out; a payload with weight 0 that
the server would rebuild is a version in `Empty`.

### Geocoding

`geometry` and `wait` are the rows of `location_cache`, `runs` the runs of the
cron, of a visitor and of the script, each at an await of
`geocodeMissingLocations`. A place is a group of the candidate query; places
that differ in the town only share a row. Overpass answers a batch with the
roads it has, each given to the first similar street of the batch
(`geocode-overpass.ts:187`), or with nothing: an answer other than 200 is taken
for that (line 158), and every street of the batch waits for seven days.
Candidates are filtered from the `Pool` most frequent places
(`locations.ts:48`), so `GetsOnMap` speaks of those only, and the script ends
while others are pending. It says that such a place gets its roads, and that it
is on the map if fewer than `MapLimit` places that may have roads come before
it: the pool is 500 places (`constants.ts:9`), the map of the dashboard has 50
(`dashboard-snapshot.ts:138`), that of `GET /locations/map` at most 100
(`v1-public.ts:42`).

### AucklandTime and DashboardFigures

An instant is a number, `PerDay` of them are a day, and `summer` is when
daylight saving time applies, so that a wall clock can occur twice or not at
all. The code stores instants as text and compares text: `Text` is a number
with that order. `AucklandTime` holds the conversions, windows and the
migration of the three forms that older versions stored.

`DashboardFigures` has both publishers side by side: `Plans`, `Stores`,
`Commits`, `Publishes` with `Interrupted` are a refresh of seed mode, window
after window, `FinalSnapshot` the merge of the summaries; `StoreIngests`,
`StoreRecomputes`, `StoreBroadcasts` and `StoreMigrates` the store, with
`Assembled` for its snapshot. Then what each reader answers with, and what the
browser makes of a snapshot: series, buckets, panels, chart items, and the
pages of the table of latest instances (`Scrolled`). `Listed` is the store's
order of its rows, from which a page takes a part; `Exported` reads the chunks
of the published manifest, which lists those of the summaries and drops what
earlier refreshes left (`live-seed-refresh.ts:412`, 769).

Two assumptions on the constants. `FiguresAssumption` has types, sizes of at
least one, and records that HCC dates a day or more after the first instant.
`ClocksAssumption` is what is used of Pacific/Auckland: the hour that is
skipped, and the one that is repeated, does not touch midnight (it is two or
three in the morning), and clocks that were put back are not put forward within
a day (it is months). Nothing is said of how often they change.

The two modes do not agree everywhere; `ModesAgree` says where they do, and its
exceptions are differences of the code:

- the previous period of the pace, since `pace-trends.ts:29` takes noon for UTC;
- the last 24 hours, when the clocks changed in them, or at the first
  millisecond;
- days whose last record HCC moved keep their count in `daily_counts`
  (`stats-live.ts:173`);
- after midnight the pace of seed mode is that of the day before;
- the store's chart leaves out Unknown where the seed's has it; the limits of
  the lists differ (50 in a seed; 100 streets, 25 suburbs and vehicles);
- `getTopStats` has a window of one day more in the store, and none in a seed;
- the window of a number of days is a day off within an hour of midnight when
  the clocks changed in it (`rolling-window.ts:16`), in both modes.

Of `latest-instances.tsx` only the scroll over a list that stays is modelled.
In the code a page in flight while the list changes is appended to the new
list, and a page whose rows are all there already is requested again until the
next snapshot (`latest-instances.tsx:314`); in seed mode the first page is the
newest and later pages come from the oldest end. Amounts, colours, filters and
ties between equal counts (`CHOOSE`) are abstracted.
`buildLiveSeedSnapshot` (`WholeSnapshot`), which only tests call, is the
reference definition of `WindowsAddUp`.

## Runs

| Run | Module | States | Question |
|---|---|---|---|
| `Coordinator` | `MCSeedRefreshCoordinator` | 35 261 | is one job run at a time, from an exact checkpoint, and is `RefreshJob` implemented? |
| `CoordinatorLive` | `MCDailyRefresh` | 116 780 | with all failures: does an active job have a driver and end, and is the script's report true? |
| `CoordinatorOverlap` | `MCSeedRefreshCoordinator` | - | violation of `NoOverlap` |
| `Publication` | `MCSeedPublication` | 4 414 204 | are totals, cursor and manifest those of the counted records? |
| `PublicationFinalize` | `MCSeedPublication` | - | violation of `NeverOvercounts` |
| `Slots` | `MCHccSlots` | 6 432 | is no slot or wake-up lost, is service in order, does waiting end? |
| `Backfill` | `MCBackfillPipeline` | 352 033 | are watermarks complete, is every window accounted for, does the queue drain? |
| `Replication` | `MCReplication` | 1 828 045 | does every copy and resumption bring what it vouches for, watermarks last? |
| `SeedExport` | `MCReplication` | - | violation of `SyncCopiesEverything` |
| `LiveFeed` | `MCLiveFeed` | 261 349 | does what is shown never go back, and catch up in store mode? |
| `Geocode` | `MCGeocoding` | 126 897 | do streets get onto the map and stay, does the script end? |
| `Figures` | `MCDashboardFigures` | 305 601 | do windows, modes, panels and pages agree with the records? |

The slowest (`Replication`, `Publication`, `Backfill`, `Figures`) take one to three minutes with
two workers. Why the bounds are enough to be interesting:

- Coordinator: two callers and the alarm are three planners of one job; three
  jobs let a late planner or slice of the first meet the third; three windows
  have a first, a middle and a last; an eviction can hit a planner and later a
  slice.
- Publication: two records and three jobs let a record be exported, one be late,
  one be moved, and each be seen by two later jobs; a range of three days in
  windows of two ends in a short window, whose bounds shift with the day.
- Slots: five callers on two slots leave a queue of two in which a waiter has
  one ahead and one behind, while a new call arrives.
- Backfill: four days in windows of two, two waves of one window, forced or not, messages of
  two windows and two records per page give full pages, splits, days beside
  their window, and two lanes of one message; one fault strikes every call.
- Replication: five records in pages of two leave a short page; the record of
  the newest day has the smallest number; a script can die and be resumed once.
  Two refreshes of a range of two days in windows of one, over a calendar of
  three: the second overwrites both chunks of the first, or one, while the other
  is dropped, and HCC publishes a record between them. The constraint
  `FewRefreshes` keeps the combinations few: in a behaviour with refreshes there
  are one export and the migrations of it, no push and no sync, and the source
  has ingested the first day before. A second export, pushes and syncs are
  explored without refreshes.
- LiveFeed: two sockets are a current one and an orphan; of three versions one
  has no rows and two are of the same time; in store mode three troubles, such as
  a drop, an unmount and a reload, in seed mode, whose readers and cache have
  many more states, one. What holds of both modes is proved for any number.
- Geocode: four places, a pool of three, batches of two, two similar streets and
  a road OpenStreetMap lacks.
- Figures: the clock crosses one midnight, on the morning of whose day the clocks
  change either way; three windows of labels with ties, four records, one of
  which HCC changes, two refreshes.

`MaxRuns`, `MaxAttempts`, `MaxEvictions`, `MaxJobs`, `MaxInterrupts`,
`MaxAmends`, `LastDay`, `MaxWaves`, `MaxHourly`, `MaxFaults`, `MaxStarts`,
`MaxExports`, `MaxRefreshes` (and `FewRefreshes`), `MaxTroubles`, `MaxRows`, `MaxChanges` and
`LastInstant` bound counters the code does not bound. `MaxAttempts` cuts off
behaviours where HCC answers 5xx for ever: the code would then retry for ever,
which `JobEnds` does not contradict, it is an assumption on HCC. Runs switch
the deadlock check off where the calendar, the operator's starts and the other
bounded actions end; the coordinator runs keep it.

### Fairness

- `CoordinatorLive`: a set alarm is delivered and an awaited fetch settles, as the
  platform guarantees. The constructor runs at some time after an eviction: with
  an alarm set the platform sees to that; an eviction during the first planning
  leaves no alarm, and then some request must reach the object. No caller is
  obliged to start or poll anything.
- `Slots`: a resolved promise resumes its awaiter, and a page request ends. The
  code sets no timeout on it, so that rests on the runtime and on HCC.
- `Backfill`: the queue delivers, calls settle, an invocation whose messages are
  settled ends. Nothing obliges the script, HCC or the cron.
- `LiveFeed`: events are delivered, timers fire, reads and writes end.
- `Geocode`: the cron fires (after an hourly sync that succeeds) and days pass,
  its calls and the script's are answered, and the script goes on once it was
  started. Nothing is asked of a visitor's run, which may hang.

### What they show

The passing properties are stated next to their comments at the end of each
module. Three runs end in a violation, each against a sentence of the
repository:

1. *Overlap.* The catch of `startRefresh` marks the row errored unconditionally
   (`seed-refresh-coordinator.ts:483`). If the creating call fails to plan
   after another planner has succeeded, a running job is marked errored, and
   the next `startRefresh` overlaps its slice. All other safety properties of
   the coordinator assume planning does not fail (`SoundPlanning` in the proofs).
2. *Finalization cut short.* A permanent failure between the snapshot and the
   cursor makes the next job count the same records again.
3. *Export from a refreshed seed.* The cursor of `exportInfringements` is the
   number of the last record of a page, but chunks are scanned in the order of
   the manifest (`seed-reader.ts:358`): a sync leaves out the records of a
   later chunk with smaller numbers.

Three further observations have no run. A job that cannot read the manifest or
the snapshot is planned as over an empty bucket (`live-seed-refresh.ts:392`) and
publishes the sizes of its windows as the all-time total, though every number
HCC returned may be in the persisted cursor:
`docs/cloudflare-auto-refresh.md:92` has the operator confirm that the total is
unchanged then; `TotalNeverFalls` without its condition on the plan shows it.
"HCC transport failed" (`hcc-client.ts:51`) matches no transient pattern, so a
dropped connection ends the job, where `docs/cloudflare-auto-refresh.md:39`
promises retries. And the manifest's and the snapshot's totals are not always
equal, which `ManifestTotalInBounds` puts limits to.

## Proofs

`SeedRefreshCoordinator_proofs` proves, for any set of callers and any number
of windows, jobs, attempts and evictions:

- `TypeCorrect` from `TypeInv`, which adds to the types that a handler in a
  slice holds the index of a window of the plan.
- `DriverExists` from `DriverInv`, which adds that whoever plans works for a
  job that exists and that a running row has a plan; without the latter an
  alarm could fire, find nothing to do and be lost. Both hold whatever fails.
- Under `SoundPlanning` (`row_too_big` does not occur) and `DistinctIds` (no
  two jobs have the same name): `JobsDoNotOverlap`, `CheckpointExact`,
  `PublicationWhole` and `PlanCurrent` from `ExclusiveInv`; and from that,
  `TerminalFinal`, `WindowsAreInOrder` and the refinement
  `CoordinatorRefinesJob`, one step lemma per action.

`ExclusiveInv` says that planners are known (whoever plans does so for a job no
later than the row's), that the row matches its job (a row in planning has done
no window, a plan is that of the row's job), that a handler in a slice or a
finalization owns the row (same job, status running), and that what it
captured is still current (the index, the summaries, then what it wrote). None
of these is inductive alone: that the checkpoint is exact after `SliceCommits`
needs the captured index to be the row's, which needs that nobody started a
job meanwhile, which needs that the row stayed running, which needs that no
late planner failed. The first assumption is necessary, as the run
`CoordinatorOverlap` shows. The second holds for manual refreshes started in
different milliseconds and for cron slots six hours apart.

The same module proves `ReportTrue` of `DailyRefresh`, under the same two
assumptions, for any set of callers that has the script in it. Every step of
the composition is a step of the coordinator, so its invariants carry over.
`DailyInv` adds that a complete row's job is in `completed`, that what a
completed job has published only later jobs replace, and that the script holds
the number of a job there was, which with `DistinctIds` is the row's whenever
the ids agree. The run `CoordinatorLive` checks `ReportIsTrue` with failures of
planning as well, which the theorem leaves out.

`SeedPublication_proofs` proves, for any records, range, calendar and number of
jobs, interruptions and amendments, `CursorComplete` and
`RepeatedFinalizeSame`, under one assumption: no finalization is given up for
good (`RetriedFinalize`; the run `PublicationFinalize` shows what happens
otherwise). Failed reads of cursor and manifest are covered. `PublicationInv`
has four parts: a snapshot names a job that was; from the first write of a
finalization on, plan and summaries are those the snapshot was computed from;
what was counted and is not in the cursor is in the plan or the summaries of
the job that will write it, unless a job has lost the cursor; and whoever has
counted has a manifest, without which the next plan would not look at the
cursor. The second part carries the other three over an
eviction between two of the three writes: the repeated finalization computes
from the same summaries, so it writes the same snapshot and the cursor that
belongs to it.

It also proves, under the same assumption and for any finite set of records,
the totals: `TotalNotOver`, `TotalNotUnder`, `ManifestTotal`, `CountedListed`,
`TotalAdvances`, and the types. The argument of `CountInv`: the slices of a job
follow the windows of its plan, which partition its range (`SlicesFollowPlan`);
until the first write of its finalization the plan is the baseline of what is
published, or is that of an empty bucket after a failed read of the manifest
(`PlanIsBaseline`: `PlanIsPublished`, `PlanIsBlind`); what a slice finds new is neither in the cursor
nor among the days the snapshot counts (`SlicesFindNew`, `NewIsUncounted`); and
what is counted and missing from the cursor lies before the range
(`CursorHoldsRange`, `NoneAfterRange`), so no later slice can find it again.
Then a publication adds to the total what was not in it, once. The sums are
cardinalities of disjoint sets; where the code's loop takes the first window
that holds a record, the proof takes the smallest index (`WFMin` of the
library), in place of an induction.

`ParkingStore_proofs` holds lemmas about the operators of `ParkingStore`: what a
listing in the order of numbers is, what a page after a cursor or at an offset
holds, what remains after it, how a listing of a growing table moves.

`Replication_proofs` proves, for any records, page and chunk sizes, kills,
retries and refreshes:

- `PushCopiesAll` and `MarksComeAfter` from `PushInv`. The cursor says which
  records the destination has: all that the source had at the beginning, with
  numbers up to the cursor, and the checkpoint says the same of its own cursor
  (`FileCovers`), which is what a killed script resumes from. The second loop
  goes by offset, not by cursor: watermarks are only added, so the rank of one
  only grows, and the first `offset` marks at the beginning stay covered.
- `ExportHoldsAll` from `ExportInv`: the lines that wait and the chunks written
  hold what the source had, up to the cursor, each record on one line.
- `MigrationAppliesAll` from `MigrationInv`: what the chunks before the pending
  ones in the manifest that was read have held is applied, but for what was put
  late into them (`AppliedTo`), and the checkpoint vouches for a prefix of the
  manifest. A later manifest may list other chunks, so the prefix must stay
  one. `Precedes` says which chunks come before another, in the manifest or in
  the list of a refresh to come, and no step of a refresh adds to it: exported
  chunks keep their order (`HistoricalKeepsOrder`), those of a refresh come
  after them, and what a later refresh lists before a chunk that it shares with
  an earlier one, the earlier one listed before it too, since the range only
  slides on and both have their windows on one grid (`RefreshesSlide`,
  `OnBothGrids`). An upload of another export ends the
  condition on `migrated` that the property has as well, and so does the
  publication of a list that is not that of the manifest it replaces.

`BackfillPipeline_proofs` proves, for any listing of HCC, page size, limits of
waves, messages and workers, and any number of faults:

- `WatermarksAreComplete` and `LagIsAlwaysMarked` from `IngestInv`. Of each
  worker it says what it has fetched (`FetchedFrom`): the first page holds the
  lowest numbers of what was listed then; records published since only move
  these further back, so the pages after it, as many as were announced, hold
  the rest, unless the last is full, and then nothing is applied. `RowsShown`
  is the watermark's promise without the watermark, since a call may store rows
  and fail before it writes one. Rows without statistics are flagged by a call
  that ends, and covered by the error run of one that does not (`LagOf`).
- `NothingIsForgotten` from `ClosedInv`, which adds that each window of a
  message under way is done, or split, or before one of its workers
  (`Accounted`). A step hands every window on (`Carries`): a worker that
  finishes one leaves a watermark, an error run or its days in the queue; the
  last worker of a message acknowledges it when nothing is before any other;
  what an invocation loses is delivered again or given up. Days are not split
  (`FetchedFrom`), so a day that is closed stays so, and with it the window
  that was split into it.
- `PassesCoverRange` (property `PassCoversRange`) from `PassInv`: the chunks
  before the one that the pass continues from are sent or ingested, and a wave
  continues at a chunk of the whole range, never between two (`ChunkStarts`).
- `ProgressIsItsOwn` (property `ProgressIsOwn`) from `ProgressInv`, by
  counting. Whatever is under way is a chunk that was sent or a day of one that
  was split (`KnownInv`). A wave takes the first chunks that are left
  (`PlanInv`), so a wave that failed halfway and the wave started after it have
  sent chunks among the same `MaxEnqueuePerWave`. Hence there is a set of no
  more windows than the wave has which holds all that may still be counted
  (`Covers`): a count that has grown by the length of the wave has them all.

The assumptions are those of the modules (`StoreAssumption`,
`BackfillAssumption`, `ReplicationAssumption`): types, and that sizes and limits
are at least one.

`LiveFeed_proofs` proves, for any snapshots, sockets and troubles and for both
kinds of server, `StartsNewest` and `NeverRegresses`. `FeedInv` says that every
message and stored copy is a snapshot, that only snapshots with rows are
stored, and that no copy is newer than what is shown: a write under way and the
copy in localStorage at any time, the copy in IndexedDB once it was read. The
last part is what a reload needs, which starts from localStorage alone, and it
is why the order in which writes end does not matter. Nothing is assumed of the
order in which servers send, so orphaned sockets and stale cache entries are
covered.

`HccSlots_proofs` proves, for any finite set of callers and any limit of at
least one, `SlotsTypeCorrect`, `NoSlotLost`, `NoWakeUpLost` and, from them,
`FirstComeFirstServed`. The inductive invariant is the conjunction of what the
run checks. No part is inductive alone: the counter stays in its range because
a call that releases is counted; a hand-over keeps the count because the head
of the queue is a waiting call, hence no holder; nobody waits beside a free
slot because only a release with an empty queue frees one. The lemmas before it
say what `push`, `shift` and `splice` do to a sequence without repetition.

`Dashboard_proofs` proves all properties of `DashboardFigures`, for any
records, labels, lengths of windows, limits, page sizes and clocks that meet the
two assumptions, and `MapKeepsStreets`.

The figures are folds, choices and recursive functions over finite sets, and
the library's induction theorems cannot be used, so the module starts with what
replaces them: a set of naturals has a least element (`NatMin`), hence a set
that has 0 and every successor has all naturals (`NatSteps`), and one that has
the empty set and every set whose smaller ones it has, has all subsets of a
finite set (`SetSteps`). From these follow that the recursive definitions
behind `MapThenSumSet`, `FoldSeq`, `FlattenSeq` and `Scrolled` have a solution,
and what they yield: a sum of counts is a count (`SumCounts`), merged counts
are the counts of the union (`MergedCounts`), the n first of a set have the
same sizes and the same total however ties are broken (`FirstHaveSameSizes`,
`TopOfTop`), a list in a strict order has each row at its rank (`Ranks`). On
time: cleaning keeps a record's day (`CleanedKeepsDay`), the order of texts is
that of days (`TextDays`) and, for instants as cleaning yields them, that of
instants (`TextGrows`).

- `MigrationKeeps` (property `MigrationKeepsTimes`): what an older version
  stored are forms of cleaned instants (`LegacyOK`), HCC's wall clocks are of
  days after the first (`HccOK`).
- `ScrollingShows` (`ScrollShowsAll`) from `StoreOK`: with statistics that are
  not dirty, total and first page of the snapshot are those of the rows. A page
  numbered by the rows already loaded begins at most where they end and ends
  after them, so each request adds a row until there are none.
- `FiguresAddUp` (`WindowsAddUp`) from `RefreshOK`: a committed summary is that
  of its chunk, every copy of a chunk lies in its window, and what is published
  is what the summaries say (`SeedOK`). The windows divide the days of the plan
  (`WindowsDivide`), so no copy is counted twice; and the cut-offs are the
  plan's in every summary, without which an eviction past midnight would break
  the invariant. `Stores` overwrites chunks that the snapshot was made of, so
  `SeedOK` is claimed of an idle refresh only.
- `PanelsAddUp` (`PanelAddsUp`) from these, `SeedPanelOK` and `StorePanelOK`.
  The panel must hold while a refresh is under way, when the chunks no longer
  are those behind the snapshot: `SeedPanelOK` keeps that there were such
  copies. `StorePanelOK` ties `stats_live` and `daily_counts` to the rows.
- `ModesShowTheSame` (`ModesAgree`) from all of these, `PastOK`,
  `StoreFiguresOK` and `SeedPaceOK`. In SQL the last 24 hours, the window
  and the month have an upper bound, in JavaScript they have none: they agree
  because no record is later than the instant at which the figures were
  computed, in the order of wall clocks (`PastOK`). `StoreFiguresOK` says that
  `stats_live` and the assembled snapshot are those of the rows unless the
  statistics are dirty, `SeedPaceOK` that the pace ends on the day of the
  publication, which may be later than the plan's.

`MapKeepsStreets` holds for any places, roads, limits and overlap of runs. Its
proof shows what the property rests on: only an answer with roads replaces a
geometry, and a failure keeps the one that is there.

Every safety invariant and every action property that a passing run checks is
stated by one of these theorems, except as listed here. Only model-checked:

- liveness: `JobEnds`, `NobodyStarves`, `QueueDrains`, `CatchesUp`,
  `GetsOnMap`, `ScriptEnds`, which are out of the prover's reach;
- the three runs that show a violation.

## Not modelled

- Cleaning of HCC's records, routes and authorization, rendering, amounts,
  filters and search: functions of one request or record, without state of
  their own.
- The direct delivery of a backfill, `seed-apply.ts`, `--start-after` and
  `--skip-watermarks`: the steps are those of the paths that are modelled, or
  fewer.
- The S3 signature, the Effect transport of HCC's answers, the development
  servers, audits and the CSV and JSON converters.
- The length of delays (alarms, idle timers, the waves' timeout): each may end
  at any time. An invocation that the platform cancels while it holds an HCC
  slot. SQLite's limit of 2 MB per value other than as the failure
  `row_too_big`.
- A read of IndexedDB that fails in the browser, and the requests of the table
  of latest instances while its list changes.
- The Cache API for objects other than the dashboard snapshot: a plan is taken
  to read what was written, although an entry may be up to 60 s old.
