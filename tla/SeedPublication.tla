--------------------------- MODULE SeedPublication ---------------------------
(***************************************************************************)
(* What a refresh job reads from HCC and R2 and what it publishes.         *)
(*                                                                         *)
(*  1. R2 holds the chunk objects, and three objects no transaction spans: *)
(*     the dashboard snapshot, the manifest, the cursor of published       *)
(*     infringement numbers.                                               *)
(*  2. Planning reads manifest, snapshot and cursor; the plan is the       *)
(*     baseline of every slice and of every attempt to finalize.           *)
(*  3. A slice fetches one window from HCC, stores the chunk, and commits  *)
(*     a summary.  Finalization writes snapshot, manifest, cursor in this  *)
(*     order, computed from the plan and the summaries alone.              *)
(*  4. An eviction, or a failure the coordinator retries, at any await     *)
(*     makes the same slice or the whole finalization run again.           *)
(*  5. HCC may publish a record late, and may move it to another day.      *)
(*                                                                         *)
(* Jobs do not overlap here: SeedRefreshCoordinator shows when they do not.*)
(* An infringement is its number; its instant is abstracted to its day.    *)
(***************************************************************************)
EXTENDS Integers, Sequences, FiniteSets, FiniteSetsExt

CONSTANTS
    Records,        \* infringement numbers
    SeedDay,        \* the day the seed was exported
    LastDay,        \* bound: the calendar ends
    RefreshDays,    \* PARKING_AUTO_REFRESH_DAYS
    ChunkDays,      \* DEFAULT_WORK_CHUNK_DAYS
    SeedStates,     \* whether R2 may start with an exported seed: BOOLEANs
    Faults,         \* non-retried failures beyond those of a slice
    MaxJobs,        \* bound: refresh jobs
    MaxInterrupts,  \* bound: evictions and retried failures
    MaxAmends       \* bound: records HCC moves to another day

ASSUME PublicationAssumption ==
    /\ IsFiniteSet(Records)
    /\ RefreshDays \in Nat \ {0}
    /\ SeedDay \in Nat /\ SeedDay >= RefreshDays
    /\ LastDay \in Nat /\ LastDay >= SeedDay
    /\ ChunkDays \in Nat \ {0}
    /\ SeedStates \subseteq BOOLEAN
    /\ Faults \subseteq {"manifest_read", "cursor_read", "finalize"}
    /\ {MaxJobs, MaxInterrupts, MaxAmends} \subseteq Nat

VARIABLES
    \* the world
    today,      \* Auckland calendar day
    dayOf,      \* HCC: the day of each record, 0 while HCC does not have it
    \* R2
    chunks,     \* chunk objects, by [start, end] window
    snapshot,   \* dashboard snapshot: total, newest day, job; or None
    manifest,   \* manifest: total and chunk names, or None
    cursor,     \* numbers in refresh-cursor.json; {} also when absent
    \* the job, durable
    phase,      \* "none", "running", "complete" or "errored"
    plan,       \* the baseline read when the job was planned
    sums,       \* summaries of the windows done, a sequence
    \* the handler, volatile
    pc,         \* which await of the slice or of the finalization
    fetched,    \* what the slice in flight got from HCC
    \* history
    seeded,     \* records of the exported seed
    seedNewest, \* day of the newest of them, 0 if none
    counted,    \* numbers of every refresh whose snapshot was written
    cursorLost,     \* a job was planned without the cursor there was
    manifestLost,   \* a job was planned without the manifest there was
    jobs, interrupts, amends

world   == <<today, dayOf, amends>>
objects == <<chunks, snapshot, manifest, cursor, counted>>
job     == <<phase, plan, sums, jobs>>
worker  == <<pc, fetched>>
history == <<seeded, seedNewest, cursorLost, manifestLost>>
vars == <<world, objects, job, worker, history, interrupts>>

None == [none |-> TRUE]

HistoryChunk == <<0, 0>>

NoPlan == [snapshot |-> None, manifest |-> None, published |-> {},
           after |-> 0, windows |-> <<>>]
NoFetch == [chunk |-> HistoryChunk, ids |-> {}, new |-> {}, newest |-> 0]

\* Newest day of a set of <<record, day>> pairs, 0 for null.
NewestDay(pairs) == Max({p[2] : p \in pairs} \cup {0})

TypeOK ==
    /\ today \in SeedDay .. LastDay
    /\ dayOf \in [Records -> 0 .. LastDay]
    /\ \A c \in DOMAIN chunks : chunks[c] \subseteq Records
    /\ snapshot = None \/ snapshot.total \in Nat
    /\ manifest = None \/ manifest.chunks \subseteq (Int \X Int)
    /\ cursor \subseteq Records
    /\ phase \in {"none", "running", "complete", "errored"}
    /\ Len(sums) <= Len(plan.windows)
    /\ pc \in {"idle", "fetched", "stored", "snapshot", "manifest", "cursor"}
    /\ counted \subseteq Records
    /\ jobs \in 0 .. MaxJobs

\* What seed-from-local or the import uploaded, before any refresh.
ExportedSeed ==
    /\ seeded = {r \in Records : dayOf[r] # 0}
    /\ seedNewest = NewestDay({<<r, dayOf[r]>> : r \in seeded})
    /\ chunks = [c \in {HistoryChunk} |-> seeded]
    /\ snapshot = [total |-> Cardinality(seeded), newest |-> seedNewest,
                   at |-> 0]
    /\ manifest = [total |-> Cardinality(seeded), chunks |-> {HistoryChunk}]

\* An empty bucket.
NoSeed ==
    /\ seeded = {}
    /\ seedNewest = 0
    /\ chunks = [c \in {} |-> {}]
    /\ snapshot = None
    /\ manifest = None

Init ==
    /\ today = SeedDay
    /\ dayOf \in [Records -> 0 .. SeedDay]
    /\ \/ TRUE \in SeedStates /\ ExportedSeed
       \/ FALSE \in SeedStates /\ NoSeed
    /\ cursor = {}
    /\ phase = "none"
    /\ plan = NoPlan
    /\ sums = <<>>
    /\ pc = "idle"
    /\ fetched = NoFetch
    /\ counted = {}
    /\ cursorLost = FALSE /\ manifestLost = FALSE
    /\ jobs = 0
    /\ interrupts = 0
    /\ amends = 0

-----------------------------------------------------------------------------
(* The world outside.                                                      *)

NextDay ==
    /\ today < LastDay
    /\ today' = today + 1
    /\ UNCHANGED <<dayOf, amends, objects, job, worker, history, interrupts>>

\* HCC adds a record, possibly days after the infringement.
HccPublishes(r) ==
    /\ dayOf[r] = 0
    /\ \E d \in 1 .. today : dayOf' = [dayOf EXCEPT ![r] = d]
    /\ UNCHANGED <<today, amends, objects, job, worker, history, interrupts>>

\* HCC corrects the day of a record, never across the newest exported day,
\* and no exported record before the cursor holds it: the first job could
\* miss that one and the second take it for new.
HccAmends(r) ==
    /\ dayOf[r] # 0
    /\ r \in seeded => r \in cursor
    /\ amends < MaxAmends
    /\ amends' = amends + 1
    /\ \E d \in 1 .. today :
           /\ (d > seedNewest) = (dayOf[r] > seedNewest)
           /\ dayOf' = [dayOf EXCEPT ![r] = d]
    /\ UNCHANGED <<today, objects, job, worker, history, interrupts>>

-----------------------------------------------------------------------------
(* Planning.                                                               *)

\* Windows of ChunkDays from the first day of the rolling range to today.
PlanWindows(to) ==
    LET from == to - RefreshDays + 1
    IN  [k \in 1 .. (RefreshDays + ChunkDays - 1) \div ChunkDays |->
            LET start == from + (k - 1) * ChunkDays
                end   == start + ChunkDays - 1
            IN  <<start, IF end > to THEN to ELSE end>>]

\* loadExistingSeedState.  A missing manifest, and any failure before the
\* cursor, is answered with an empty state; an unreadable cursor with none.
ExistingSeedState(fault) ==
    LET published == IF fault = "cursor_read" THEN {} ELSE cursor
    IN  IF manifest = None \/ fault = "manifest_read"
        THEN [snapshot |-> None, manifest |-> None, published |-> {},
              after |-> 0]
        ELSE [snapshot |-> snapshot, manifest |-> manifest,
              published |-> published,
              after |-> IF published = {} /\ snapshot # None
                        THEN snapshot.newest
                        ELSE 0]

StartJob ==
    /\ phase # "running"
    /\ jobs < MaxJobs
    /\ \E fault \in {"none"} \cup (Faults \ {"finalize"}) :
           LET existing == ExistingSeedState(fault)
           IN  /\ manifestLost' = (manifestLost \/ (fault = "manifest_read" /\ manifest # None))
               /\ cursorLost' = \/ cursorLost \/ manifestLost'
                                \/ fault = "cursor_read" /\ cursor # {}
               /\ plan' = [snapshot  |-> existing.snapshot,
                           manifest  |-> existing.manifest,
                           published |-> existing.published,
                           after     |-> existing.after,
                           windows   |-> PlanWindows(today)]
    /\ phase' = "running"
    /\ sums' = <<>>
    /\ jobs' = jobs + 1
    /\ UNCHANGED <<world, objects, worker, seeded, seedNewest, interrupts>>

-----------------------------------------------------------------------------
(* One slice.                                                              *)

\* Mutant: numbers of this job's earlier windows are not consulted.
PublishedBeforeOfPlan == plan.published

\* readPublishedInfringementNumbers: the plan's, and those of the windows
\* this job has already done.
PublishedBefore == plan.published \cup UNION {sums[i].ids : i \in DOMAIN sums}

\* Mutant: records up to the newest published one are never new.
IsNewAfterNewest(r) ==
    /\ r \notin PublishedBefore
    /\ plan.snapshot = None \/ dayOf[r] > plan.snapshot.newest

IsNew(r) == r \notin PublishedBefore /\ dayOf[r] > plan.after

SliceFetches ==
    /\ phase = "running"
    /\ pc = "idle"
    /\ Len(sums) < Len(plan.windows)
    /\ LET window == plan.windows[Len(sums) + 1]
           ids == {r \in Records : dayOf[r] \in window[1] .. window[2]}
           new == {r \in ids : IsNew(r)}
       IN  fetched' = [chunk  |-> window,
                       ids    |-> ids,
                       new    |-> new,
                       newest |-> NewestDay({<<r, dayOf[r]>> : r \in ids})]
    /\ pc' = "fetched"
    /\ UNCHANGED <<world, objects, job, history, interrupts>>

\* Mutant: the summary is committed though the chunk was not stored.
SliceStoresNothing ==
    /\ pc = "fetched"
    /\ pc' = "stored"
    /\ UNCHANGED <<world, objects, job, fetched, history, interrupts>>

SliceStores ==
    /\ pc = "fetched"
    /\ chunks' = [c \in DOMAIN chunks \cup {fetched.chunk} |->
                     IF c = fetched.chunk THEN fetched.ids ELSE chunks[c]]
    /\ pc' = "stored"
    /\ UNCHANGED <<world, snapshot, manifest, cursor, counted, job, fetched,
                   history, interrupts>>

\* Mutant: the slice is committed again.
SliceCommitsRepeatedly ==
    /\ pc = "stored"
    /\ sums' = Append(sums, fetched)
    /\ UNCHANGED <<world, objects, phase, plan, jobs, worker, history,
                   interrupts>>

SliceCommits ==
    /\ pc = "stored"
    /\ sums' = Append(sums, fetched)
    /\ pc' = "idle"
    /\ fetched' = NoFetch
    /\ UNCHANGED <<world, objects, phase, plan, jobs, history, interrupts>>

-----------------------------------------------------------------------------
(* finalizeLiveSeedRefresh.                                                *)

\* A summary holds two counts, here the sets they count; the sum of a count over
\* the windows is the number of pairs of a window and a number counted in it.
RecordCount == Cardinality(UNION {{i} \X sums[i].ids : i \in DOMAIN sums})
NewCount    == Cardinality(UNION {{i} \X sums[i].new : i \in DOMAIN sums})
SummaryIds  == UNION {sums[i].ids : i \in DOMAIN sums}

\* Mutant: the total is that of the rolling range.
TotalFromRange(existing) == RecordCount

TotalFrom(existing) ==
    IF existing = None THEN RecordCount ELSE existing.total + NewCount

\* Mutant: the baseline is what is published now, not what was planned from.
CurrentSnapshot == snapshot

PlannedSnapshot == plan.snapshot

FinalSnapshot ==
    LET newest == Max({sums[i].newest : i \in DOMAIN sums} \cup {0})
    IN  [total  |-> TotalFrom(PlannedSnapshot),
         newest |-> IF newest = 0 /\ PlannedSnapshot # None
                    THEN PlannedSnapshot.newest
                    ELSE newest,
         at     |-> jobs]

\* Mutant: the baseline is what is published now.
CurrentManifest == manifest

PlannedManifest == plan.manifest

\* Mutant: only the refreshed chunks are listed.
NoChunks == {}

\* Refresh chunks of earlier jobs are dropped, other chunks are kept.
HistoricalChunks ==
    IF PlannedManifest = None THEN {}
    ELSE PlannedManifest.chunks \cap {HistoryChunk}

FinalManifest ==
    LET total == TotalFrom(PlannedManifest)
    IN  [total  |-> IF total > RecordCount THEN total ELSE RecordCount,
         chunks |-> HistoricalChunks \cup {sums[i].chunk : i \in DOMAIN sums}]

FinalizeSnapshot ==
    /\ phase = "running"
    /\ pc = "idle"
    /\ Len(sums) = Len(plan.windows)
    /\ snapshot' = FinalSnapshot
    /\ counted' = counted \cup SummaryIds
    /\ pc' = "snapshot"
    /\ UNCHANGED <<world, chunks, manifest, cursor, job, fetched, history,
                   interrupts>>

FinalizeManifest ==
    /\ pc = "snapshot"
    /\ manifest' = FinalManifest
    /\ pc' = "manifest"
    /\ UNCHANGED <<world, chunks, snapshot, cursor, counted, job, fetched,
                   history, interrupts>>

\* Mutant: the cursor holds the current range only.
CursorOfRange == SummaryIds

FinalCursor == plan.published \cup SummaryIds

FinalizeCursor ==
    /\ pc = "manifest"
    /\ cursor' = FinalCursor
    /\ pc' = "cursor"
    /\ UNCHANGED <<world, chunks, snapshot, manifest, counted, job, fetched,
                   history, interrupts>>

Complete ==
    /\ pc = "cursor"
    /\ phase' = "complete"
    /\ pc' = "idle"
    /\ UNCHANGED <<world, objects, plan, sums, jobs, fetched, history,
                   interrupts>>

-----------------------------------------------------------------------------
(* Failures.                                                               *)

\* An eviction, or a failure recordFailure retries: the handler is lost and
\* the alarm comes again.
Interrupt ==
    /\ pc # "idle"
    /\ interrupts < MaxInterrupts
    /\ interrupts' = interrupts + 1
    /\ pc' = "idle"
    /\ fetched' = NoFetch
    /\ UNCHANGED <<world, objects, job, history>>

\* This job's finalization has written its snapshot.
SnapshotWritten == snapshot # None /\ snapshot.at = jobs

\* A failure recordFailure does not retry: of HCC, of a chunk write, of the
\* first snapshot write; after that write only with the fault "finalize".
Abort ==
    /\ phase = "running"
    /\ pc # "cursor"
    /\ SnapshotWritten => "finalize" \in Faults
    /\ phase' = "errored"
    /\ pc' = "idle"
    /\ fetched' = NoFetch
    /\ UNCHANGED <<world, objects, plan, sums, jobs, history, interrupts>>

-----------------------------------------------------------------------------

Next ==
    \/ NextDay
    \/ \E r \in Records : HccPublishes(r) \/ HccAmends(r)
    \/ StartJob
    \/ SliceFetches \/ SliceStores \/ SliceCommits
    \/ FinalizeSnapshot \/ FinalizeManifest \/ FinalizeCursor \/ Complete
    \/ Interrupt
    \/ Abort

Spec == Init /\ [][Next]_vars

-----------------------------------------------------------------------------
(* Properties.                                                             *)

(***************************************************************************)
(* The published all-time total never exceeds the distinct numbers there   *)
(* are: no record is counted by two jobs, by two attempts of one job, or   *)
(* by two windows of one job after HCC moved it.  (A first refresh of an   *)
(* empty bucket adds up the windows, as does one that could not read the   *)
(* manifest, and a job that lost the cursor tells new records by their     *)
(* day: there only while HCC moves nothing.)                               *)
(***************************************************************************)
NeverOvercounts ==
    snapshot # None /\ (amends = 0 \/ (seeded # {} /\ ~cursorLost))
        => snapshot.total <= Cardinality(seeded \cup counted)

(***************************************************************************)
(* Nor does it fall short: once a refresh has published a record dated     *)
(* after the newest exported one, the total holds it.  (Records HCC adds   *)
(* late, with a date the export already covers, are given up by the first  *)
(* job, which has no cursor to tell them from exported ones, and so are    *)
(* others by a job that lost the cursor or the manifest.)                  *)
(***************************************************************************)
NeverUndercounts ==
    snapshot # None /\ ~cursorLost
        => snapshot.total >=
               Cardinality(seeded \cup {r \in counted : dayOf[r] > seedNewest})

(***************************************************************************)
(* The cursor is the baseline the next job may rely on: unless a           *)
(* finalization is under way, or a job could not read cursor or manifest,  *)
(* it holds every number counted so far.                                   *)
(***************************************************************************)
CursorHoldsCounted ==
    phase \in {"complete", "errored"} /\ ~cursorLost => counted \subseteq cursor

(***************************************************************************)
(* "All-time totals advance": what visitors see never falls, neither by an *)
(* unreadable cursor, nor by an aborted or repeated finalization, once the *)
(* job under way has a manifest in its plan.  (A job that could not read   *)
(* the manifest takes the bucket for empty and starts the total anew, so   *)
(* that the total may well fall.)                                          *)
(***************************************************************************)
TotalNeverFalls ==
    [][snapshot # None /\ plan.manifest # None
           => snapshot'.total >= snapshot.total]_vars

(***************************************************************************)
(* "A repeated finalization writes the same totals": after its first       *)
(* snapshot write a job never publishes another value.                     *)
(***************************************************************************)
FinalizeIsIdempotent ==
    [][snapshot # None /\ snapshot'.at = snapshot.at
           => snapshot' = snapshot]_vars

(***************************************************************************)
(* A published manifest lists no chunk that R2 does not hold; and of what  *)
(* a complete refresh has counted, its chunks hold everything but what     *)
(* slid out of the rolling range without ever being in the export, as long *)
(* as HCC moves nothing: also with an unreadable cursor, an empty bucket,  *)
(* and chunks that two jobs cut at other days.  (A job that could not read *)
(* the manifest drops the exported chunks, and what of the export lies     *)
(* before the range with them.)                                            *)
(***************************************************************************)
CountedAreListed ==
    /\ manifest # None => manifest.chunks \subseteq DOMAIN chunks
    /\ phase = "complete" /\ amends = 0
           => \A r \in seeded \cup counted :
                  \/ \E c \in manifest.chunks : r \in chunks[c]
                  \/ (r \notin seeded \/ manifestLost) /\ dayOf[r] < plan.windows[1][1]

(***************************************************************************)
(* Visitors can read two totals, the manifest's and the snapshot's, each   *)
(* advanced from a baseline of its own.  They part when Math.max lifts the *)
(* manifest's to the size of the rolling range, over records that the      *)
(* first job, or a job that lost the cursor, has given up.  Then as ever,  *)
(* while HCC moves nothing, the manifest's lies between the snapshot's and *)
(* the numbers there are.                                                  *)
(***************************************************************************)
ManifestTotalInBounds ==
    phase = "complete" /\ amends = 0
        => manifest.total \in snapshot.total .. Cardinality(seeded \cup counted)
=============================================================================
