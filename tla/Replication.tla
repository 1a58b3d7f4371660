---------------------------- MODULE Replication ----------------------------
(***************************************************************************)
(* The scripts that copy a store (scripts/push-local.ts, push-json.ts,     *)
(* seed-from-local.ts, migrate-seed-to-do.ts), the routes they call, and   *)
(* the checkpoint files from which they resume.                            *)
(*                                                                         *)
(*  push     store to store: pages by number, then watermarks by offset,   *)
(*           then finalize; a checkpoint after every page.                 *)
(*  export   store to seed: chunks of ChunkRecords, the watermarks and the *)
(*           manifest on disk, then one upload per file, all at a time.    *)
(*  migrate  seed to the store beside it: chunk after chunk, a few chunks  *)
(*           per run, a checkpoint after every chunk.                      *)
(*  sync     seed-mode worker to store, without a checkpoint.              *)
(*                                                                         *)
(* A script may die at any moment, a request may fail with or without its  *)
(* effect, the source store goes on ingesting, and the seed refresh goes   *)
(* on storing chunks and publishing them. The operator runs one script at  *)
(* a time. Left out: --start-after and --skip-watermarks, with which the   *)
(* operator asks for less, and the dashboard snapshot.                     *)
(***************************************************************************)
EXTENDS ParkingStore

CONSTANTS
    DayOf,          \* the day of each record
    Ingested0,      \* the days the source has ingested at first
    PageLimit,      \* --batch-size
    ChunkRecords,   \* --chunk-records, the records of a seed chunk
    UpsertBatch,    \* INFRINGEMENT_UPSERT_BATCH
    ChunksPerRun,   \* --chunks
    Scripts,        \* the scripts the operator runs
    RefreshDays,    \* PARKING_AUTO_REFRESH_DAYS
    WorkChunkDays,  \* DEFAULT_WORK_CHUNK_DAYS
    HccHolds,       \* what HCC may have when a refresh asks it, sets of records
    MaxStarts, MaxFaults, MaxExports, MaxRefreshes  \* bounds of the model

ASSUME ReplicationAssumption ==
    /\ DayOf \in [Records -> Days]
    /\ Ingested0 \subseteq Days
    /\ {PageLimit, ChunkRecords, UpsertBatch, ChunksPerRun} \subseteq Nat \ {0}
    /\ {RefreshDays, WorkChunkDays} \subseteq Nat \ {0}
    /\ HccHolds \subseteq SUBSET Records
    /\ Scripts \subseteq {"push", "export", "migrate", "sync"}
    /\ {MaxStarts, MaxFaults, MaxExports, MaxRefreshes} \subseteq Nat

VARIABLES
    source,     \* the ParkingStore that is copied
    dest,       \* the ParkingStore a push copies to
    target,     \* the ParkingStore a seed is copied to
    seed,       \* the R2 objects: [manifest, objects, marks, version, day]
    refresh,    \* the job of the seed refresh, or NoRefresh
    script,     \* the running script
    pushFile,   \* .push-local.checkpoint.json, or NoFile
    migrateFile,    \* the chunk in the migration checkpoint, or NoFile
    starts, faults, exports, refreshes, \* counted against the bounds
    began,      \* history: the source when the push was begun, over its resumptions
    migrated,   \* history: the export whose files a migration was begun with
    late        \* history: what refreshes have put into chunks that were there, since
                \* the migration was begun: pairs of a name and a record

vars == <<source, dest, target, seed, refresh, script, pushFile, migrateFile,
          starts, faults, exports, refreshes, began, migrated, late>>

-----------------------------------------------------------------------------
NoFile == [phase |-> "none"]

Idle == [name |-> "none", pc |-> "off"]

NoRefresh == [to |-> 0, next |-> 1, chunks |-> <<>>]

\* No export has this number.
NoExport == -1

DayWindow(d) == <<d, d>>

OfDays(ds) == {r \in Records : DayOf[r] \in ds}

\* manifest: the names of the chunks in their order; objects: the chunks there
\* are, a name and the records of its lines; marks: watermarks.ndjson, {} when
\* there is none; version: the export the last uploaded file is of; day: the last day
\* of the range that was refreshed last.
EmptySeed == [manifest |-> <<>>, objects |-> {}, marks |-> {}, version |-> 0, day |-> 0]

HasObject(name) == \E o \in seed.objects : o.name = name

\* readSeedObjectText of a chunk
LinesOf(name) == (CHOOSE o \in seed.objects : o.name = name).lines

WithObject(objects, name, lines) ==
    {o \in objects : o.name # name} \cup {[name |-> name, lines |-> lines]}

\* The records in the chunks of a manifest, as far as the chunks are there.
ListedRecords(manifest) ==
    UNION {Range(o.lines) : o \in {o \in seed.objects : o.name \in Range(manifest)}}

Init ==
    /\ source = [EmptyStore EXCEPT !.rows = OfDays(Ingested0),
                                   !.marks = {DayWindow(d) : d \in Ingested0}]
    /\ dest = EmptyStore
    /\ target = EmptyStore
    /\ seed = EmptySeed
    /\ refresh = NoRefresh
    /\ script = Idle
    /\ pushFile = NoFile
    /\ migrateFile = NoFile
    /\ starts = 0 /\ faults = 0 /\ exports = 0 /\ refreshes = 0
    /\ began = [rows |-> {}, marks |-> {}, due |-> {}]
    /\ migrated = 0
    /\ late = {}

Fault == faults < MaxFaults /\ faults' = faults + 1

Counters == <<starts, faults, exports, refreshes>>

Start(name) ==
    /\ script = Idle
    /\ name \in Scripts
    /\ starts < MaxStarts
    /\ starts' = starts + 1
    /\ UNCHANGED <<faults, exports, refreshes>>

\* The route /import/stored; push-local.ts never asks it to finalize the import too.
ImportStored(store, records) == Imported(store, records)

\* The route /import/snapshot
ImportSnapshot(store, records) == ImportStored(store, records)

\* A script dies: killed, or a request failed for good.
Dies == script' = Idle

-----------------------------------------------------------------------------
(* What goes on beside the scripts                                         *)

SourceIngests(d) ==
    /\ DayWindow(d) \notin source.marks
    /\ source' = Watermarked(Upserted(source, OfDays({d})), DayWindow(d))
    /\ UNCHANGED <<dest, target, seed, refresh, script, pushFile, migrateFile, Counters,
                   began, migrated, late>>

\* The first days of the windows a refresh up to this day fetches
RefreshStarts(to) ==
    LET from == to - RefreshDays + 1
    IN  {d \in from .. to : \E k \in 0 .. RefreshDays : d = from + k * WorkChunkDays}

\* chunkName, which is made of the days of the window
RefreshChunk(start, to) ==
    <<"refresh", <<start, IF start + WorkChunkDays - 1 > to THEN to
                          ELSE start + WorkChunkDays - 1>>>>

\* The chunks of a refresh, in the order of their windows
RefreshChunks(to) ==
    LET firsts == InOrder(RefreshStarts(to))
    IN  [k \in DOMAIN firsts |-> RefreshChunk(firsts[k], to)]

\* The chunks that are not of a refresh, in their order
HistoricalChunks(manifest) ==
    LET kept == InOrder({i \in DOMAIN manifest : manifest[i][1] # "refresh"})
    IN  [j \in DOMAIN kept |-> manifest[kept[j]]]

RefreshElsewhere ==
    <<source, dest, target, script, pushFile, migrateFile, starts, exports, began>>

\* planLiveSeedRefresh: the range ends today, and the clock does not go back. The chunks
\* of the manifest are read here and listed in the end; a read that fails counts as no
\* manifest. A job that is not done is one that failed, and is replaced.
SeedPlans(to) ==
    /\ refreshes < MaxRefreshes
    /\ refreshes' = refreshes + 1
    /\ RefreshDays <= to /\ seed.day <= to
    /\ \/ refresh' = [to |-> to, next |-> 1, chunks |-> HistoricalChunks(seed.manifest)]
          /\ UNCHANGED faults
       \/ refresh' = [to |-> to, next |-> 1, chunks |-> <<>>] /\ Fault
    /\ UNCHANGED <<seed, migrated, late, RefreshElsewhere>>

\* A slice: the records HCC has in a window now are the lines of its chunk, in the place
\* of those that a refresh of the same days stored before. A slice that dies after that
\* is run again.
SeedStores ==
    /\ refresh.to # 0 /\ refresh.next \in DOMAIN RefreshChunks(refresh.to)
    /\ \E held \in HccHolds :
          LET name  == RefreshChunks(refresh.to)[refresh.next]
              found == held \cap OfDays(name[2][1] .. name[2][2])
          IN  /\ seed' = [seed EXCEPT !.objects = WithObject(@, name, InOrder(found))]
              /\ late' = IF HasObject(name)
                         THEN late \cup ({name} \X (found \ Range(LinesOf(name))))
                         ELSE late
    /\ \/ refresh' = [refresh EXCEPT !.next = @ + 1] /\ UNCHANGED faults
       \/ UNCHANGED refresh /\ Fault
    /\ UNCHANGED <<refreshes, migrated, RefreshElsewhere>>

\* finalizeLiveSeedRefresh: the manifest lists the chunks there were when the job was
\* planned, but those of the refreshes before, and then the chunks of this one. The
\* chunks of another export, uploaded meanwhile, are no longer listed.
SeedPublishes ==
    /\ refresh.to # 0 /\ refresh.next \notin DOMAIN RefreshChunks(refresh.to)
    /\ seed' = [seed EXCEPT !.manifest = refresh.chunks \o RefreshChunks(refresh.to),
                            !.day = refresh.to]
    /\ migrated' = IF refresh.chunks = HistoricalChunks(seed.manifest) THEN migrated
                   ELSE NoExport
    /\ refresh' = NoRefresh
    /\ UNCHANGED <<faults, refreshes, late, RefreshElsewhere>>

Refresh == (\E to \in Days : SeedPlans(to)) \/ SeedStores \/ SeedPublishes

\* A running script is killed. In the middle of writeFile the checkpoint is torn,
\* and the next run takes a file it cannot parse for none.
ScriptKilled ==
    /\ script # Idle
    /\ Fault
    /\ Dies
    /\ \/ UNCHANGED <<pushFile, migrateFile>>
       \/ script.pc \in {"save", "phase", "saveMarks"} /\ script.name = "push"
             /\ pushFile' = NoFile /\ UNCHANGED migrateFile
       \/ script.pc = "save" /\ script.name = "migrate"
             /\ migrateFile' = NoFile /\ UNCHANGED pushFile
    /\ UNCHANGED <<source, dest, target, seed, refresh, starts, exports, refreshes, began,
                   migrated, late>>

-----------------------------------------------------------------------------
(* push-local.ts                                                           *)

Elsewhere == <<source, target, seed, refresh, migrateFile, migrated, late>>

PushAt(pc, cursor, offset) ==
    [name |-> "push", pc |-> pc, cursor |-> cursor, offset |-> offset,
     page |-> {}, next |-> 0]

\* Mutant: a checkpoint of the first loop is resumed in the second.
ResumedInMarks(file) == PushAt("exportMarks", file.cursor, file.offset)

\* From the checkpoint: its phase says which loop runs first.
Resumed(file) ==
    IF file.phase = "watermarks" THEN PushAt("exportMarks", file.cursor, file.offset)
    ELSE PushAt("export", file.cursor, file.offset)

PushStarts ==
    /\ Start("push")
    /\ \/ /\ pushFile # NoFile
          /\ script' = Resumed(pushFile)
          /\ UNCHANGED <<pushFile, began>>
       \/ \* no file, or --fresh
          /\ script' = PushAt("export", 0, 0)
          /\ pushFile' = NoFile
          /\ began' = [rows |-> source.rows, marks |-> source.marks,
                       due |-> source.marks \ dest.marks]
    /\ UNCHANGED <<dest, Elsewhere>>

\* One page; an empty one ends the loop.
PushExports ==
    /\ script.name = "push" /\ script.pc = "export"
    /\ LET page == ExportInfringements(source, script.cursor, PageLimit)
       IN  script' = IF page.records = {} THEN [script EXCEPT !.pc = "phase"]
                     ELSE [script EXCEPT !.pc = "import", !.next = page.nextCursor,
                                         !.page = page.records]
    /\ UNCHANGED <<dest, pushFile, began, Counters, Elsewhere>>

\* Mutant: the cursor advances past the batch that comes next.
CursorAfterSkips(s) == IF s.next = 0 THEN s.cursor ELSE s.next + 1

\* exported.nextCursor ?? cursor
CursorAfter(s) == IF s.next = 0 THEN s.cursor ELSE s.next

\* postImportStored: a request that failed is retried, though it may have had its
\* effect; a fatal one ends the script.
PushImports ==
    /\ script.name = "push" /\ script.pc = "import"
    /\ \/ /\ dest' = ImportStored(dest, script.page)
          /\ script' = [script EXCEPT !.pc = "save", !.cursor = CursorAfter(script)]
          /\ UNCHANGED faults
       \/ /\ Fault
          /\ dest' = ImportStored(dest, script.page)
          /\ \/ UNCHANGED script \/ Dies
    /\ UNCHANGED <<pushFile, began, starts, exports, refreshes, Elsewhere>>

\* The checkpoint after a page, and whether another page follows.
PushSaves ==
    /\ script.name = "push" /\ script.pc = "save"
    /\ pushFile' = [phase |-> "infringements", cursor |-> script.cursor,
                    offset |-> script.offset]
    /\ script' = [script EXCEPT !.pc = IF script.next = 0 THEN "phase" ELSE "export",
                                !.page = {}, !.next = 0]
    /\ UNCHANGED <<dest, began, Counters, Elsewhere>>

PushEntersWatermarks ==
    /\ script.name = "push" /\ script.pc = "phase"
    /\ pushFile' = [phase |-> "watermarks", cursor |-> script.cursor, offset |-> 0]
    /\ script' = [script EXCEPT !.pc = "exportMarks"]
    /\ UNCHANGED <<dest, began, Counters, Elsewhere>>

PushExportsMarks ==
    /\ script.name = "push" /\ script.pc = "exportMarks"
    /\ LET page == ExportWatermarks(source, script.offset, PageLimit)
       IN  script' = IF page.watermarks = {} THEN [script EXCEPT !.pc = "finalize"]
                     ELSE [script EXCEPT !.pc = "importMarks", !.page = page.watermarks,
                                         !.next = page.nextOffset]
    /\ UNCHANGED <<dest, pushFile, began, Counters, Elsewhere>>

\* postImportWatermarks has no retry.
PushImportsMarks ==
    /\ script.name = "push" /\ script.pc = "importMarks"
    /\ dest' = ImportedWatermarks(dest, script.page)
    /\ \/ /\ script' = [script EXCEPT !.pc = "saveMarks",
                             !.offset = IF script.next = 0 THEN @ ELSE script.next]
          /\ UNCHANGED faults
       \/ Fault /\ Dies
    /\ UNCHANGED <<pushFile, began, starts, exports, refreshes, Elsewhere>>

PushSavesMarks ==
    /\ script.name = "push" /\ script.pc = "saveMarks"
    /\ pushFile' = [phase |-> "watermarks", cursor |-> script.cursor,
                    offset |-> script.offset]
    /\ script' = [script EXCEPT !.pc = IF script.next = 0 THEN "finalize" ELSE "exportMarks",
                                !.page = {}, !.next = 0]
    /\ UNCHANGED <<dest, began, Counters, Elsewhere>>

PushFinalizes ==
    /\ script.name = "push" /\ script.pc = "finalize"
    /\ dest' \in FinalizedImport(dest)
    /\ \/ script' = [script EXCEPT !.pc = "clear"] /\ UNCHANGED faults
       \/ Fault /\ Dies
    /\ UNCHANGED <<pushFile, began, starts, exports, refreshes, Elsewhere>>

PushClears ==
    /\ script.name = "push" /\ script.pc = "clear"
    /\ pushFile' = NoFile
    /\ Dies
    /\ UNCHANGED <<dest, began, Counters, Elsewhere>>

Push ==
    \/ PushStarts \/ PushExports \/ PushImports \/ PushSaves
    \/ PushEntersWatermarks \/ PushExportsMarks \/ PushImportsMarks \/ PushSavesMarks
    \/ PushFinalizes \/ PushClears

-----------------------------------------------------------------------------
(* seed-from-local.ts: exportSeedChunksFromWorker, then the upload         *)

SeedElsewhere ==
    <<source, dest, target, refresh, pushFile, migrateFile, began, migrated, late>>

ExportStarts ==
    /\ exports < MaxExports
    /\ script = Idle
    /\ "export" \in Scripts
    /\ exports' = exports + 1
    /\ script' = [name |-> "export", pc |-> "pages", cursor |-> 0, pending |-> <<>>,
                  chunks |-> <<>>, had |-> source.rows, marks |-> {}, todo |-> {}]
    /\ UNCHANGED <<seed, starts, faults, refreshes, SeedElsewhere>>

\* flushChunk
FlushedChunk(chunks, lines) ==
    IF lines = <<>> THEN chunks
    ELSE Append(chunks, [name |-> <<"export", Len(chunks) + 1>>, lines |-> lines])

\* Mutant: the lines of a chunk are kept after it was written.
AppendedAgain(s, records) ==
    LET lines == s.pending \o records
    IN  IF Len(lines) < ChunkRecords THEN [s EXCEPT !.pending = lines]
        ELSE [s EXCEPT !.chunks = FlushedChunk(@, SubSeq(lines, 1, ChunkRecords)),
                       !.pending = lines]

\* appendRecords: a chunk is written as soon as it is full. A page has no more records
\* than a chunk has lines, so it fills one chunk at most.
Appended(s, records) ==
    LET lines == s.pending \o records
    IN  IF Len(lines) < ChunkRecords THEN [s EXCEPT !.pending = lines]
        ELSE [s EXCEPT !.chunks = FlushedChunk(@, SubSeq(lines, 1, ChunkRecords)),
                       !.pending = SubSeq(lines, ChunkRecords + 1, Len(lines))]

ExportPulls ==
    /\ script.name = "export" /\ script.pc = "pages"
    /\ LET page == ExportInfringements(source, script.cursor, ChunkRecords)
           s    == Appended(script, InOrder(page.records))
       IN  script' = IF page.nextCursor # 0 THEN [s EXCEPT !.cursor = page.nextCursor]
                     ELSE [s EXCEPT !.pc = "marks", !.pending = <<>>,
                                    !.chunks = FlushedChunk(@, s.pending)]
    /\ UNCHANGED <<seed, Counters, SeedElsewhere>>

\* The watermarks are read to the end, and the files are ready for the upload.
ExportPullsMarks ==
    /\ script.name = "export" /\ script.pc = "marks"
    /\ script' = [script EXCEPT !.pc = "upload", !.marks = source.marks,
                      !.todo = DOMAIN script.chunks \cup {0, -1}]
    /\ UNCHANGED <<seed, Counters, SeedElsewhere>>

\* uploadSeedDirectory: the files arrive in any order; 0 is the manifest, -1 the
\* watermarks. Each takes the place of the file of that name from before.
ExportUploads(f) ==
    /\ script.name = "export" /\ script.pc = "upload"
    /\ f \in script.todo
    /\ seed' = [CASE f = 0 -> [seed EXCEPT !.manifest =
                                  [i \in DOMAIN script.chunks |-> script.chunks[i].name]]
                  [] f = -1 -> [seed EXCEPT !.marks = script.marks]
                  [] OTHER -> [seed EXCEPT !.objects =
                                  WithObject(@, script.chunks[f].name, script.chunks[f].lines)]
               EXCEPT !.version = exports]
    /\ IF script.todo = {f} THEN Dies ELSE script' = [script EXCEPT !.todo = @ \ {f}]
    /\ UNCHANGED <<Counters, SeedElsewhere>>

Export ==
    \/ ExportStarts \/ ExportPulls \/ ExportPullsMarks
    \/ \E f \in -1 .. Cardinality(Records) : ExportUploads(f)

-----------------------------------------------------------------------------
(* migrate-seed-to-do.ts and the routes /import/seed                       *)

MigrateElsewhere == <<source, dest, seed, refresh, pushFile, began>>

\* Mutant: the chunk of the checkpoint is taken for done before it is applied.
ChunksAfterSkipsOne(names, last) ==
    SubSeq(names, SelectInSeq(names, LAMBDA n : n = last) + 2, Len(names))

\* pendingChunks: those after the chunk of the checkpoint.
ChunksAfter(names, last) ==
    SubSeq(names, SelectInSeq(names, LAMBDA n : n = last) + 1, Len(names))

MigrateWith(pending) ==
    [name |-> "migrate", pc |-> IF pending = <<>> THEN "done" ELSE "read",
     all |-> seed.manifest, pending |-> pending, left |-> ChunksPerRun, lines |-> <<>>]

\* The script reads the manifest. A checkpoint that names a chunk the manifest no
\* longer lists ends it ("Unknown start-after-chunk").
MigrateStarts ==
    /\ Start("migrate")
    /\ seed.manifest # <<>>
    /\ \/ /\ migrateFile # NoFile
          /\ script' = IF migrateFile.last \in Range(seed.manifest)
                       THEN MigrateWith(ChunksAfter(seed.manifest, migrateFile.last))
                       ELSE Idle
          /\ UNCHANGED <<migrateFile, migrated, late>>
       \/ \* no file, or --fresh
          /\ script' = MigrateWith(seed.manifest)
          /\ migrateFile' = NoFile
          /\ migrated' = seed.version
          /\ late' = {}
    /\ UNCHANGED <<target, MigrateElsewhere>>

\* importSeedInfringementChunk reads the manifest and the chunk of its own, and
\* fails on one that is not listed or not there.
MigrateReads ==
    /\ script.name = "migrate" /\ script.pc = "read"
    /\ LET name == Head(script.pending)
       IN  script' = IF name \in Range(seed.manifest) /\ HasObject(name)
                     THEN [script EXCEPT !.pc = "import", !.lines = LinesOf(name)]
                     ELSE Idle
    /\ UNCHANGED <<target, migrateFile, migrated, late, Counters, MigrateElsewhere>>

\* upsertLinesInBatches: a call of the store may fail between two batches, or
\* after its effect.
MigrateImports ==
    /\ script.name = "migrate" /\ script.pc = "import"
    /\ LET n    == IF UpsertBatch < Len(script.lines) THEN UpsertBatch ELSE Len(script.lines)
           rest == SubSeq(script.lines, n + 1, Len(script.lines))
       IN  /\ target' = Imported(target, Range(SubSeq(script.lines, 1, n)))
           /\ \/ /\ script' = [script EXCEPT !.lines = rest,
                                 !.pc = IF rest = <<>> THEN "save" ELSE "import"]
                 /\ UNCHANGED faults
              \/ Fault /\ Dies
    /\ UNCHANGED <<migrateFile, migrated, late, starts, exports, refreshes, MigrateElsewhere>>

\* onChunkApplied saves the checkpoint; then the next chunk, if the run may.
MigrateSaves ==
    /\ script.name = "migrate" /\ script.pc = "save"
    /\ migrateFile' = [phase |-> "chunks", last |-> Head(script.pending)]
    /\ LET rest == Tail(script.pending)
       IN  script' = CASE rest = <<>> -> [script EXCEPT !.pc = "done", !.pending = <<>>]
                       [] rest # <<>> /\ script.left > 1 ->
                             [script EXCEPT !.pc = "read", !.pending = rest,
                                            !.left = @ - 1]
                       [] OTHER -> Idle
    /\ UNCHANGED <<target, migrated, late, Counters, MigrateElsewhere>>

\* "All infringement chunks imported", whereupon the operator runs --finalize,
\* which fails when the manifest's watermarks are not there.
MigrateImportsMarks ==
    /\ script.name = "migrate" /\ script.pc = "done"
    /\ target' = ImportedWatermarks(target, seed.marks)
    /\ script' = IF seed.marks = {} THEN Idle ELSE [script EXCEPT !.pc = "finalize"]
    /\ UNCHANGED <<migrateFile, migrated, late, Counters, MigrateElsewhere>>

\* The counts and statistics, and the checkpoint is cleared.
MigrateFinalizes ==
    /\ script.name = "migrate" /\ script.pc = "finalize"
    /\ target' \in FinalizedImport(target)
    /\ migrateFile' = NoFile
    /\ Dies
    /\ UNCHANGED <<migrated, late, Counters, MigrateElsewhere>>

Migrate ==
    \/ MigrateStarts \/ MigrateReads \/ MigrateImports \/ MigrateSaves
    \/ MigrateImportsMarks \/ MigrateFinalizes

-----------------------------------------------------------------------------
(* push-json.ts from a worker in seed mode                                 *)

\* SeedReader.exportInfringements: the chunks are scanned in the order of the
\* manifest for numbers above the cursor, a chunk that is not there is passed
\* over; the next cursor is the number of the last record of the page.
ExportSeed(after, limit) ==
    LET there == SelectSeq(seed.manifest, HasObject)
        lines == FoldLeft(LAMBDA all, n : all \o LinesOf(n), <<>>, there)
        later == SelectSeq(lines, LAMBDA n : n > after)
        page  == SubSeq(later, 1, IF limit < Len(later) THEN limit ELSE Len(later))
    IN  [records |-> page,
         nextCursor |-> IF Len(page) < limit THEN 0 ELSE Last(page)]

\* SeedReader.exportWatermarks: the lines of one object, or none without it
ExportSeedMarks(offset, limit) ==
    LET lines == SetToSortSeq(seed.marks, WindowBefore)
        last  == IF offset + limit < Len(lines) THEN offset + limit ELSE Len(lines)
    IN  [watermarks |-> Range(SubSeq(lines, offset + 1, last)),
         nextOffset |-> IF last < Len(lines) THEN last ELSE 0]

SyncElsewhere ==
    <<source, dest, seed, refresh, pushFile, migrateFile, began, migrated, late>>

SyncStarts ==
    /\ Start("sync")
    /\ seed.manifest # <<>>
    /\ script' = [name |-> "sync", pc |-> "pages", cursor |-> 0, all |-> seed.manifest,
                  page |-> {}]
    /\ UNCHANGED <<target, SyncElsewhere>>

\* An empty page ends the loop as the last one does.
SyncExports ==
    /\ script.name = "sync" /\ script.pc = "pages"
    /\ LET page == ExportSeed(script.cursor, PageLimit)
       IN  script' = IF page.records = <<>> THEN [script EXCEPT !.pc = "marks", !.cursor = 0]
                     ELSE [script EXCEPT !.pc = "import", !.cursor = page.nextCursor,
                                         !.page = Range(page.records)]
    /\ UNCHANGED <<target, Counters, SyncElsewhere>>

\* postImportSnapshot, retried as postImportStored is; nextCursor null ends the loop.
SyncImports ==
    /\ script.name = "sync" /\ script.pc = "import"
    /\ target' = ImportSnapshot(target, script.page)
    /\ \/ /\ script' = [script EXCEPT !.pc = IF script.cursor = 0 THEN "marks" ELSE "pages",
                                      !.page = {}]
          /\ UNCHANGED faults
       \/ Fault /\ (UNCHANGED script \/ Dies)
    /\ UNCHANGED <<starts, exports, refreshes, SyncElsewhere>>

\* The pages of watermarks; the cursor is now an offset.
SyncCopiesMarks ==
    /\ script.name = "sync" /\ script.pc = "marks"
    /\ LET page == ExportSeedMarks(script.cursor, PageLimit)
       IN  /\ target' = ImportedWatermarks(target, page.watermarks)
           /\ script' = [script EXCEPT !.cursor = page.nextOffset,
                            !.pc = IF page.nextOffset = 0 THEN "synced" ELSE "marks"]
    /\ UNCHANGED <<Counters, SyncElsewhere>>

SyncFinalizes ==
    /\ script.name = "sync" /\ script.pc = "synced"
    /\ target' \in FinalizedImport(target)
    /\ Dies
    /\ UNCHANGED <<Counters, SyncElsewhere>>

Sync == SyncStarts \/ SyncExports \/ SyncImports \/ SyncCopiesMarks \/ SyncFinalizes

-----------------------------------------------------------------------------
Next ==
    \/ \E d \in Days : SourceIngests(d)
    \/ Refresh \/ ScriptKilled
    \/ Push \/ Export \/ Migrate \/ Sync

Spec == Init /\ [][Next]_vars

-----------------------------------------------------------------------------
(* Properties                                                              *)

TypeOK ==
    /\ {source, dest, target} \subseteq StoreStates
    /\ script.name \in Scripts \cup {"none"}
    /\ ListedRecords(seed.manifest) \subseteq Records
    /\ seed.marks \subseteq Windows
    /\ pushFile.phase \in {"none", "infringements", "watermarks"}
    /\ pushFile # NoFile => pushFile.cursor \in Records \cup {0}
                            /\ pushFile.offset \in 0 .. Cardinality(source.marks)
    /\ migrateFile.phase \in {"none", "chunks"}
    /\ began.rows \subseteq Records /\ began.marks \subseteq Windows

\* A push that is over has copied everything: all that the source held when the
\* push was begun is at the destination, however often the push was killed and
\* resumed since, and its statistics are those of its rows. Its count need not be:
\* a batch that is sent twice is counted twice, and the recount may fail.
PushIsComplete ==
    (script.name = "push" /\ script.pc = "clear") =>
        /\ began.rows \subseteq dest.rows
        /\ began.marks \subseteq dest.marks
        /\ dest.stats = dest.rows

\* Of the windows that the source had ingested and the destination had not when the
\* push was begun, none is marked at the destination before its records are there,
\* whatever kills and resumes the push. It says nothing of a day the source ingests
\* meanwhile: its watermark goes over with the others, and those of its records that
\* have a number below the cursor stay behind.
MarksFollowRecords ==
    \A w \in dest.marks \cap began.due : OfDays(w[1] .. w[2]) \subseteq dest.rows

\* An exported seed holds what the source had when the export began, each record
\* on one line only, although the source went on ingesting between the pages.
SeedIsWhole ==
    (script.name = "export" /\ script.pc = "upload") =>
        /\ script.had \subseteq UNION {Range(script.chunks[i].lines) : i \in DOMAIN script.chunks}
        /\ \A i, j \in DOMAIN script.chunks :
              i # j => Range(script.chunks[i].lines) \cap Range(script.chunks[j].lines) = {}

\* What refreshes have put into the chunk of this name since the migration was begun
PutLate(name) == {r \in Records : <<name, r>> \in late}

\* When a migration reports that all chunks are imported, every record is in the store
\* that the chunks of the manifest it read have held since the migration was begun, or
\* since they are there: over any number of runs, partly imported chunks, uploads that
\* were not finished, and refreshes in between. What a refresh puts into a chunk that
\* was there is left out, as the chunk may have been applied before, under the same
\* name; and nothing is said once files of another export were uploaded, or a refresh
\* has listed the chunks of another one than it found.
MigrationIsComplete ==
    (script.name = "migrate" /\ script.pc = "done" /\ migrated = seed.version) =>
        \A o \in seed.objects : o.name \in Range(script.all) =>
            Range(o.lines) \ PutLate(o.name) \subseteq target.rows

\* What the script and the reader say they do: a sync copies the snapshot the
\* manifest lists when it starts.
SyncCopiesEverything ==
    (script.name = "sync" /\ script.pc = "synced") =>
        ListedRecords(script.all) \subseteq target.rows

=============================================================================
