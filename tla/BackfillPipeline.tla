-------------------------- MODULE BackfillPipeline --------------------------
(***************************************************************************)
(* The backfill of the store mode: the operator's script                   *)
(* (scripts/backfill.ts) starts waves of windows and watches them, the     *)
(* Worker plans and sends each (src/server/sync-backfill.ts), a queue      *)
(* carries them in messages, and a consumer (src/server/backfill-queue.ts) *)
(* fetches each window from HCC and ingests it into ParkingStore, next to  *)
(* the hourly sync.                                                        *)
(*                                                                         *)
(*  1. One consumer invocation runs at a time (max_concurrency 1). It      *)
(*     works on up to QueueConcurrency messages, and on up to that many    *)
(*     windows of each, through mapWithConcurrency.                        *)
(*  2. A window of a queue message is checked, fetched page by page,       *)
(*     applied, or split into days when its last page is full.             *)
(*  3. Every call of the store, of HCC and of the queue may fail, with or  *)
(*     without its effect, and the invocation may die at any await.        *)
(*                                                                         *)
(* HCC lists the records of a window by number, PageSize on a page, and    *)
(* publishes some late. The direct delivery is not modelled.               *)
(***************************************************************************)
EXTENDS ParkingStore, FiniteSetsExt, Bags

CONSTANTS
    DayOf,              \* the day of each record
    Published0,         \* the records HCC has published at first
    ChunkDays,          \* days of a window of a wave
    PageSize,           \* Page_Size of HCC
    WindowsPerMessage,  \* tuning.queueWindowsPerMessage
    MaxEnqueuePerWave,  \* tuning.maxEnqueuePerWave
    QueueConcurrency,   \* tuning.queueConcurrency
    BatchSize,          \* max_batch_size of the queue
    MaxRetries,         \* max_retries of the queue
    HourlyOverlap,      \* HOURLY_OVERLAP_DAYS
    Forces,             \* the values of `force' the operator passes
    MaxWaves, MaxHourly, MaxFaults \* bounds of the model

ASSUME BackfillAssumption ==
    /\ DayOf \in [Records -> Days]
    /\ Published0 \subseteq Records
    /\ {ChunkDays, PageSize, WindowsPerMessage, MaxEnqueuePerWave, QueueConcurrency,
        BatchSize} \subseteq Nat \ {0}
    /\ {MaxRetries, HourlyOverlap, MaxWaves, MaxHourly, MaxFaults} \subseteq Nat
    /\ Forces \subseteq BOOLEAN

VARIABLES
    published,  \* HCC: the records that can be fetched
    store,      \* ParkingStore
    queue,      \* bag of messages [windows, force, tries]
    batch,      \* the messages of the running invocation, or << >>
    lanes,      \* the windows in progress, see LaneStates
    wave,       \* the script, and the wave the Worker is starting for it
    faults, waves, hours,   \* counted against the bounds
    shown,      \* history: what HCC showed when the watermark's fetch began
    taken,      \* history: windows that some wave has sent
    excused     \* history: windows whose failure only the log knows

vars == <<published, store, queue, batch, lanes, wave, faults, waves, hours, shown, taken, excused>>

-----------------------------------------------------------------------------
(* Windows and messages                                                    *)

\* Mutant: continueFrom skips a day.
NextStartSkips(w) == w[2] + 2

\* continueFrom
NextStart(w) == w[2] + 1

\* splitDateRange
SplitDateRange(start, end, span) ==
    [i \in 1 .. (end - start + span) \div span |->
        LET first == start + (i - 1) * span
            last  == first + span - 1
        IN  <<first, IF last > end THEN end ELSE last>>]

DailyWindows(w) == SplitDateRange(w[1], w[2], 1)

\* packBackfillQueueMessages
PackMessages(windows, force) ==
    [i \in 1 .. (Len(windows) + WindowsPerMessage - 1) \div WindowsPerMessage |->
        LET last == i * WindowsPerMessage
        IN  [windows |-> SubSeq(windows, (i - 1) * WindowsPerMessage + 1,
                                IF last < Len(windows) THEN last ELSE Len(windows)),
             force |-> force, tries |-> 0]]

BagOf(messages) ==
    [m \in Range(messages) |-> Cardinality({i \in DOMAIN messages : messages[i] = m})]

\* sendBackfillMessages: several sendBatch calls, of which some may have failed.
Sent(messages) == queue (+) BagOf(messages)

PartlySent(messages) ==
    {queue (+) SetToBag(part) : part \in SUBSET Range(messages)}

-----------------------------------------------------------------------------
(* HCC                                                                     *)

InWindow(rs, w) == {r \in rs : w[1] <= DayOf[r] /\ DayOf[r] <= w[2]}

Page(listing, k) ==
    LET last == k * PageSize
    IN  SubSeq(listing, (k - 1) * PageSize + 1,
               IF last < Len(listing) THEN last ELSE Len(listing))

PageCount(rs) == (Cardinality(rs) + PageSize - 1) \div PageSize

\* The pages after the first, fetched together: what they show is listed now,
\* how many there are was said with the first page.
LaterPages(listing, count) ==
    LET last == count * PageSize
    IN  SubSeq(listing, PageSize + 1, IF last < Len(listing) THEN last ELSE Len(listing))

\* Mutant: a full last page is taken for the end.
NeverFull(pageRecords) == FALSE

IsFullPage(pageRecords) == Len(pageRecords) >= PageSize /\ Len(pageRecords) > 0

\* The records that are late come in one lot.
HccPublishes ==
    /\ published # Records
    /\ published' = Records
    /\ UNCHANGED <<store, queue, batch, lanes, wave, faults, waves, hours, shown, taken, excused>>

-----------------------------------------------------------------------------
(* State                                                                   *)

\* One worker of the inner mapWithConcurrency: the windows it has left, the
\* first of them in progress. pc names the await it is at; "report" is the
\* failure recorded in the try of processBackfillMessage, "rescue" that of its
\* catch. first is what HCC had in the window when the fetch began, got what
\* was fetched.
LaneStages == {"check", "page1", "rest", "split", "apply", "report", "rescue"}

Messages ==
    [windows : {ws \in Seq(Windows) : Len(ws) \in 1 .. WindowsPerMessage},
     force : BOOLEAN, tries : 0 .. MaxRetries]

Entries == [message : Messages, state : {"waiting", "running", "acked", "retried"}]

Lanes ==
    [message : DOMAIN batch, pc : LaneStages, todo : Seq(Windows) \ {<<>>},
     first : SUBSET Records, got : Seq(Records)]

WaveStates ==
    [pc : {"idle", "post", "sending", "baseline", "drain", "track"}, from : Days,
     next : 0 .. LastDay, force : BOOLEAN, plan : Seq(Windows), any : BOOLEAN, base : Nat,
     alone : BOOLEAN]

TypeOK ==
    /\ published \subseteq Records
    /\ store \in StoreStates
    /\ DOMAIN queue \subseteq Messages /\ queue \in [DOMAIN queue -> Nat \ {0}]
    /\ batch \in Seq(Entries) /\ Len(batch) <= BatchSize
    /\ lanes \subseteq Lanes
    /\ wave \in WaveStates /\ (wave.next = 0 => wave.pc = "sending")
    /\ shown \in [Windows -> SUBSET Records]
    /\ taken \subseteq Windows /\ excused \subseteq Windows
    /\ faults \in 0 .. MaxFaults /\ waves \in 0 .. MaxWaves /\ hours \in 0 .. MaxHourly

\* The script. from, next: `from' and continueFrom (0 for null) of the wave; plan: its
\* windows; any: the pass has sent some; base: what was completed when the wait for the
\* wave began. History: alone, that all that was sent before the wave is ingested.
NoWave == [pc |-> "idle", from |-> 1, next |-> 1, force |-> FALSE, plan |-> <<>>, any |-> FALSE,
           base |-> 0, alone |-> TRUE]

Init ==
    /\ published = Published0
    /\ store = EmptyStore
    /\ queue = EmptyBag
    /\ batch = <<>>
    /\ lanes = {}
    /\ wave = NoWave
    /\ faults = 0 /\ waves = 0 /\ hours = 0
    /\ shown = [w \in Windows |-> {}]
    /\ taken = {} /\ excused = {}

Fault == faults < MaxFaults /\ faults' = faults + 1

NoFault == UNCHANGED faults

-----------------------------------------------------------------------------
(* The script: queueBackfillWaves and trackBackfill                        *)

\* The Worker's answer to /sync/backfill/progress from a day on
Completed(from) == CountIngestWatermarksInRange(store, from, LastDay, ChunkDays)

Expected(from) == Len(SplitDateRange(from, LastDay, ChunkDays))

ScriptOnly == UNCHANGED <<published, store, queue, batch, lanes, waves, hours, shown, taken, excused>>

\* The progress is read before the wait, after the wave was sent.
ReadBaseline ==
    /\ wave.pc = "baseline"
    /\ wave' = [wave EXCEPT !.pc = "drain", !.base = Completed(1)]
    /\ NoFault /\ ScriptOnly

\* As many windows were completed as the wave has.
WaveDrained ==
    /\ wave.pc = "drain"
    /\ Completed(1) - wave.base >= Len(wave.plan)
    /\ wave' = [wave EXCEPT !.pc = "post", !.plan = <<>>, !.base = 0, !.alone = TRUE]
    /\ NoFault /\ ScriptOnly

\* WAVE_DRAIN_TIMEOUT_MS: the next wave is posted anyway.
WaveTimesOut ==
    /\ wave.pc = "drain"
    /\ Completed(1) - wave.base < Len(wave.plan)
    /\ wave' = [wave EXCEPT !.pc = "post", !.plan = <<>>, !.base = 0, !.alone = TRUE]
    /\ NoFault /\ ScriptOnly

\* trackBackfill, of what the last wave covers
TrackerCompletes ==
    /\ wave.pc = "track"
    /\ Completed(wave.from) >= Expected(wave.from)
    /\ wave' = NoWave
    /\ NoFault /\ ScriptOnly

\* No progress for a minute
TrackerPauses ==
    /\ wave.pc = "track"
    /\ Completed(wave.from) < Expected(wave.from)
    /\ wave' = NoWave
    /\ NoFault /\ ScriptOnly

\* The progress cannot be read: the script ends.
ScriptFails ==
    /\ wave.pc \in {"baseline", "drain", "track"}
    /\ wave' = NoWave
    /\ Fault /\ ScriptOnly

-----------------------------------------------------------------------------
(* startBackfill                                                           *)

\* The operator starts the script, or the script posts its next wave: the call asks the
\* store which chunks are pending and plans the wave.
PlanWave ==
    /\ wave.pc \in {"idle", "post"}
    /\ waves < MaxWaves
    /\ waves' = waves + 1
    /\ \E force \in IF wave.pc = "idle" THEN Forces ELSE {wave.force} :
          LET chunks  == SplitDateRange(wave.next, LastDay, ChunkDays)
              pending == IF force THEN chunks ELSE FilterPendingChunks(store, chunks)
              planned == SubSeq(pending, 1,
                                IF Len(pending) < MaxEnqueuePerWave
                                THEN Len(pending) ELSE MaxEnqueuePerWave)
          IN  wave' = [pc |-> "sending", force |-> force, plan |-> planned, from |-> wave.next,
                       any |-> wave.any \/ planned # <<>>, base |-> 0,
                       alone |-> taken \subseteq store.marks,
                       next |-> IF Len(pending) > Len(planned)
                                THEN NextStart(Last(planned)) ELSE 0]
    /\ UNCHANGED <<published, store, queue, batch, lanes, faults, hours, shown, taken, excused>>

\* The messages are sent. When nothing remains the script tracks what it sent, if it
\* sent anything.
SendWave ==
    /\ wave.pc = "sending"
    /\ NoFault
    /\ queue' = Sent(PackMessages(wave.plan, wave.force))
    /\ taken' = taken \cup Range(wave.plan)
    /\ wave' = CASE wave.next # 0 -> [wave EXCEPT !.pc = "baseline"]
                 [] wave.next = 0 /\ wave.any -> [NoWave EXCEPT !.pc = "track", !.from = wave.from]
                 [] OTHER -> NoWave
    /\ UNCHANGED <<published, store, batch, lanes, waves, hours,
                   shown, excused>>

\* A sendBatch fails: the script ends, and the operator starts the pass again.
SendWaveFails ==
    /\ wave.pc = "sending"
    /\ Fault
    /\ queue' \in PartlySent(PackMessages(wave.plan, wave.force))
    /\ wave' = NoWave
    /\ UNCHANGED <<published, store, batch, lanes, waves, hours,
                   shown, taken, excused>>

-----------------------------------------------------------------------------
(* mapWithConcurrency                                                      *)

\* How many workers a list of n items gets.
Workers(n) == IF QueueConcurrency < n THEN QueueConcurrency ELSE n

FirstStage(force) == IF force THEN "page1" ELSE "check"

\* Worker k takes the windows k, k + limit, and so on.
LanesOf(i, message) ==
    LET n == Len(message.windows)
    IN  {[message |-> i, pc |-> FirstStage(message.force), first |-> {}, got |-> <<>>,
          todo |-> [j \in 1 .. (n - k) \div Workers(n) + 1 |->
                       message.windows[k + (j - 1) * Workers(n)]]] :
            k \in 1 .. Workers(n)}

\* Message i is settled and its worker goes on with the next one.
Settled(i, how) ==
    LET next == i + Workers(Len(batch))
    IN  [j \in DOMAIN batch |->
            CASE j = i -> [batch[j] EXCEPT !.state = how]
              [] j = next -> [batch[j] EXCEPT !.state = "running"]
              [] OTHER -> batch[j]]

NextLanes(i) ==
    LET next == i + Workers(Len(batch))
    IN  IF next \in DOMAIN batch THEN LanesOf(next, batch[next].message) ELSE {}

-----------------------------------------------------------------------------
(* The queue and the consumer                                              *)

\* The messages of a batch, in any order the queue likes.
Batches ==
    {b \in UNION {[1 .. n -> DOMAIN queue] : n \in 1 .. BatchSize} :
        \A m \in Range(b) : Cardinality({i \in DOMAIN b : b[i] = m}) <= queue[m]}

Deliver ==
    /\ batch = <<>>
    /\ \E b \in Batches :
          /\ queue' = queue (-) BagOf(b)
          /\ batch' = [i \in DOMAIN b |->
                          [message |-> b[i],
                           state |-> IF i <= Workers(Len(b)) THEN "running" ELSE "waiting"]]
          /\ lanes' = UNION {LanesOf(i, b[i]) : i \in 1 .. Workers(Len(b))}
    /\ UNCHANGED <<published, store, wave, faults, waves, hours,
                   shown, taken, excused>>

\* A retried message goes back to the queue; after MaxRetries it is dropped.
Again(m) == [m EXCEPT !.tries = @ + 1]

RetriedMessages == {i \in DOMAIN batch : batch[i].state = "retried"}

Requeued(is) ==
    queue (+) BagOf([i \in {i \in is : batch[i].message.tries < MaxRetries} |->
                        Again(batch[i].message)])

Dropped(is) ==
    UNION {Range(batch[i].message.windows) :
              i \in {j \in is : batch[j].message.tries >= MaxRetries}}

\* Every message is settled: the statistics are flushed, unless that call fails
\* too, and the invocation ends. Workers a rejection left behind are dropped.
EndBatch ==
    /\ batch # <<>>
    /\ \A i \in DOMAIN batch : batch[i].state \in {"acked", "retried"}
    /\ \/ NoFault /\ store' = Flushed(store)
       \/ Fault /\ store' \in {store, Flushed(store)}
    /\ queue' = Requeued(RetriedMessages)
    /\ excused' = excused \cup Dropped(RetriedMessages)
    /\ batch' = <<>>
    /\ lanes' = {}
    /\ UNCHANGED <<published, wave, waves, hours, shown, taken>>

\* The platform ends the invocation: what was not acknowledged, and perhaps
\* what was, is delivered again.
InvocationDies ==
    /\ batch # <<>>
    /\ Fault
    /\ \E kept \in SUBSET {i \in DOMAIN batch : batch[i].state = "acked"} :
          LET again == DOMAIN batch \ kept
          IN  /\ queue' = Requeued(again)
              /\ excused' = excused \cup Dropped(again)
    /\ batch' = <<>>
    /\ lanes' = {}
    /\ UNCHANGED <<published, store, wave, waves, hours, shown, taken>>

-----------------------------------------------------------------------------
(* processBackfillMessage, for the window a worker is at                   *)

Window(l) == Head(l.todo)

Others(l) == {x \in lanes \ {l} : x.message = l.message}

\* The worker goes on to its next await within the same window.
Moved(l, stage, first, got) ==
    lanes' = (lanes \ {l}) \cup {[l EXCEPT !.pc = stage, !.first = first, !.got = got]}

GoTo(l, stage) == Moved(l, stage, {}, <<>>) /\ UNCHANGED <<batch, excused>>

\* The window is over: the worker takes its next one; the last worker of a
\* message acknowledges it, unless another has settled it before.
Finish(l) ==
    /\ UNCHANGED excused
    /\ IF Len(l.todo) > 1
       THEN /\ lanes' = (lanes \ {l}) \cup
                  {[l EXCEPT !.todo = Tail(@), !.first = {}, !.got = <<>>,
                             !.pc = FirstStage(batch[l.message].message.force)]}
            /\ UNCHANGED batch
       ELSE IF Others(l) = {} /\ batch[l.message].state = "running"
       THEN /\ lanes' = (lanes \ {l}) \cup NextLanes(l.message)
            /\ batch' = Settled(l.message, "acked")
       ELSE /\ lanes' = lanes \ {l}
            /\ UNCHANGED batch

\* An error leaves processBackfillMessage: the first one settles the message,
\* by its wording, while the other workers of the message go on.
Escape(l) ==
    IF batch[l.message].state # "running"
    THEN lanes' = lanes \ {l} /\ UNCHANGED <<batch, excused>>
    ELSE /\ lanes' = (lanes \ {l}) \cup NextLanes(l.message)
         /\ \/ batch' = Settled(l.message, "retried") /\ UNCHANGED excused
            \/ /\ batch' = Settled(l.message, "acked")
               /\ excused' = excused \cup
                     UNION {Range(x.todo) : x \in Others(l) \cup {l}}

\* isWindowIngested, unless the message forces the window
Check(l) ==
    /\ l.pc = "check"
    /\ \/ NoFault /\ IsWindowIngested(store, Window(l)) /\ Finish(l)
       \/ NoFault /\ ~IsWindowIngested(store, Window(l)) /\ GoTo(l, "page1")
       \/ Fault /\ GoTo(l, "rescue")
    /\ UNCHANGED <<store, queue, shown>>

\* Mutant: a truncated day is split like any other window.
AfterFetchSplits(w, lastPage) == IF IsFullPage(lastPage) THEN "split" ELSE "apply"

\* possiblyTruncated and isSingleDay
AfterFetch(w, lastPage) ==
    CASE ~IsFullPage(lastPage) -> "apply"
      [] IsFullPage(lastPage) /\ w[1] # w[2] -> "split"
      [] OTHER -> "report"

\* What was fetched is kept only where it will be applied.
Fetched(l, stage, first, got) ==
    IF stage = "apply" THEN Moved(l, stage, first, got) ELSE Moved(l, stage, {}, <<>>)

\* (A quantifier over one value names it, for both of its uses.)
FetchFirst(l) ==
    /\ l.pc = "page1"
    /\ \/ /\ NoFault
          /\ \E first \in {InWindow(published, Window(l))} :
             \E page \in {Page(InOrder(first), 1)} :
                 IF PageCount(first) <= 1
                 THEN Fetched(l, AfterFetch(Window(l), page), first, page)
                 ELSE Moved(l, "rest", first, page)
          /\ UNCHANGED <<batch, excused>>
       \/ Fault /\ GoTo(l, "report")
    /\ UNCHANGED <<store, queue, shown>>

FetchRest(l) ==
    /\ l.pc = "rest"
    /\ \/ /\ NoFault
          /\ \E listing \in {InOrder(InWindow(published, Window(l)))} :
             LET count == PageCount(l.first)
             IN  Fetched(l, AfterFetch(Window(l), Page(listing, count)), l.first,
                         l.got \o LaterPages(listing, count))
          /\ UNCHANGED <<batch, excused>>
       \/ Fault /\ GoTo(l, "report")
    /\ UNCHANGED <<store, queue, shown>>

\* Mutant: the last day of the window is left out.
DaysToEnqueueShort(w) == SplitDateRange(w[1], w[2] - 1, 1)

DaysToEnqueue(w) == DailyWindows(w)

\* enqueueDailyWindows: the window itself gets no watermark.
SplitWindow(l) ==
    LET messages == PackMessages(DaysToEnqueue(Window(l)), batch[l.message].message.force)
    IN  /\ l.pc = "split"
        /\ \/ NoFault /\ queue' = Sent(messages) /\ Finish(l)
           \/ Fault /\ queue' \in PartlySent(messages) /\ GoTo(l, "rescue")
        /\ UNCHANGED <<store, shown>>

\* syncWindow with the fetched records: one call of the store, which may fail
\* before, halfway, or after it has done everything.
ApplyWindow(l) ==
    LET w       == Window(l)
        applied == AppliedWindow(store, w, l.got, "backfill")
    IN  /\ l.pc = "apply"
        /\ \/ NoFault /\ store' = applied /\ Finish(l)
           \/ /\ Fault
              /\ store' \in {store, applied} \cup TornWindow(store, w, l.got, "backfill")
              /\ GoTo(l, "rescue")
        /\ shown' = IF w \in store'.marks /\ (faults' = faults \/ w \notin store.marks)
                    THEN [shown EXCEPT ![w] = @ \cup l.first] ELSE shown
        /\ UNCHANGED queue

\* recordFailure within the try: when it throws, the catch records again.
Report(l) ==
    /\ l.pc = "report"
    /\ \/ NoFault /\ store' = FailureRecorded(store, Window(l)) /\ Finish(l)
       \/ Fault /\ store' \in {store, FailureRecorded(store, Window(l))} /\ GoTo(l, "rescue")
    /\ UNCHANGED <<queue, shown>>

\* recordFailure within the catch, which what failed before may fail as well.
Rescued(w) == FailureRecorded(store, w)

Rescue(l) ==
    /\ l.pc = "rescue"
    /\ NoFault
    /\ \/ store' = Rescued(Window(l)) /\ Finish(l)
       \/ store' \in {store, Rescued(Window(l))} /\ Escape(l)
    /\ UNCHANGED <<queue, shown>>

LaneSteps ==
    /\ \E l \in lanes :
          \/ Check(l) \/ FetchFirst(l) \/ FetchRest(l) \/ SplitWindow(l)
          \/ ApplyWindow(l) \/ Report(l) \/ Rescue(l)
    /\ UNCHANGED <<published, wave, waves, hours, taken>>

-----------------------------------------------------------------------------
(* hourlySync: a forced window that overlaps what was ingested before      *)

HourlyWindow ==
    <<IF LastDay - HourlyOverlap < 1 THEN 1 ELSE LastDay - HourlyOverlap, LastDay>>

\* The pages are read some time before they are applied, so HCC may have shown
\* less than it has now. The run does not look at possiblyTruncated, applies what
\* it got, and recomputes the statistics. When HCC fails nothing is recorded.
HourlySync ==
    /\ hours < MaxHourly
    /\ hours' = hours + 1
    /\ \E seen \in {Published0, published} :
          LET got     == InOrder(InWindow(seen, HourlyWindow))
              applied == AppliedWindow(store, HourlyWindow, got, "hourly")
          IN  \/ NoFault /\ store' = applied
              \/ Fault /\ store' \in {store, applied} \cup
                                     TornWindow(store, HourlyWindow, got, "hourly")
    /\ UNCHANGED <<published, queue, batch, lanes, wave, waves, shown, taken, excused>>

-----------------------------------------------------------------------------
Next ==
    \/ HccPublishes
    \/ PlanWave \/ SendWave \/ SendWaveFails
    \/ ReadBaseline \/ WaveDrained \/ WaveTimesOut
    \/ TrackerCompletes \/ TrackerPauses \/ ScriptFails
    \/ Deliver \/ LaneSteps \/ EndBatch \/ InvocationDies
    \/ HourlySync

Spec == Init /\ [][Next]_vars

\* The queue delivers what it holds, a call of HCC, of the store or of the queue
\* settles, and a handler that has settled its messages ends.
Consumer == SendWave \/ Deliver \/ LaneSteps \/ EndBatch

FairSpec == Spec /\ WF_vars(Consumer)

-----------------------------------------------------------------------------
(* Properties                                                              *)

\* A watermark is only written for a window whose records are all stored: every
\* record that HCC had in the window when its fetch began, whatever HCC
\* published while the pages were read and whichever call failed halfway.
WatermarkIsComplete ==
    \A w \in store.marks \ {HourlyWindow} : shown[w] \subseteq store.rows

Carried(w) ==
    \/ \E m \in DOMAIN queue : w \in Range(m.windows)
    \/ \E i \in DOMAIN batch :
          batch[i].state # "acked" /\ w \in Range(batch[i].message.windows)

Closed(w) == w \in store.marks \cup store.errors \cup excused \/ Carried(w)

\* No window disappears: one that a wave has sent is ingested, has an error run,
\* is still carried by a message, was reported in the log with a message that
\* was given up, or was split into days that all are.
NothingForgotten ==
    \A w \in taken : Closed(w) \/ (w[1] # w[2] /\ \A d \in w[1] .. w[2] : Closed(<<d, d>>))

\* Rows that the statistics do not reflect are never forgotten: the flag for the
\* next flush is set, or the row came with a call that failed halfway and left
\* an error run for its window.
LagIsMarked ==
    \A r \in store.rows \ store.stats :
        store.dirty \/ \E w \in store.errors : w[1] <= DayOf[r] /\ DayOf[r] <= w[2]

\* When a wave reports that nothing is left, its pass has sent every window of
\* the range, or found it ingested.
PassCoversRange ==
    [][(wave.pc = "sending" /\ wave.next = 0 /\ faults' = faults /\ wave'.pc # "sending") =>
          \A i \in DOMAIN SplitDateRange(1, LastDay, ChunkDays) :
              SplitDateRange(1, LastDay, ChunkDays)[i] \in taken' \cup store.marks]_vars

\* What the script takes for progress is: it goes on without a timeout when the windows of
\* its wave are ingested, and reports completion when all that it tracks are. Only
\* counts are compared, so the windows of an earlier wave that was still under way, or
\* that of an hourly sync, may be taken for its own.
ProgressIsOwn ==
    [][hours = 0 =>
        /\ WaveDrained /\ wave.alone => Range(wave.plan) \subseteq store.marks
        /\ TrackerCompletes =>
              Range(SplitDateRange(wave.from, LastDay, ChunkDays)) \subseteq store.marks]_vars

\* The pipeline comes to rest: splitting, retries and redelivery end, so the
\* queue is empty again some time after the last wave.
QueueDrains == <>[](batch = <<>> /\ queue = EmptyBag)

=============================================================================
