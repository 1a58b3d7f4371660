----------------------------- MODULE Geocoding -----------------------------
(***************************************************************************)
(* How streets get onto the map: geocodeMissingLocations (geocode.ts) over *)
(* the location_cache of the ParkingStore.                                 *)
(*                                                                         *)
(* A run reads the candidates, asks Overpass for one batch of streets at a *)
(* time, and saves the geometry, or the failure, of each location by a     *)
(* call of its own.  The hourly cron, every visit of the map and the       *)
(* operator's script start runs, which know nothing of each other.         *)
(*                                                                         *)
(* A place is a group of the candidate query, a number in the order SQLite *)
(* groups them; places that differ in the town only share a cache entry.   *)
(* A road is an OpenStreetMap name.  Left out: seed mode, where nothing is *)
(* geocoded, and coordinates.                                              *)
(***************************************************************************)
EXTENDS LocationCache, Sequences, FiniteSets, SequencesExt

CONSTANTS
    StreetOf,       \* of every place
    Roads,          \* the names OpenStreetMap has
    PatternOf,      \* of every street: the name overpassNamePattern matches
    Similar,        \* the pairs of a road and a street that streetNameMatches
    Pool,           \* GEOCODE_CANDIDATE_POOL
    MapLimit,       \* the places of a map: 50 in the snapshot, 100 at most by the route
    BatchSize,      \* OVERPASS_BATCH_SIZE
    LimitOf,        \* of every run, the limit it asks for
    Rows0,          \* of every place, the infringements there are at first
    MaxRows,        \* bound: infringements
    Growing,        \* bound: the places that get more of them
    MaxTroubles     \* bound: failed answers of Overpass and runs cut off

ASSUME GeocodingAssumption ==
    /\ Places \subseteq Nat /\ Growing \subseteq Places
    /\ {Pool, MapLimit, BatchSize, RetryDays} \subseteq Nat \ {0}
    /\ \A p, q \in Places : EntryOf[p] = EntryOf[q] => StreetOf[p] = StreetOf[q]
    /\ \A p \in Places : PatternOf[StreetOf[p]] \in Roads =>
           <<PatternOf[StreetOf[p]], StreetOf[p]>> \in Similar

VARIABLES
    count,      \* infringements, by place
    runs,       \* the runs under way
    cronRan,    \* the cron has run today
    script,     \* "off", "waits" for its run, "on" between runs, "done"
    troubles    \* counted against the bound

vars == <<count, Cache, runs, cronRan, script, troubles>>

-----------------------------------------------------------------------------
RunNames == {"cron", "visitor", "script"}

\* some: the run had candidates; rest: those not yet asked about; found: the
\* roads of the batch, by street; todo: the batch's places not yet written.
Idle == [pc |-> "idle", some |-> FALSE, rest |-> <<>>, found |-> <<>>, todo |-> {}]

Init ==
    /\ count = Rows0
    /\ geometry = [e \in Entries |-> {}]
    /\ wait = [e \in Entries |-> 0]
    /\ runs = [r \in RunNames |-> Idle]
    /\ cronRan = FALSE
    /\ script = "off"
    /\ troubles = 0

Trouble == troubles < MaxTroubles /\ troubles' = troubles + 1

-----------------------------------------------------------------------------
(* The queries (locations.ts, geocode-candidates.ts)                       *)

\* count DESC; equal counts stay in the order of the groups
Before(p, q) == count[p] > count[q] \/ (count[p] = count[q] /\ p < q)

Stored == {p \in Places : count[p] > 0}

\* The first n places, or fewer.
Ranked(n) ==
    [i \in 1 .. (IF Cardinality(Stored) < n THEN Cardinality(Stored) ELSE n) |->
        CHOOSE p \in Stored : Cardinality({q \in Stored : Before(q, p)}) = i - 1]

FirstOf(seq, n) == SubSeq(seq, 1, IF Len(seq) < n THEN Len(seq) ELSE n)

\* Mutant: the limit is applied to all places, not to those that need geocoding.
CandidatesOfFirst(limit) == SelectSeq(Ranked(limit), Needs)

\* fetchGeocodeCandidates: of the first Pool places those in need, up to the limit
Candidates(limit) == FirstOf(SelectSeq(Ranked(Pool), Needs), limit)

\* countLocationsNeedingGeocode: of all places
Pending == Cardinality({p \in Stored : Needs(p)})

\* readMapPoints: the first places that have roads
Routes(limit) ==
    FirstOf(SelectSeq(Ranked(Cardinality(Places)), LAMBDA p : geometry[EntryOf[p]] # {}), limit)

-----------------------------------------------------------------------------
(* Overpass                                                                *)

StreetsOf(batch) == {StreetOf[batch[i]] : i \in DOMAIN batch}

\* The roads of the answer: those the patterns of the query match.
Answer(batch) == Roads \cap {PatternOf[s] : s \in StreetsOf(batch)}

\* A road goes to the first street of the batch that it matches.
GoesTo(road, batch) ==
    LET i == CHOOSE i \in DOMAIN batch :
                 /\ <<road, StreetOf[batch[i]]>> \in Similar
                 /\ \A j \in 1 .. i - 1 : <<road, StreetOf[batch[j]]>> \notin Similar
    IN  StreetOf[batch[i]]

\* overpassBatchRoadGeometry
Found(batch) ==
    [s \in StreetsOf(batch) |-> {road \in Answer(batch) : GoesTo(road, batch) = s}]

NothingFound(batch) == [s \in StreetsOf(batch) |-> {}]

-----------------------------------------------------------------------------
(* A run of geocodeMissingLocations                                        *)

Begins(r) ==
    /\ runs[r].pc = "idle"
    /\ \E missing \in {Candidates(LimitOf[r])} :
          runs' = [runs EXCEPT ![r] =
                      [Idle EXCEPT !.pc = IF missing = <<>> THEN "count" ELSE "ask",
                                   !.some = missing # <<>>, !.rest = missing]]

\* The cron fires every hour; one run of the day is enough here, since visitors
\* start others like it.
CronBegins ==
    /\ ~cronRan
    /\ Begins("cron")
    /\ cronRan' = TRUE
    /\ UNCHANGED <<count, Cache, script, troubles>>

\* GET /locations/map, in the background
VisitorBegins ==
    /\ Begins("visitor")
    /\ UNCHANGED <<count, Cache, cronRan, script, troubles>>

\* Overpass answers a batch; an answer other than 200, or one that cannot be
\* understood, is taken for one without roads.
Answers(r) ==
    /\ runs[r].pc = "ask"
    /\ LET batch == FirstOf(runs[r].rest, BatchSize)
       IN  \E found \in {Found(batch), NothingFound(batch)} :
              /\ runs' = [runs EXCEPT ![r].pc = "write", ![r].found = found,
                                      ![r].rest = SubSeq(@, Len(batch) + 1, Len(@)),
                                      ![r].todo = Range(batch)]
              /\ IF found = Found(batch) THEN UNCHANGED troubles ELSE Trouble
    /\ UNCHANGED <<count, Cache, cronRan, script>>

\* The calls of a batch reach the store one by one, in any order.
Writes(r) ==
    /\ runs[r].pc = "write"
    /\ \E p \in runs[r].todo :
          /\ LET roads == runs[r].found[StreetOf[p]]
             IN  IF roads # {} THEN Saved(p, roads) ELSE Failed(p)
          /\ LET run  == [runs[r] EXCEPT !.todo = @ \ {p}]
                 next == IF run.rest # <<>> THEN "ask" ELSE "count"
             IN  runs' = [runs EXCEPT ![r] =
                            IF run.todo # {} THEN run
                            ELSE [run EXCEPT !.pc = next, !.found = <<>>]]
    /\ UNCHANGED <<count, cronRan, script, troubles>>

\* Mutant: only the count of pending locations ends the script.
ScriptGoesOnAlways(r) == Pending > 0

\* runAllGeocodeBatches, without --once
ScriptGoesOn(r) == runs[r].some /\ Pending > 0

\* The pending locations are counted, and the run returns.
Returns(r) ==
    /\ runs[r].pc = "count"
    /\ runs' = [runs EXCEPT ![r] = Idle]
    /\ script' = IF r # "script" THEN script ELSE IF ScriptGoesOn(r) THEN "on" ELSE "done"
    /\ UNCHANGED <<count, Cache, cronRan, troubles>>

\* The request to Overpass throws, or the platform cuts the run off. The script
\* then gives up.
Dies(r) ==
    /\ runs[r].pc # "idle"
    /\ Trouble
    /\ runs' = [runs EXCEPT ![r] = Idle]
    /\ script' = IF r = "script" THEN "done" ELSE script
    /\ UNCHANGED <<count, Cache, cronRan>>

-----------------------------------------------------------------------------
ScriptStarts ==
    /\ script = "off"
    /\ script' = "on"
    /\ UNCHANGED <<count, Cache, runs, cronRan, troubles>>

ScriptAsks ==
    /\ script = "on"
    /\ Begins("script")
    /\ script' = "waits"
    /\ UNCHANGED <<count, Cache, cronRan, troubles>>

\* A sync or an import stores one more infringement.
Ingests(p) ==
    /\ FoldFunction(+, 0, count) < MaxRows
    /\ count' = [count EXCEPT ![p] = @ + 1]
    /\ UNCHANGED <<Cache, runs, cronRan, script, troubles>>

\* By then the cron has run, and the script takes less than a day.
DayPasses ==
    /\ cronRan /\ runs["cron"].pc = "idle"
    /\ script \in {"off", "done"}
    /\ wait' = [e \in Entries |-> IF wait[e] = 0 THEN 0 ELSE wait[e] - 1]
    /\ cronRan' = FALSE
    /\ UNCHANGED <<count, geometry, runs, script, troubles>>

-----------------------------------------------------------------------------
Next ==
    \/ CronBegins \/ VisitorBegins \/ ScriptStarts \/ ScriptAsks \/ DayPasses
    \/ \E r \in RunNames : Answers(r) \/ Writes(r) \/ Returns(r) \/ Dies(r)
    \/ \E p \in Growing : Ingests(p)

Spec == Init /\ [][Next]_vars

Steps(r) == Answers(r) \/ Writes(r) \/ Returns(r)

\* The calls of cron and script are answered, the cron fires (after an hourly sync
\* that succeeds), days pass, and the script goes on. A visitor's run may hang.
FairSpec ==
    /\ Spec
    /\ WF_vars(CronBegins \/ Steps("cron") \/ DayPasses)
    /\ WF_vars(ScriptAsks \/ Steps("script"))

-----------------------------------------------------------------------------
(* Properties                                                              *)

InPool(p) == p \in Stored /\ Cardinality({q \in Stored : Before(q, p)}) < Pool

\* A road may go to this place.
Findable(p) == \E road \in Roads : <<road, StreetOf[p]>> \in Similar

\* A place among the first Pool, whose road OpenStreetMap has, gets roads in the end:
\* through refused requests, runs cut off, and batches in which another street takes
\* its road. It is on the map if fewer than MapLimit places come before it that may
\* have roads too. Places beyond the pool are not asked about until they come into it.
GetsOnMap ==
    <>[](\A p \in Places :
            InPool(p) /\ PatternOf[StreetOf[p]] \in Roads =>
                /\ geometry[EntryOf[p]] # {}
                /\ Cardinality({q \in Stored : Before(q, p) /\ Findable(q)}) < MapLimit
                       => p \in Range(Routes(MapLimit)))

\* The script ends, also when more places wait than the query for candidates sees.
ScriptEnds == script # "off" ~> script = "done"

=============================================================================
