----------------------- MODULE SeedRefreshCoordinator -----------------------
(***************************************************************************)
(* The SeedRefreshCoordinator Durable Object: one row of SQLite state, one *)
(* alarm, and the handlers that interleave at their awaits.                *)
(*                                                                         *)
(*  1. SQLite and the alarm are durable.  A handler runs atomically from   *)
(*     one external await (R2, HCC) to the next: awaits of getAlarm and    *)
(*     setAlarm hold the object's input gate, so they do not interleave.   *)
(*  2. Any number of startRefresh calls, and at most one alarm handler,    *)
(*     wait at an external await at any time.  What they captured before   *)
(*     the await is kept in `calls' and `handler'.                         *)
(*  3. getAlarm answers null while an alarm handler runs, unless the       *)
(*     alarm was set again meanwhile: firing clears `alarm'.               *)
(*  4. An eviction, deployment or crash loses `calls' and `handler'.  An   *)
(*     interrupted alarm is delivered again.  The constructor runs before  *)
(*     the next event.                                                     *)
(*                                                                         *)
(* Time is abstracted: a set alarm may fire at any moment, so the lengths  *)
(* of NEXT_ALARM_DELAY_MS and of the backoff are not modelled.             *)
(***************************************************************************)
EXTENDS Naturals

CONSTANTS
    Calls,          \* startRefresh calls that may be in flight together
    NumWindows,     \* windows of a plan (58 in production)
    MaxRuns,        \* bound: refresh jobs started
    IdOf,           \* IdOf[n]: what workflowInstanceId names the n-th job
    Failures,       \* causes of failure the environment may produce
    MaxAttempts,    \* bound: retryable failures in a row
    MaxEvictions    \* bound: evictions and crashes

ASSUME ConstantsAssumption ==
    /\ NumWindows \in Nat \ {0}
    /\ MaxRuns \in Nat
    /\ MaxAttempts \in Nat
    /\ MaxEvictions \in Nat
    /\ Failures \subseteq
           {"http_5xx", "http_4xx", "transport", "r2", "row_too_big"}

VARIABLES
    status,     \* refresh_state.status, "idle" when there is no row
    nextIndex,  \* refresh_state.next_index
    attempts,   \* refresh_state.attempts
    lastError,  \* refresh_state.last_error: the cause, or "none"
    plan,       \* refresh_state.plan_json: the job it was computed for, or 0
    summaries,  \* refresh_summaries: the job that wrote a window's row, or 0
    alarm,      \* whether an alarm is set
    calls,      \* startRefresh calls at their await
    handler,    \* the alarm handler at its await
    up,         \* whether the object is instantiated
    published,  \* R2: the job whose summary each published window came from
    runs,       \* history: jobs started; the row belongs to the last one
    evictions   \* history: evictions so far

stateRow == <<status, nextIndex, attempts, lastError, plan>>
history  == <<runs, evictions>>
vars == <<stateRow, summaries, alarm, calls, handler, up, published, history>>

Windows == 0 .. NumWindows - 1

NoSummaries == [w \in Windows |-> 0]
NoCall      == [pc |-> "idle", run |-> 0, owner |-> FALSE]
NoHandler   == [pc |-> "idle", run |-> 0, index |-> 0, view |-> NoSummaries]

ActiveStatus == {"planning", "running"}
Active       == status \in ActiveStatus

Causes == {"http_5xx", "http_4xx", "transport", "r2", "row_too_big"}

\* What can make the promise a handler awaits reject.
CausesAt(pc) ==
    CASE pc = "planning" -> {"row_too_big"}
      [] pc = "slice"    -> {"http_5xx", "http_4xx", "transport", "r2"}
      [] pc = "finalize" -> {"http_5xx", "r2"}

RowStates == [Windows -> 0 .. MaxRuns]

CallState == [pc : {"idle", "planning"}, run : 0 .. MaxRuns, owner : BOOLEAN]

HandlerState == [pc : {"idle", "planning", "slice", "finalize", "finalized",
                       "broadcast"},
                 run : 0 .. MaxRuns,
                 index : 0 .. NumWindows,
                 view : RowStates]

TypeOK ==
    /\ status \in {"idle", "planning", "running", "complete", "errored"}
    /\ nextIndex \in 0 .. NumWindows
    /\ attempts \in 0 .. MaxAttempts + 1
    /\ lastError \in Causes \cup {"none"}
    /\ plan \in 0 .. MaxRuns
    /\ summaries \in RowStates
    /\ alarm \in BOOLEAN
    /\ calls \in [Calls -> CallState]
    /\ handler \in HandlerState
    /\ up \in BOOLEAN
    /\ published \in RowStates
    /\ runs \in 0 .. MaxRuns
    /\ evictions \in 0 .. MaxEvictions

Init ==
    /\ status = "idle"
    /\ nextIndex = 0
    /\ attempts = 0
    /\ lastError = "none"
    /\ plan = 0
    /\ summaries = NoSummaries
    /\ alarm = FALSE
    /\ calls = [c \in Calls |-> NoCall]
    /\ handler = NoHandler
    /\ up = TRUE
    /\ published = NoSummaries
    /\ runs = 0
    /\ evictions = 0

-----------------------------------------------------------------------------
(* Helpers shared by the handlers.                                         *)

\* "HCC transport failed" and R2 binding errors match none of the patterns.
IsRetryable(cause) == cause \in {"http_5xx"}

\* Mutant: nothing is repaired.
RepairNothing == UNCHANGED alarm

RepairAlarm == alarm' = (alarm \/ Active)

\* setAlarm(now + NEXT_ALARM_DELAY_MS)
ScheduleNext == alarm' = TRUE

\* Mutant: the job's id is missing from the WHERE.
InPlanning(r) == status = "planning"

\* WHERE id = 1 AND status = 'planning' AND job_id = ?
PlanningJob(r) == status = "planning" /\ IdOf[runs] = IdOf[r]

\* The UPDATE of finishPlanning, for a planner that captured job r; the
\* setAlarm after it is unconditional.
CommitPlan(r) ==
    /\ IF PlanningJob(r)
       THEN /\ status' = "running"
            /\ plan' = r
            /\ attempts' = 0
            /\ lastError' = "none"
       ELSE UNCHANGED <<status, plan, attempts, lastError>>
    /\ ScheduleNext
    /\ UNCHANGED <<nextIndex, summaries, published, history>>

-----------------------------------------------------------------------------
(* startRefresh, from cron or POST /api/v1/seed/refresh.                   *)

StartJoinsRunning(c) ==
    /\ up
    /\ calls[c].pc = "idle"
    /\ status = "running"
    /\ RepairAlarm
    /\ UNCHANGED <<stateRow, summaries, calls, handler, up, published,
                   history>>

\* A second planner for the same job.  Its finishPlanning is outside the try.
StartJoinsPlanning(c) ==
    /\ up
    /\ calls[c].pc = "idle"
    /\ status = "planning"
    /\ RepairAlarm
    /\ calls' = [calls EXCEPT ![c] =
                    [pc |-> "planning", run |-> runs, owner |-> FALSE]]
    /\ UNCHANGED <<stateRow, summaries, handler, up, published, history>>

\* Mutant: a running job is not returned but replaced.
MayStartOverRunning == status # "planning"

MayStart == ~Active

\* Mutant: the summaries of the last job are kept.
KeepSummaries == UNCHANGED summaries

DeleteSummaries == summaries' = NoSummaries

\* Mutant: next_index is missing from the DO UPDATE.
KeepProgress == UNCHANGED nextIndex

ResetProgress == nextIndex' = 0

\* No alarm is set until planning succeeds.
StartNewJob(c) ==
    /\ up
    /\ calls[c].pc = "idle"
    /\ MayStart
    /\ runs < MaxRuns
    /\ runs' = runs + 1
    /\ DeleteSummaries
    /\ status' = "planning"
    /\ plan' = 0
    /\ ResetProgress
    /\ attempts' = 0
    /\ lastError' = "none"
    /\ calls' = [calls EXCEPT ![c] =
                    [pc |-> "planning", run |-> runs + 1, owner |-> TRUE]]
    /\ UNCHANGED <<alarm, handler, up, published, evictions>>

CallPlans(c) ==
    /\ calls[c].pc = "planning"
    /\ CommitPlan(calls[c].run)
    /\ calls' = [calls EXCEPT ![c] = NoCall]
    /\ UNCHANGED <<handler, up>>

CatchPlanning(cause) ==
    /\ status' = "errored"
    /\ lastError' = cause

\* Only the call that created the job catches the error, and then marks the
\* row errored whatever it holds by now.
CallFails(c) ==
    /\ calls[c].pc = "planning"
    /\ \E cause \in CausesAt("planning") \cap Failures :
           IF calls[c].owner
           THEN CatchPlanning(cause)
           ELSE UNCHANGED <<status, lastError>>
    /\ calls' = [calls EXCEPT ![c] = NoCall]
    /\ UNCHANGED <<nextIndex, attempts, plan, summaries, alarm, handler, up,
                   published, history>>

-----------------------------------------------------------------------------
(* getStatus and heartbeat.                                                *)

GetStatus ==
    /\ up
    /\ RepairAlarm
    /\ UNCHANGED <<stateRow, summaries, calls, handler, up, published,
                   history>>

-----------------------------------------------------------------------------
(* The alarm handler.                                                      *)

AlarmFires ==
    /\ up
    /\ alarm
    /\ handler.pc = "idle"
    /\ alarm' = FALSE
    /\ UNCHANGED <<stateRow, summaries, calls, up, published, history>>

AlarmPlans ==
    /\ AlarmFires
    /\ status = "planning"
    /\ handler' = [NoHandler EXCEPT !.pc = "planning", !.run = runs]

\* Mutant: one window too few.
WindowsButLast  == nextIndex < NumWindows - 1

\* plan.windows[next_index] is defined.
WindowsLeft == nextIndex < NumWindows

\* processNextSlice fetches the next window.
AlarmStartsSlice ==
    /\ AlarmFires
    /\ status = "running"
    /\ plan # 0
    /\ WindowsLeft
    /\ handler' = [NoHandler EXCEPT !.pc = "slice",
                                    !.run = runs,
                                    !.index = nextIndex]

\* processNextSlice after the last window: complete reads the summaries
\* before its first await.
AlarmStartsFinalize ==
    /\ AlarmFires
    /\ status = "running"
    /\ plan # 0
    /\ ~WindowsLeft
    /\ handler' = [NoHandler EXCEPT !.pc = "finalize",
                                    !.run = runs,
                                    !.index = nextIndex,
                                    !.view = summaries]

\* A leftover alarm finds no active job, or a running row without a plan.
AlarmFindsNothing ==
    /\ AlarmFires
    /\ status # "planning"
    /\ ~(status = "running" /\ plan # 0)
    /\ UNCHANGED handler

HandlerPlans ==
    /\ handler.pc = "planning"
    /\ CommitPlan(handler.run)
    /\ handler' = NoHandler
    /\ UNCHANGED <<calls, up>>

UpsertSummary ==
    summaries' = [summaries EXCEPT ![handler.index] = handler.run]

\* The chunk is in R2; the summary and next_index are written together.
\* Neither statement looks at the job the row belongs to by now.
SliceCommits ==
    /\ handler.pc = "slice"
    /\ UpsertSummary
    /\ nextIndex' = handler.index + 1
    /\ attempts' = 0
    /\ lastError' = "none"
    /\ ScheduleNext
    /\ handler' = NoHandler
    /\ UNCHANGED <<status, plan, calls, up, published, history>>

\* finalizeLiveSeedRefresh has written its objects.
FinalizeWrites ==
    /\ handler.pc = "finalize"
    /\ published' = handler.view
    /\ handler' = [handler EXCEPT !.pc = "finalized"]
    /\ UNCHANGED <<stateRow, summaries, alarm, calls, up, history>>

MarkComplete ==
    /\ handler.pc = "finalized"
    /\ status' = "complete"
    /\ attempts' = 0
    /\ lastError' = "none"
    /\ handler' = [handler EXCEPT !.pc = "broadcast"]
    /\ UNCHANGED <<nextIndex, plan, summaries, alarm, calls, up, published,
                   history>>

\* A failed broadcast is logged and swallowed.
BroadcastEnds ==
    /\ handler.pc = "broadcast"
    /\ handler' = NoHandler
    /\ UNCHANGED <<stateRow, summaries, alarm, calls, up, published, history>>

\* setAlarm(now + min(30 s * 2^(attempts - 1), 6 h))
RetryLater == alarm' = TRUE

\* Mutant: a transient failure ends the job like any other.
FailAlways(cause) ==
    /\ lastError' = cause
    /\ attempts' = attempts + 1
    /\ attempts <= MaxAttempts
    /\ status' = "errored"
    /\ UNCHANGED alarm

\* recordFailure: it reads the row again, after the await that rejected.
RecordFailure(cause) ==
    /\ lastError' = cause
    /\ attempts' = attempts + 1
    /\ IF IsRetryable(cause)
       THEN /\ attempts < MaxAttempts
            /\ RetryLater
            /\ UNCHANGED status
       ELSE /\ attempts <= MaxAttempts
            /\ status' = "errored"
            /\ UNCHANGED alarm

HandlerFails ==
    /\ handler.pc \in {"planning", "slice", "finalize"}
    /\ \E cause \in CausesAt(handler.pc) \cap Failures : RecordFailure(cause)
    /\ handler' = NoHandler
    /\ UNCHANGED <<nextIndex, plan, summaries, calls, up, published, history>>

-----------------------------------------------------------------------------
(* Eviction, deployment or crash, and the constructor.                     *)

Evict ==
    /\ up
    /\ evictions < MaxEvictions
    /\ up' = FALSE
    /\ evictions' = evictions + 1
    /\ calls' = [c \in Calls |-> NoCall]
    /\ handler' = NoHandler
    /\ alarm' = (alarm \/ handler.pc # "idle")
    /\ UNCHANGED <<stateRow, summaries, published, runs>>

Construct ==
    /\ ~up
    /\ up' = TRUE
    /\ RepairAlarm
    /\ UNCHANGED <<stateRow, summaries, calls, handler, published, history>>

-----------------------------------------------------------------------------

HandlerReturns ==
    \/ HandlerPlans
    \/ SliceCommits
    \/ FinalizeWrites
    \/ MarkComplete
    \/ BroadcastEnds
    \/ HandlerFails

\* The await of startRefresh settles, either way.
CallReturns(c) ==
    /\ calls[c].pc = "planning"
    /\ CallPlans(c) \/ CallFails(c)

AlarmRuns ==
    \/ AlarmPlans
    \/ AlarmStartsSlice
    \/ AlarmStartsFinalize
    \/ AlarmFindsNothing

Next ==
    \/ \E c \in Calls : \/ StartJoinsRunning(c)
                        \/ StartJoinsPlanning(c)
                        \/ StartNewJob(c)
                        \/ CallReturns(c)
    \/ GetStatus
    \/ AlarmRuns
    \/ HandlerReturns
    \/ Evict
    \/ Construct

Spec == Init /\ [][Next]_vars

(***************************************************************************)
(* Fairness the platform gives: a set alarm is delivered and instantiates  *)
(* the object, and an awaited request settles.  Fairness the site gives:   *)
(* an object evicted before planning has set an alarm is instantiated by a *)
(* later request, a visitor's socket or a poll of the status.  Nobody is   *)
(* obliged to call startRefresh or getStatus.                              *)
(***************************************************************************)
Fairness ==
    /\ WF_vars(AlarmRuns)
    /\ WF_vars(HandlerReturns)
    /\ \A c \in Calls : WF_vars(CallReturns(c))
    /\ WF_vars(Construct)

FairSpec == Spec /\ Fairness

-----------------------------------------------------------------------------
(* Properties.                                                             *)

(***************************************************************************)
(* An active job of a loaded object never depends on luck: the alarm is    *)
(* set, or the handler that will set it (or end the job) is in flight.     *)
(* startRefresh sets no alarm before its planning await, firing clears the *)
(* alarm, and an eviction drops every handler, so this is what repairAlarm *)
(* in the constructor and each trailing setAlarm are for.                  *)
(***************************************************************************)
ActiveHasDriver ==
    up => /\ status = "planning" =>
                \/ alarm
                \/ handler.pc = "planning"
                \/ \E c \in Calls : calls[c].pc = "planning" /\ calls[c].owner
          /\ status = "running" =>
                \/ alarm
                \/ handler.pc \in {"slice", "finalize", "finalized"}

(***************************************************************************)
(* "Start a refresh, or return the currently active refresh without        *)
(* overlap": an alarm handler that will write a summary, next_index, an R2 *)
(* object or the completion works for the job the row holds.               *)
(***************************************************************************)
NoOverlap ==
    handler.pc \in {"slice", "finalize", "finalized"} => handler.run = runs

(***************************************************************************)
(* The checkpoint is exact: the summary rows are those of the windows      *)
(* before next_index, no more and no fewer, all written by this job.       *)
(* SliceCommits is guarded by neither the job nor the index of the row.    *)
(***************************************************************************)
CheckpointIsExact ==
    \A w \in Windows : summaries[w] = IF w < nextIndex THEN runs ELSE 0

(***************************************************************************)
(* What complete publishes is one job's work on every window, never a mix  *)
(* of two jobs and never a plan with windows missing, also when an         *)
(* eviction or a retry publishes again.                                    *)
(***************************************************************************)
PublishedIsWhole == \E r \in 0 .. MaxRuns : \A w \in Windows : published[w] = r

(***************************************************************************)
(* The plan of a job was computed for it: a planner that was overtaken     *)
(* while it read R2 does not install its older baseline in a later job.    *)
(***************************************************************************)
PlanIsCurrent == plan # 0 => plan = runs

(***************************************************************************)
(* Once a job is complete or errored its status changes only when a new    *)
(* job starts; a late planner or a second alarm does not revive it.        *)
(***************************************************************************)
TerminalIsFinal ==
    [][runs' = runs /\ status \in {"complete", "errored"}
           => status' = status]_vars

(***************************************************************************)
(* Within a job next_index moves by one window at a time, never back, and  *)
(* only together with the summary of the window it passes.                 *)
(***************************************************************************)
WindowsInOrder ==
    [][runs' = runs /\ nextIndex' # nextIndex
           => /\ nextIndex' = nextIndex + 1
              /\ summaries[nextIndex] = 0
              /\ summaries'[nextIndex] = runs]_vars

(***************************************************************************)
(* The coordinator implements the abstract job: calls, alarms, retries and *)
(* evictions are invisible in the phase, the progress and the publication. *)
(***************************************************************************)
Job == INSTANCE RefreshJob WITH phase <- status, run <- runs,
                                done <- nextIndex

ImplementsRefreshJob == Job!JobSpec

(***************************************************************************)
(* Every job that starts is completed, through evictions and retries, or   *)
(* ends with a failure the code does not retry: it is never forgotten.     *)
(***************************************************************************)
JobEnds ==
    Active ~> \/ status = "complete"
              \/ status = "errored" /\ ~IsRetryable(lastError)
=============================================================================
