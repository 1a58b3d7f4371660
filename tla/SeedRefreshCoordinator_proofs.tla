-------------------- MODULE SeedRefreshCoordinator_proofs --------------------
(***************************************************************************)
(* Theorems about SeedRefreshCoordinator, for any set of calls, number of  *)
(* windows, jobs, attempts and evictions, and one about the script of      *)
(* DailyRefresh, which is a caller of it.                                  *)
(*                                                                         *)
(* TypeCorrect and DriverExists hold whatever fails.  The others assume    *)
(* what the run CoordinatorOverlap shows to be necessary, that no planner  *)
(* fails alone (SoundPlanning), and that jobs have names of their own.     *)
(***************************************************************************)
EXTENDS DailyRefresh, TLAPS

USE ConstantsAssumption DEF ConstantsAssumption

(***************************************************************************)
(* Type correctness.  SliceCommits advances next_index from what the       *)
(* handler captured: the captured index must be that of a window.          *)
(***************************************************************************)
SliceHasWindow == handler.pc = "slice" => handler.index < NumWindows

TypeInv == TypeOK /\ SliceHasWindow

\* Every cause an await can reject with is a cause recordFailure may store.
LEMMA CausesAtTyped ==
    ASSUME NEW pc \in {"planning", "slice", "finalize"}
    PROVE  CausesAt(pc) \subseteq Causes
BY DEF CausesAt, Causes

\* The values an object starts from, and returns to, are well typed.
LEMMA EmptyTyped ==
    /\ NoSummaries \in RowStates
    /\ NoCall \in CallState
    /\ [c \in Calls |-> NoCall] \in [Calls -> CallState]
    /\ NoHandler \in HandlerState /\ NoHandler.pc = "idle"
<1>1. NoSummaries \in RowStates
    BY DEF NoSummaries, RowStates
<1>2. NoCall \in CallState
    BY DEF NoCall, CallState
<1> QED
    BY <1>1, <1>2 DEF NoHandler, HandlerState

\* The initial state of the object is well typed.
LEMMA TypeInit == Init => TypeInv
<1> SUFFICES ASSUME Init PROVE TypeInv
    OBVIOUS
<1>1. calls \in [Calls -> CallState]
    BY EmptyTyped DEF Init
<1>2. /\ nextIndex \in 0 .. NumWindows /\ attempts \in 0 .. MaxAttempts + 1
      /\ {plan, runs} \subseteq 0 .. MaxRuns /\ evictions \in 0 .. MaxEvictions
    BY DEF Init
<1>3. {summaries, published} \subseteq RowStates
    BY EmptyTyped DEF Init
<1>4. handler \in HandlerState /\ handler.pc # "slice"
    BY EmptyTyped DEF Init
<1>5. /\ status = "idle" /\ lastError = "none"
      /\ alarm = FALSE /\ up = TRUE
    BY DEF Init
<1> QED
    BY <1>1, <1>2, <1>3, <1>4, <1>5 DEF TypeInv, TypeOK, SliceHasWindow

\* Every step of the object preserves its types.
LEMMA TypeStep == TypeInv /\ [Next]_vars => TypeInv'
<1> SUFFICES ASSUME TypeInv, [Next]_vars
             PROVE  TypeInv'
    OBVIOUS
<1> USE DEF TypeInv, TypeOK, SliceHasWindow, stateRow, history
<1>1. CASE UNCHANGED vars
    BY <1>1 DEF vars
<1>2. ASSUME NEW c \in Calls, StartJoinsRunning(c)
      PROVE  TypeInv'
    BY <1>2 DEF StartJoinsRunning, RepairAlarm, Active, ActiveStatus
<1>3. ASSUME NEW c \in Calls, StartJoinsPlanning(c)
      PROVE  TypeInv'
    BY <1>3 DEF StartJoinsPlanning, RepairAlarm, Active, ActiveStatus,
                CallState
<1>4. ASSUME NEW c \in Calls, StartNewJob(c)
      PROVE  TypeInv'
    BY <1>4, EmptyTyped DEF StartNewJob, DeleteSummaries, ResetProgress,
                            CallState
<1>5. ASSUME NEW c \in Calls, CallPlans(c)
      PROVE  TypeInv'
    BY <1>5, EmptyTyped DEF CallPlans, CommitPlan, PlanningJob, ScheduleNext,
                            CallState
<1>6. ASSUME NEW c \in Calls, CallFails(c)
      PROVE  TypeInv'
    <2>1. calls' \in [Calls -> CallState]
        BY <1>6, EmptyTyped DEF CallFails
    <2>2. lastError' \in Causes \cup {"none"}
        BY <1>6, CausesAtTyped DEF CallFails, CatchPlanning
    <2> QED
        BY <1>6, <2>1, <2>2 DEF CallFails, CatchPlanning
<1>7. CASE GetStatus
    BY <1>7 DEF GetStatus, RepairAlarm, Active, ActiveStatus
<1>8. CASE AlarmPlans
    BY <1>8, EmptyTyped DEF AlarmPlans, AlarmFires, NoHandler, HandlerState
<1>9. CASE AlarmStartsSlice
    BY <1>9, EmptyTyped DEF AlarmStartsSlice, AlarmFires, WindowsLeft,
                            NoHandler, HandlerState
<1>10. CASE AlarmStartsFinalize
    BY <1>10, EmptyTyped DEF AlarmStartsFinalize, AlarmFires, NoHandler,
                             HandlerState
<1>11. CASE AlarmFindsNothing
    BY <1>11 DEF AlarmFindsNothing, AlarmFires
<1>12. CASE HandlerPlans
    BY <1>12, EmptyTyped DEF HandlerPlans, CommitPlan, PlanningJob,
                             ScheduleNext, HandlerState
<1>13. CASE SliceCommits
    <2>1. summaries' \in RowStates
        BY <1>13 DEF SliceCommits, UpsertSummary, RowStates, HandlerState
    <2>2. nextIndex' \in 0 .. NumWindows
        BY <1>13 DEF SliceCommits, HandlerState
    <2> QED
        BY <1>13, <2>1, <2>2, EmptyTyped DEF SliceCommits, ScheduleNext
<1>14. CASE FinalizeWrites
    BY <1>14 DEF FinalizeWrites, HandlerState
<1>15. CASE MarkComplete
    BY <1>15 DEF MarkComplete, HandlerState
<1>16. CASE BroadcastEnds
    BY <1>16, EmptyTyped DEF BroadcastEnds
<1>17. CASE HandlerFails
    <2>1. PICK cause \in CausesAt(handler.pc) \cap Failures :
              RecordFailure(cause)
        BY <1>17 DEF HandlerFails
    <2>2. cause \in Causes
        BY <1>17, <2>1, CausesAtTyped DEF HandlerFails
    <2>3. /\ attempts' \in 0 .. MaxAttempts + 1
          /\ status' \in {status, "errored"}
          /\ alarm' \in BOOLEAN
          /\ lastError' = cause
        <3>1. CASE IsRetryable(cause)
            BY <2>1, <3>1 DEF RecordFailure, RetryLater
        <3>2. CASE ~IsRetryable(cause)
            BY <2>1, <3>2 DEF RecordFailure
        <3> QED
            BY <3>1, <3>2
    <2> QED
        BY <1>17, <2>2, <2>3, EmptyTyped DEF HandlerFails
<1>18. CASE Evict
    <2>1. alarm' \in BOOLEAN /\ evictions' \in 0 .. MaxEvictions
        BY <1>18 DEF Evict
    <2>2. calls' \in [Calls -> CallState]
        BY <1>18, EmptyTyped DEF Evict
    <2> QED
        BY <1>18, <2>1, <2>2, EmptyTyped DEF Evict
<1>19. CASE Construct
    BY <1>19 DEF Construct, RepairAlarm, Active, ActiveStatus
<1> QED
    BY <1>1, <1>2, <1>3, <1>4, <1>5, <1>6, <1>7, <1>8, <1>9, <1>10, <1>11,
       <1>12, <1>13, <1>14, <1>15, <1>16, <1>17, <1>18, <1>19
       DEF Next, CallReturns, AlarmRuns, HandlerReturns

LEMMA TypeInvariant == Spec => []TypeInv
BY TypeInit, TypeStep, PTL DEF Spec

(***************************************************************************)
(* Type correctness of the coordinator's row, calls and handler.           *)
(***************************************************************************)
THEOREM TypeCorrect == Spec => []TypeOK
BY TypeInvariant, PTL DEF TypeInv

-----------------------------------------------------------------------------
(***************************************************************************)
(* An active job has a driver.  A running row without a plan would make    *)
(* processNextSlice return early and lose the alarm that called it, so the *)
(* inductive invariant must say that planners work for a job, not for the  *)
(* initial 0, and that a running row therefore has a plan.                 *)
(***************************************************************************)
PlannersHaveJobs ==
    /\ status = "planning" => runs > 0
    /\ handler.pc = "planning" => handler.run > 0
    /\ \A c \in Calls : calls[c].pc = "planning" => calls[c].run > 0

RunningHasPlan == status = "running" => plan > 0

DriverInv == PlannersHaveJobs /\ RunningHasPlan /\ ActiveHasDriver

\* Initially there is no job.
LEMMA DriverInit == Init => DriverInv
BY DEF Init, DriverInv, PlannersHaveJobs, RunningHasPlan, ActiveHasDriver,
       NoCall, NoHandler

\* Every step leaves an active job a driver.
LEMMA DriverStep == TypeInv /\ DriverInv /\ [Next]_vars => DriverInv'
<1> SUFFICES ASSUME TypeInv, DriverInv, [Next]_vars
             PROVE  DriverInv'
    OBVIOUS
<1> USE DEF TypeInv, TypeOK, DriverInv, PlannersHaveJobs, RunningHasPlan,
            ActiveHasDriver, stateRow, history, Active, ActiveStatus
<1>1. CASE UNCHANGED vars
    BY <1>1 DEF vars
<1>2. ASSUME NEW c \in Calls, StartJoinsRunning(c)
      PROVE  DriverInv'
    BY <1>2 DEF StartJoinsRunning, RepairAlarm
<1>3. ASSUME NEW c \in Calls, StartJoinsPlanning(c)
      PROVE  DriverInv'
    BY <1>3 DEF StartJoinsPlanning, RepairAlarm
<1>4. ASSUME NEW c \in Calls, StartNewJob(c)
      PROVE  DriverInv'
    BY <1>4 DEF StartNewJob
<1>5. ASSUME NEW c \in Calls, CallPlans(c)
      PROVE  DriverInv'
    BY <1>5 DEF CallPlans, CommitPlan, ScheduleNext, NoCall, CallState
<1>6. ASSUME NEW c \in Calls, CallFails(c)
      PROVE  DriverInv'
    BY <1>6 DEF CallFails, CatchPlanning, NoCall
<1>7. CASE GetStatus
    BY <1>7 DEF GetStatus, RepairAlarm
<1>8. CASE AlarmPlans
    BY <1>8 DEF AlarmPlans, AlarmFires, NoHandler
<1>9. CASE AlarmStartsSlice
    BY <1>9 DEF AlarmStartsSlice, AlarmFires, NoHandler
<1>10. CASE AlarmStartsFinalize
    BY <1>10 DEF AlarmStartsFinalize, AlarmFires, NoHandler
<1>11. CASE AlarmFindsNothing
    BY <1>11 DEF AlarmFindsNothing, AlarmFires
<1>12. CASE HandlerPlans
    BY <1>12 DEF HandlerPlans, CommitPlan, ScheduleNext, NoHandler,
                 HandlerState
<1>13. CASE SliceCommits
    BY <1>13 DEF SliceCommits, ScheduleNext, NoHandler
<1>14. CASE FinalizeWrites
    BY <1>14 DEF FinalizeWrites, HandlerState
<1>15. CASE MarkComplete
    BY <1>15 DEF MarkComplete, HandlerState
<1>16. CASE BroadcastEnds
    BY <1>16 DEF BroadcastEnds, NoHandler
<1>17. CASE HandlerFails
    <2>1. PICK cause : RecordFailure(cause)
        BY <1>17 DEF HandlerFails
    <2>2. \/ status' = "errored"
          \/ status' = status /\ alarm' = TRUE
        BY <2>1 DEF RecordFailure, RetryLater
    <2> QED
        BY <1>17, <2>2 DEF HandlerFails, NoHandler
<1>18. CASE Evict
    BY <1>18 DEF Evict, NoCall, NoHandler
<1>19. CASE Construct
    BY <1>19 DEF Construct, RepairAlarm
<1> QED
    BY <1>1, <1>2, <1>3, <1>4, <1>5, <1>6, <1>7, <1>8, <1>9, <1>10, <1>11,
       <1>12, <1>13, <1>14, <1>15, <1>16, <1>17, <1>18, <1>19
       DEF Next, CallReturns, AlarmRuns, HandlerReturns

(***************************************************************************)
(* In a loaded object a planning or running job always has its alarm set,  *)
(* or a handler in flight that will set it or end the job, through any     *)
(* interleaving of calls, failures and evictions.                          *)
(***************************************************************************)
THEOREM DriverExists == Spec => []ActiveHasDriver
<1>1. Spec => []DriverInv
    BY TypeInvariant, DriverInit, DriverStep, PTL DEF Spec
<1> QED
    BY <1>1, PTL DEF DriverInv

-----------------------------------------------------------------------------
(***************************************************************************)
(* One job at a time.  What follows assumes that a planner does not fail   *)
(* while another one may succeed, and that jobs have names of their own.   *)
(***************************************************************************)
SoundPlanning == "row_too_big" \notin Failures

DistinctIds == \A m, n \in 1 .. MaxRuns : IdOf[m] = IdOf[n] => m = n

(***************************************************************************)
(* The inductive invariant.  A handler at an await that will write owns a  *)
(* running row, which no planner, call or failure can take from it: what   *)
(* it captured before the await is still what the row says.                *)
(***************************************************************************)
PlannersAreKnown ==
    /\ handler.pc = "planning" => handler.run \in 1 .. runs
    /\ \A c \in Calls : calls[c].pc = "planning" => calls[c].run \in 1 .. runs

RowMatchesJob ==
    /\ status = "planning" => nextIndex = 0
    /\ status \in ActiveStatus => runs > 0
    /\ PlanIsCurrent

HandlerOwnsRow ==
    handler.pc \in {"slice", "finalize", "finalized"}
        => status = "running" /\ handler.run = runs

CaptureIsCurrent ==
    /\ handler.pc = "slice"
           => handler.index = nextIndex /\ nextIndex < NumWindows
    /\ handler.pc = "finalize"
           => nextIndex = NumWindows /\ handler.view = summaries
    /\ handler.pc = "finalized" => published = [w \in Windows |-> runs]

ExclusiveInv ==
    /\ PlannersAreKnown
    /\ RowMatchesJob
    /\ HandlerOwnsRow
    /\ CaptureIsCurrent
    /\ CheckpointIsExact
    /\ PublishedIsWhole

\* A planner whose UPDATE matches the row planned for the row's job.
LEMMA PlannerMatches ==
    ASSUME DistinctIds, TypeInv, NEW r \in 1 .. runs, PlanningJob(r)
    PROVE  status = "planning" /\ r = runs
BY DEF DistinctIds, TypeInv, TypeOK, PlanningJob

\* Once every window is done, the summaries are those of the row's job.
LEMMA AllWindowsDone ==
    ASSUME TypeInv, CheckpointIsExact, nextIndex = NumWindows
    PROVE  summaries = [w \in Windows |-> runs]
BY DEF TypeInv, TypeOK, CheckpointIsExact, RowStates, Windows

\* Initially no job has published anything.
LEMMA ExclusiveInit == Init => ExclusiveInv
<1> SUFFICES ASSUME Init PROVE ExclusiveInv
    OBVIOUS
<1>1. PlannersAreKnown
    BY DEF Init, PlannersAreKnown, NoCall, NoHandler
<1>2. RowMatchesJob
    BY DEF Init, RowMatchesJob, PlanIsCurrent, ActiveStatus
<1>3. HandlerOwnsRow /\ CaptureIsCurrent
    BY DEF Init, HandlerOwnsRow, CaptureIsCurrent, NoHandler
<1>4. CheckpointIsExact
    BY DEF Init, CheckpointIsExact, NoSummaries, Windows
<1>5. PublishedIsWhole
    BY DEF Init, PublishedIsWhole, NoSummaries
<1> QED
    BY <1>1, <1>2, <1>3, <1>4, <1>5 DEF ExclusiveInv

\* What a planner commits.
LEMMA CommitPlanStep ==
    ASSUME DistinctIds, TypeInv, NEW r \in 1 .. runs, CommitPlan(r)
    PROVE  /\ \/ UNCHANGED <<status, plan>>
              \/ status = "planning" /\ status' = "running" /\ plan' = runs
           /\ UNCHANGED <<nextIndex, summaries, published, runs>>
<1>1. CASE PlanningJob(r)
    BY <1>1, PlannerMatches DEF CommitPlan, history
<1>2. CASE ~PlanningJob(r)
    BY <1>2 DEF CommitPlan, history
<1> QED
    BY <1>1, <1>2

\* When planning does not fail, only a slice or a finalization does.
LEMMA OnlyWorkFails ==
    ASSUME SoundPlanning
    PROVE  /\ \A c \in Calls : ~CallFails(c)
           /\ HandlerFails => handler.pc \in {"slice", "finalize"}
<1>1. CausesAt("planning") \cap Failures = {}
    BY DEF SoundPlanning, CausesAt
<1> QED
    BY <1>1 DEF CallFails, HandlerFails

\* Every step keeps the writers exclusive.
LEMMA ExclusiveStep ==
    ASSUME SoundPlanning, DistinctIds
    PROVE  TypeInv /\ ExclusiveInv /\ [Next]_vars => ExclusiveInv'
<1> SUFFICES ASSUME TypeInv, ExclusiveInv, [Next]_vars
             PROVE  ExclusiveInv'
    OBVIOUS
<1> USE DEF ExclusiveInv, PlannersAreKnown, RowMatchesJob, HandlerOwnsRow,
            CaptureIsCurrent, CheckpointIsExact, PublishedIsWhole,
            PlanIsCurrent, stateRow, history, ActiveStatus
<1>1. CASE UNCHANGED vars
    BY <1>1 DEF vars
<1>2. ASSUME NEW c \in Calls, StartJoinsRunning(c)
      PROVE  ExclusiveInv'
    BY <1>2 DEF StartJoinsRunning
<1>3. ASSUME NEW c \in Calls, StartJoinsPlanning(c)
      PROVE  ExclusiveInv'
    BY <1>3 DEF StartJoinsPlanning, TypeInv, TypeOK
<1>4. ASSUME NEW c \in Calls, StartNewJob(c)
      PROVE  ExclusiveInv'
    <2> USE <1>4 DEF StartNewJob, MayStart, Active
    <2>1. PlannersAreKnown'
        BY DEF TypeInv, TypeOK
    <2>2. RowMatchesJob' /\ HandlerOwnsRow' /\ CaptureIsCurrent'
        BY DEF ResetProgress, TypeInv, TypeOK
    <2>3. CheckpointIsExact'
        BY DEF DeleteSummaries, NoSummaries, ResetProgress, Windows
    <2> QED
        BY <2>1, <2>2, <2>3
<1>5. ASSUME NEW c \in Calls, CallPlans(c)
      PROVE  ExclusiveInv'
    <2>1. calls[c].run \in 1 .. runs /\ CommitPlan(calls[c].run)
        BY <1>5 DEF CallPlans
    <2> QED
        BY <1>5, <2>1, CommitPlanStep DEF CallPlans, NoCall, TypeInv, TypeOK
<1>6. ASSUME NEW c \in Calls, CallFails(c)
      PROVE  ExclusiveInv'
    BY <1>6, OnlyWorkFails
<1>7. CASE GetStatus
    BY <1>7 DEF GetStatus
<1>8. CASE AlarmPlans
    BY <1>8 DEF AlarmPlans, AlarmFires, NoHandler, TypeInv, TypeOK
<1>9. CASE AlarmStartsSlice
    BY <1>9 DEF AlarmStartsSlice, AlarmFires, WindowsLeft, NoHandler
<1>10. CASE AlarmStartsFinalize
    BY <1>10 DEF AlarmStartsFinalize, AlarmFires, WindowsLeft, NoHandler,
                 TypeInv, TypeOK
<1>11. CASE AlarmFindsNothing
    BY <1>11 DEF AlarmFindsNothing, AlarmFires
<1>12. CASE HandlerPlans
    <2>1. handler.run \in 1 .. runs /\ CommitPlan(handler.run)
        BY <1>12 DEF HandlerPlans
    <2> QED
        BY <1>12, <2>1, CommitPlanStep DEF HandlerPlans, NoHandler, TypeInv,
                                           TypeOK
<1>13. CASE SliceCommits
    <2> USE <1>13 DEF SliceCommits
    <2>1. /\ nextIndex' = nextIndex + 1
          /\ summaries' = [summaries EXCEPT ![nextIndex] = runs]
        BY DEF UpsertSummary
    <2>2. CheckpointIsExact'
        BY <2>1 DEF TypeInv, TypeOK, RowStates, Windows
    <2> QED
        BY <2>2 DEF NoHandler
<1>14. CASE FinalizeWrites
    <2> USE <1>14 DEF FinalizeWrites
    <2>1. published' = [w \in Windows |-> runs]
        BY AllWindowsDone
    <2>2. PublishedIsWhole'
        BY <2>1 DEF TypeInv, TypeOK
    <2> QED
        BY <2>1, <2>2 DEF TypeInv, TypeOK, HandlerState
<1>15. CASE MarkComplete
    BY <1>15 DEF MarkComplete, TypeInv, TypeOK, HandlerState
<1>16. CASE BroadcastEnds
    BY <1>16 DEF BroadcastEnds, NoHandler
<1>17. CASE HandlerFails
    <2>1. PICK cause : RecordFailure(cause)
        BY <1>17 DEF HandlerFails
    <2>2. status' \in {status, "errored"}
        BY <2>1 DEF RecordFailure
    <2> QED
        BY <1>17, <2>2 DEF HandlerFails, NoHandler
<1>18. CASE Evict
    BY <1>18 DEF Evict, NoCall, NoHandler
<1>19. CASE Construct
    BY <1>19 DEF Construct
<1> QED
    BY <1>1, <1>2, <1>3, <1>4, <1>5, <1>6, <1>7, <1>8, <1>9, <1>10, <1>11,
       <1>12, <1>13, <1>14, <1>15, <1>16, <1>17, <1>18, <1>19
       DEF Next, CallReturns, AlarmRuns, HandlerReturns

LEMMA ExclusiveInvariant ==
    ASSUME SoundPlanning, DistinctIds
    PROVE  Spec => [](TypeInv /\ ExclusiveInv)
<1>1. Init => TypeInv /\ ExclusiveInv
    BY TypeInit, ExclusiveInit
<1>2. TypeInv /\ ExclusiveInv /\ [Next]_vars => (TypeInv /\ ExclusiveInv)'
    BY TypeStep, ExclusiveStep
<1> QED
    BY <1>1, <1>2, PTL DEF Spec

(***************************************************************************)
(* "Without overlap": whatever an alarm handler writes after its await, it *)
(* writes for the job the row holds.                                       *)
(***************************************************************************)
THEOREM JobsDoNotOverlap ==
    ASSUME SoundPlanning, DistinctIds
    PROVE  Spec => []NoOverlap
<1>1. ExclusiveInv => NoOverlap
    BY DEF ExclusiveInv, HandlerOwnsRow, NoOverlap
<1> QED
    BY <1>1, ExclusiveInvariant, PTL

(***************************************************************************)
(* The checkpoint a restart resumes from is exact: the summary rows are    *)
(* the current job's, for the windows before next_index and no others.     *)
(***************************************************************************)
THEOREM CheckpointExact ==
    ASSUME SoundPlanning, DistinctIds
    PROVE  Spec => []CheckpointIsExact
BY ExclusiveInvariant, PTL DEF ExclusiveInv

(***************************************************************************)
(* What is published is always the work of one job on every window.        *)
(***************************************************************************)
THEOREM PublicationWhole ==
    ASSUME SoundPlanning, DistinctIds
    PROVE  Spec => []PublishedIsWhole
BY ExclusiveInvariant, PTL DEF ExclusiveInv

(***************************************************************************)
(* A planner never installs its baseline in a later job.                   *)
(***************************************************************************)
THEOREM PlanCurrent ==
    ASSUME SoundPlanning, DistinctIds
    PROVE  Spec => []PlanIsCurrent
<1>1. ExclusiveInv => PlanIsCurrent
    BY DEF ExclusiveInv, RowMatchesJob
<1> QED
    BY <1>1, ExclusiveInvariant, PTL

-----------------------------------------------------------------------------
(***************************************************************************)
(* The refinement: calls, alarms, retries and evictions stutter.           *)
(***************************************************************************)
\* Initial states map to initial states.
LEMMA JobInitRefined == Init => Job!JobInit
BY DEF Init, Job!JobInit, NoSummaries, Windows

\* Every step of the coordinator is a step of the abstract job or a stutter.
LEMMA JobStepRefined ==
    ASSUME SoundPlanning, DistinctIds
    PROVE  TypeInv /\ ExclusiveInv /\ [Next]_vars => [Job!JobNext]_Job!jobVars
<1> SUFFICES ASSUME TypeInv, ExclusiveInv, [Next]_vars
             PROVE  [Job!JobNext]_Job!jobVars
    OBVIOUS
<1> USE DEF Job!jobVars, stateRow, history
<1>1. CASE UNCHANGED vars
    BY <1>1 DEF vars
<1>2. ASSUME NEW c \in Calls, \/ StartJoinsRunning(c)
                              \/ StartJoinsPlanning(c)
      PROVE  UNCHANGED Job!jobVars
    BY <1>2 DEF StartJoinsRunning, StartJoinsPlanning
<1>3. ASSUME NEW c \in Calls, StartNewJob(c)
      PROVE  Job!Begin
    BY <1>3 DEF StartNewJob, MayStart, Active, ActiveStatus, ResetProgress,
                Job!Begin
<1>4. ASSUME NEW r \in 1 .. runs, CommitPlan(r)
      PROVE  Job!Plan \/ UNCHANGED Job!jobVars
    BY <1>4, CommitPlanStep DEF Job!Plan
<1>5. ASSUME NEW c \in Calls, CallPlans(c)
      PROVE  Job!Plan \/ UNCHANGED Job!jobVars
    BY <1>5, <1>4 DEF CallPlans, ExclusiveInv, PlannersAreKnown
<1>6. ASSUME NEW c \in Calls, CallFails(c)
      PROVE  FALSE
    BY <1>6, OnlyWorkFails
<1>7. CASE GetStatus \/ Evict \/ Construct
    BY <1>7 DEF GetStatus, Evict, Construct
<1>8. CASE AlarmRuns
    BY <1>8 DEF AlarmRuns, AlarmPlans, AlarmStartsSlice, AlarmStartsFinalize,
                AlarmFindsNothing, AlarmFires
<1>9. CASE HandlerPlans
    BY <1>9, <1>4 DEF HandlerPlans, ExclusiveInv, PlannersAreKnown, Job!JobNext
<1>10. CASE SliceCommits
    <2>1. Job!DoWindow
        BY <1>10 DEF SliceCommits, ExclusiveInv, HandlerOwnsRow,
                     CaptureIsCurrent, Job!DoWindow
    <2> QED
        BY <2>1 DEF Job!JobNext
<1>11. CASE FinalizeWrites
    <2>1. published' = [w \in Windows |-> runs] /\ nextIndex = NumWindows
        BY <1>11, AllWindowsDone
           DEF FinalizeWrites, ExclusiveInv, CaptureIsCurrent
    <2>2. Job!Publish
        BY <1>11, <2>1 DEF FinalizeWrites, ExclusiveInv, HandlerOwnsRow,
                           Windows, Job!Publish
    <2> QED
        BY <2>2 DEF Job!JobNext
<1>12. CASE MarkComplete
    <2>1. Job!Finish
        BY <1>12 DEF MarkComplete, ExclusiveInv, HandlerOwnsRow,
                     CaptureIsCurrent, Windows, Job!Finish
    <2> QED
        BY <2>1 DEF Job!JobNext
<1>13. CASE BroadcastEnds
    BY <1>13 DEF BroadcastEnds
<1>14. CASE HandlerFails
    <2>1. handler.pc \in {"slice", "finalize"}
        BY <1>14, OnlyWorkFails
    <2>2. status = "running" /\ status' \in {status, "errored"}
        BY <1>14, <2>1 DEF HandlerFails, RecordFailure, ExclusiveInv,
                           HandlerOwnsRow
    <2>3. Job!Abort \/ UNCHANGED Job!jobVars
        BY <1>14, <2>2 DEF HandlerFails, Job!Abort
    <2> QED
        BY <2>3 DEF Job!JobNext
<1> QED
    BY <1>1, <1>2, <1>3, <1>5, <1>6, <1>7, <1>8, <1>9, <1>10, <1>11, <1>12,
       <1>13, <1>14
       DEF Next, CallReturns, HandlerReturns, Job!JobNext

(***************************************************************************)
(* The coordinator implements the abstract refresh job.                    *)
(***************************************************************************)
THEOREM CoordinatorRefinesJob ==
    ASSUME SoundPlanning, DistinctIds
    PROVE  Spec => ImplementsRefreshJob
BY ExclusiveInvariant, JobInitRefined, JobStepRefined, PTL
   DEF Spec, ImplementsRefreshJob, Job!JobSpec

(***************************************************************************)
(* A late planner, a second alarm or a failure does not revive a job that  *)
(* is complete or errored.                                                 *)
(***************************************************************************)
THEOREM TerminalFinal ==
    ASSUME SoundPlanning, DistinctIds
    PROVE  Spec => TerminalIsFinal
<1>1. TypeInv /\ [Job!JobNext]_Job!jobVars
          => [runs' = runs /\ status \in {"complete", "errored"}
                 => status' = status]_vars
    <2> SUFFICES ASSUME TypeInv, [Job!JobNext]_Job!jobVars, runs' = runs,
                        status \in {"complete", "errored"}
                 PROVE  status' = status
        OBVIOUS
    <2>1. CASE UNCHANGED Job!jobVars
        BY <2>1 DEF Job!jobVars
    <2>2. ~Job!Begin
        BY DEF Job!Begin, TypeInv, TypeOK
    <2>3. ~Job!Plan /\ ~Job!DoWindow /\ ~Job!Publish /\ ~Job!Finish
              /\ ~Job!Abort
        BY DEF Job!Plan, Job!DoWindow, Job!Publish, Job!Finish, Job!Abort
    <2> QED
        BY <2>1, <2>2, <2>3 DEF Job!JobNext
<1> QED
    BY <1>1, ExclusiveInvariant, JobStepRefined, PTL
       DEF Spec, TerminalIsFinal

\* Only a commit of a slice, or a new job, moves next_index.
LEMMA OnlyCommitsMoveIndex ==
    ASSUME TypeInv, [Next]_vars, runs' = runs, nextIndex' # nextIndex
    PROVE  SliceCommits
<1> USE DEF stateRow, history
<1>1. ~UNCHANGED vars
    BY DEF vars
<1>2. ASSUME NEW c \in Calls
      PROVE  /\ ~StartJoinsRunning(c) /\ ~StartJoinsPlanning(c)
             /\ ~StartNewJob(c) /\ ~CallReturns(c)
    BY DEF StartJoinsRunning, StartJoinsPlanning, StartNewJob, CallReturns,
           CallPlans, CommitPlan, CallFails, TypeInv, TypeOK
<1>3. ~GetStatus /\ ~Evict /\ ~Construct
    BY DEF GetStatus, Evict, Construct
<1>4. ~AlarmRuns
    BY DEF AlarmRuns, AlarmPlans, AlarmStartsSlice, AlarmStartsFinalize,
           AlarmFindsNothing, AlarmFires
<1>5. /\ ~HandlerPlans /\ ~FinalizeWrites /\ ~MarkComplete
      /\ ~BroadcastEnds /\ ~HandlerFails
    BY DEF HandlerPlans, CommitPlan, FinalizeWrites, MarkComplete,
           BroadcastEnds, HandlerFails
<1> QED
    BY <1>1, <1>2, <1>3, <1>4, <1>5 DEF Next, HandlerReturns

(***************************************************************************)
(* Within a job next_index passes one window at a time, together with the  *)
(* window's summary: no retry, second alarm or restart skips or repeats    *)
(* the commit of a window.                                                 *)
(***************************************************************************)
THEOREM WindowsAreInOrder ==
    ASSUME SoundPlanning, DistinctIds
    PROVE  Spec => WindowsInOrder
<1>1. TypeInv /\ ExclusiveInv /\ [Next]_vars
          => [runs' = runs /\ nextIndex' # nextIndex
                 => /\ nextIndex' = nextIndex + 1
                    /\ summaries[nextIndex] = 0
                    /\ summaries'[nextIndex] = runs]_vars
    <2> SUFFICES ASSUME TypeInv, ExclusiveInv, [Next]_vars,
                        runs' = runs, nextIndex' # nextIndex
                 PROVE  /\ nextIndex' = nextIndex + 1
                        /\ summaries[nextIndex] = 0
                        /\ summaries'[nextIndex] = runs
        OBVIOUS
    <2>1. SliceCommits
        BY OnlyCommitsMoveIndex
    <2>2. /\ handler.index = nextIndex /\ handler.run = runs
          /\ nextIndex \in Windows
        BY <2>1 DEF SliceCommits, ExclusiveInv, HandlerOwnsRow,
                    CaptureIsCurrent, TypeInv, TypeOK, Windows
    <2>3. summaries[nextIndex] = 0
        BY <2>2 DEF ExclusiveInv, CheckpointIsExact, TypeInv, TypeOK
    <2> QED
        BY <2>1, <2>2, <2>3 DEF SliceCommits, UpsertSummary, TypeInv, TypeOK,
                                RowStates
<1> QED
    BY <1>1, ExclusiveInvariant, PTL DEF Spec, WindowsInOrder

-----------------------------------------------------------------------------
(***************************************************************************)
(* DailyRefresh.  The script only takes steps that any caller may take,    *)
(* so the invariants of the coordinator hold beside it; the theorem is     *)
(* that its report is true, under the same two assumptions.                *)
(***************************************************************************)

\* What a call is told and what was completed are jobs there were.
JobsAreKnown ==
    /\ script \in ScriptState
    /\ \A w \in Windows : published[w] <= runs
    /\ script.pc \in {"wait", "verify", "done"} => script.job \in 1 .. runs

\* A complete row is the proof that its job was published, and what a completed job
\* has published only later jobs replace.
CompletedIsPublished ==
    /\ status = "complete" => runs \in completed
    /\ \A j \in completed : j \in 1 .. runs /\ \A w \in Windows : published[w] >= j

ReportedIsCompleted == script.pc \in {"verify", "done"} => script.job \in completed

DailyInv == JobsAreKnown /\ CompletedIsPublished /\ ReportedIsCompleted

\* All that the coordinator's own proof establishes.
CoordinatorInv == TypeInv /\ ExclusiveInv

\* The call of the script is one of the calls.
LEMMA ScriptCalls == ScriptCall \in Calls
BY DailyAssumption DEF ScriptCall

\* The script does to the coordinator what any caller does.
LEMMA DailyIsCoordinator == DailyNext => [Next]_vars
<1> SUFFICES ASSUME DailyNext PROVE [Next]_vars
    OBVIOUS
<1>1. CASE ScriptPosts
    BY <1>1, ScriptCalls DEF ScriptPosts, Next
<1>2. CASE ScriptAnswered \/ ScriptRefused
    BY <1>2, ScriptCalls DEF ScriptAnswered, ScriptRefused, Next, CallReturns, CallPlans, CallFails
<1>3. CASE ScriptPolls
    BY <1>3 DEF ScriptPolls, Next
<1>4. CASE ScriptGivesUp \/ ScriptVerifies
    BY <1>4 DEF ScriptGivesUp, ScriptVerifies
<1>5. CASE EvictDropsPost \/ JobCompletes
    BY <1>5 DEF EvictDropsPost, JobCompletes, Next, HandlerReturns
<1>6. CASE CoordinatorStep
    BY <1>6 DEF CoordinatorStep, Next
<1> QED
    BY <1>1, <1>2, <1>3, <1>4, <1>5, <1>6 DEF DailyNext

\* Apart from the end of a job, a step of the coordinator completes no row, and
\* what it publishes is the work of the row's job.
LEMMA CoordinatorPublishes ==
    ASSUME SoundPlanning, DistinctIds, CoordinatorInv, [Next]_vars
    PROVE  /\ runs' \in {runs, runs + 1}
           /\ published' \in {published, [w \in Windows |-> runs]}
           /\ status' = "complete" /\ ~MarkComplete => status = "complete" /\ runs' = runs
<1> USE DEF stateRow, history
<1>1. CASE UNCHANGED vars
    BY <1>1 DEF vars
<1>2. ASSUME NEW c \in Calls,
             StartJoinsRunning(c) \/ StartJoinsPlanning(c) \/ StartNewJob(c)
      PROVE  /\ runs' \in {runs, runs + 1} /\ published' = published
             /\ status' = "complete" => status = "complete" /\ runs' = runs
    BY <1>2 DEF StartJoinsRunning, StartJoinsPlanning, StartNewJob
<1>3. ASSUME NEW c \in Calls, CallReturns(c)
      PROVE  /\ runs' = runs /\ published' = published
             /\ status' = "complete" => status = "complete"
    BY <1>3, OnlyWorkFails DEF CallReturns, CallPlans, CommitPlan
<1>4. CASE GetStatus \/ AlarmRuns \/ Evict \/ Construct
    BY <1>4 DEF GetStatus, AlarmRuns, AlarmPlans, AlarmStartsSlice, AlarmStartsFinalize,
                AlarmFindsNothing, AlarmFires, Evict, Construct
<1>5. CASE HandlerPlans \/ SliceCommits \/ BroadcastEnds \/ HandlerFails
    BY <1>5 DEF HandlerPlans, CommitPlan, SliceCommits, BroadcastEnds, HandlerFails,
                RecordFailure
<1>6. CASE FinalizeWrites
    BY <1>6, AllWindowsDone DEF FinalizeWrites, CoordinatorInv, ExclusiveInv, CaptureIsCurrent
<1>7. CASE MarkComplete
    BY <1>7 DEF MarkComplete
<1> QED
    BY <1>1, <1>2, <1>3, <1>4, <1>5, <1>6, <1>7 DEF Next, HandlerReturns

\* Numbers of jobs.
LEMMA JobNumbers ==
    ASSUME CoordinatorInv
    PROVE  runs \in Nat /\ runs <= MaxRuns /\ \A w \in Windows : published[w] \in Nat
BY DEF CoordinatorInv, TypeInv, TypeOK, RowStates

\* A row that is completed is that of the handler's job, published on every window.
LEMMA CompletesRow ==
    ASSUME CoordinatorInv, MarkComplete
    PROVE  /\ handler.run = runs /\ runs \in 1 .. runs
           /\ \A w \in Windows : published[w] = runs
           /\ runs' = runs /\ published' = published
BY JobNumbers DEF MarkComplete, CoordinatorInv, ExclusiveInv, HandlerOwnsRow, CaptureIsCurrent,
                  RowMatchesJob, ActiveStatus, history

\* Initially no job was completed.
LEMMA DailyInitInv == DailyInit => DailyInv
<1> SUFFICES ASSUME DailyInit PROVE DailyInv
    OBVIOUS
<1>1. script \in ScriptState /\ script.pc = "idle" /\ completed = {}
    BY ConstantsAssumption DEF DailyInit, NoScript, ScriptState, ConstantsAssumption
<1>2. runs = 0 /\ status = "idle" /\ \A w \in Windows : published[w] = 0
    BY DEF DailyInit, Init, NoSummaries
<1> QED
    BY <1>1, <1>2 DEF DailyInv, JobsAreKnown, CompletedIsPublished, ReportedIsCompleted

\* Only JobCompletes marks a row complete.
LEMMA JobCompletesAlone ==
    ASSUME TypeInv, [DailyNext]_dailyVars, MarkComplete
    PROVE  JobCompletes
<1>1. /\ handler.pc = "finalized" /\ handler'.pc = "broadcast"
      /\ handler \in HandlerState
    BY DEF MarkComplete, TypeInv, TypeOK, HandlerState
<1>2. /\ ~UNCHANGED handler /\ handler' # NoHandler
    BY <1>1 DEF NoHandler
<1> USE <1>1, <1>2
<1>3. /\ ~ScriptPosts /\ ~ScriptAnswered /\ ~ScriptRefused /\ ~ScriptPolls
      /\ ~ScriptGivesUp /\ ~ScriptVerifies
    BY DEF ScriptPosts, ScriptAnswered, ScriptRefused, ScriptPolls, ScriptGivesUp,
           ScriptVerifies, StartJoinsRunning, StartJoinsPlanning, StartNewJob,
           CallPlans, CallFails, GetStatus, vars
<1>4. ~EvictDropsPost
    BY DEF EvictDropsPost, Evict
<1>5. ~CoordinatorStep
    BY DEF CoordinatorStep, StartJoinsRunning, StartJoinsPlanning, StartNewJob, CallReturns,
           CallPlans, CallFails, GetStatus, Construct, AlarmRuns, AlarmPlans,
           AlarmStartsSlice, AlarmStartsFinalize, AlarmFindsNothing, AlarmFires
<1> QED
    BY <1>3, <1>4, <1>5 DEF DailyNext, dailyVars, vars

\* The script moves on to a job that the row had when it was told, and to "verify"
\* when that very job is complete.
LEMMA ScriptStep ==
    ASSUME DistinctIds, CoordinatorInv, DailyInv, [DailyNext]_dailyVars, ~JobCompletes
    PROVE  /\ script' \in ScriptState
           /\ script'.pc \in {"wait", "verify", "done"} => script'.job \in 1 .. runs
           /\ script'.pc \in {"verify", "done"} => script'.job \in completed
<1> USE JobNumbers DEF DailyInv, JobsAreKnown, ReportedIsCompleted, ScriptState, To, Told
<1>1. CASE ScriptPosts
    <2>1. StartJoinsRunning(ScriptCall) => runs > 0
        BY DEF StartJoinsRunning, CoordinatorInv, ExclusiveInv, RowMatchesJob, ActiveStatus
    <2> QED
        BY <1>1, <2>1 DEF ScriptPosts
<1>2. CASE ScriptAnswered
    <2>1. calls[ScriptCall].run \in 1 .. runs
        BY <1>2, ScriptCalls
        DEF ScriptAnswered, CallPlans, CoordinatorInv, ExclusiveInv, PlannersAreKnown
    <2> QED
        BY <1>2, <2>1 DEF ScriptAnswered
<1>3. CASE ScriptPolls
    <2>1. OwnJob => runs = script.job
        BY <1>3 DEF ScriptPolls, OwnJob, DistinctIds
    <2>2. CASE ~OwnJob
        BY <1>3, <2>2 DEF ScriptPolls
    <2>3. CASE OwnJob /\ status = "complete"
        <3>1. script' = [script EXCEPT !.pc = "verify"]
            BY <1>3, <2>3 DEF ScriptPolls
        <3> QED
            BY <1>3, <2>1, <2>3, <3>1 DEF ScriptPolls, CompletedIsPublished
    <2>4. CASE OwnJob /\ status # "complete"
        <3>1. script' = [script EXCEPT !.pc = "failed"] \/ script' = [script EXCEPT !.pc = "wait"]
            BY <1>3, <2>4 DEF ScriptPolls
        <3> QED
            BY <1>3, <3>1 DEF ScriptPolls
    <2> QED
        BY <2>2, <2>3, <2>4
<1>4. CASE ScriptRefused \/ ScriptGivesUp \/ ScriptVerifies
    BY <1>4 DEF ScriptRefused, ScriptGivesUp, ScriptVerifies
<1>5. CASE EvictDropsPost
    BY <1>5 DEF EvictDropsPost
<1>6. CASE CoordinatorStep \/ UNCHANGED dailyVars
    BY <1>6 DEF CoordinatorStep, dailyVars
<1> QED
    BY <1>1, <1>2, <1>3, <1>4, <1>5, <1>6 DEF DailyNext

\* Every step keeps what the script relies on.
LEMMA DailyStep ==
    ASSUME SoundPlanning, DistinctIds
    PROVE  CoordinatorInv /\ DailyInv /\ [DailyNext]_dailyVars => DailyInv'
<1> SUFFICES ASSUME CoordinatorInv, DailyInv, [DailyNext]_dailyVars PROVE DailyInv'
    OBVIOUS
<1>1. [Next]_vars
    BY DailyIsCoordinator DEF dailyVars
<1>2. /\ runs' \in {runs, runs + 1}
      /\ published' \in {published, [w \in Windows |-> runs]}
      /\ status' = "complete" /\ ~MarkComplete => status = "complete" /\ runs' = runs
    BY <1>1, CoordinatorPublishes
<1>3. \A w \in Windows :
         published[w] <= published'[w] /\ published'[w] <= runs'
    BY <1>2, JobNumbers DEF DailyInv, JobsAreKnown
<1>4. /\ \A j \in completed :
            j \in 1 .. runs' /\ \A w \in Windows : published'[w] >= j
    BY <1>2, <1>3, JobNumbers DEF DailyInv, JobsAreKnown, CompletedIsPublished
<1>5. CASE JobCompletes
    BY <1>3, <1>4, <1>5, CompletesRow
    DEF JobCompletes, DailyInv, JobsAreKnown, CompletedIsPublished, ReportedIsCompleted
<1>6. CASE ~JobCompletes
    <2>1. completed' = completed
        BY <1>6 DEF DailyNext, ScriptPosts, ScriptAnswered, ScriptRefused, ScriptPolls,
                    ScriptGivesUp, ScriptVerifies, EvictDropsPost, CoordinatorStep,
                    dailyVars, To, Told
    <2>2. CompletedIsPublished'
        <3>1. ~MarkComplete
            BY <1>6, JobCompletesAlone DEF CoordinatorInv
        <3>2. status' = "complete" => runs' \in completed
            BY <1>2, <3>1 DEF DailyInv, CompletedIsPublished
        <3> QED
            BY <1>4, <2>1, <3>2 DEF CompletedIsPublished
    <2>3. /\ script' \in ScriptState
          /\ script'.pc \in {"wait", "verify", "done"} => script'.job \in 1 .. runs
          /\ script'.pc \in {"verify", "done"} => script'.job \in completed
        BY <1>6, ScriptStep DEF dailyVars, DailyInv, JobsAreKnown, ReportedIsCompleted
    <2> QED
        BY <1>2, <1>3, <2>1, <2>2, <2>3, JobNumbers
        DEF DailyInv, JobsAreKnown, ReportedIsCompleted
<1> QED
    BY <1>5, <1>6

LEMMA DailyInvariant ==
    ASSUME SoundPlanning, DistinctIds
    PROVE  DailySpec => [](CoordinatorInv /\ DailyInv)
<1>1. DailyInit => CoordinatorInv /\ DailyInv
    BY TypeInit, ExclusiveInit, DailyInitInv DEF DailyInit, CoordinatorInv
<1>2. CoordinatorInv /\ DailyInv /\ [DailyNext]_dailyVars => (CoordinatorInv /\ DailyInv)'
    <2>1. [DailyNext]_dailyVars => [Next]_vars
        BY DailyIsCoordinator DEF dailyVars
    <2> QED
        BY <2>1, TypeStep, ExclusiveStep, DailyStep DEF CoordinatorInv
<1> QED
    BY <1>1, <1>2, PTL DEF DailySpec

(***************************************************************************)
(* "refresh complete" of scripts/daily-refresh.ts is true of the job it    *)
(* was told of, and what is published is that job's work or a later one's. *)
(***************************************************************************)
THEOREM ReportTrue ==
    ASSUME SoundPlanning, DistinctIds
    PROVE  DailySpec => []ReportIsTrue
<1>1. DailyInv => ReportIsTrue
    BY DEF DailyInv, ReportedIsCompleted, CompletedIsPublished, ReportIsTrue
<1> QED
    BY <1>1, DailyInvariant, PTL
=============================================================================
