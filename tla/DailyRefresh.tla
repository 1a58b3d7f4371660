---------------------------- MODULE DailyRefresh ----------------------------
(***************************************************************************)
(* The operator's script scripts/daily-refresh.ts beside the coordinator   *)
(* of seed mode: it posts a manual refresh, polls the status until its job *)
(* has ended, and then looks at what is published.                         *)
(*                                                                         *)
(* The script is one caller among those of SeedRefreshCoordinator.  Its    *)
(* timeouts are abstracted: it may give up at any poll.  A Worker that     *)
(* answers /stats/live may still have an older snapshot in its cache.      *)
(***************************************************************************)
EXTENDS SeedRefreshCoordinator

\* The script is one of the callers.
ASSUME DailyAssumption == Calls # {}

VARIABLES
    script,     \* where the script is, and the job the coordinator named to it
    completed   \* history: the jobs that were marked complete

dailyVars == <<vars, script, completed>>

NoScript == [pc |-> "idle", job |-> 0]

ScriptState == [pc : {"idle", "post", "wait", "verify", "done", "failed"}, job : 0 .. MaxRuns]

\* The call of the script is any of the calls in flight; which one it is, is fixed.
ScriptCall == CHOOSE c \in Calls : TRUE

DailyInit == Init /\ script = NoScript /\ completed = {}

To(pc) == script' = [script EXCEPT !.pc = pc] /\ UNCHANGED completed

\* The status that a call returns is that of the row as it is now.
Told == script' = [pc |-> "wait", job |-> runs] /\ UNCHANGED completed

-----------------------------------------------------------------------------
(* The script                                                              *)

\* requestCoordinator: POST /api/v1/seed/refresh.  Without an active job it starts one.
ScriptPosts ==
    /\ script.pc = "idle"
    /\ \/ StartJoinsRunning(ScriptCall) /\ Told
       \/ (StartJoinsPlanning(ScriptCall) \/ StartNewJob(ScriptCall)) /\ To("post")

\* The plan is made, by this call or by another meanwhile.
ScriptAnswered == script.pc = "post" /\ CallPlans(ScriptCall) /\ Told

\* The error of the planning is answered with status 500.
ScriptRefused == script.pc = "post" /\ CallFails(ScriptCall) /\ To("failed")

\* Mutant: the id in the status is not compared.
AnyJob == TRUE

OwnJob == IdOf[runs] = IdOf[script.job]

\* waitForRefresh: the outcome of a poll.  It repairs the alarm.
ScriptPolls ==
    /\ script.pc = "wait"
    /\ GetStatus
    /\ CASE ~OwnJob                        -> To("failed")
         [] OwnJob /\ status = "complete"  -> To("verify")
         [] OwnJob /\ status = "errored"   -> To("failed")
         [] OTHER                          -> To("wait")

\* The deadline passes; polls that fail only use up the time.
ScriptGivesUp ==
    /\ script.pc = "wait"
    /\ To("failed")
    /\ UNCHANGED vars

\* verifyPublishedSnapshot: the time of what is served, at most as recent as what is
\* published, against the start of the job.
ScriptVerifies ==
    /\ script.pc = "verify"
    /\ \E served \in 0 .. published[0] :
           IF served >= script.job THEN To("done") ELSE To("failed")
    /\ UNCHANGED vars

-----------------------------------------------------------------------------
(* The coordinator, with other callers                                     *)

\* An eviction drops the request of the script too, which ends it.
EvictDropsPost == Evict /\ (IF script.pc = "post" THEN To("failed") ELSE To(script.pc))

JobCompletes ==
    /\ MarkComplete
    /\ completed' = completed \cup {handler.run}
    /\ UNCHANGED script

CoordinatorStep ==
    /\ \/ \E c \in Calls : \/ StartJoinsRunning(c) \/ StartJoinsPlanning(c) \/ StartNewJob(c)
       \/ \E c \in Calls : CallReturns(c) /\ (c = ScriptCall => script.pc # "post")
       \/ GetStatus \/ AlarmRuns \/ Construct
       \/ HandlerReturns /\ handler.pc # "finalized"
    /\ UNCHANGED <<script, completed>>

DailyNext ==
    \/ ScriptPosts \/ ScriptAnswered \/ ScriptRefused
    \/ ScriptPolls \/ ScriptGivesUp \/ ScriptVerifies
    \/ EvictDropsPost \/ JobCompletes \/ CoordinatorStep

DailySpec == DailyInit /\ [][DailyNext]_dailyVars

DailyFairSpec == DailySpec /\ Fairness

-----------------------------------------------------------------------------
(***************************************************************************)
(* "refresh complete" is the truth about the job the script was told of:   *)
(* that job was completed, and what is published is its work or that of a  *)
(* later one, whoever started it, and however often the object was evicted *)
(* or another job was started between two polls.                           *)
(***************************************************************************)
ReportIsTrue ==
    script.pc = "done" =>
        /\ script.job \in completed
        /\ \A w \in Windows : published[w] >= script.job
=============================================================================
