----------------------------- MODULE RefreshJob -----------------------------
(***************************************************************************)
(* What the refresh coordinator promises, with no calls, alarms, handlers, *)
(* evictions or retries: one job at a time; its windows done one after the *)
(* other; what is published is the work of one job on all the windows; a   *)
(* job is complete only when its work is what is published.                *)
(***************************************************************************)
EXTENDS Naturals

CONSTANTS
    NumWindows,     \* windows of a job
    MaxRuns         \* bound: jobs

VARIABLES
    phase,      \* of the current job
    run,        \* number of the current job, 0 before the first
    done,       \* windows the current job has done
    published   \* the job each published window came from

jobVars == <<phase, run, done, published>>

Begin ==
    /\ phase \notin {"planning", "running"}
    /\ run < MaxRuns
    /\ phase' = "planning"
    /\ run' = run + 1
    /\ done' = 0
    /\ UNCHANGED published

Plan ==
    /\ phase = "planning"
    /\ phase' = "running"
    /\ UNCHANGED <<run, done, published>>

DoWindow ==
    /\ phase = "running"
    /\ done < NumWindows
    /\ done' = done + 1
    /\ UNCHANGED <<phase, run, published>>

Publish ==
    /\ phase = "running"
    /\ done = NumWindows
    /\ published' = [w \in 0 .. NumWindows - 1 |-> run]
    /\ UNCHANGED <<phase, run, done>>

Finish ==
    /\ phase = "running"
    /\ published = [w \in 0 .. NumWindows - 1 |-> run]
    /\ phase' = "complete"
    /\ UNCHANGED <<run, done, published>>

Abort ==
    /\ phase \in {"planning", "running"}
    /\ phase' = "errored"
    /\ UNCHANGED <<run, done, published>>

JobInit ==
    /\ phase = "idle"
    /\ run = 0
    /\ done = 0
    /\ published = [w \in 0 .. NumWindows - 1 |-> 0]

JobNext == Begin \/ Plan \/ DoWindow \/ Publish \/ Finish \/ Abort

JobSpec == JobInit /\ [][JobNext]_jobVars
=============================================================================
