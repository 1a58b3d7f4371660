---------------------- MODULE MCSeedRefreshCoordinator ----------------------
(* Instances of SeedRefreshCoordinator for TLC.                            *)
EXTENDS SeedRefreshCoordinator

CONSTANTS c1, c2

MCCalls == {c1, c2}

\* Every job has a name of its own: cron slots are six hours apart and a
\* manual name is a time in milliseconds.
MCDistinctIds == [n \in 1 .. MaxRuns |-> n]

\* What the environment can do to a slice or a finalization.
MCSliceFailures == {"http_5xx", "http_4xx", "transport", "r2"}

\* Planning may fail too.
MCAllFailures == MCSliceFailures \cup {"row_too_big"}
=============================================================================
