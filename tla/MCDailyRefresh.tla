--------------------------- MODULE MCDailyRefresh ---------------------------
(* Instances of DailyRefresh for TLC.                                      *)
EXTENDS DailyRefresh

CONSTANTS c1, c2

MCCalls == {c1, c2}

MCDistinctIds == [n \in 1 .. MaxRuns |-> n]

MCAllFailures == {"http_5xx", "http_4xx", "transport", "r2", "row_too_big"}
=============================================================================
