--------------------------- MODULE MCReplication ---------------------------
(* Instances of Replication for TLC.                                       *)
EXTENDS Replication

MCRecords == 1 .. 5

\* The record of the last day has the smallest number: it is published late.
MCDays == <<3, 2, 1, 2, 2>>

\* HCC publishes that record late, and then it stays.
MCHolds == {MCRecords \ {1}, MCRecords}

\* To bound the combinations: beside refreshes there are one export and the migrations of
\* it, no push and no sync, and the source has ingested the first day before.
FewRefreshes ==
    refreshes > 0 => /\ exports <= 1
                     /\ script.name \notin {"push", "sync"}
                     /\ pushFile = NoFile /\ dest = EmptyStore
                     /\ DayWindow(1) \in source.marks

=============================================================================
