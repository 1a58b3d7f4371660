------------------------ MODULE MCDashboardFigures ------------------------
(* Instances of DashboardFigures for TLC.                                  *)
EXTENDS DashboardFigures

MCRecords == 1 .. 4

MCLabels == <<"a", "b", Unknown, "b">>

MCOldForms == <<"utc", "wall", "date", "wall">>

\* Wall clocks of the days 2 to 5.  The morning of day 5, from 20 on, is what the clocks
\* change in: 21 is skipped, or occurs twice.
MCHcc == {<<9, 21, 18, 22>>, <<19, 12, 0, 21>>}

\* Daylight saving time begins, or ends.
MCSummers == {19 .. 30, 1 .. 18}

=============================================================================
