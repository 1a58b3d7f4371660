------------------------- MODULE MCBackfillPipeline -------------------------
(* Instances of BackfillPipeline for TLC.                                  *)
EXTENDS BackfillPipeline

MCRecords == 1 .. 5

\* Two records on the first day fill a page; the third shares a window of two
\* days with them.
MCDays == <<1, 2, 1, 1, 2>>

MCPublished == {3, 4, 5}

MCForces == {FALSE, TRUE}

=============================================================================
