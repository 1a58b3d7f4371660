------------------------- MODULE MCSeedPublication -------------------------
(* Instances of SeedPublication for TLC.                                   *)
EXTENDS SeedPublication, TLC

CONSTANTS r1, r2

MCTwoRecords == {r1, r2}

Symmetry2 == Permutations(MCTwoRecords)

MCExported == {TRUE}
MCExportedOrEmpty == BOOLEAN

MCReadFaults == {"cursor_read", "manifest_read"}
MCFinalizeFault == {"finalize"}
=============================================================================
