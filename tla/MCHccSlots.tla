----------------------------- MODULE MCHccSlots -----------------------------
(* An instance of HccSlots for TLC: two slots, five callers.               *)
EXTENDS HccSlots

CONSTANTS r1, r2, r3, r4, r5

MCRequests == {r1, r2, r3, r4, r5}
=============================================================================
