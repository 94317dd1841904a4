------------------------- MODULE MCDeductionTracker -------------------------
(* DeductionTracker on a table smaller than the number of UIDs, so that the *)
(* pristine slots run out and settled ones are recycled across UIDs.        *)
EXTENDS DeductionTracker, TLC

CONSTANTS u1, u2, u3, u4, r1, r2

MCUids == {u1, u2, u3, u4}
MCRequestIds == {r1, r2}
MCGrams == {1}
=============================================================================
