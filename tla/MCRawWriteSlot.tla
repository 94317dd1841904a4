--------------------------- MODULE MCRawWriteSlot ---------------------------
(* Three producers that race for the slot. *)
EXTENDS RawWriteSlot, TLC

CONSTANTS p1, p2, p3

MCProducers == {p1, p2, p3}
Symmetry == Permutations(MCProducers)
=============================================================================
