---------------------------- MODULE MCScanLoop ----------------------------
(* An NTAG, a Bambu tag and an OpenPrintTag whose UIDs begin alike, so that  *)
(* the cooldown takes any of them for any other.                             *)
EXTENDS ScanLoop

CONSTANTS n1, b1, o1

MCNtagTags == {n1}
MCBambuTags == {b1}
MCOptTags == {o1}
MCSimilar == {n1, b1, o1} \X {n1, b1, o1}
===========================================================================
