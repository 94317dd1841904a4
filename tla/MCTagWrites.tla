----------------------------- MODULE MCTagWrites -----------------------------
(* Two OpenPrintTags, two OpenTag3D tags and a Bambu tag.  Any two may be   *)
(* taken for one: by their first bytes, or by an open batch.                *)
EXTENDS TagWrites, TLC

CONSTANTS o1, o2, n1, n2, b1

MCOptTags == {o1, o2}
MCNtagTags == {n1, n2}
MCBambuTags == {b1}
MCSimilar == Tags \X Tags

MCDelivered ==
  {[t \in Tags |-> IF t \in OptTags THEN "opt" ELSE IF t \in NtagTags THEN "ot3d" ELSE "other"]}

\* Tags of one kind come with the same record.
MCSymmetry == {p @@ q : p \in Permutations(MCOptTags), q \in Permutations(MCNtagTags)}
=============================================================================
