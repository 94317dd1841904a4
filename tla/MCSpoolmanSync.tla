--------------------------- MODULE MCSpoolmanSync ---------------------------
EXTENDS SpoolmanSync, TLC

CONSTANTS u1, u2, pla, petg, odd, maker

\* u1's spool is nearly empty and lacks its colour; u2's was picked by the user in the writer,
\* and is of a filament without vendor; the third is nobody's.
MCListed ==
  (1 :> [st |-> "active", nfc |-> u1, pin |-> FALSE, by |-> "nobody", fil |-> <<odd, 1, 1>>, grams |-> 1])
  @@ (2 :> [st |-> "active", nfc |-> u2, pin |-> TRUE, by |-> "picker", fil |-> <<petg, 0, 1>>, grams |-> 2])
  @@ (3 :> [st |-> "active", nfc |-> "none", pin |-> FALSE, by |-> "nobody", fil |-> <<petg, 0, 1>>, grams |-> 2])
MCKnown == {<<maker, 0, 1>>, <<pla, 1, 1>>, <<odd, 1, 1>>, <<petg, 0, 1>>}
=============================================================================
