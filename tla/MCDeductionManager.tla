------------------------ MODULE MCDeductionManager -------------------------
(* Two tags; each run gives the format pairs worth mixing. *)
EXTENDS DeductionManager, TLC

CONSTANTS u1, u2

MCUids == {u1, u2}
MCFull == (u1 :> 1) @@ (u2 :> 3)

\* Pairs of every two formats that share a reader, and two alike.
MCShelf ==
  {(u1 :> "OpenPrintTag") @@ (u2 :> "OpenTag3D"),
   (u1 :> "TigerTag") @@ (u2 :> "OpenPrintTag"),
   (u1 :> "OpenPrintTag") @@ (u2 :> "OpenPrintTag"),
   (u1 :> "NominalTag3D") @@ (u2 :> "OpenTag3D")}

\* For liveness: a written tag next to one that is never written.
MCLiveShelf == {(u1 :> "OpenPrintTag") @@ (u2 :> "NominalTag3D")}

MCTigerShelf == {(u1 :> "TigerTag") @@ (u2 :> "OpenPrintTag")}
=============================================================================
