------------------------- MODULE MCPrintLifecycle -------------------------
(* Two jobs, so that one replaces the other, with files that say different *)
(* things, and two spools to swap.                                         *)
EXTENDS PrintLifecycle

CONSTANTS s1, s2

MCSpools == {s1, s2}
MCFiles == {<<"tools", "total">>}
MCAllFiles == [1..2 -> {"none", "total", "tools"}]
===========================================================================
