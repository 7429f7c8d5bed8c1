--------------------------- MODULE MCCellSession ---------------------------
(***************************************************************************)
(* CellSession for TLC: two bags of new failures, one of them in form      *)
(* gates alone.  The money cfg has ceilings far enough apart that every    *)
(* over-budget branch is taken; the control cfg has one-dollar turns and   *)
(* more of everything else.                                                *)
(***************************************************************************)
EXTENDS CellSession
=============================================================================
