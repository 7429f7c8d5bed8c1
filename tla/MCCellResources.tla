-------------------------- MODULE MCCellResources --------------------------
(* Runs of one spec's cells for TLC: three runs, so that what a killed run   *)
(* leaves can block one run and then the one after it.                       *)
EXTENDS CellResources
=============================================================================
