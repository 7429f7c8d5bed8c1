----------------------------- MODULE MCDelivery -----------------------------
(* One spec's cells, its branch and its pull requests, for TLC: the          *)
(* configurations fix how many cells and commits, and which mishaps happen. *)
EXTENDS Delivery
=============================================================================
