--------------------------- MODULE MCLedgerRecord ---------------------------
(* One task's ledger rows and its record, for TLC: the configurations fix   *)
(* the commands, how many facts they write, and which mishaps may happen.   *)
EXTENDS LedgerRecord
=============================================================================
