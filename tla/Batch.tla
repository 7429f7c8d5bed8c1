------------------------------- MODULE Batch -------------------------------
(***************************************************************************)
(* What a night promises whoever started it, of either kind.  It charges   *)
(* no more than it was given and one overshoot.  It says how it ended, and *)
(* says so once; and a night that left work in flight, or a result nobody  *)
(* packaged, does not end for an ordinary reason.                          *)
(***************************************************************************)
EXTENDS Integers

CONSTANT Limit  \* the budget and the most one charge may exceed it by

VARIABLES
    status,   \* the latest batch: "none", "open", "killed", or why it closed
    charged,  \* what the night's own runs have cost
    left      \* work the night left in flight or unpackaged

vars == <<status, charged, left>>

Ordinary == {"DRAINED", "BUDGET", "UNTIL"}
Reasons  == Ordinary \union {"INFRASTRUCTURE", "INCOMPLETE"}

Init == status = "none" /\ charged = 0 /\ left = {}

(* What a night is charged stays within its limit. *)
Spends == charged' = charged \/ charged' \in charged .. Limit

(* One night at a time; one that could not start leaves a closed row. *)
Open == /\ status # "open" /\ status' \in {"open", "INFRASTRUCTURE"}
        /\ charged' = 0 /\ left' = {}

Charge == /\ status = "open" /\ status' = "open"
          /\ Spends /\ left \subseteq left'

(* The step that ends or kills a night may cut a task short, and charge it. *)
End == /\ status = "open" /\ status' \in Reasons
       /\ Spends /\ left \subseteq left'
       /\ status' \in Ordinary => left' = {}

Killed == /\ status = "open" /\ status' = "killed"
          /\ Spends /\ left \subseteq left'

(* What a closed night left may be settled later, by a command or by the  *)
(* next night's scan.                                                     *)
Settle == status # "open" /\ left' \subseteq left /\ UNCHANGED <<status, charged>>

(* A stack night's tail may run after the night closed, on the closed row. *)
Resume == /\ status \in Reasons /\ status' = status
          /\ Spends /\ left \subseteq left'

Next == Open \/ Charge \/ End \/ Killed \/ Settle \/ Resume

Spec == Init /\ [][Next]_vars
=============================================================================
