---------------------------- MODULE MCStackNight ----------------------------
(* Orders that each meet one kind of trouble, and bounds for the night. *)
EXTENDS StackNight

(* What a session may say: its two turns, or three when the second did not *)
(* fit.                                                                    *)
Said(found)  == <<Done, Says(found)>>
Clean        == Said({Finding("note", "none")})
Fixable      == Said({Finding("blocker", "build"), Finding("note", "scope")})
Unwitnessed  == <<Done, Done, Says({Finding("concern", "witness")})>>
OutOfScope   == Said({Finding("blocker", "scope"), Finding("blocker", "witness")})
Mistagged    == Said({Finding("note", "style")})
Shapeless    == <<Done, Done, Done>>
Rejected     == <<Turn("limited")>>
RejectedLate == <<Done, Turn("limited")>>
Nameless     == <<Turn("anonymous")>>
NoAttempt    == <<Turn("died")>>
FailedLate   == <<Done, Done, Turn("failed")>>

Plan == [order |-> <<1, 2>>, deps |-> <<{}, {}>>, base |-> FALSE, defer |-> FALSE, findings |-> {},
         reviews |-> {Clean}, writings |-> {}, limits |-> FALSE, ends |-> {"EXHAUSTED"},
         faults |-> FALSE, moves |-> FALSE, waits |-> 1]

(* A chain, whose cells end every way they can. *)
Chained == [Plan EXCEPT !.order = <<1, 2, 3>>, !.deps = <<{}, {1}, {2}>>, !.faults = TRUE,
                        !.ends = {"EXHAUSTED", "GATE_ERROR", "REVIEWING", "PROVIDER_UNREACHABLE"}]

(* Two specs over a stack base, and three, one of which stands by. *)
Based == [Plan EXCEPT !.deps = <<{}, {1}>>, !.base = TRUE, !.faults = TRUE, !.limits = TRUE]
Behind == [Plan EXCEPT !.order = <<1, 2, 3>>, !.deps = <<{}, {}, {1}>>, !.base = TRUE,
                       !.faults = TRUE]

(* Reviews that decide, and wait, every way they can. *)
Reviewed == [Plan EXCEPT !.deps = <<{}, {1}>>, !.moves = TRUE, !.faults = TRUE, !.limits = TRUE,
                         !.reviews = {Clean, Fixable, Unwitnessed, OutOfScope, Mistagged,
                                      Shapeless, Rejected, RejectedLate, Nameless, NoAttempt},
                         !.writings = {Clean, RejectedLate, FailedLate, NoAttempt}]

(* Findings in both layers, run to the end or deferred. *)
Found    == [Plan EXCEPT !.findings = {1, 2}, !.reviews = {Clean, Rejected},
                         !.faults = TRUE, !.ends = {}, !.waits = 0]
Deferred == [Plan EXCEPT !.findings = {1}, !.defer = TRUE, !.limits = TRUE,
                         !.reviews = {Clean, Fixable, RejectedLate, Shapeless},
                         !.writings = {Clean, Rejected}]

(* A revision leaves the writer's share to the follow-ups. *)
Revised == [Plan EXCEPT !.findings = {1, 2}, !.reviews = {Clean, Fixable}, !.writings = {Clean}]

MCPlans     == {Chained, Based, Behind, Reviewed, Found, Deferred, Revised}
BehindPlans == {Behind}
SharePlans  == {Revised}
ShareCosts  == {1, 2}
MCCellCosts == {1, 3}
=============================================================================
