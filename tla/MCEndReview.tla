---------------------------- MODULE MCEndReview ----------------------------
(* Stacks that each meet one kind of trouble, and a bound on the moves. *)
EXTENDS EndReview

F(lens, layer, file, at, probe) ==
    [lens |-> lens, layer |-> layer, file |-> file, at |-> at, probe |-> probe,
     severity |-> "concern", edited |-> FALSE]

Drafted  == <<Done, Says({})>>
Rejected == <<Done, Turn("limited")>>
Failed   == <<Turn("failed")>>

Case == [size |-> 2, base |-> FALSE, reserve |-> 5, finds |-> {}, moves |-> {}, faults |-> FALSE,
         sessions |-> 2, writings |-> {Drafted}, tests |-> TRUE]

OneEach == {F("spec", 2, 1, Own(2), FALSE), F("join", 2, 1, Own(1), FALSE),
            [F("correctness", 1, 2, Own(1), FALSE) EXCEPT !.edited = TRUE],
            F("standards", 2, 1, Push(2), FALSE)}

(* Branches that move under the review, with and without a stack base. *)
Moved  == [Case EXCEPT !.moves = {"push", "redo", "restack", "delete"}, !.finds = OneEach]
Merged == [Case EXCEPT !.moves = {"main", "merge", "redo", "delete"}, !.finds = OneEach]
Based  == [Case EXCEPT !.base = TRUE, !.faults = TRUE, !.moves = {"push", "restack", "delete", "main"},
                       !.finds = {F("standards", 1, 1, Own(1), FALSE)}]

(* A stack base that moves while its fetch fails, and takes in what is over *)
(* it.                                                                     *)
Rebased == [Based EXCEPT !.moves = {"push", "restack", "merge", "main"},
                         !.finds = {F("join", 2, 1, Push(0), FALSE)}]

(* Three layers, and a layer that misses because its predecessor's branch  *)
(* went.                                                                   *)
Tall   == [Case EXCEPT !.size = 3, !.reserve = 7, !.moves = {"push", "restack", "delete"},
                       !.finds = {F("spec", 2, 1, Own(2), FALSE)}]

(* A reserve for part of the stack, and a tall one. *)
Short == [Case EXCEPT !.reserve = 3, !.moves = {"push"}, !.finds = OneEach]
Alone == [Case EXCEPT !.size = 1, !.reserve = 2, !.moves = {"push"}, !.faults = TRUE,
                      !.finds = {F("spec", 1, 1, Own(1), TRUE)}]

(* Fetches that fail, and raises everywhere. *)
Faulty == [Case EXCEPT !.moves = {"push"}, !.faults = TRUE, !.finds = OneEach]

(* Groups of several findings, and drafts that come to everything. *)
Written == [Case EXCEPT !.finds = {F("spec", 2, 1, Own(2), TRUE), F("standards", 2, 1, Own(2), FALSE),
                                   F("correctness", 1, 1, Own(1), FALSE), F("adequacy", 1, 1, Own(1), FALSE),
                                   [F("spec", 1, 2, Own(1), FALSE) EXCEPT !.severity = "note"],
                                   F("join", 2, 2, Own(1), TRUE)},
                        !.faults = TRUE, !.writings = {Drafted, Rejected, Failed}, !.sessions = 3]
Untested == [Written EXCEPT !.tests = FALSE, !.faults = FALSE]

MCCases == {Moved, Merged, Based, Rebased, Tall, Short, Alone, Faulty, Written, Untested}
=============================================================================
