------------------------------ MODULE MCNight ------------------------------
(* Small repositories for the scan, and bounds for the night.  Of each     *)
(* repository only what its shape needs is said; the rest is Plain.        *)
EXTENDS Night

Plain == [priority |-> 1, budget |-> 2, deps |-> <<>>, touches |-> {{"a"}}, forbidden |-> {},
          named |-> {}, changes |-> {"a"}, removes |-> {}, reads |-> {}, claude |-> FALSE]
Over(deps) == [Plain EXCEPT !.deps = deps]
On(file)   == [Plain EXCEPT !.touches = {{file}}, !.changes = {file}]

(* Of each kind: waits to land, done, aborted, cut, in flight. *)
AllEnds == {"READY_FOR_REVIEW", "REBUTTAL_UNJUDGED", "EXHAUSTED", "GATE_ERROR", "ORPHANED",
            "REVIEWING"}

Repo(specs) == [specs |-> specs, protected |-> {"p"}, markers |-> {}, live |-> DOMAIN specs,
                retired |-> {}, nights |-> 1, maxRows |-> 2, attended |-> {},
                ends |-> AllEnds, stops |-> {}]

(* A child and its parent, over one file; an operator who runs the child,  *)
(* or the parent.                                                          *)
Pair  == [Repo(<<Plain, Over(<<1>>)>>) EXCEPT
             !.attended = {2}, !.ends = {"READY_FOR_REVIEW", "REBUTTAL_UNJUDGED", "ORPHANED"}]
Below == [Pair EXCEPT !.attended = {1}]

(* One spec, run by the night and by an operator, and a PACKAGE that fails *)
(* where neither the ledger nor a row can tell.                            *)
Alone == [Repo(<<Plain>>) EXCEPT
             !.attended = {1}, !.ends = {"READY_FOR_REVIEW", "EXHAUSTED", "GATE_ERROR"},
             !.stops = {"pushed", "opened"}]

(* A child of two parents, one the parent of the other. *)
Stacked == [Repo(<<Plain, Over(<<1>>), Over(<<1, 2>>)>>) EXCEPT
               !.maxRows = 3, !.stops = {"nothing", "linked"}]

(* A child of two parents that are strangers. *)
Forked == [Repo(<<On("a"), On("b"), Over(<<1, 2>>)>>) EXCEPT
              !.maxRows = 3, !.stops = {"recorded"}]

(* Of the first two, one removes what the other reads. *)
Clashing == [Repo(<<[On("a") EXCEPT !.removes = {"x"}], [On("b") EXCEPT !.reads = {"x"}]>>)
             EXCEPT !.nights = 2, !.stops = {"nothing", "pushed"},
                    !.ends = {"READY_FOR_REVIEW", "REBUTTAL_UNJUDGED", "REVIEWING"}]

(* Each refused for a reason of its own: a protected path, a criterion's   *)
(* path, a marker out of reach, a file that spec 5's pull request changes. *)
Refused == [Repo(<<[Plain EXCEPT !.touches = {{"p"}}], [Plain EXCEPT !.named = {"z"}],
                   [Plain EXCEPT !.forbidden = {"m"}], [On("b") EXCEPT !.priority = 2],
                   On("b"), On("c")>>)
            EXCEPT !.markers = {[spec |-> 3, file |-> "m"]},
                   !.ends = {"READY_FOR_REVIEW", "GATE_ERROR"}]

MCRepos == {Pair, Below, Alone, Stacked, Forked, Clashing, Refused}
MCCosts == {1, 3}
=============================================================================
