----------------------------- MODULE MCFindings -----------------------------
(* Reviews for TLC.  The diff touches lines 2 and 3 of `src` and renames     *)
(* `old`; line 5 of `src` and line 1 of `test` share a word with it, line 1  *)
(* of `src` only a common one.                                              *)
EXTENDS Findings

Row(sign, words) == [sign |-> sign, words |-> words]
MCDiff ==
    <<[path |-> "src", start |-> 2, renamed |-> {},
       rows |-> <<Row(" ", {"def"}), Row("-", {"limit"}), Row("+", {"bound", "the"})>>],
      [path |-> "moved", start |-> 0, renamed |-> {"helper"}, rows |-> <<>>]>>
MCHeadLines ==
    [src |-> <<{"the"}, {"def"}, {"bound", "the"}, {"other"}, {"limit"}>>, test |-> <<{"helper"}>>]

Filed(severity, path, line, probe) ==
    [severity |-> severity, path |-> path, line |-> line, probe |-> probe]

Touched == Filed("blocker", "src", 3, None)
Near    == Filed("blocker", "src", 5, None)
Off     == Filed("blocker", "src", 1, None)
Lost    == Filed("blocker", "gone", 1, None)
Concern == Filed("concern", "src", 2, None)
Vacuous(severity) == Filed(severity, "test", 1, "e1")
Other(severity)   == Filed(severity, "src", 2, "e2")

Says(verdict, rebuttal, quote) == [verdict |-> verdict, rebuttal |-> rebuttal, quote |-> quote]
Confirmed == Says("confirmed", None, None)
Withdrawn == Says("withdrawn", None, None)
Clash(a, b) == Says("contradicted", a, b)

Criterion(witness, preserves, versions) ==
    [witness |-> witness, preserves |-> preserves, versions |-> versions]

Edit(path, line, refused) == [path |-> path, line |-> line, refused |-> refused]

Outcomes == {"killed", "unproven", "error"} \cup Survivals

(* `talk` bounds the entries of one rebuttal or one verdict answer.          *)
Plain ==
    [reports |-> [lens \in Range(Lenses) |-> {<<>>}], fails |-> FALSE, earlier |-> 0, talk |-> 2,
     acceptance |-> <<>>, sentences |-> {<<>>}, outcomes |-> Outcomes, form |-> {"format", "revert"},
     edits |-> [e1 |-> Edit("test", 1, FALSE), e2 |-> Edit("src", 1, FALSE),
                e3 |-> Edit("gone", 1, TRUE)],
     says |-> {Confirmed, Withdrawn}]

MCTasks ==
    { \* what the lenses file, and where
      [Plain EXCEPT !.fails = TRUE, !.says = {Withdrawn}, !.talk = 1,
                    !.reports.correctness = {<<Touched>>, <<Near, Off>>, <<>>},
                    !.reports.contract = {<<Lost, Concern>>, <<Near>>}],
      \* two lenses with blockers, over findings an earlier cell left
      [Plain EXCEPT !.earlier = 1,
                    !.reports.correctness = {<<Off, Touched>>},
                    !.reports.conventions = {<<Concern, Near>>}],
      \* one lens, quoting the spec
      [Plain EXCEPT !.reports.contract = {<<Touched, Near>>},
                    !.says = {Withdrawn, Clash("a", "b"), Clash("a", "a"), Clash("b", None)}],
      \* probes: one edit two findings name, another, and a refused one
      [Plain EXCEPT !.says = {Confirmed},
                    !.reports.adequacy = {<<Vacuous("concern"), Vacuous("blocker"), Other("note")>>,
                                          <<Filed("blocker", "src", 3, "e3")>>}],
      \* two criteria, one of them with a wrong version
      [Plain EXCEPT !.acceptance = <<Criterion("w1", TRUE, 0), Criterion("w2", FALSE, 1)>>,
                    !.sentences = {<<"e2">>, <<"e3", None>>}, !.talk = 1,
                    !.outcomes = {"killed", "unproven", "survived"}],
      \* one that guards the whole file, beside a lens's own blocker
      [Plain EXCEPT !.acceptance = <<Criterion("w1", TRUE, 0)>>, !.earlier = 1,
                    !.sentences = {<<"e2">>, <<>>, <<"e1", "e1", "e1">>},
                    !.reports.correctness = {<<Touched>>, <<>>}] }
=============================================================================
