---------------------------- MODULE MCGateSuite ----------------------------
(* Tasks for TLC: each says only what makes it interesting, the rest is      *)
(* Plain.                                                                   *)
EXTENDS GateSuite, TLC

Test(base, head, without, edited, notices) ==
    [base |-> base, head |-> head, without |-> without, edited |-> edited, notices |-> notices]

Kept    == Test("pass", "pass", "pass", "pass", {})
Good    == Test("gone", "pass", "fail", "pass", {"src", "mod", "far"})
Theater == Test("gone", "pass", "pass", "pass", {})
Weak    == Test("gone", "pass", "fail", "pass", {})

Reader  == [enumerates |-> TRUE, keyed |-> TRUE, subset |-> "honoured", lists |-> TRUE]
Linted(n, tool) ==
    Result(IF n = 0 THEN "pass" ELSE "fail", tool,
           IF n = 0 THEN EmptyBag ELSE Failure("src", "L1") :> n)

Claim(witness, mutant) ==
    [witness |-> witness, preserves |-> FALSE, mutant |-> mutant, subject |-> None]
Keeps(witness) == [Claim(witness, None) EXCEPT !.preserves = TRUE]

Plain ==
    [changed |-> {"src", "test"}, hidden |-> {}, suppressed |-> {}, large |-> {},
     touches |-> {"src", "mod", "del", "test"}, forbidden |-> {}, risk |-> "standard",
     acceptance |-> <<Claim("new", "src")>>,
     protected |-> {}, testPaths |-> {"test"}, gateConfig |-> {"cfg"}, scans |-> TRUE,
     elevateOn |-> {}, advisory |-> {}, constants |-> {},
     runner |-> Reader, lint |-> [base |-> Linted(1, "ruff"), head |-> Linted(1, "ruff")],
     litter |-> {}, stray |-> FALSE, finds |-> {"base", "head"}, edits |-> {}, exempt |-> {},
     truth |-> [old |-> Kept, new |-> Good], probes |-> <<>>, pairs |-> <<>>]

(* What the tests may turn out to say.                                      *)
ByTest ==
    {[Plain EXCEPT !.truth.new = n, !.acceptance = a] :
        n \in {Good, Theater, Weak,
               Test("gone", "pass", "gone", "pass", {"src"}),
               Test("gone", "fail", "fail", "pass", {"src"}),
               Test("fail", "pass", "fail", "pass", {"src"}),
               Test("gone", "gone", "gone", "gone", {})},
        a \in {<<Claim("new", "src")>>, <<>>, <<Claim("typo", None)>>}}
    \cup {[Plain EXCEPT !.truth.old = o, !.acceptance = <<Keeps("old"), Claim("new", None)>>] :
        o \in {Kept, Test("pass", "fail", "fail", "pass", {}),
               Test("pass", "gone", "gone", "gone", {}), Test("fail", "fail", "fail", "fail", {}),
               Test("pass", "pass", "fail", "fail", {})}}
    \cup {[Plain EXCEPT !.truth.old = Test("pass", "pass", "fail", "pass", {}),
                        !.acceptance = <<Claim("old", None)>>]}

(* What the runner can be asked, with a theater beside a good test.         *)
ByRunner ==
    {[Plain EXCEPT !.runner = r, !.truth = [old |-> Kept, new |-> n, more |-> m]] :
        r \in {[Reader EXCEPT !.lists = FALSE], [Reader EXCEPT !.keyed = FALSE],
               [Reader EXCEPT !.enumerates = FALSE], [Reader EXCEPT !.subset = "ignored"],
               [Reader EXCEPT !.subset = "refused"]},
        n \in {Good, Weak}, m \in {Good, Theater, Test("gone", "pass", "gone", "pass", {})}}
    \cup {[Plain EXCEPT !.stray = TRUE, !.runner.lists = l, !.truth.new = n, !.acceptance = <<>>] :
        l \in BOOLEAN, n \in {Good, Theater}}

(* Which paths changed, and how the worktree was left.                      *)
ByTree ==
    {[Plain EXCEPT !.changed = c, !.edits = e, !.truth.new.edited = "fail"] :
        c \in {{"src", "test"}, {"src", "mod", "del", "test"}, {"mod", "test"}, {"test"}},
        e \in {{}, {"src"}, {"note"}}}
    \cup {[Plain EXCEPT !.litter = l] : l \in {{"base", "head"}, {"head"}, {"base"}}}
    \cup {[Plain EXCEPT !.testPaths = {}], [Plain EXCEPT !.finds = {"base"}],
          [Plain EXCEPT !.exempt = {"new"}, !.truth.new = Theater]}

(* A mutant out of the diff's reach, one the repository derives, and a       *)
(* witness that was at the base already.                                    *)
ByMutant ==
    {[Plain EXCEPT !.acceptance = <<[Claim("new", "far") EXCEPT !.subject = s]>>, !.truth.new = n] :
        s \in {None, "src"}, n \in {Theater, Good}}
    \cup {[Plain EXCEPT !.acceptance = <<Claim("new", None), Keeps("old")>>,
                        !.constants = {"new", "old"}, !.truth.new = n, !.truth.old = o] :
        n \in {Weak, Good}, o \in {Kept, [Kept EXCEPT !.notices = {"src"}]}}
    \cup {[Plain EXCEPT !.acceptance = <<[Keeps("old") EXCEPT !.mutant = "far"]>>,
                        !.truth.old.notices = n, !.finds = f] :
        n \in {{}, {"far"}}, f \in {{"base"}, {"base", "head"}}}

(* The gates of the diff, and what lint says.                               *)
ByDiff ==
    {[Plain EXCEPT !.changed = @ \cup {"cfg"}], [Plain EXCEPT !.touches = {}],
     [Plain EXCEPT !.forbidden = {"src"}, !.protected = {"test"}],
     [Plain EXCEPT !.hidden = {"src"}, !.scans = FALSE, !.gateConfig = {}, !.risk = "elevated"],
     [Plain EXCEPT !.hidden = {"src"}], [Plain EXCEPT !.suppressed = {"src"}],
     [Plain EXCEPT !.large = {"src"}, !.elevateOn = {"src"}],
     [Plain EXCEPT !.large = {"src"}]}
    \cup {[Plain EXCEPT !.lint.head = l, !.advisory = a] :
        l \in {Linted(2, "ruff"), Linted(0, "ruff"), Linted(1, "ruff2"), Linted(0, None), Skip},
        a \in {{}, {"lint", "tests"}}}

(* Edits a lens and a critic ask about after a green suite.                 *)
ByProbe ==
    {[Plain EXCEPT !.probes = p, !.pairs = q, !.runner = r,
                   !.truth = [old |-> [Kept EXCEPT !.notices = {"far"}], new |-> n]] :
        p \in {<<"src", "far">>, <<"far", "src">>, <<"../out", "test", "mod">>},
        q \in {<<>>, <<[witness |-> "new", file |-> "far"], [witness |-> "new", file |-> "src"]>>},
        r \in {Reader, [Reader EXCEPT !.keyed = FALSE, !.enumerates = FALSE]},
        n \in {Good, [Good EXCEPT !.notices = {"src"}]}}

MCTasks == ByTest \cup ByRunner \cup ByTree \cup ByMutant \cup ByDiff \cup ByProbe
=============================================================================
