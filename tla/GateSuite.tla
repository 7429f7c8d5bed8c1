----------------------------- MODULE GateSuite -----------------------------
(***************************************************************************)
(* One task's gate suite, run on its base and on its head, and the cells   *)
(* that then ask the head about the edits a lens or a critic named.        *)
(*                                                                         *)
(* The suite measures a worktree and changes it to measure it: `witness`   *)
(* applies a mutant, `revert` takes the source back to the base, and each  *)
(* puts it back.  Between the two, a command in the cell may fail, an      *)
(* answer may be lost, and the agent may have left uncommitted work.  What *)
(* the repository's tests would say of each tree is the scenario's         *)
(* `truth`; the gates know only what the `tests` gate answers.             *)
(***************************************************************************)
EXTENDS Gates

CONSTANTS
    Tasks,    \* a diff, a spec, a policy, a runner and what the tests would say
    MaxFaults \* commands that fail and answers that are lost, in one behaviour

VARIABLES
    task, side,  \* the scenario; "base" or "head"
    pc,
    work,        \* per path of the worktree: as at HEAD, or how it differs
    faults,
    results,     \* of the suite that is running
    baseline,    \* of the suite at the base
    doing,       \* a gate's own place in its criteria, and its worktree mutation
    verdict,     \* the comparison
    asked        \* the probes answered, and the answer of the head they are read against

vars == <<task, side, pc, work, faults, results, baseline, doing, verdict, asked>>

Files  == {"src", "mod", "del", "far", "test", "cfg", "note", "artifact"}
Stray  == "--deselect"  \* a collected line that reads as an option
Outside == "../out"    \* a path that leaves the worktree

(* What a test may say of a tree: it passes, it fails, or it is not there.  *)
Saying == {"pass", "fail", "gone"}

(* A test's name, and a criterion's witness, is none of the words the model  *)
(* sets apart, lint lists no tests, an edit is asked of a criterion of the   *)
(* spec, and a repository declares no core gate's name.                      *)
ASSUME GateSuiteAssumption ==
    /\ MaxFaults \in Nat
    /\ \A t \in Tasks :
          /\ IsFiniteSet(DOMAIN t.truth)
          /\ DOMAIN t.truth \cap ({Stray, None, "AssertionError"} \cup Unreported) = {}
          /\ \A n \in DOMAIN t.truth :
                t.truth[n] \in [base : Saying, head : Saying, without : Saying, edited : Saying,
                               notices : SUBSET Files]
          /\ t.runner \in [enumerates : BOOLEAN, keyed : BOOLEAN, lists : BOOLEAN,
                           subset : {"honoured", "ignored", "refused"}]
          /\ \A s \in {"base", "head"} :
                /\ t.lint[s].collected = Unreported
                /\ t.lint[s].status \in {"pass", "fail", "skip", "error"}
          /\ t.acceptance \in Seq([witness : STRING, preserves : BOOLEAN,
                                   mutant : Files \cup {None, Outside}, subject : Files \cup {None}])
          /\ \A i \in DOMAIN t.acceptance : t.acceptance[i].witness \notin {Stray, "lens", "suite"}
          /\ t.changed \subseteq Files \ {"note", "artifact"} /\ t.edits \subseteq Files
          /\ t.advisory \subseteq Declared /\ t.stray \in BOOLEAN
          /\ t.probes \in Seq(Files \cup {Outside})
          /\ t.pairs \in Seq([witness : STRING, file : Files \cup {Outside}])
          /\ \A i \in DOMAIN t.pairs :
                \E j \in DOMAIN t.acceptance : t.acceptance[j].witness = t.pairs[i].witness

Clean  == [f \in Files |-> "HEAD"]
Dirty  == {f \in Files : work[f] # "HEAD"}

Idle == [left |-> <<>>, died |-> 0, survived |-> EmptyBag, subset |-> {}, source |-> {},
         raised |-> FALSE, answer |-> NotRun]

Unjudged == [aborted |-> {}, drift |-> {}, new |-> {}]

Init ==
    /\ task \in Tasks
    /\ side = "base" /\ pc = "declared" /\ work = Clean /\ faults = 0
    /\ results = [g \in Declared \cup CoreGates |-> NotRun]
    /\ baseline = results /\ doing = Idle /\ verdict = Unjudged
    /\ asked = [left |-> <<>>, pairs |-> <<>>, answered |-> {}, before |-> NotRun]

(* The members of s that are in S, in their order. *)
Selected(s, S) ==
    LET upTo[i \in 0 .. Len(s)] ==
            IF i = 0 THEN <<>>
            ELSE upTo[i - 1] \o (IF s[i] \in S THEN <<s[i]>> ELSE <<>>)
    IN  upTo[Len(s)]

Changed == IF side = "base" THEN {} ELSE task.changed
Criterias == {task.acceptance[i] : i \in DOMAIN task.acceptance}

-----------------------------------------------------------------------------
(* The repository's `tests` gate, external: what it answers on a tree.      *)

Outcome(n, tree) ==
    LET b    == task.truth[n]
        here == IF side = "base" THEN b.base
                ELSE IF \E f \in Files : tree[f] = "base" THEN b.without
                ELSE IF tree["src"] = "edited" THEN b.edited ELSE b.head
    IN IF here = "pass" /\ \E f \in b.notices : tree[f] = "mutated" THEN "fail" ELSE here

(* `handed` empty is the whole suite.  A runner may refuse a subset, or run  *)
(* everything anyway; may key failures on a type; may list what it could not *)
(* collect, where another answers nothing when a handed name is missing.    *)
Answer(tree, handed) ==
    LET r       == task.runner
        here    == {n \in DOMAIN task.truth : Outcome(n, tree) # "gone"}
        printed == here \cup (IF task.stray /\ side = "head" THEN {Stray} ELSE {})
        whole   == handed = {} \/ r.subset = "ignored"
        ran     == IF whole THEN printed ELSE IF Stray \in handed THEN {} ELSE handed \cap here
        failing == {n \in ran \cap here : Outcome(n, tree) = "fail"}
        broken  == /\ ~whole
                   /\ (r.subset = "refused" \/ (handed \ printed # {} /\ ~r.lists))
    IN IF broken THEN [fate |-> "answered", exit |-> 1, result |-> Result("error", None, EmptyBag)]
       ELSE [fate |-> "answered", exit |-> IF failing = {} THEN 0 ELSE 1,
             result |->
                [status |-> IF failing = {} THEN "pass" ELSE "fail", tool |-> "pytest",
                 failures |-> IF r.keyed THEN SetToBag({Failure("test", n) : n \in failing})
                              ELSE IF failing = {} THEN EmptyBag
                              ELSE [f \in {Failure("test", "AssertionError")} |-> Cardinality(failing)],
                 collected |-> IF r.enumerates THEN ran ELSE Unreported,
                 uncollected |-> IF r.lists /\ ~whole THEN handed \ here ELSE Unreported]]

(* An answer may never come, or come from a run that died after it.         *)
Fated(raw, fate) ==
    IF fate = "crashed" THEN [raw EXCEPT !.exit = 1] ELSE [raw EXCEPT !.fate = fate]

Fates == {"answered", "lost", "crashed", "raised"}

Strikes(fate) == IF fate = "answered" THEN 0 ELSE 1

Strike(n) == faults + n <= MaxFaults /\ faults' = faults + n

Lint == [fate |-> "answered", exit |-> IF task.lint[side].failures = EmptyBag THEN 0 ELSE 1,
         result |-> task.lint[side]]

-----------------------------------------------------------------------------
(* run_suite: the declared gates, which may leave an artifact behind.  An    *)
(* exec the runtime refuses raises out of the suite.                        *)
DeclaredGates ==
    /\ pc = "declared"
    /\ \E fate \in [Declared -> Fates] :
        /\ Strike(Strikes(fate["tests"]) + Strikes(fate["lint"]))
        /\ work' = IF side \in task.litter THEN [work EXCEPT !["artifact"] = "edited"] ELSE work
        /\ IF \E g \in Declared : fate[g] = "raised"
           THEN pc' = "raised" /\ UNCHANGED results
           ELSE /\ results' = [results EXCEPT
                     !["tests"] = RunGate(Fated(Answer(work, {}), fate["tests"])),
                     !["lint"]  = RunGate(Fated(Lint, fate["lint"]))]
                /\ pc' = "witness"
    /\ UNCHANGED <<task, side, baseline, doing, verdict, asked>>

(* The spec's criteria, and one more for each whose witness names a constant *)
(* the diff adds.                                                           *)
Derived ==
    IF side = "base" THEN <<>>
    ELSE LET naming == Selected(task.acceptance, {c \in Criterias : c.witness \in task.constants})
         IN [i \in DOMAIN naming |-> [naming[i] EXCEPT !.mutant = "src", !.preserves = FALSE]]

Mutants(criteria) == {criteria[i] : i \in {j \in DOMAIN criteria : criteria[j].mutant # None}}

WithMutant ==
    LET criteria == task.acceptance \o Derived IN Selected(criteria, Mutants(criteria))

ArgvSafe(names) == names \ {Stray}

ProbeAttempts == 3

Answered(gate, result, next) ==
    /\ results' = [results EXCEPT ![gate] = result]
    /\ doing' = Idle /\ pc' = next

(* run_witness: whether the runner answers for one name, and for it alone,   *)
(* before anything is applied.                                              *)
OpenWitness ==
    /\ pc = "witness"
    /\ LET known      == results["tests"].collected
           candidates == IF known = Unreported THEN {} ELSE ArgvSafe(known)
       IN \E tried \in 0 .. ProbeAttempts : \E name \in candidates \cup {None} :
            LET probe == Answer(work, {name}).result
            IN /\ tried <= Cardinality(candidates)
               /\ name = None <=> tried \in {ProbeAttempts, Cardinality(candidates)}
               /\ IF WithMutant = <<>> \/ name = None \/ probe.status = "error"
                     \/ probe.collected = Unreported \/ ~(probe.collected \subseteq {name})
                  THEN Answered("witness", Skip, "revert")
                  ELSE /\ doing' = [Idle EXCEPT !.left = WithMutant]
                       /\ pc' = "apply" /\ UNCHANGED results
               /\ IF WithMutant = <<>> \/ candidates = {} THEN tried = 0 /\ UNCHANGED faults
                  ELSE Strike(tried)
    /\ UNCHANGED <<task, side, work, baseline, verdict, asked>>

(* Variant: the undo is trusted to restore a file that is not at HEAD.      *)
MutantRefused_Tracked(file) == file \in {Outside, "note", "artifact"} \/ side \notin task.finds

(* source_mutated's refusals, which leave the tree as it was.               *)
MutantRefused(file) ==
    \/ file \in {Outside, "note", "artifact"}  \* not a path the tree tracks
    \/ file = IF side = "base" THEN "mod" ELSE "del"
    \/ work[file] # "HEAD"
    \/ side \notin task.finds

(* The next criterion: passed over where its witness is not there or its     *)
(* mutant does not apply; else the mutant is written.                       *)
ApplyMutant ==
    /\ pc = "apply" /\ doing.left # <<>>
    /\ LET c == Head(doing.left) IN
        \/ /\ (c.witness \notin results["tests"].collected \/ MutantRefused(c.mutant))
           /\ doing' = [doing EXCEPT !.left = Tail(@)]
           /\ UNCHANGED <<work, results, pc, faults>>
        \/ /\ c.witness \in results["tests"].collected /\ ~MutantRefused(c.mutant)
           /\ \/ /\ work' = [work EXCEPT ![c.mutant] = "mutated"]
                 /\ pc' = "ask" /\ UNCHANGED <<doing, results, faults>>
              \/ \E restored \in BOOLEAN :  \* the write failed
                 /\ Strike(1)
                 /\ work' = IF restored THEN work ELSE [work EXCEPT ![c.mutant] = "mutated"]
                 /\ Answered("witness", Broke, "revert")
    /\ UNCHANGED <<task, side, baseline, verdict, asked>>

(* The witness alone under its mutant, then the undo: an exit code is not    *)
(* trusted, the bytes are compared.                                         *)
AskWitness ==
    /\ pc = "ask"
    /\ \E fate \in Fates, undone \in BOOLEAN :
        LET c   == Head(doing.left)
            ans == IF fate = "raised" THEN Broke
                   ELSE RunGate(Fated(Answer(work, {c.witness}), fate))
        IN /\ Strike(Strikes(fate) + (IF undone THEN 0 ELSE 1))
           /\ work' = IF undone THEN [work EXCEPT ![c.mutant] = "HEAD"] ELSE work
           /\ IF ~undone \/ ans.status = "error" THEN Answered("witness", Broke, "revert")
              ELSE /\ doing' = [doing EXCEPT !.left = Tail(@),
                        !.died = IF ans.status = "fail" THEN @ + 1 ELSE @,
                        !.survived = IF ans.status = "pass"
                            THEN @ (+) SetToBag({Failure(c.witness, "survived-mutant")}) ELSE @]
                   /\ pc' = "apply" /\ UNCHANGED results
    /\ UNCHANGED <<task, side, baseline, verdict, asked>>

CloseWitness ==
    /\ pc = "apply" /\ doing.left = <<>>
    /\ Answered("witness",
         IF doing.survived # EmptyBag THEN Result("fail", "pytest", doing.survived)
         ELSE IF doing.died > 0 THEN Result("pass", "pytest", EmptyBag) ELSE Skip, "revert")
    /\ UNCHANGED <<task, side, work, faults, baseline, verdict, asked>>

-----------------------------------------------------------------------------
(* revert_gate: the new tests, with the diff's source taken back.           *)

Preserved == {c.witness : c \in {d \in Criterias : d.preserves}}
Witnesses == {c.witness : c \in Criterias}
NewTests  ==
    LET before == Collected(baseline)
        after  == Collected([g \in Declared |-> results[g]])
    IN ((after \ before) \cup (Witnesses \cap after)) \ Preserved

Source == Changed \ task.testPaths

(* A witness whose mutant's file the diff never touched, and whose declared  *)
(* subject it never reached, is set aside.                                  *)
Aside ==
    {c.witness : c \in {d \in Criterias :
        /\ d.mutant # None /\ d.mutant \notin Source \cup task.testPaths
        /\ d.subject = None \/ d.subject \notin Source \cup task.testPaths}}

(* Variant: a name is handed on as it was collected.                        *)
Handed_AsCollected(candidates) == candidates \ Aside

Handed(candidates) == ArgvSafe(candidates) \ Aside

OpenRevert ==
    /\ pc = "revert"
    /\ LET subset == Handed(NewTests \ (IF side = "head" THEN task.exempt ELSE {}))
           unread == \/ side = "base"  \* the baseline has no prior
                     \/ Unreported \in {Collected(baseline),
                                        Collected([g \in Declared |-> results[g]])}
       IN IF \/ unread
             \/ subset = {} \/ task.testPaths = {} \/ Source = {}
             \/ Dirty \cap Source # {}
          THEN Answered("revert", Skip, "core")
          ELSE /\ doing' = [Idle EXCEPT !.subset = subset, !.source = Source]
               /\ pc' = "checkout" /\ UNCHANGED results
    /\ UNCHANGED <<task, side, work, faults, baseline, verdict, asked>>

(* _revert_source: a checkout of what the base has, a removal of what it has *)
(* not; either may fail, and what was done before it stands.                *)
RevertSource ==
    /\ pc = "checkout"
    /\ \E failing \in {None, "checkout", "rm"} :
        LET added == doing.source \cap {"mod"}
            done  == CASE failing = None       -> doing.source
                       [] failing = "checkout" -> {}
                       [] failing = "rm"       -> doing.source \ added
        IN /\ failing = "rm" => added # {}
           /\ failing = "checkout" => doing.source # added
           /\ Strike(IF failing = None THEN 0 ELSE 1)
           /\ work' = [f \in Files |-> IF f \in done THEN "base" ELSE work[f]]
           /\ doing' = [doing EXCEPT !.raised = failing # None]
           /\ pc' = IF failing = None THEN "rerun" ELSE "restore"
    /\ UNCHANGED <<task, side, results, baseline, verdict, asked>>

RunReverted ==
    /\ pc = "rerun"
    /\ \E fate \in Fates :
        /\ Strike(Strikes(fate))
        /\ doing' = [doing EXCEPT !.answer =
              IF fate = "raised" THEN NotRun
              ELSE RunGate(Fated(Answer(work, doing.subset), fate))]
    /\ pc' = "restore"
    /\ UNCHANGED <<task, side, work, results, baseline, verdict, asked>>

(* The reading of the reverted run.                                         *)
RevertVerdict(answer, subset) ==
    LET failed == Codes(answer)
        listed == IF answer.uncollected = Unreported THEN {} ELSE answer.uncollected \cap subset
        ran    == answer.collected
    IN IF answer = NotRun THEN Broke
       ELSE IF ~Ran(answer) \/ ran = Unreported THEN Skip
       ELSE IF answer.uncollected # Unreported
               /\ (subset \ (ran \cup listed)) \cup (ran \cap listed \cap subset) # {} THEN Broke
       ELSE IF failed # {} /\ failed \cap (ran \cup listed) = {} THEN Skip
       ELSE [Verdict({Failure(n, "passed-without-source") : n \in (subset \cap ran) \ failed})
             EXCEPT !.tool = answer.tool]

(* Variant: a restore that exits 0 is believed.                             *)
RestoreRaises_ByExit(left) == FALSE

(* _restore_source ends in a status of its paths.                           *)
RestoreRaises(left) == left # {}

RestoreSource ==
    /\ pc = "restore"
    /\ \E left \in SUBSET {f \in doing.source : work[f] = "base"} :
        /\ Strike(IF left = {} THEN 0 ELSE 1)
        /\ work' = [f \in Files |-> IF f \in doing.source \ left THEN "HEAD" ELSE work[f]]
        /\ Answered("revert",
             IF doing.raised \/ RestoreRaises(left) THEN Broke
             ELSE RevertVerdict(doing.answer, doing.subset), "core")
    /\ UNCHANGED <<task, side, baseline, verdict, asked>>

-----------------------------------------------------------------------------
(* The gates that execute nothing, read last, off the tree as it now is.    *)
Complete ==
    LET tier    == EffectiveRisk(task, Changed)
        partial == [results EXCEPT
            !["scope"]     = Scope(task, Changed),
            !["integrity"] = Integrity(task, Changed),
            !["size"]      = Size(task, Changed, "size" \notin Advisory(task, tier)),
            !["committed"] = Committed(Dirty)]
        prior   == IF side = "base" THEN [g \in {} |-> NotRun] ELSE baseline
    IN [partial EXCEPT
            !["census"]   = Census(prior, partial),
            !["criteria"] = Criteria(Criterias, prior, partial)]

(* What a head suite runs on: the worktree after the agent's turns, or a     *)
(* Gate-only cell at the exported patch or the packaged commit.             *)
HeadTrees ==
    {[f \in Files |-> IF f \in task.edits THEN "edited" ELSE work[f]], Clean}

(* An errored baseline ends a cell's preflight, and a package.              *)
EndBaseline ==
    /\ pc = "core" /\ side = "base"
    /\ baseline' = Complete
    /\ results' = [g \in DOMAIN results |-> NotRun]
    /\ IF Aborted(Complete) # {} THEN pc' = "raised" /\ UNCHANGED <<side, work>>
       ELSE /\ side' = "head" /\ pc' = "declared"
            /\ work' \in HeadTrees
    /\ UNCHANGED <<task, faults, doing, verdict, asked>>

Judged ==
    /\ pc = "core" /\ side = "head"
    /\ results' = Complete
    /\ verdict' = Compare(Complete, baseline,
                          Advisory(task, EffectiveRisk(task, Changed)))
    /\ pc' = "judged"
    /\ UNCHANGED <<task, side, work, faults, baseline, doing, asked>>

-----------------------------------------------------------------------------
(* probe_findings, after a green comparison: a Gate-only cell of its own at   *)
(* the exported patch, whose own clean run every edit is read against.       *)

Refused(file) == file = Outside \/ task.testPaths = {} \/ file \in task.testPaths

Decided(file, kind, answer) == [file |-> file, kind |-> kind, answer |-> answer]

Unproven(files) == {Decided(files[i], "lens", "unproven") : i \in DOMAIN files}

OpenProbes ==
    /\ pc = "judged" /\ IsGreen(verdict)
    /\ \E fate \in {"answered", "lost", "raised"} :
        LET files == Selected(task.probes, {f \in Files : ~Refused(f)})
        IN /\ Strike(IF files = <<>> THEN 0 ELSE Strikes(fate))
           /\ files = <<>> => fate = "answered"
           /\ work' = Clean
           /\ asked' = [left |-> IF fate = "raised" THEN <<>> ELSE files,
                        pairs |-> task.pairs,
                        answered |-> {Decided(f, "lens", "unproven") :
                            f \in {g \in {task.probes[i] : i \in DOMAIN task.probes} : Refused(g)}}
                            \cup (IF fate = "raised" THEN Unproven(files) ELSE {}),
                        before |-> RunGate(Fated(Answer(Clean, {}), fate))]
    /\ pc' = "probing"
    /\ UNCHANGED <<task, side, results, baseline, doing, verdict>>

(* Variant: a probe that raised is passed over, and the next one asked.     *)
AfterRaise_Next(rest) == rest

(* The tree is in an unknown state: nothing after a raise is asked.         *)
AfterRaise(rest) == <<>>

LensProbe ==
    /\ pc = "probing" /\ asked.left # <<>>
    /\ LET file    == Head(asked.left)
           tree    == [work EXCEPT ![file] = "mutated"]
           counted == AddedTests(baseline["tests"], asked.before)
       IN \/ /\ ~Ran(asked.before) \/ MutantRefused(file)
             /\ asked' = [asked EXCEPT !.left = Tail(@),
                            !.answered = @ \cup {Decided(file, "lens", "unproven")}]
             /\ UNCHANGED <<work, faults>>
          \/ /\ Ran(asked.before) /\ ~MutantRefused(file)
             /\ \E fate \in Fates, undone \in BOOLEAN :
                /\ Strike(Strikes(fate) + (IF undone THEN 0 ELSE 1))
                /\ work' = IF undone THEN work ELSE tree
                /\ asked' =
                     IF ~undone \/ fate = "raised"
                     THEN [asked EXCEPT !.left = AfterRaise(Tail(@)),
                             !.answered = @ \cup
                                 (Unproven(asked.left) \ Unproven(AfterRaise(Tail(asked.left))))
                                 \cup {Decided(file, "lens", "unproven")}]
                     ELSE [asked EXCEPT !.left = Tail(@),
                             !.answered = @ \cup {Decided(file, "lens",
                                 CheckProbe(asked.before,
                                            RunGate(Fated(Answer(tree, {}), fate)), counted))}]
    /\ UNCHANGED <<task, side, pc, results, baseline, doing, verdict>>

(* _apply_criterion_probes, in a cell of its own: each edit asked of its     *)
(* criterion's witness alone.                                               *)
OpenCriterionProbes ==
    /\ pc = "probing" /\ asked.left = <<>>
    /\ \E entered \in BOOLEAN :
        /\ Strike(IF entered THEN 0 ELSE 1)
        /\ work' = Clean
        /\ asked' = [asked EXCEPT !.pairs =
              IF entered THEN Selected(@, {@[i] : i \in {j \in DOMAIN @ : ~Refused(@[j].file)}})
              ELSE <<>>]
    /\ pc' = "criteria"
    /\ UNCHANGED <<task, side, results, baseline, doing, verdict>>

CriterionProbe ==
    /\ pc = "criteria" /\ asked.pairs # <<>>
    /\ LET pair == Head(asked.pairs)
           tree == [work EXCEPT ![pair.file] = "mutated"]
           says(answer) == [asked EXCEPT
                              !.pairs = IF answer = "survived" THEN @ ELSE Tail(@),
                              !.answered = @ \cup {Decided(pair.file, pair.witness, answer)}]
       IN \/ /\ \/ MutantRefused(pair.file)
                \/ /\ results["tests"].collected # Unreported
                   /\ pair.witness \notin results["tests"].collected
             /\ asked' = says("unproven") /\ UNCHANGED <<pc, work, faults>>
          \/ /\ ~MutantRefused(pair.file)
             /\ \/ results["tests"].collected = Unreported
                \/ pair.witness \in results["tests"].collected
             /\ \E fate \in Fates, undone \in BOOLEAN :
                /\ Strike(Strikes(fate) + (IF undone THEN 0 ELSE 1))
                /\ work' = IF undone THEN work ELSE tree
                /\ LET ans    == RunGate(Fated(Answer(tree, {pair.witness}), fate))
                       answer == CASE ans.status = "fail"  -> "killed"
                                   [] ans.status = "pass"  -> "survived"
                                   [] ans.status = "error" -> "error"
                   IN IF ~undone \/ fate = "raised"
                      THEN asked' = [says("error") EXCEPT !.pairs = AfterRaise(@)] /\ UNCHANGED pc
                      ELSE /\ asked' = says(answer)
                           /\ pc' = IF answer = "survived" THEN "survived" ELSE pc
    /\ UNCHANGED <<task, side, results, baseline, doing, verdict>>

(* A survivor's line is read, at HEAD, where the edit was just made; then    *)
(* the edit is asked a second time, of the whole suite, against the one that *)
(* judged the head, which answered, and all it collected.  A raise ends the  *)
(* asking, and one of the second ask leaves the first answer standing.      *)
SuiteProbe ==
    /\ pc = "survived" /\ pc' = "criteria"
    /\ LET pair   == Head(asked.pairs)
           tree   == [work EXCEPT ![pair.file] = "mutated"]
           before == results["tests"]
           said(answer) == Decided(pair.file, pair.witness, answer)
       IN \/ /\ Strike(1) /\ UNCHANGED work
             /\ asked' = [asked EXCEPT !.pairs = AfterRaise(Tail(@)),
                   !.answered = (@ \ {said("survived")}) \cup {said("error")}]
          \/ \E fate \in Fates, undone \in BOOLEAN :
             /\ Strike(Strikes(fate) + (IF undone THEN 0 ELSE 1))
             /\ work' = IF undone THEN work ELSE tree
             /\ asked' =
                  IF ~undone \/ fate = "raised"
                  THEN [asked EXCEPT !.pairs = AfterRaise(Tail(@))]
                  ELSE [asked EXCEPT !.pairs = Tail(@),
                          !.answered = @ \cup {Decided(pair.file, "suite",
                              CheckProbe(before, RunGate(Fated(Answer(tree, {}), fate)),
                                         before.collected))}]
    /\ UNCHANGED <<task, side, results, baseline, doing, verdict>>

Next ==
    \/ DeclaredGates \/ OpenWitness \/ ApplyMutant \/ AskWitness \/ CloseWitness
    \/ OpenRevert \/ RevertSource \/ RunReverted \/ RestoreSource
    \/ EndBaseline \/ Judged
    \/ OpenProbes \/ LensProbe \/ OpenCriterionProbes \/ CriterionProbe \/ SuiteProbe

Spec == Init /\ [][Next]_vars
-----------------------------------------------------------------------------
(* What the tests say of the trees themselves.                              *)

Says(n, tree) == IF n \in DOMAIN task.truth THEN task.truth[n][tree] ELSE "gone"

Notices(n, file) == n \in DOMAIN task.truth /\ file \in task.truth[n].notices

HeadSays(n) == Says(n, IF work["src"] = "edited" THEN "edited" ELSE "head")

(* A runner whose answers can be read: it enumerates and keys failures on    *)
(* the names it enumerates.                                                 *)
Readable == task.runner.enumerates /\ task.runner.keyed

(* What revert asks of: a new test or a criterion's witness that the head    *)
(* has, bar the preserved, the exempt and those whose mutant the diff       *)
(* cannot reach.                                                            *)
Claims(n) ==
    /\ HeadSays(n) # "gone"
    /\ Says(n, "base") = "gone" \/ n \in Witnesses
    /\ n \notin Preserved \cup task.exempt \cup Aside

(* A green comparison means what the repository is told it means: the work   *)
(* is committed, no test the base had is gone or newly fails, each           *)
(* criterion's witness passes and did (or, preserved, did already) at the    *)
(* base, and, no command having failed, no new test passes without its       *)
(* source and no witness survives its mutant.  Where the runner cannot be    *)
(* read or asked for one test, the last are not promised.                   *)
GreenIsSound ==
    pc = "judged" /\ IsGreen(verdict) =>
        /\ Dirty \subseteq {"artifact"}
        /\ task.runner.enumerates =>
              \A n \in DOMAIN task.truth : Says(n, "base") # "gone" => Says(n, "head") # "gone"
        /\ "tests" \notin task.advisory /\ task.runner.keyed =>
              \A n \in DOMAIN task.truth : Says(n, "head") = "fail" => Says(n, "base") = "fail"
        /\ Readable => \A c \in Criterias :
              Says(c.witness, "head") = "pass" /\ (c.preserves <=> Says(c.witness, "base") = "pass")
        /\ faults = 0 /\ Readable /\ task.runner.subset = "honoured" =>
              /\ \A i \in DOMAIN WithMutant :
                    \/ MutantRefused(WithMutant[i].mutant)
                    \/ Notices(WithMutant[i].witness, WithMutant[i].mutant)
              /\ task.testPaths # {} /\ Source # {} =>
                    \/ \E n \in DOMAIN task.truth :
                          Claims(n) /\ Says(n, "without") = "gone" /\ ~task.runner.lists
                    \/ \A n \in DOMAIN task.truth : Claims(n) => Says(n, "without") # "pass"

(* What a task is blamed for is its own doing, whatever failed under the     *)
(* suite: no path the suite itself left changed, no test that was already    *)
(* red, no witness that died or test that fails without its source.         *)
BlameIsFair ==
    pc = "judged" => \A blame \in verdict.new :
        LET name == blame[2].file IN
        CASE blame[1] = "committed" -> name \in task.edits \cup {"artifact"}
          [] blame[1] = "census"    -> Says(name, "base") # "gone" /\ HeadSays(name) = "gone"
          [] blame[1] = "tests"     ->
               task.runner.keyed => HeadSays(blame[2].code) = "fail"
                                    /\ Says(blame[2].code, "base") # "fail"
          [] blame[1] = "criteria"  -> \E c \in Criterias : c.witness = name /\
               ~(HeadSays(name) = "pass" /\ (c.preserves <=> Says(name, "base") = "pass"))
          [] blame[1] = "revert"    -> Says(name, "without") = "pass" /\ Claims(name)
          [] blame[1] = "witness"   -> \E i \in DOMAIN WithMutant :
               WithMutant[i].witness = name /\ ~Notices(name, WithMutant[i].mutant)
          [] OTHER                  -> TRUE

(* No step of a suite overwrites work the agent has not committed: not the   *)
(* mutant's undo, nor revert's checkout of the base and then of HEAD.       *)
EditsStand ==
    [][pc \notin {"core", "judged"} =>
        \A f \in Files : work[f] = "edited" => work'[f] = "edited"]_vars

(* A probe's answer is about its own edit: a kill is a test the diff added,  *)
(* that notices this edit; a survivor is an edit no added test notices, and  *)
(* a criterion's is one its own witness does not.  The second ask speaks of  *)
(* any test the head passes.                                                *)
ProbeSaysWhatItSaw ==
    \A d \in asked.answered :
        LET killers == {n \in DOMAIN task.truth :
              /\ CASE d.kind = "lens"  -> Says(n, "base") = "gone"
                   [] d.kind = "suite" -> TRUE
                   [] OTHER            -> n = d.kind
              /\ Says(n, "head") = "pass" /\ Notices(n, d.file)}
        IN /\ d.answer \in {"killed", "survived"} => ~Refused(d.file)
           /\ d.kind \in {"lens", "suite"} \/ (Readable /\ task.runner.subset = "honoured") =>
                 /\ d.answer = "killed" => killers # {}
                 /\ d.answer = "survived" => killers = {}
=============================================================================
