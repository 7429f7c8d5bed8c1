------------------------------- MODULE Gates -------------------------------
(***************************************************************************)
(* The gates of one suite as functions of what they read: `run_gate`'s     *)
(* verdict on a raw answer, the core gates over the diff, the worktree's   *)
(* status and the enumerating gates' results, and the comparison of a      *)
(* suite with its baseline.                                                *)
(*                                                                         *)
(* A name, a path and a failure's code are opaque, as they are in core.  A *)
(* result's failures are a bag of identities: `identity` collapses two of  *)
(* one file, code and normalised message, and the subtraction counts them. *)
(***************************************************************************)
EXTENDS Naturals, Sequences, FiniteSets, Bags

Declared  == {"tests", "lint"}
CoreGates == {"scope", "integrity", "size", "witness", "revert", "committed", "census",
              "criteria"}

None       == "none"
Unreported == {"(unreported)"}  \* `collected` and `uncollected` where they are null

Result(status, tool, failures) ==
    [status |-> status, tool |-> tool, failures |-> failures,
     collected |-> Unreported, uncollected |-> Unreported]

Failure(file, code) == [file |-> file, code |-> code]

Skip       == Result("skip", None, EmptyBag)
Broke      == Result("error", None, EmptyBag)
NotRun     == Result("not run", None, EmptyBag)
Verdict(failures) ==
    Result(IF failures = {} THEN "pass" ELSE "fail", None, SetToBag(failures))

Ran(result) == result.status \in {"pass", "fail"}

(* run_gate: a parsed answer is believed whatever the exit code, but for the *)
(* ways a gate reports a result it did not produce.                         *)
RunGate(raw) ==
    IF \/ raw.fate = "lost"
       \/ Ran(raw.result) /\ raw.result.tool = None
       \/ raw.exit # 0 /\ raw.result.failures = EmptyBag
    THEN Broke ELSE raw.result

-----------------------------------------------------------------------------
(* Gates over the diff.  A path is in `touches`, `forbidden`, ... when one   *)
(* of the patterns matches it.                                              *)

EffectiveRisk(t, changed) ==
    IF t.risk = "elevated" \/ changed \cap t.elevateOn # {} THEN "elevated" ELSE t.risk

Advisory(t, tier) == t.advisory \cup (IF tier = "elevated" THEN {} ELSE {"size"})

Scope(t, changed) ==
    IF t.touches = {} THEN Skip
    ELSE Verdict({Failure(f, "out-of-scope") : f \in changed \ t.touches}
                 \cup {Failure(f, "forbidden") : f \in changed \cap t.forbidden}
                 \cup {Failure(f, "protected") : f \in changed \cap t.protected})

Integrity(t, changed) ==
    LET readable == changed \ t.hidden IN
    IF ~t.scans /\ t.gateConfig = {} THEN Skip
    ELSE IF changed \cap t.hidden \cap t.touches # {} THEN Broke
    ELSE Verdict({Failure(f, "gate-config-changed") :
                     f \in (readable \cap t.gateConfig) \ t.touches}
                 \cup {Failure(f, "added-suppression") :
                     f \in IF t.scans THEN readable \cap t.suppressed ELSE {}})

Size(t, changed, blocking) ==
    IF blocking /\ \E f \in changed \cap t.hidden : t.touches = {} \/ f \in t.touches THEN Broke
    ELSE Verdict({Failure("", "diff-too-large") :
                     f \in (changed \cap t.large) \ (t.hidden \cup t.testPaths)})

Committed(dirty) == Verdict({Failure(f, "uncommitted-change") : f \in dirty})

-----------------------------------------------------------------------------
(* Gates over the two suites' enumerations.                                 *)

Enumerating(results) == {g \in DOMAIN results : results[g].collected # Unreported}

Collected(results) ==
    IF Enumerating(results) = {} THEN Unreported
    ELSE UNION {results[g].collected : g \in Enumerating(results)}

Census(base, head) ==
    IF Collected(base) = Unreported THEN Skip
    ELSE IF Collected(head) = Unreported THEN Broke
    ELSE Verdict({Failure(n, "removed-test") : n \in Collected(base) \ Collected(head)})

Codes(result) == {f.code : f \in BagToSet(result.failures)}
Failed(results) == UNION {Codes(results[g]) : g \in Enumerating(results)}

(* `_side` found no enumeration, or failures keyed on something else.       *)
Unreadable(results) ==
    \/ Collected(results) = Unreported
    \/ Failed(results) # {} /\ Failed(results) \cap Collected(results) = {}

Green(results, witness) == witness \in Collected(results) \ Failed(results)

(* Variant: a witness that was green already proves the change.             *)
Judge_AnyBase(c, base, head) ==
    IF c.witness \notin Collected(head) THEN "witness-not-collected"
    ELSE IF ~Green(head, c.witness) THEN "witness-failed"
    ELSE IF c.preserves /\ ~Green(base, c.witness) THEN "witness-not-preserved"
    ELSE None

Judge(c, base, head) ==
    IF c.witness \notin Collected(head) THEN "witness-not-collected"
    ELSE IF ~Green(head, c.witness) THEN "witness-failed"
    ELSE IF c.preserves
         THEN IF Green(base, c.witness) THEN None ELSE "witness-not-preserved"
    ELSE IF Green(base, c.witness) THEN "witness-green-at-base" ELSE None

Criteria(criteria, base, head) ==
    IF criteria = {} \/ Unreadable(base) \/ Unreadable(head) THEN Skip
    ELSE Verdict({Failure(c.witness, Judge(c, base, head)) :
                     c \in {d \in criteria : Judge(d, base, head) # None}})

-----------------------------------------------------------------------------
(* The comparison.                                                          *)

Aborted(results) == {g \in DOMAIN results : results[g].status = "error"}

SuiteDrift(head, base) ==
    {g \in DOMAIN head :
        IF Ran(base[g]) /\ Ran(head[g]) THEN base[g].tool # head[g].tool
        ELSE base[g].status # "skip" /\ head[g].status = "skip"}

(* Variant: a survivor the base had too is forgiven.                        *)
Cancelling_Survivors(gate, failures) == failures

(* The baseline failures that cancel one at head: not a surviving mutant,   *)
(* which the spec asked this task to kill.                                  *)
Cancelling(gate, failures) ==
    [f \in {g \in BagToSet(failures) : ~(gate = "witness" /\ g.code = "survived-mutant")}
        |-> failures[f]]

NewFailures(head, base) ==
    [g \in DOMAIN head |-> head[g].failures (-) Cancelling(g, base[g].failures)]

(* `_compare`: what at most one of three outcomes holds, and beside them    *)
(* the failures of a gate held advisory.                                    *)
Compare(head, base, advisory) ==
    LET aborted == Aborted(head)
        drift   == IF aborted = {} THEN SuiteDrift(head, base) ELSE {}
        new     == [g \in DOMAIN head |-> IF aborted \cup drift # {} THEN EmptyBag
                                          ELSE NewFailures(head, base)[g]]
    IN [aborted |-> aborted, drift |-> drift,
        new |-> UNION {{<<g, f>> : f \in BagToSet(new[g])} : g \in DOMAIN new \ advisory}]

IsGreen(v) == v.aborted = {} /\ v.drift = {} /\ v.new = {}

-----------------------------------------------------------------------------
(* A probe's verdict: one edit against one run of the whole `tests` gate.   *)

(* Variant: every name collected is counted, as if the diff added it.       *)
AddedTests_All(base, head) == head.collected

(* The names a kill counts against; Unreported where neither side says.     *)
AddedTests(base, head) ==
    IF Unreported \in {base.collected, head.collected} THEN Unreported
    ELSE head.collected \ base.collected

NoLongerCollected(base, mutated) ==
    IF Unreported \in {base.collected, mutated.collected} THEN {}
    ELSE base.collected \ mutated.collected

CheckProbe(base, mutated, counted) ==
    LET new        == {f.code : f \in BagToSet(mutated.failures (-) base.failures)}
        recognised == counted \cup
                      (IF mutated.collected = Unreported THEN {} ELSE mutated.collected)
    IN IF \/ ~Ran(mutated) \/ NoLongerCollected(base, mutated) # {} THEN "unproven"
       ELSE IF new = {} THEN "survived"
       ELSE IF counted = Unreported \/ new \cap recognised = {} THEN "unproven"
       ELSE IF new \cap counted # {} THEN "killed" ELSE "survived"
=============================================================================
