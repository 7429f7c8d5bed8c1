------------------------------ MODULE Findings ------------------------------
(***************************************************************************)
(* What becomes of one finding: a lens of REVIEW files it, the host        *)
(* anchors it to the diff and asks the tests about its edit, REBUT puts    *)
(* it to the implementer and then to the lens that filed it, and the pull  *)
(* request, the queue and the ledger show what came of it.                 *)
(*                                                                         *)
(* Sessions answer freely: they fail, leave blockers out, name one twice   *)
(* or one nobody asked about.  Money and the cells' own life are           *)
(* CellSession's and CellResources'; how a probe is asked is GateSuite's.  *)
(***************************************************************************)
EXTENDS Integers, FiniteSets, SequencesExt

CONSTANTS
    Tasks,       \* scenarios: what the sessions of a task may say
    Diff, HeadLines, \* the hunks of its diff, and the words of each line at head
    CommonWords,
    SpecText,    \* the lines of the spec a verdict may quote
    Ceiling      \* CRITERION_PROBE_CEILING

ASSUME CeilingAssumption == Ceiling \in Nat \ {0}

VARIABLES
    task, pc,
    reviews,   \* one LensReview per lens that has run
    pairs,     \* the criterion probes and wrong versions still to apply
    rows,      \* the ledger's findings of this task, in position order
    turn,      \* the RebuttalTurn, and whether HEAD moved
    verdicts,  \* one LensVerdicts per lens asked
    state,     \* the task's outcome
    page,      \* what the operator is shown
    said       \* history: what the tests, the implementer and the critics said

vars == <<task, pc, reviews, pairs, rows, turn, verdicts, state, page, said>>

Lenses == <<"correctness", "contract", "adequacy", "conventions">>

None == "none"

Init ==
    /\ task \in Tasks
    /\ pc = "lenses" /\ reviews = <<>> /\ pairs = <<>> /\ verdicts = <<>> /\ state = "REVIEWING"
    /\ rows = [i \in 1..task.earlier |-> [id |-> <<0, i>>, verdict |-> None, rebuttal |-> None]]
    /\ turn = [rebuttals |-> <<>>, error |-> None, moved |-> FALSE, ran |-> FALSE]
    /\ page = [table |-> <<>>, stands |-> {}, unheard |-> {}, concerns |-> 0,
               sustained |-> 0, unkept |-> 0, rank |-> None]
    /\ said = [filed |-> <<>>, probe |-> <<>>, answer |-> <<>>, critic |-> <<>>]

-----------------------------------------------------------------------------
(* Anchoring: a finding must name a line the diff touches, or one that      *)
(* shares an uncommon word with what the diff changed.                      *)

HunkLines(path) ==
    UNION {LET h == Diff[i]
               kept == {r \in DOMAIN h.rows : h.rows[r].sign # "-"}
           IN h.start..(h.start + Cardinality(kept) - 1) :
           i \in {j \in DOMAIN Diff : Diff[j].path = path}}

Tokens ==
    UNION {Diff[i].renamed
           \cup UNION {r.words : r \in {x \in Range(Diff[i].rows) : x.sign # " "}} : i \in DOMAIN Diff}

Anchored(f) ==
    \/ f.line \in HunkLines(f.path)
    \/ /\ f.path \in DOMAIN HeadLines
       /\ f.line \in DOMAIN HeadLines[f.path]
       /\ (Tokens \cap HeadLines[f.path][f.line]) \ CommonWords # {}

Anchor(findings) == [i \in DOMAIN findings |-> [findings[i] EXCEPT !.anchored = Anchored(findings[i])]]

(* A lens cannot mark a finding as the host's: its claim loses the prefix.   *)
FromReport(lens, report) ==
    [i \in DOMAIN report |->
        [lens |-> lens, severity |-> report[i].severity, path |-> report[i].path,
         line |-> report[i].line, probe |-> report[i].probe, witness |-> None, suite |-> None,
         anchored |-> FALSE, verdict |-> None, filed |-> None]]

HostFiled(f) == f.witness # None

SurvivorFinding(c, edit, suite) ==
    [lens |-> "adequacy", severity |-> "blocker", path |-> task.edits[edit].path,
     line |-> task.edits[edit].line, probe |-> edit, witness |-> c.witness, suite |-> suite,
     anchored |-> FALSE, verdict |-> "survived", filed |-> None]

-----------------------------------------------------------------------------
(* Selections over the reviews.  A finding is known by its place <<lens,     *)
(* index>>, as the code keys it by identity.                                *)

At(id) == reviews[id[1]].findings[id[2]]

ReportedOf(rs) == FlattenSeq([i \in DOMAIN rs |-> [j \in DOMAIN rs[i].findings |-> <<i, j>>]])
Reported == ReportedOf(reviews)

(* Variant: the exemption of a host-filed survivor is forgotten.             *)
AnchoredBlockers_NoExemption(rs) ==
    SelectSeq(ReportedOf(rs), LAMBDA id :
        LET f == rs[id[1]].findings[id[2]] IN f.severity = "blocker" /\ f.anchored)

AnchoredBlockers(rs) ==
    SelectSeq(ReportedOf(rs), LAMBDA id :
        LET f == rs[id[1]].findings[id[2]]
        IN f.severity = "blocker" /\ (f.anchored \/ HostFiled(f)))

Blockers == AnchoredBlockers(reviews)

AnchoredConcerns ==
    Cardinality({id \in Range(Reported) : At(id).anchored /\ At(id).severity = "concern"})

AdequacyProbes ==
    {id \in Range(Reported) :
        At(id).lens = "adequacy" /\ At(id).anchored /\ At(id).probe # None}

Errored == {r.lens : r \in {x \in Range(reviews) : x.error}}

(* Variant: a lens that produced nothing counts as one that found nothing.   *)
ReviewState_ErrorIsClean(rs) ==
    IF AnchoredBlockers(rs) # <<>> THEN "REBUTTING" ELSE "READY_FOR_REVIEW"

ReviewState(rs) ==
    CASE \E r \in Range(rs) : r.error -> "REVIEW_INCOMPLETE"
      [] (\A r \in Range(rs) : ~r.error) /\ AnchoredBlockers(rs) # <<>> -> "REBUTTING"
      [] OTHER -> "READY_FOR_REVIEW"

-----------------------------------------------------------------------------
(* REVIEW                                                                    *)

NextLens == Lenses[Len(reviews) + 1]

Reviewed(review, filed) ==
    /\ reviews' = Append(reviews, review)
    /\ said' = [said EXCEPT !.filed = Append(@, filed)]
    /\ pc' = IF Len(reviews') = Len(Lenses) THEN "criteria" ELSE "lenses"
    /\ UNCHANGED <<task, pairs, rows, turn, verdicts, state, page>>

(* A session that failed, or that a re-prompt left off the schema.           *)
LensFails ==
    /\ pc = "lenses" /\ task.fails
    /\ Reviewed([lens |-> NextLens, findings |-> <<>>, error |-> TRUE], <<>>)

RunLens ==
    /\ pc = "lenses"
    /\ \E report \in task.reports[NextLens] :
          Reviewed([lens |-> NextLens, error |-> FALSE,
                    findings |-> Anchor(FromReport(NextLens, report))], report)

(* One session per criterion; each names an edit, or none, per sentence of   *)
(* the claim.  An answer off the schema leaves the entry without probes.     *)
RunCriterionProbes ==
    /\ pc = "criteria"
    /\ \E answers \in [DOMAIN task.acceptance -> task.sentences] :
          LET Asked(i) ==
                  IF Len(answers[i]) \in 1..Ceiling
                  THEN [j \in DOMAIN answers[i] |->
                           [criterion |-> task.acceptance[i], edit |-> answers[i][j]]]
                  ELSE <<>>
          IN pairs' = FlattenSeq([i \in DOMAIN task.acceptance |-> Asked(i)])
    /\ pc' = "versions"
    /\ UNCHANGED <<task, reviews, rows, turn, verdicts, state, page, said>>

(* One session per criterion that declares wrong versions; an answer is      *)
(* paired with its version by position, so a count that differs is no answer. *)
RunWrongVersions ==
    /\ pc = "versions"
    /\ LET declaring == SelectSeq(task.acceptance, LAMBDA c : c.versions > 0)
       IN \E answers \in [DOMAIN declaring -> task.sentences] :
             LET Asked(i) ==
                     IF Len(answers[i]) = declaring[i].versions
                     THEN [j \in DOMAIN answers[i] |->
                              [criterion |-> declaring[i], edit |-> answers[i][j]]]
                     ELSE <<>>
             IN pairs' = pairs \o FlattenSeq([i \in DOMAIN declaring |-> Asked(i)])
    /\ pc' = "probes"
    /\ UNCHANGED <<task, reviews, rows, turn, verdicts, state, page, said>>

(* Variant: a killed edit leaves the severity the lens filed.                *)
ProbeVerdict_KeepsKilled(f, verdict) ==
    [f EXCEPT !.filed = f.severity, !.verdict = verdict,
              !.severity = IF verdict = "survived" THEN "blocker" ELSE @]

ProbeVerdict(f, verdict) ==
    [f EXCEPT !.filed = f.severity, !.verdict = verdict,
              !.severity = CASE verdict = "survived" -> "blocker"
                             [] verdict = "killed"   -> "note"
                             [] OTHER                -> @]

Refused(edit) == task.edits[edit].refused

(* Each distinct edit is asked once and decides every finding that names it. *)
ProbeAdequacy ==
    /\ pc = "probes"
    /\ \E answer \in [{At(id).probe : id \in AdequacyProbes} -> {"survived", "killed", "unproven"}] :
          /\ \A edit \in DOMAIN answer : Refused(edit) => answer[edit] = "unproven"
          /\ reviews' = [i \in DOMAIN reviews |-> [reviews[i] EXCEPT !.findings =
                            [j \in DOMAIN @ |-> IF <<i, j>> \in AdequacyProbes
                                                THEN ProbeVerdict(@[j], answer[@[j].probe])
                                                ELSE @[j]]]]
          /\ said' = [said EXCEPT !.probe = answer]
    /\ pc' = "edits"
    /\ UNCHANGED <<task, pairs, rows, turn, verdicts, state, page>>

(* The witness of an edit stayed green, and what the whole suite then said;  *)
(* the other outcomes are killed, unproven and error.                       *)
Survivals == {"survived", "suite killed", "suite survived"}

ApplyCriterionProbes ==
    /\ pc = "edits"
    /\ \E outcome \in [DOMAIN pairs -> task.outcomes] :
          LET survivors == SelectSeq([k \in DOMAIN pairs |-> k], LAMBDA k : outcome[k] \in Survivals)
              filed == [s \in DOMAIN survivors |->
                            LET k == survivors[s]
                            IN SurvivorFinding(pairs[k].criterion, pairs[k].edit,
                                               IF outcome[k] = "survived" THEN None ELSE outcome[k])]
          IN /\ \A k \in DOMAIN pairs :
                   \/ outcome[k] = "unproven"
                   \/ pairs[k].edit # None /\ ~Refused(pairs[k].edit)
             /\ reviews' = [i \in DOMAIN reviews |->
                               IF Lenses[i] = "adequacy"
                               THEN [reviews[i] EXCEPT !.findings = @ \o Anchor(filed)]
                               ELSE reviews[i]]
    /\ pairs' = <<>> /\ pc' = "record"
    /\ UNCHANGED <<task, rows, turn, verdicts, state, page, said>>

(* record_findings, then review_state.  Positions go on from the findings a  *)
(* task that was resumed already has.                                       *)
RecordFindings ==
    /\ pc = "record"
    /\ rows' = rows \o [k \in DOMAIN Reported |-> [id |-> Reported[k], verdict |-> None, rebuttal |-> None]]
    /\ state' = ReviewState(reviews)
    /\ pc' = IF state' = "REBUTTING" THEN "rebut" ELSE "show"
    /\ UNCHANGED <<task, reviews, pairs, turn, verdicts, page, said>>

-----------------------------------------------------------------------------
(* REBUT.  Blockers are numbered from 1 across the lenses, for the           *)
(* implementer and for each lens alike.                                      *)

Mine(lens) == {n \in DOMAIN Blockers : At(Blockers[n]).lens = lens}

(* Variant: of two answers about one blocker, the last one stands.           *)
FirstAnswers_Last(rebuttals) ==
    [n \in {r.finding : r \in Range(rebuttals)} |->
        Last(SelectSeq(rebuttals, LAMBDA r : r.finding = n)).action]

FirstAnswers(rebuttals) ==
    [n \in {r.finding : r \in Range(rebuttals)} |->
        Head(SelectSeq(rebuttals, LAMBDA r : r.finding = n)).action]

Argued(rebuttals) == \E r \in Range(rebuttals) : r.action = "argued"

Turned(rebuttals, error) ==
    /\ turn' = [turn EXCEPT !.rebuttals = rebuttals, !.error = error]
    /\ said' = [said EXCEPT !.answer = SelectSeq(rebuttals, LAMBDA r : r.finding \in DOMAIN Blockers)]
    /\ pc' = "measure"
    /\ UNCHANGED <<task, reviews, pairs, rows, verdicts, state, page>>

(* The implementer's one attempt, and the turn that records it: either may   *)
(* fail, be cut by its pool, or answer off the schema.                       *)
RebuttalLost ==
    /\ pc = "rebut"
    /\ \E error \in {"failed", "cut", "not the schema"} : Turned(<<>>, error)

Rebuttal ==
    /\ pc = "rebut"
    /\ \E rebuttals \in SeqOf([finding : 1..(Len(Blockers) + 1), action : {"fixed", "argued"}],
                              task.talk) :
          Turned(rebuttals, None)

RebutState(moved, rebuttals, asked) ==
    LET errored == {v \in Range(asked) : v.error # None}
    IN CASE ~moved /\ ~Argued(rebuttals) -> "REBUTTAL_UNJUDGED"
         [] (moved \/ Argued(rebuttals)) /\ errored # {} ->
               IF \E v \in errored : v.error = "never started" THEN "GATE_ERROR"
               ELSE "REBUTTAL_UNJUDGED"
         [] OTHER -> "READY_FOR_REVIEW"

(* HEAD says whether a fix was made.  With none, and no argument, no gate    *)
(* and no lens is asked.                                                     *)
HeadMoved ==
    /\ pc = "measure"
    /\ \E moved \in BOOLEAN :
          /\ turn' = [turn EXCEPT !.moved = moved]
          /\ IF ~moved /\ ~Argued(turn.rebuttals)
             THEN state' = RebutState(moved, turn.rebuttals, <<>>) /\ pc' = "settle"
             ELSE UNCHANGED state /\ pc' = "gates"
    /\ UNCHANGED <<task, reviews, pairs, rows, verdicts, page, said>>

CoreGates == {"revert"}

FormOnly(red) == red # {} /\ red \cap CoreGates = {} /\ red \subseteq task.form

Survived == {n \in DOMAIN Blockers :
               At(Blockers[n]).probe # None /\ At(Blockers[n]).verdict = "survived"}

(* Over a head that moved, each edit that survived REVIEW is asked again, of *)
(* a cell the rebuttal's patch may not enter; what it kills now only exempts *)
(* tests from revert.  Red is EXHAUSTED; red on declared form gates alone    *)
(* earns one repair turn, if the task can pay for it; and red on revert      *)
(* alone, of tests the rebuttal added, is the host's fault where a probe     *)
(* went unheard for infrastructure.                                         *)
RerunGates ==
    /\ pc = "gates"
    /\ LET again == turn.moved /\ Survived # {} IN
       \/ again /\ pc' = "settle" /\ state' \in {"EXHAUSTED", "GATE_ERROR"}
       \/ \E red \in SUBSET {"tests", "format", "revert"}, left \in {{}, {"format"}, {"revert"}},
             funded, aborted, unheard \in BOOLEAN :
          LET repaired == FormOnly(red) /\ funded
              still    == IF repaired THEN left ELSE red
              faulted  == aborted \/ (unheard /\ still = {"revert"})
          IN /\ ~repaired => left = {}
             /\ unheard => again
             /\ state' = IF faulted THEN "GATE_ERROR" ELSE IF still # {} THEN "EXHAUSTED" ELSE state
             /\ pc' = IF faulted \/ still # {} THEN "settle" ELSE "critic"
    /\ UNCHANGED <<task, reviews, pairs, rows, turn, verdicts, page, said>>

(* The critic's cell is seeded from the rebuttal's own patch, which git may  *)
(* refuse or be unable to carry.                                             *)
CriticContainer ==
    /\ pc = "critic"
    /\ \/ pc' = "verdicts" /\ UNCHANGED state
       \/ pc' = "settle" /\ state' \in {"EXHAUSTED", "GATE_ERROR"}
    /\ UNCHANGED <<task, reviews, pairs, rows, turn, verdicts, page, said>>

LensesAsked == SelectSeq(Lenses, LAMBDA lens : Mine(lens) # {})
NextAsked   == LensesAsked[Len(verdicts) + 1]
PoolSpent   == \E v \in Range(verdicts) : v.error = "cut"

Verdicted(given, error) ==
    /\ verdicts' = Append(verdicts, [lens |-> NextAsked, verdicts |-> given, error |-> error])
    /\ pc' = IF Len(verdicts') = Len(LensesAsked) THEN "judge" ELSE "verdicts"
    /\ said' = [said EXCEPT !.critic =
                   @ \o [k \in DOMAIN given |->
                           [id |-> Blockers[given[k].finding], verdict |-> given[k].verdict]]]
    /\ UNCHANGED <<task, reviews, pairs, rows, turn, state, page>>

VerdictLost ==
    /\ pc = "verdicts"
    /\ \E error \in {"failed", "cut", "never started"} :
          (PoolSpent => error = "cut") /\ Verdicted(<<>>, error)

(* A lens must verdict every blocker of its own and no other.                *)
Verdict ==
    /\ pc = "verdicts" /\ ~PoolSpent
    /\ \E given \in SeqOf([finding : DOMAIN Blockers, says : task.says], task.talk) :
          LET flat == [k \in DOMAIN given |->
                          [finding |-> given[k].finding, verdict |-> given[k].says.verdict,
                           rebuttal |-> given[k].says.rebuttal, quote |-> given[k].says.quote]]
          IN IF {v.finding : v \in Range(flat)} = Mine(NextAsked)
             THEN Verdicted(flat, None)
             ELSE Verdicted(<<>>, "not what was asked")

QuotesHold(v) == v.rebuttal \in SpecText /\ v.quote \in SpecText /\ v.rebuttal # v.quote

(* A survivor of a `preserves` criterion: it holds over the whole file.      *)
Guarded ==
    {n \in DOMAIN Blockers :
        \E c \in Range(task.acceptance) : c.preserves /\ c.witness = At(Blockers[n]).witness}

(* Variant: a withdrawal stands whatever the implementer did.                *)
HostKeeps_Never(v) == FALSE

HostKeeps(v) ==
    LET answers == FirstAnswers(turn.rebuttals)
    IN /\ v.verdict = "withdrawn" /\ v.finding \in Guarded
       /\ ~(turn.moved /\ v.finding \in DOMAIN answers /\ answers[v.finding] = "fixed")

Checked(v) ==
    IF (v.verdict = "contradicted" /\ ~QuotesHold(v)) \/ HostKeeps(v)
    THEN [v EXCEPT !.verdict = "confirmed"] ELSE v

Judge ==
    /\ pc = "judge"
    /\ verdicts' = [i \in DOMAIN verdicts |->
                       [verdicts[i] EXCEPT !.verdicts = [k \in DOMAIN @ |-> Checked(@[k])]]]
    /\ state' = RebutState(turn.moved, turn.rebuttals, verdicts')
    /\ pc' = "settle"
    /\ UNCHANGED <<task, reviews, pairs, rows, turn, page, said>>

AllVerdicts == FlattenSeq([i \in DOMAIN verdicts |-> verdicts[i].verdicts])

(* Where two verdicts name one blocker, the last is the one recorded.        *)
Judged(n) ==
    LET about == SelectSeq(AllVerdicts, LAMBDA v : v.finding = n)
    IN IF about = <<>> THEN None ELSE Last(about).verdict

Answered(n) ==
    LET answers == FirstAnswers(turn.rebuttals)
    IN IF n \in DOMAIN answers THEN answers[n] ELSE None

(* Variant: the positions of an earlier cell's findings are not skipped.     *)
RowOf_Restarts(id) == CHOOSE k \in DOMAIN Reported : Reported[k] = id

RowOf(id) == task.earlier + CHOOSE k \in DOMAIN Reported : Reported[k] = id

Cut == /\ state = "REBUTTAL_UNJUDGED"
       /\ IF verdicts = <<>> THEN turn.error = "cut" ELSE PoolSpent

(* The rows REVIEW wrote learn their answers; a REBUT its pool cut settles   *)
(* EXHAUSTED, and hands no result on.                                        *)
Settle ==
    /\ pc = "settle"
    /\ rows' = [k \in DOMAIN rows |->
                   LET mine == {n \in DOMAIN Blockers : RowOf(Blockers[n]) = k}
                   IN IF mine = {} THEN rows[k]
                      ELSE LET n == CHOOSE m \in mine : TRUE
                           IN [rows[k] EXCEPT !.verdict = Judged(n), !.rebuttal = Answered(n)]]
    /\ state' = IF Cut THEN "EXHAUSTED" ELSE state
    /\ turn' = [turn EXCEPT !.ran = ~Cut]
    /\ pc' = "show"
    /\ UNCHANGED <<task, reviews, pairs, verdicts, page, said>>

-----------------------------------------------------------------------------
(* What the operator is shown                                                *)

(* A blocker stands under any verdict that keeps it, beside its first answer. *)
Standing == {v.finding : v \in {x \in Range(AllVerdicts) : x.verdict \in {"confirmed", "contradicted"}}}

(* Variant: only a confirmed verdict keeps a blocker standing.               *)
ConfirmedWith_NoContradicted(action) ==
    Cardinality({n \in {v.finding : v \in {x \in Range(AllVerdicts) : x.verdict = "confirmed"}} :
                    Answered(n) = action})

ConfirmedWith(action) == Cardinality({n \in Standing : Answered(n) = action})

SustainedBlockers ==
    IF ~turn.ran \/ turn.error # None THEN 0 ELSE ConfirmedWith("argued")
UnkeptFixes ==
    IF ~turn.ran \/ turn.error # None \/ turn.moved THEN 0 ELSE ConfirmedWith("fixed")

(* A task REBUT's own pool cut is packaged with its blockers standing.       *)
ExhaustedPackage == state = "EXHAUSTED" /\ ~turn.ran /\ Blockers # <<>>
Packaged         == state = "READY_FOR_REVIEW" \/ ExhaustedPackage

Disagreements ==
    [n \in DOMAIN Blockers |->
        [id |-> Blockers[n],
         implementer |-> IF ~turn.ran THEN None
                         ELSE IF turn.error # None THEN "not recorded" ELSE Answered(n),
         critic |-> IF turn.ran THEN Judged(n) ELSE None]]

(* Not covered: what no diff line anchors reached nobody but this list.      *)
Unheard == {id \in Range(Reported) : ~At(id).anchored} \ Range(Blockers)

Rank ==
    IF state # "READY_FOR_REVIEW" THEN "by state"
    ELSE IF SustainedBlockers + UnkeptFixes > 0 THEN "level 3" ELSE "by risk"

(* The pull request's body and the queue's line.                             *)
Show ==
    /\ pc = "show"
    /\ page' = [table |-> IF Packaged THEN Disagreements ELSE <<>>,
                stands |-> IF ExhaustedPackage THEN Range(Blockers) ELSE {},
                unheard |-> Unheard, concerns |-> AnchoredConcerns,
                sustained |-> SustainedBlockers, unkept |-> UnkeptFixes, rank |-> Rank]
    /\ pc' = "shown"
    /\ UNCHANGED <<task, reviews, pairs, rows, turn, verdicts, state, said>>

Next ==
    \/ LensFails \/ RunLens \/ RunCriterionProbes \/ RunWrongVersions
    \/ ProbeAdequacy \/ ApplyCriterionProbes \/ RecordFindings
    \/ RebuttalLost \/ Rebuttal \/ HeadMoved \/ RerunGates \/ CriticContainer
    \/ VerdictLost \/ Verdict \/ Judge \/ Settle \/ Show

Spec == Init /\ [][Next]_vars

-----------------------------------------------------------------------------
(* Properties                                                                *)

States == {"REVIEWING", "REVIEW_INCOMPLETE", "REBUTTING", "REBUTTAL_UNJUDGED",
           "READY_FOR_REVIEW", "EXHAUSTED", "GATE_ERROR"}
Kinds  == {None, "confirmed", "withdrawn", "contradicted"}

(* Every variable keeps the shape its readers expect.                        *)
TypeOK ==
    /\ task \in Tasks /\ state \in States
    /\ Len(reviews) <= Len(Lenses) /\ \A i \in DOMAIN reviews : reviews[i].lens = Lenses[i]
    /\ \A k \in DOMAIN rows : rows[k].verdict \in Kinds
    /\ \A k \in DOMAIN pairs : pairs[k].edit \in DOMAIN task.edits \cup {None}

LastSaid(id) ==
    LET about == SelectSeq(said.critic, LAMBDA c : c.id = id)
    IN IF about = <<>> THEN None ELSE Last(about).verdict
FirstSaid(id) ==
    LET about == SelectSeq(said.answer, LAMBDA r : Blockers[r.finding] = id)
    IN IF about = <<>> THEN None ELSE about[1].action

(* What a finding weighs, told from what was filed and what the tests said   *)
(* and from nothing the review kept.                                        *)
Blocks(id) ==
    IF id[2] > Len(said.filed[id[1]]) THEN TRUE
    ELSE LET raw == said.filed[id[1]][id[2]]
             asked == Lenses[id[1]] = "adequacy" /\ raw.probe # None
         IN /\ Anchored(raw)
            /\ \/ asked /\ said.probe[raw.probe] = "survived"
               \/ raw.severity = "blocker" /\ ~(asked /\ said.probe[raw.probe] = "killed")

Fixed(id) == turn.moved /\ FirstSaid(id) = "fixed"
Preserves(id) == \E c \in Range(task.acceptance) : c.preserves /\ c.witness = At(id).witness

(* A packaged task hides no blocker.  Its pull request lists exactly what    *)
(* blocks: what a lens filed as a blocker on the diff unless the tests       *)
(* noticed its edit, what they did not notice, and what the host's own edit  *)
(* survived.  A row reads withdrawn only when its own lens's last word was   *)
(* that, and for a survivor of a `preserves` criterion only over a committed *)
(* fix.  A READY_FOR_REVIEW task had every lens deliver and every blocker    *)
(* verdicted; an EXHAUSTED one names them all as standing.                   *)
ReadyIsAccountedFor ==
    pc = "shown" /\ Packaged =>
        /\ Errored = {}
        /\ {row.id : row \in Range(page.table)} = {id \in Range(Reported) : Blocks(id)}
        /\ \A row \in Range(page.table) :
              /\ state = "READY_FOR_REVIEW" <=> row.critic # None
              /\ row.critic = "withdrawn" =>
                     LastSaid(row.id) = "withdrawn" /\ (Preserves(row.id) => Fixed(row.id))
        /\ state = "EXHAUSTED" => page.stands = {row.id : row \in Range(page.table)}
        /\ page.unheard \cap {id \in Range(Reported) : Blocks(id)} = {}

(* A finding's row in the ledger holds what was said about that finding and  *)
(* about no other: the implementer's first answer to its number, and its own *)
(* lens's last verdict, or the host's `confirmed` over it.  A finding that   *)
(* was not put to anyone, an earlier cell's included, keeps an empty row.    *)
RowsSayWhatWasSaid ==
    pc \in {"show", "shown"} =>
        \A k \in DOMAIN rows :
            LET row == rows[k]
                kept == LastSaid(row.id)
            IN /\ row.rebuttal = FirstSaid(row.id)
               /\ row.verdict \in {kept} \cup (IF kept = None THEN {} ELSE {"confirmed"})

(* The morning queue never shows fewer standing blockers than the pull       *)
(* request does: each row the critic kept, beside an argument, or beside a   *)
(* fix when HEAD never moved, is counted, and counted it ranks at level 3.   *)
StandingIsCounted ==
    pc = "shown" =>
        LET rows_(action) ==
                Cardinality({n \in DOMAIN page.table :
                    page.table[n].implementer = action
                    /\ page.table[n].critic \in {"confirmed", "contradicted"}})
        IN /\ rows_("argued") <= page.sustained
           /\ ~turn.moved => rows_("fixed") <= page.unkept
           /\ (state = "READY_FOR_REVIEW" /\ page.sustained + page.unkept > 0)
                 <=> page.rank = "level 3"

=============================================================================
