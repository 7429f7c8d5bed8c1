------------------------------- MODULE Queue -------------------------------
(***************************************************************************)
(* The scan that turns the specs at a pinned base into a queue: which spec *)
(* is worth a cell, which is refused before one starts, in which order the *)
(* rest run, and which tree a cell is cut from.                            *)
(*                                                                         *)
(* A spec id is a number, so that the order of ids as strings is <.  A     *)
(* branch, saffron/<id>, is its spec's id.  A commit is its place in       *)
(* `commits`; 0 is no commit.  A glob is the set of the files it matches,  *)
(* a literal path the singleton.                                           *)
(***************************************************************************)
EXTENDS Integers, Sequences, FiniteSets, SequencesExt, FiniteSetsExt

CONSTANTS
    Repos,    \* the repositories a behaviour may be about
    MaxMoves  \* decisions an operator may take

ASSUME QueueAssumption ==
    /\ MaxMoves \in Nat
    /\ \A r \in Repos :
          /\ r.nights \in Nat /\ r.maxRows \in Nat
          /\ IsFiniteSet(DOMAIN r.specs) /\ DOMAIN r.specs \subseteq Nat \ {0}
          /\ r.live \subseteq DOMAIN r.specs
          /\ \A s \in DOMAIN r.specs :
                /\ r.specs[s].priority \in Int /\ r.specs[s].budget \in Nat
                /\ r.specs[s].deps \in Seq(DOMAIN r.specs)

VARIABLES
    repo,     \* what each spec declares, what policy.yaml protects, the markers; and
              \* the nights and rows a behaviour may have, the specs an operator may run,
              \* the states a cell may end in, and how far a push cut short may have got
    main,     \* the default branch: its specs, those retired, the commits it holds
    base,     \* the default branch as the running process pinned it
    rows,     \* the ledger's task rows, oldest first
    commits,  \* each commit pushed: its spec, and the commits under it
    remote,   \* the head of each spec's branch at the origin
    prs,      \* the pull requests, and whether an operator has ever decided on each
    moves     \* decisions the operator has taken

queueVars == <<repo, main, base, rows, commits, remote, prs, moves>>

Ids        == DOMAIN repo.specs
Declared(s) == repo.specs[s]

DoneStates    == {"READY_FOR_REVIEW", "APPROVED", "MERGE_TRAIN", "MERGED", "MERGE_FAILED",
                  "REJECTED", "EXHAUSTED", "NOT_IMPLEMENTED", "PLAN_REJECTED",
                  "SCOPE_REVIEW", "SPEC_WITHHELD", "SPEC_DRAFTED", "REBUTTAL_UNJUDGED",
                  "REVIEW_INCOMPLETE"}
WaitingStates == {"READY_FOR_REVIEW", "APPROVED", "MERGE_TRAIN", "REBUTTAL_UNJUDGED",
                  "REVIEW_INCOMPLETE"}
RequeueStates == {"CHANGES_REQUESTED", "RATE_LIMITED", "PROVIDER_UNREACHABLE", "GATE_ERROR",
                  "PREFLIGHT_FAILED", "ORPHANED"}
InFlightStates == {"DRAFT", "QUEUED", "DIAGNOSING", "IMPLEMENTING", "GATING", "REPAIRING",
                   "REVIEWING", "REBUTTING"}
-----------------------------------------------------------------------------
(* What the ledger answers: where a spec's rows are, and of those the ones *)
(* made for the text it has now.                                           *)

RowsOf(s)  == {i \in DOMAIN rows : rows[i].spec = s}
RowsNow(s) == {i \in RowsOf(s) : rows[i].text = base.text[s]}

InStates(found, states) == {i \in found : rows[i].state \in states}
Some(found, states)     == InStates(found, states) # {}
Newest(found, states)   == rows[Max(InStates(found, states))]

(* A push of a REBUTTAL_UNJUDGED row counts only when made in that state. *)
StaleUnjudged(row) ==
    row.state = "REBUTTAL_UNJUDGED" /\ row.pushedIn # "REBUTTAL_UNJUDGED"
-----------------------------------------------------------------------------
(* depends_on. *)

DependsOn(s, at) == IF s \in at.live THEN ToSet(Declared(s).deps) ELSE {}

(* Every spec a walk of depends_on reaches, through the specs found at `at`. *)
Reachable(s, at) ==
    LET walk[n \in 0 .. Cardinality(Ids)] ==
            IF n = 0 THEN DependsOn(s, at)
            ELSE walk[n - 1] \union UNION {DependsOn(d, at) : d \in walk[n - 1]}
    IN  walk[Cardinality(Ids)] \ {s}

(* Of `from`, the one whose chain reaches the most of `parents`, the lower *)
(* id on a tie, and the parents its chain does not reach.                  *)
OnChain(s, parents, at) == (Reachable(s, at) \intersect parents) \ {s}

DeepestOpenParent(parents, from, at) ==
    CHOOSE s \in from : \A o \in from :
        LET mine   == Cardinality(OnChain(s, parents, at))
            theirs == Cardinality(OnChain(o, parents, at))
        IN  mine > theirs \/ (mine = theirs /\ s <= o)

OffChain(s, parents, at) == parents \ ({s} \union OnChain(s, parents, at))

(* The parents whose work the ledger, or the base, says has landed. *)
MergedAnywhere ==
    {s \in Ids : Some(RowsOf(s), {"MERGED"})}
      \union {s \in UNION {DependsOn(d, base) : d \in base.live} :
                 \E i \in DOMAIN rows : rows[i].spec = s /\ rows[i].pushed \in base.holds}

DependencyRefused(d) ==
    /\ d \notin MergedAnywhere /\ d \notin base.retired
    /\ d \notin base.live \/ ~Some(RowsNow(d), WaitingStates)

OpenParents(s) == {d \in DependsOn(s, base) : d \notin MergedAnywhere \union base.retired}
-----------------------------------------------------------------------------
(* The other refusals. *)

ProtectedTouch(s) ==
    \/ Declared(s).claude
    \/ \E file \in repo.protected, glob \in Declared(s).touches :
          file \in glob /\ (glob = {file} \/ file \notin Declared(s).forbidden)

UnmatchedCriterionPath(s) ==
    /\ Declared(s).touches # {}
    /\ ~(Declared(s).named \ Declared(s).forbidden \subseteq UNION Declared(s).touches)

RetirementRefused(s) ==
    \E m \in repo.markers :
        /\ m.spec = s
        /\ \/ m.file \in Declared(s).forbidden
           \/ Declared(s).touches # {} /\ m.file \notin UNION Declared(s).touches

OpenPr == {"draft", "ready", "changes"}

(* The open pull requests `gh` lists; one that fails lists none. *)
OpenPrs(answers) == IF answers THEN {k \in DOMAIN prs : prs[k].state \in OpenPr} ELSE {}

OpenPrOnSpec(s, resumes, open) == ~resumes /\ \E k \in open : prs[k].spec = s

OpenPrOverlap(s, open, exempt) ==
    \E k \in open : /\ prs[k].spec # s /\ prs[k].spec \notin exempt
                    /\ Declared(prs[k].spec).changes \intersect UNION Declared(s).touches # {}

(* Two specs clash when one removes a name the other reads and no chain of *)
(* depends_on joins them.  A spec that waits to land holds the candidate,  *)
(* and of two candidates the later is held.                                *)
Clash(a, b, at) ==
    /\ \/ Declared(a).removes \intersect Declared(b).reads # {}
       \/ Declared(b).removes \intersect Declared(a).reads # {}
    /\ a \notin Reachable(b, at) /\ b \notin Reachable(a, at)

(* Variant: what waits on an operator removes nothing. *)
RemovedNameHeld_CandidatesOnly(candidates) ==
    {s \in candidates : \E o \in candidates : Clash(s, o, base) /\ o < s}

RemovedNameHeld(candidates) ==
    {s \in candidates :
        \E o \in base.live \ {s} :
            /\ Clash(s, o, base)
            /\ \/ o \in candidates /\ o < s
               \/ o \notin candidates /\ Some(RowsNow(o), WaitingStates)}

(* The row a candidate resumes: the newest sent back at the text on disk. *)
ResumedRow(s) == IF Some(RowsNow(s), RequeueStates) THEN Newest(RowsNow(s), RequeueStates).id
                 ELSE 0

(* The refusals a candidate earns, in the order they are looked for. *)
Refusals(s, open) ==
    LET looked ==
        << <<ProtectedTouch(s), "protected_touch">>,
           <<OpenPrOnSpec(s, ResumedRow(s) # 0, open), "open_pr_on_spec">>,
           <<OpenPrOverlap(s, open, Reachable(s, base)), "open_pr_overlap">>,
           <<UnmatchedCriterionPath(s), "unmatched_criterion_path">>,
           <<RetirementRefused(s), "retirement_marker">>,
           <<\E d \in DependsOn(s, base) : DependencyRefused(d), "depends_on">>,
           <<LET parents == OpenParents(s)
             IN  /\ parents # {}
                 /\ OffChain(DeepestOpenParent(parents, parents, base), parents, base) # {},
             "depends_on">> >>
    IN  SelectSeq(looked, LAMBDA check : check[1])
-----------------------------------------------------------------------------
(* The queue. *)

Candidates == {s \in base.live : ~Some(RowsNow(s), DoneStates)}

Kept(open) ==
    {s \in Candidates : Refusals(s, open) = <<>> /\ s \notin RemovedNameHeld(Candidates)}

Before(a, b) == \/ Declared(a).priority < Declared(b).priority
                \/ Declared(a).priority = Declared(b).priority /\ a < b

First(specs) == CHOOSE s \in specs : \A o \in specs \ {s} : Before(s, o)

(* The specs offered; the order they are taken in is Before. *)
BuildQueue(open) == Kept(open)
-----------------------------------------------------------------------------
(* The tree a cell is cut from, as run_task resolves it. *)

Holds(head) == IF head = 0 THEN {} ELSE {head} \union commits[head].under

Unstacked       == [refused |-> FALSE, head |-> 0]
StackingRefused == [refused |-> TRUE, head |-> 0]

Stackable(asksGh) == WaitingStates \union (IF asksGh THEN {"CHANGES_REQUESTED"} ELSE {})

ParentLanded(p, at) ==
    \/ Some(RowsOf(p), {"MERGED"})
    \/ p \in at.retired
    \/ \E i \in DOMAIN rows : rows[i].spec = p /\ rows[i].pushed \in at.holds

(* The fetched head of the branch a row pushed, 0 when it pushed nothing or *)
(* the branch is gone.                                                      *)
FetchParentHead(row) == IF row.pushed = 0 THEN 0 ELSE remote[row.spec]

ResolveOneParent(p, at, asksGh) ==
    IF \/ ~Some(RowsOf(p), Stackable(asksGh))
       \/ asksGh /\ rows[Max(RowsOf(p))].state \in {"MERGED", "REJECTED"}
    THEN Unstacked
    ELSE LET row == Newest(RowsOf(p), Stackable(asksGh))
         IN  IF StaleUnjudged(row) /\ ~ParentLanded(p, at) THEN StackingRefused
             ELSE [refused |-> FALSE, head |-> FetchParentHead(row)]

ResolveManyParents(deps, at, asksGh) ==
    LET open   == {d \in deps : ~ParentLanded(d, at) /\ Some(RowsOf(d), Stackable(asksGh))}
        row(d) == Newest(RowsOf(d), Stackable(asksGh))
        chosen == DeepestOpenParent(open, open, at)
        head   == FetchParentHead(row(chosen))
        apart  == {d \in open : FetchParentHead(row(d)) \notin Holds(head) \union {0}}
    IN  CASE open = {} -> Unstacked
          [] open # {} /\ (\/ \E d \in open : StaleUnjudged(row(d))
                           \/ OffChain(chosen, open, at) # {}
                           \/ head # 0 /\ apart # {}) -> StackingRefused
          [] OTHER -> [refused |-> FALSE, head |-> head]

(* Variant: the first open parent, whatever the others. *)
ResolveStackedOn_First(s, at, asksGh) ==
    LET deps == ToSet(Declared(s).deps)
    IN  IF deps = {} THEN Unstacked ELSE ResolveOneParent(Min(deps), at, asksGh)

ResolveStackedOn(s, at, asksGh) ==
    LET deps == ToSet(Declared(s).deps)
    IN  CASE deps = {} -> Unstacked
          [] Cardinality(deps) = 1 -> ResolveOneParent(CHOOSE d \in deps : TRUE, at, asksGh)
          [] OTHER -> ResolveManyParents(deps, at, asksGh)
-----------------------------------------------------------------------------
(* What GitHub decided, brought to the rows. *)

Pending   == {"READY_FOR_REVIEW", "APPROVED", "CHANGES_REQUESTED"}
MergeOnly == {"EXHAUSTED", "NOT_IMPLEMENTED", "REBUTTAL_UNJUDGED"}

NextState(row, asked) ==
    LET pr == prs[row.pr].state IN
    IF ~asked \/ row.pr = 0 \/ row.state \notin Pending \union MergeOnly THEN row.state
    ELSE IF pr = "merged" THEN "MERGED"
    ELSE IF row.state \in MergeOnly THEN row.state
    ELSE CASE pr = "closed"  -> "REJECTED"
           [] pr = "changes" -> "CHANGES_REQUESTED"
           [] pr = "ready"   -> "APPROVED"
           [] OTHER          -> row.state

(* Variant: every scan stamps what is in flight. *)
Reconciled_StampsAlways(specs, asked, stamp) ==
    [i \in DOMAIN rows |->
        CASE rows[i].spec \notin specs -> rows[i]
          [] rows[i].spec \in specs /\ rows[i].state \in InFlightStates ->
                [rows[i] EXCEPT !.state = "ORPHANED"]
          [] OTHER -> [rows[i] EXCEPT !.state = NextState(rows[i], asked)]]

(* reconcile over the rows of `specs`.  Only a batch's opening scan stamps *)
(* the rows in flight: it takes them for what a dead batch left.           *)
Reconciled(specs, asked, stamp) ==
    [i \in DOMAIN rows |->
        IF rows[i].spec \notin specs THEN rows[i]
        ELSE IF stamp /\ rows[i].state \in InFlightStates
        THEN [rows[i] EXCEPT !.state = "ORPHANED"]
        ELSE [rows[i] EXCEPT !.state = NextState(rows[i], asked)]]
-----------------------------------------------------------------------------
(* What a cell and its PACKAGE leave. *)

(* A row minted for `s`, its tree cut from `head` or, with none, from `at`. *)
NewRow(s, at, head) ==
    [id |-> Len(rows) + 1, spec |-> s, text |-> at.text[s], state |-> "IMPLEMENTING",
     pushed |-> 0, pushedIn |-> "none", pr |-> 0, tree |-> at.holds \union Holds(head)]

(* How far the branch, its record and its pull request got before the cell *)
(* was over.  Each step is of use without the next: a branch moved and not *)
(* recorded, a pull request opened that no row names.                      *)
Reaches == {"nothing", "pushed", "recorded", "opened", "linked"}

Pushes(end)  == end.reach # "nothing"
Records(end) == end.reach \in {"recorded", "opened", "linked"}
Opens(end)   == end.reach \in {"opened", "linked"}
Links(end)   == end.reach = "linked"

(* The pull request of a branch is used again while it is open. *)
PrOf(s) == {k \in DOMAIN prs : prs[k].spec = s /\ prs[k].state \in OpenPr}

(* push_unpackaged_work leaves alone a branch that another row of its spec *)
(* waits on, and one whose head no row of its spec recorded.               *)
MayPushUnpackaged(id) ==
    LET s == rows[id].spec IN
    /\ \A i \in RowsOf(s) \ {id} :
          /\ rows[i].state # "READY_FOR_REVIEW"
          /\ rows[i].state \in {"EXHAUSTED", "CHANGES_REQUESTED", "APPROVED",
                               "REBUTTAL_UNJUDGED"} => rows[i].pr = 0
    /\ remote[s] \in {0} \union {rows[i].pushed : i \in RowsOf(s)}

(* A pull request that is open goes back to a draft, decided on or not. *)
CellSettles(id, end) ==
    LET row    == rows[id]
        s      == row.spec
        commit == Len(commits) + 1
        pr     == IF PrOf(s) # {} THEN Min(PrOf(s)) ELSE Len(prs) + 1
    IN  /\ rows' = [rows EXCEPT
              ![id] = [row EXCEPT !.state = end.state,
                                  !.pushed = IF Records(end) THEN commit ELSE row.pushed,
                                  !.pushedIn = IF Records(end) THEN end.state ELSE row.pushedIn,
                                  !.pr = IF Links(end) THEN pr ELSE row.pr]]
        /\ IF Pushes(end)
           THEN /\ commits' = Append(commits, [spec |-> s, under |-> row.tree])
                /\ remote' = [remote EXCEPT ![s] = commit]
           ELSE UNCHANGED <<commits, remote>>
        /\ prs' = CASE ~Opens(end) -> prs
                    [] Opens(end) /\ pr > Len(prs) ->
                          Append(prs, [spec |-> s, state |-> "draft", decided |-> FALSE])
                    [] OTHER -> [prs EXCEPT ![pr].state = "draft"]
-----------------------------------------------------------------------------
(* The operator, who decides while a night runs. *)

Moves(decides) ==
    /\ moves < MaxMoves /\ moves' = moves + 1
    /\ decides
    /\ UNCHANGED <<repo, base, rows, commits>>

Decided(pr, decision) == [pr EXCEPT !.state = decision, !.decided = TRUE]

Decide(k, decision) ==
    /\ prs[k].state \in OpenPr \ {decision}
    /\ prs' = [prs EXCEPT ![k] = Decided(@, decision)]
    /\ UNCHANGED <<main, remote>>

(* Merged from the bottom of its stack up, the branch deleted or kept. *)
Merge(k, deleted) ==
    LET head == remote[prs[k].spec] IN
    /\ prs[k].state \in {"draft", "ready"} /\ head # 0
    /\ commits[head].under \subseteq main.holds
    /\ prs' = [prs EXCEPT ![k] = Decided(@, "merged")]
    /\ main' = [main EXCEPT !.holds = @ \union {head}]
    /\ remote' = IF deleted THEN [remote EXCEPT ![prs[k].spec] = 0] ELSE remote

(* Given up: a branch deleted closes the pull request opened from it. *)
Abandon(s) ==
    /\ remote[s] # 0
    /\ prs' = [k \in DOMAIN prs |-> IF k \in PrOf(s) THEN Decided(prs[k], "closed") ELSE prs[k]]
    /\ remote' = [remote EXCEPT ![s] = 0]
    /\ UNCHANGED main

EditSpec(s) == /\ s \in main.live
               /\ main' = [main EXCEPT !.text[s] = @ + 1]
               /\ UNCHANGED <<prs, remote>>

RetireSpec(s) == /\ s \in main.live
                 /\ main' = [main EXCEPT !.live = @ \ {s}, !.retired = @ \union {s}]
                 /\ UNCHANGED <<prs, remote>>

OperatorMoves ==
    Moves(\/ \E k \in DOMAIN prs : \/ \E d \in {"ready", "changes"} : Decide(k, d)
                                   \/ \E deleted \in BOOLEAN : Merge(k, deleted)
          \/ \E s \in Ids : Abandon(s) \/ EditSpec(s) \/ RetireSpec(s))

QueueInit ==
    /\ repo \in Repos
    /\ main = [text |-> [s \in Ids |-> 1], live |-> repo.live, retired |-> repo.retired,
               holds |-> {}]
    /\ base = main
    /\ rows = <<>> /\ commits = <<>> /\ prs = <<>> /\ moves = 0
    /\ remote = [s \in Ids |-> 0]
=============================================================================
