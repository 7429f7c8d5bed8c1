# Saffron, specified

Saffron runs a coding agent on spec files overnight. Each spec becomes a task; a task
runs in a cell (a container with a worktree, a network of its own and an egress proxy),
is driven through gates, repair, review and rebuttal, and leaves as a draft pull request
that a person decides on. A ledger (SQLite) holds what happened, and a record on
`refs/saffron/*` holds it a second time, so that the ledger can be rebuilt.

This directory holds TLA+ modules of that system, the TLC configurations that check them
and TLAPS proofs about them. Paths below are in `saffron/` of the repository unless they
say otherwise. `PROJECT.json` maps every definition to the lines it models, lists every
run with its properties, and pairs each property with a plausible bug that the run would
catch (`..._Variant` operators next to the definition they would replace).

## 1. The system

| Component | State it keeps | Operations | What makes it correct |
|---|---|---|---|
| Cell session (`cell/session.py`, `phases/implement.py`, `review.py`, `rebut.py`) | a task's row and run, a spend tally, REBUT's pools, the worktree's HEAD | preflight, plan and re-prompt, implement, salvage, gate/repair, notes, gate cell, lenses, rebuttal, verdicts, settle, abort | spend reported = spend booked; no more than its ceilings; only judged, green work is handed on; the row and run it leaves agree with its answer |
| Cell resources (`cell/session.py` `cell_up`, `cell_down`, `critic_cell`; `cell/proxy.py`, `runtime.py`, `worktree.py`) | networks, volumes, containers that exist; the leak ledger `created` | pre-clean, create, remove, report survivors | nothing left behind unreported; a run starts whatever an earlier one left |
| Ledger and record (`ledger.py`, `record/*`, `repos/mirror.py`) | a task's rows, its ref in the mirror and at the origin, the keys kept for the exit push | commit then append, recover, push, fold, migrate | a fold gives back the rows; a ref is never rewound; numbers are never reused |
| Delivery (`phases/package.py`, `task.py`, `reconcile.py`) | the spec's rows, its task directory, branch and pull requests | export, package, push unpackaged work, `saffron package`, reconcile | what is shipped is this cell's; no foreign head is overwritten; decisions reach the row |
| Batch loop (`batch.py`) | the batch row, what has started, the abort count, what is in flight | offer, run, attach, wait, stop | never past its budget and one overshoot; ends; every run is charged once; says how it ended |
| Queue scan (`scheduler.py`, `intake.py`) | none, reads rows and specs | `build_queue` | a child's tree holds its parents; what waits on an operator holds what it clashes with |
| Gates (`gates/*`, `probe.py`) | the worktree they mutate and restore, the stored baseline | run a suite, subtract the baseline, probe the head | green means the change was tested; blame falls on the task's own failures; edits survive the measuring |
| Findings (`phases/review.py`, `rebut.py`, `agents/findings.py`, `report/*`) | the lenses' reviews, a task's finding rows | file, anchor, probe, rebut, verdict, show | no blocker is dropped unseen; a row holds what was said of its own finding |
| Events and watch (`events.py`, `watch.py`) | `events.jsonl` | append a line; resume reading | no line skipped, repeated or read half |
| Spec chain (`draft.py`, `spec_review.py`, `spec_citations.py`) | spec texts and findings in the ledger | write, review, revise, review | a bounded number of rounds; what runs was reviewed |
| Stack's end (`end_review.py`, `finish.py`, `follow_up.py`, `qualify.py`) | end-review, layer, qualification and finish rows; the heads it fetched | lenses per layer, follow-up specs, findings.json, finishing layer | a layer is judged by its own change; one head throughout; every qualified finding is followed up or pooled |
| The rest: preflight, credentials, re-gate, replay, reports, view, projection, chain walk, contexts, artifacts, policy, images, `cli.py`, `harness/`, `hooks/`, `ontology/` | little or none | probes, scans, rendering | functional |

**How they meet.** `cli.py` opens a ledger with a `RoutedRecord` and calls
`task.run_task` (once, or through `batch.run_batch`). `run_task` calls
`session.run_one_cell`, which calls the runtime, the worktree and the phases
synchronously and writes the ledger as it goes; every ledger write is a commit, then an
append to the task's ref in the mirror, and some writes push the ref. `run_task` then
calls `package` (green) or, for other ends, `push_unpackaged_work`. `reconcile` runs at
the start of `queue`, `batch` and on its own. Nothing is threaded inside one command
apart from the viewer's HTTP server. Concurrency comes from *other processes*: two
commands on one ledger, another host on the origin's refs, the operator on GitHub, the
agent inside the cell, and what an earlier, killed process left behind.

**What is hard.** Kills between any two of those synchronous steps; an exception
unwinding through `finally` and `except` clauses that write state; money that is counted
in three places; names (networks, a branch, a task directory) shared by every run of one
spec; rows read before a slow outside call and written after it; two histories, the rows
and the ref, that must agree. `PROJECT.json` "hazards" lists them with their lines and
the property that covers each, or why none does yet.

## 2. Modules

| Module | Models | Lines of TLA+ |
|---|---|---|
| `CellSession` | one cell from `cell_up` to its closed run | 852 |
| `CellSessionProofs` | proofs: types, the accounts, what is handed on, the ceilings | 2615 |
| `CellResources` | what runs of one spec create and remove | 310 |
| `CellResourcesProofs` | proofs: leaks are reported, the orders suffice | 1633 |
| `LedgerRecord` | one task's rows, mirror and origin | 410 |
| `LedgerRecordProofs` | proofs: the refs are histories, what a fold and a migration give | 4637 |
| `Delivery` | one spec's cells, branch and pull requests | 384 |
| `DeliveryProofs` | proofs: whose work is pushed, what reaches the rows | 3638 |
| `Batch` | abstract: what a night of either kind promises | 53 |
| `Queue` | the scan: which specs run, in what order, over which tree | 367 |
| `Night` | `saffron batch`: the loop, the operator, a cell beside it; extends `Queue`, implements `Batch` | 420 |
| `NightProofs` | proofs: every run counted, the live row, a sound end, removals, the parents under a child, the refinement | 4542 |
| `SpecReview` | what a spec review's or writer's turns come to, and its route | 63 |
| `StackNight` | `saffron batch --stack` and `saffron finish`; extends `SpecReview`, implements `Batch` | 630 |
| `StackNightProofs` | proofs: the chain, the texts, the money, the refinement | 4676 |
| `EndReview` | a stack's end over branches that move; extends `SpecReview` | 606 |
| `EndReviewProofs` | proofs: whose change a range is, one head, where each finding went | 5032 |
| `Gates` | the gates as functions, and the comparison with a baseline | 174 |
| `GateSuite` | a suite on a base and on a head, and the probe cells; extends `Gates` | 586 |
| `GateSuiteProofs` | proofs: the tree a suite measures, what green and blame mean, the probes | 4535 |
| `Findings` | a review's findings, from lens to ledger row and pull request | 542 |
| `MC...` | the modules TLC is run on: the scenarios and bounds | |

### CellSession

One action per stretch of `_drive_cell` between two points where something else can
decide the outcome: a turn of the agent, a suite, a host operation that can fail. `pc`
is the place in the function. `row` and `run` are `tasks.state` and `runs.status`.
`booked` is `ledger.task_spend`, the sum over the attempt rows; `spent` is the local
tally; `frame` is cost a phase holds before it returns (the plan checkpoint's,
REVIEW's); `pool` is `_RebutCap`. `head` counts commits, and `planned`, `judged`,
`green`, `before` and `exported` name the commit each stage worked from. The agent is
nondeterministic: a turn costs anything up to its own cap and an overshoot, or fails and
is charged the figure `_reconcile_cost` carries; it may commit, and may leave edits. A
suite answers `green`, `broken` (an error or a drift) or one of `RedSuites`; `FormRed`
are those that fail in declared form gates alone. `RateLimited` is the exception
`stop_on_rejected` raises inside any turn, `Abort` anything else that escapes,
`HandlerRaises` an exception inside a handler.

Money is whole dollars. A turn's own ceiling is `TurnCap`, computed where the code
computes `max_budget_usd`.

### CellResources

`calls` is the rest of the runtime calls of the stretch being run, in the code's order:
`cell_up`'s pre-clean, creates and starts, `cell_down`'s teardown, a short-lived (critic
or gate) cell's own. A removal of a network with a container on it is refused, as the
runtime refuses it; any other removal or create may fail too, and a create that fails
may have left the resource. `balked` records that a removal which could have been made
was refused, so that a property can ask what the code's own orders achieve with a
runtime that does as it is told. `created` is the leak ledger, `reached` what the run
really got to, `survived` what was reported. `Kill` stops a run between any two calls
and `Rerun` starts the spec again on what is left.

### LedgerRecord

`rows` are one task's ledger rows; `mirror` and `origin` its ref in the two places, a
sequence of facts. A write is `Commit` (the row) and then `AppendFact` (the ref), two
steps as in `_commit_and_append`, by a process of `Procs`. `Folded` is `fold_task`: the
facts through `Apply`, one after the other. `Attempts`, `Findings` and `Texts` are the
facts migrate reads off the rows, in the order of their numbers. A write's number
(attempt, text, finding position) is computed from the rows as the code computes it.
`Mishaps` says what may go wrong: `crash`, `appendFails`, `pushFails`, `mirrorLost`,
`ledgerLost` (the ledger is deleted and folded again) and `elsewhere` (another host's
push). `diverged` records that one of these has cut the rows from the ref.

### Delivery

`rows` are the task rows of one spec, `dir` whose files stand in its task directory,
`branch` and `commits` the remote branch, `prs` its pull requests. `job` is where
`run_task` (`"cell"`) and `saffron package` (`"command"`) are; `scan` is a reconcile
under way with the rows it read. The operator pushes, readies, requests changes, closes
and merges at any time. `Mishaps`: `kill`, `exportFails`, `noUrl` (gh opens the pull
request and prints no URL), `ghFails`, `together` (`saffron package` while a cell of the
spec runs). `IN_FLIGHT_STATES` are one state, `REVIEWING`, since delivery never tells
them apart.

### Queue and Night

`repo` is what each spec declares and what the repository protects; a glob is the set of
files it matches. `base` is the default branch as the running process pinned it, `main`
what it is now. `BuildQueue` is `build_queue`: one operator per refusal
(`_dependency_refusal`, protected paths, markers, overlaps, removed names and so on), then
the specs that remain as a set, taken in the order `Before`. `Reconciled` is a reconcile;
only a batch's opening one stamps rows in flight. `ResolveStackedOn` is where a cell is
cut from. In `Night`, `drive` is what `_drive` keeps in memory and dies with a kill, its
`pending` a set likewise; `runs` are the ledger's runs, RUNNING, COMPLETE or ABORTED, of
which `attended` ones come from a `saffron cell` run beside the night.

A cell is one step of `Night`, with its delivery: an end is a state, a run's status and how
far delivery `reach`ed (nothing, the branch pushed, the push recorded, a pull request
opened, the row linked to it), and `CellSettles` writes what it leaves. `Returned` are the
ends of `run_task`: any state the repository's `ends` name, pushed or not, by PACKAGE or,
where `MayPushUnpackaged`, by `push_unpackaged_work`. `Raised` are the raises: in the cell;
in PACKAGE, at any of the repository's `stops`; and in the push or the queue line that
follow a settled state. An interruption ends as a raise does. A kill leaves a settled row
wherever its delivery had got to or, before the row settles, one in flight (`CutShort`) over
a branch moved or not. A `saffron cell` beside the night ends in all the same ways.

### Batch

The abstract night: `status` of its row, what its runs were `charged`, and the work it
`left` in flight or unpackaged. The step that ends or kills a night may charge it too, for
the cell it cut short. `Night` and `StackNight` both implement it
(`Promise == INSTANCE Batch WITH ...`, the property `KeepsItsPromise`). `charged` and
`left` are computed from the ledger's rows, not from what the loop believes, so the
refinement is where the loop's own accounts are checked.

### SpecReview and StackNight

`SpecReview` is pure: a session is a sequence of turns, and `RouteOf` the route it earns.
`StackNight` is `run_stack_batch`: `plan` is an order with its dependencies, what its
sessions may say and what may fail; `drive` again is memory, with what `remaining` of the
order as a set (the order is the plan's, and no list of the code's is ever in another);
`task` the ledger's row of each spec, its texts, its latest review, whether one of its
reviews `decided` on it, and the tree its cell was cut over; `layers` the `stack_layers`
rows; `spend` what was charged; `tail` what the end review and follow-ups left. With
`defer`, `ResumeTail` is `saffron finish`. A cell is one step, and so is each lens; the
end's own details are `EndReview`'s.

### EndReview

The same tail in full, over branches that an operator pushes to, rewrites, restacks,
merges and deletes while it runs. A commit is the set of the changes it contains, itself
among them: ancestry is inclusion, a range a difference. A branch is rewritten at most
once, a bound. `remote` are the branches, `night` the process with the heads it has
fetched (`fetched`, `main`) and the ranges it resolved (`fields`), `rows` the layers and
qualifications, `said` what each lens read and reported, `tail` what was pooled, minted,
filed and pushed. The ranges to qualify are a set, taken in the order `Before`; the groups
that one range opens, and what is pooled at the end, come in any order, which no property
tells apart. Every fetch is a step of its own, so branches move between any two of them.

### Gates and GateSuite

`Gates` is pure: `run_gate`'s verdict on a raw answer, the eight core gates, and
`Cancelling`, `SuiteDrift` and the comparison with a baseline, failures being a bag of
identities. `GateSuite` runs them in the suite's order on a worktree (`work`) that
`witness`, `revert` and the probes mutate and restore, command by command; up to
`MaxFaults` commands fail or answers are lost. An edit that survives its criterion's
witness is asked a second time, of the whole suite (`SuiteProbe`). What the tests would say of any tree is the
scenario's `truth`, which the code never sees and the properties compare with. Every
scenario declares a `tests` gate.

### Findings

Four lenses file findings; `Anchored` is the diff's test of each; criterion and
wrong-version probes ask the tests about edits; REBUT's answers and verdicts come back
under blocker numbers, any number any times. Over a head the rebuttal moved, the edits that
had survived are asked again before the gates are. `rows` are the ledger's findings, `page`
what the pull request and the queue show, `said` the history the properties are about. A
scenario's `talk` bounds how many entries one answer has, and `Ceiling` 2 stands for the
code's 16.

## 3. Runs

"v" marks a run that TLC must find violated; section 5 says what each shows.

| Run | Module | Question | Bounds | States |
|---|---|---|---|---|
| `cell_money` | CellSession | is every dollar counted, capped and reserved, and does every cell end? | Budget 2, overshoot 1, two attempts, one lens, one probe session, a resumed start | 1.7 M |
| `cell_control` | CellSession | is what is handed on judged, and what is written settled in order? | Budget 1, two attempts, commits 0 or 1, edits left or not, exceptions anywhere | 7.1 M |
| `resources` | CellResources | is everything left behind reported, and can a run's own orders be followed? | three runs, two short-lived cells each; any removal or create may fail, a kill between any two calls | 6.9 M |
| `record` | LedgerRecord | is the ref a history, pushed and never rewound, and does it fold to the rows? | one command, four writes, every mishap | 0.86 M |
| `delivery` | Delivery | whose work is on the branch, and do decisions reach the rows? | two cells, two commits, kills, failing gh, lost URLs; a command only after the cell | 5.6 M |
| `delivery_stale_patch` (v) | Delivery | does a row's push carry its own cell's patch? | two cells, three commits, no mishap | |
| `night` | Night | does a night keep its promise, count every run, cut each cell over the right tree? | seven repositories of one to six specs, up to three rows and two nights, one operator decision | 1.2 M |
| `night_merged_parent` (v) | Night | is a parent recorded MERGED in its child's tree? | the same | |
| `stack_night` | StackNight | is the stack a chain of reviewed texts, within budget, and does the night end? | seven orders of two or three specs; budget 12, reserve 3, writer's share 3, two revision rounds | 0.39 M |
| `end_review` | EndReview | is each layer judged by its own change, at one head, and no finding lost? | ten stacks of one to three layers, two moves of the branches | 1.2 M |
| `gate_suite` | GateSuite | is a green suite sound, blame fair, every edit put back? | 133 tasks, two faults | 21 k |
| `findings` | Findings | is every finding accounted for, under its own row? | six scenarios of two or three findings a lens | 0.16 M |

**Why the bounds are enough.** A cell's money branches on comparisons between a tally, a
ceiling and a reserve: a budget of two with an overshoot of one takes every branch on
both sides, and two attempts make a repair and an exhaustion. Two cells are what a
shared name needs: one that leaves something and one that meets it. Three runs of
resources, since a leftover can block one run and then the run after it. Four record
writes leave a gap that a fold closes and a later number falls on. Two nights let the
second meet what the first left; three rows allow a diamond of parents and their child.
The breaker trips at two aborts, so a chain of three specs passes it. The code allows
three revision rounds and the run two: the bound is met either way. Two moves of the
branches are a rewrite and then a merge or a deletion of what was rewritten, the shortest
way to each of a range's candidates. Two faults in a suite are one command that fails and
its undo that fails too. Every action is taken by some passing run.

**Deadlock.** Checked for CellSession, whose one end is an explicit stutter. Not checked
for the others: a model whose commands, cells, nights or tasks are used up has stopped as
the real system does when nothing is asked of it.

**Fairness.** `Spec` of CellSession has `WF_vars(Progress)`. `_drive_cell` is one
sequential function, every turn has a host-side wall clock (DESIGN.md, "Wall clock"),
every gate a timeout, and no step waits on another process, so a process that is not
killed takes its next step. `Safety` has no fairness and stands for the process that may
be killed anywhere; the control run uses it. `Spec` of StackNight has `WF_vars(Steps)`:
the batch process is one loop too, its sessions have timeouts, and it sleeps only until a
limit's reset. How often a limit may be met again is `plan.waits`, since a provider that
never lifts one keeps a night without `--until` waiting for ever. The other modules have
safety properties only and no fairness.

## 4. What is checked

*CellSession.* `ReportedSpend`: the cost returned is what the attempt rows gained, on
every return. `SpendCeiling`: the most a cell is ever charged, however turns overshoot or
fail. `StageFunded`: REBUT's extraction and verdicts have their reserve whatever the
rebuttal cost. `ReadyIsJudged`: a `READY_FOR_REVIEW` head is the one the critics last
read, and the one exported; after a rebuttal also the head last found green, with nothing
uncommitted. `CutWorkIsKept`: work cut off by a bound is committed by the host unless a
hook refuses. `SettlesInOrder`: the row and the run agree with what the cell returned, and
a kill between the writes never leaves a finished run over a live row. `Terminates`: every
cell ends. `TypeOK` includes the repair loop's bound.

*CellResources.* `LeakShows`: what stays is reported, the proxy through the network it
holds. `OrdersSuffice`: with a runtime that removes what it can, nothing is left and no
short-lived cell meets a leftover.

*LedgerRecord.* `RefIsAHistory`: a ref opens on its task's creation, uses no number twice,
and no push takes a fact back. `ExitLeavesNothingUnpushed`: it is at the origin when
commands are done. `NothingLostRebuilds`: while nothing went wrong, a fold gives the rows, the mirror lost or
pruned in between. A kill between the row and the ref, or two commands that cross, part
them for good and are outside it; `RefIsAHistory` and the next hold after those too.
`MigratedIsWholeButForThePush`: what migrate accepts folds to the rows, the pushed sha
apart.

*Delivery.* `NoRowLeftInFlight`: a row is in flight only while its job runs or after a
kill. `ReadyTaskIsFresh`: `saffron package` never packages another cell's patch.
`OthersHeadStands`: unpackaged work replaces neither a head an operator pushed nor one
they are deciding on. `ApprovedHeadWasReadied`: a row reads `APPROVED` only for a head
readied as it is. `MergedHeadSettles`: a merge once recorded reaches the row in the next
scan, whether or not gh still answers.

*Night.* `KeepsItsPromise`: the loop implements `Batch`. `EveryRunIsCounted`: the budget
gate weighs every run the night minted, those whose cell raised too.
`ChildIsOverItsParents`: a cell is cut over every parent of its spec that waits with a
push and a branch, unless the branch of one that stands over all of them is gone
(section 5); for a `saffron cell`, a parent whose newest row was rejected is none.
`LiveRowStands`: a rescan leaves a live cell's row alone. `RemovalWaitsAlone`: of two
specs that clash over a removed name, and that no declared chain of `depends_on` joins,
a night's task of each does not wait to land, undecided, at once. The rows of a
`saffron cell` are let be, since that command asks nothing of the kind.
`DrainedNightWasSound`: a night whose last two tasks aborted did not drain; a task cut by
a bound, ORPHANED over a COMPLETE run, did not abort.

*StackNight.* `StackIsAChain`: the layers are one chain, each cut over the one before it
and over nothing else, and no cell runs without the code its spec depends on, unless it
stands behind a spec whose stack base could not be asked for (section 5).
`RunsTheTextReviewed`: a cell builds exactly the text a review last passed.
`UnreviewedIsHandedOn`: a follow-up goes to the next night exactly when no recorded review
of it decided. `KeepsItsPromise`: this loop implements `Batch` too, reviews and the tail
included. `NightEnds`: every night ends.

*EndReview.* `RangeIsItsOwn`: a layer's lenses read that layer's own change and no other
layer's, whatever moved. `OneHeadThroughout`: what a lens read is what its findings are
decided over and what the finishing commit is pushed over, the join's base apart (section
5). `FindingIsFollowedOrPooled`:
every qualified finding is in the backlog's pool or in a minted follow-up with its text,
once, and findings.json says which.

*GateSuite.* `GreenIsSound`, `BlameIsFair`: what a suite says, compared with what the
tests would say of the trees. `EditsStand`: no edit of the agent's is lost to a gate's or
a probe's mutation. `ProbeSaysWhatItSaw`: a probe's answer is one the tests gave on the
tree it names, the second look at a survivor too.

*Findings.* `ReadyIsAccountedFor`: a packaged task hides no blocker. `RowsSayWhatWasSaid`:
a row holds the first answer and the last verdict about its own finding.
`StandingIsCounted`: the queue never counts fewer standing blockers than the pull request
lists. It is one-sided because the count takes any confirmed verdict and the table the
last one.

`ReadyTaskIsFresh` is stated of commands that do not overlap. With `saffron package`
beside a running cell (`together`) it fails: `ready_task` judges the directory by the
files' times and `package` reads the patch later. So does `ApprovedHeadWasReadied`, with
three cells and three commits, beyond the run's bounds: section 6 gives the way there.

## 5. Where the code and its documents disagree

1. `delivery_stale_patch`: a cell with no commits pushes an earlier cell's patch as its
   own.
2. `night_merged_parent`: a parent merged after the night pinned its base is admitted as
   MERGED by a rescan, and its child's tree lacks it.

`PROJECT.json` "findings" quotes the lines of each. The models show more of the same kind,
which no run is kept for.

*Cells and resources.* Two returns of `_drive_cell` reuse `state`, the state volume's
name, for the outcome: the volume is left and not reported, where DESIGN.md says every
exit removes it. A killed run's proxy keeps the network the next run must recreate, where
backlog b-d9ed45 says a killed run cannot block the next; one killed inside a critic cell
leaves a container that blocks the run after that too. The leak ledger is the whole
task's, so a later short-lived cell can report names it never attempted.

*Record.* Two commands that append in the other order from the one they committed in leave
a ref that folds to other rows, with no failure at all. A kill between commit and append
leaves a row no fold gives back. migrate tops up a ref without its `task_push` and calls
it migrated. After a lost `spec_text` and a fold, the next text's number may be one the
rows hold, and the insert is refused.

*Delivery.* A second PACKAGE that refuses empties the sha the first one recorded.

*Nights.* A `saffron cell` beside a night is charged to it when it mints its run between a
cell's start and its raise. When the branch of the deepest of several parents is gone, the
cell is cut unstacked. A follow-up sent to its writer counts as decided whatever becomes
of the revision's review, and is not handed on. A follow-up refused before its cell stays
QUEUED under a night that closed DRAINED.

*Stack nights.* When `stack_base_alive` raises (`batch.py:645`), the spec is started, not
missed, and stays in what remains. `resolve_prefix` stops at the first of what remains
that reaches no miss, so from then on it stops at that spec, and a later spec is offered
and cut although its parent missed; `batch.py:530` says "An order candidate whose
`depends_on` reaches a missed spec is refused." Three specs, the first unaskable and the
third behind a second that misses, show it; `StackIsAChain` leaves a cell behind such a
spec aside. And a revision's own check (`batch.py:839`) holds back the reserve alone, so
the revised spec's cell may spend what is left of the writer's share, to which the
follow-ups' writer is then charged too (`cli.py:1775`): with a share of more than two
sessions a night ends past its budget by more than a review and a cell's overshoot, where
DESIGN.md:211 says "a night can end at most one task's overshoot above its budget."
`Overshoot` in `StackNight` is what the code does keep to.

*End review.* A bottom layer that was rewritten and then merged to the default branch is
read as an empty range and recorded as reviewed (`end_review.py:192`); so is one that was
merged into the branch its stack base names. A branch over a rewritten predecessor has the
old commits in its range. `RangeIsItsOwn` leaves these aside. The fetch of the stack
base's branch that failed for the join lens may succeed in the layers' walk, and
`_recording_resolve` (`end_review.py:711`) then overwrites the bottom layer's base: the
join's findings are decided over another range than the join read, which
`OneHeadThroughout` leaves aside. A raise out of the end review hands on no findings, so
those recorded before it are never qualified. A raise midway through qualifying leaves
`qualified` rows that findings.json reports as `follow_up` with nothing minted; one after
a mint returns no candidate, so the spec minted is run by no one. A kill during `saffron
finish` after an end review was recorded makes it refuse from then on.

*Gates and findings.* A lost answer of the one-name probe turns `witness` at head into a
skip. A witness mutant that applied at the base and no longer does is a drift charged to
nobody, though the task's own edit caused it. A lens that verdicts one blocker twice
passes `run_verdict`'s check of the set; the counts take any of its verdicts, the table
and the ledger the last. `moved` is one bit for the whole rebuttal, measured before a
form repair.

## 6. What is proved

Every theorem holds for every value of the constants that the module's named assumptions
allow. `PROJECT.json` lists them; this is the argument of each. TLC checks the same
properties on the small instances of section 3. The safety formulas they start from have
no fairness, so they cover a process that is killed anywhere, and the formulas with
fairness imply them.

**CellSession, accounts** (`CellSessionProofs`). `TypeCorrect` and `SpendIsReported` rest
on `BookInv == TypeOK /\ LoopInv /\ TallyInv`. `TypeOK` alone is not inductive: a closed
rate-limit window reads the tally back as `booked - start`, a natural number only because
the rows and the tally agree. That is `TallyInv`: every booked dollar is in the tally, in
a phase's frame or in REBUT's pool, and each of the last two is empty wherever the code
has folded it in. `LoopInv` adds that no suite has run before the loop and that the loop
is inside its bound, without which the repair loop's counter could pass `max_attempts`.

**CellSession, control.** `HandsOnWhatWasJudged`, `CutsKeepTheWork`
and `WritesInOrder` rest on `ControlInv == JudgedInv /\ CutInv /\ RowInv`. `JudgedInv`
carries which commit was judged, and which was found green, from where the critics' diff
is taken to where the row settles: the property itself speaks of the end alone. `CutInv`
says that wherever a cut is about to be answered ORPHANED the host has committed, or a
hook refused. `RowInv` gives the row and the outcome at each place; from it `SettleStep`
shows that no step writes a run's end over a live row.

**CellSession, ceilings.** `SpendIsBounded` and `StagesAreFunded` rest
on `CeilingInv`, which adds to the two properties what each place may already have spent.
`WorkInv`: a turn is bought only with the tally under the budget, so work ends at most
one turn past it. `ReviewInv`: the frame is at most one capped session for each that ran.
`PoolInv`: what each stage of REBUT may have drawn from its pool and what limit it then
had, an overshoot of the stage before included.

**CellResources** (`CellResourcesProofs`). `LeaksAreReported` and `OrdersAreRight` rest on
`ResourcesInv`. Its core, `CallsFit`, says for each piece of runtime calls (the task's
cell coming up, a short-lived cell coming up, either going down) how far it has come and
what the calls before that point have made sure of, for instance that before the i-th
call of a teardown each earlier removal has left nothing or is in `failed`. `ShortFits`
and `CriticFits` say what a finished short-lived cell may have left and that a critic
container implies its network; `NetworkReached` and the two properties complete it.

**Delivery** (`DeliveryProofs`). `DeliveryInv == Shape /\ Fit` says how rows, jobs and
scan point at one another: a row's push is some cell's commit, a row whose pull request is
open is pending, no two jobs have one row, a scan's copy differs from the rows only as the
operator's moves allow. It holds whatever goes wrong. `NoRowIsLeft`, `OthersHeadIsKept`
and `MergesAreFinished` follow with little more. Two theorems assume `"together" \notin
Mishaps`, that no `saffron package` runs beside a cell of its spec:
`CommandPackagesItsOwn` adds `OneJob` and how old the directory's files may be
(`DirFits`), `ApprovedWasSeen` that at most one pull request is open and that its head
moves only by a push that is recorded (`OneOpen`, `HeadFits`, `SeenFit`). Both need that
assumption. The first fails with two cells (section 4). The second fails with three: cell
1 is ready and its PACKAGE raises; `saffron package` starts on that row and builds commit
1, finding no branch; cell 2 pushes commit 2 and opens a pull request; cell 3 builds
commit 3 and pushes it; the operator merges the pull request and GitHub deletes the
branch; the command's push of commit 1 now goes through, its lease being on an absent
branch; cell 3 records its push and opens its pull request, whose head is commit 1; the
operator marks it ready, and reconcile approves row 3 for a head it did not push.

**StackNight** (`StackNightProofs`). `StackStands` proves `StackInv`, of nine parts.
`Shape` and `Places` say what the state is made of and where the process can be: a resumed
tail runs over a closed row, with nothing kept of the order. `ReadOnce`: the end review
reads once. `Untouched`: what may still be offered has left no layer and nothing in
flight. `Chained`: the layers so far and what `drive` calls the predecessor agree.
`Sorted`: each spec of the order is left to run, missed or a layer, and the first of those
left depends on no miss; without it an offer could skip a parent. `Reviewed1` ties what
was reviewed to the text it was reviewed with, `Decided` what was routed to the recorded
reviews. `Funded` says what each place must still be able to pay: the reserve and the
writer's share while the order runs, one cell's most while one is reviewed. From them
follow `LayersAreOneChain`, `CellRunsWhatPassed`, `UndecidedAreHandedOn` and the
refinement.

**Night** (`NightProofs`). `NightStands` proves `NightInv`. `Counted`: each run of the
night but the cell's own is stamped and at or below `highWater`, which the property at the
budget gate needs at every other place. `Funded`: a running cell's declared budget was
held back for it. `Standing`: what the loop keeps in memory as in flight or unpackaged
covers what its rows say. `Breaks`: the abort count is at least what the last two finished
runs show. `RunsAreCounted`, `LiveRowIsLeft`, `DrainedIsSound` and the
refinement follow. `RemovalIsAlone` adds `RemovalInv`: while the loop holds a queue, every
spec in it is `Apart` from what waits, and while a cell runs its spec is (`HeldBack`), so
the row that begins to wait is no stranger. Between two scans nothing else begins to wait,
since a text only grows newer (`Texts`, `OfTheirTime`) and a pull request never becomes a
draft again (`Pulled`). The scan refuses on the chains it finds at its base and the
property speaks of the declared ones: `ReachesMore` shows that a walk of `depends_on`
reaches no less where more specs are found. `ChildrenAreOver` adds only `Sent`: what was
sent back was pushed, because only GitHub sends work back. The rest is about
`_resolve_stacked_on`: `HeadsAgree`, that a waiting parent's branch is the head fetched
though the row looked at may be a newer one that was sent back; `DeepestIs`, that the
deepest of several parents exists; `ManyParentsAreUnder`, that all the others are under
it or it is refused. Of the constants the two need that a declared dependency is a
declared spec (one the branch does not have is one that is not live), and that no cell
ends in a state only GitHub's answers or the operator give.

**EndReview** (`EndReviewProofs`). `Inductive` proves `Inv`, of seven parts. `History`: a
branch's head only moves on, in an order of its own (`Later`: it grows, is rewritten once
and goes for good), so a head found again is one that never moved. The finish's check
rests on that alone, as it compares the heads at two moments. It also says what a head
may contain: no change of a layer above, and its own or its rewrite. `Resolutions` and
`Readings`: every range resolved or read is from one of a layer's candidate bases
(`IsBase`) to the head fetched, and the walk of the layers keeps what the join's walk
resolved. `Deciding`: a range to qualify is the very one its lens read. `Accounts`: each
qualified finding waits in a group, is with the writer, is pooled once or has its
follow-up. `Finishing`: at each layer the check has passed, what was read, what the
follow-up was cut over and what is pushed over have one head. `ReadsItsOwn`, `OneHead` and
`FollowedOrPooled` follow.

**LedgerRecord** (`LedgerRecordProofs`). `Inductive` proves, for any number of commands,
`Inv`, and that no step rewinds the origin. `Refs`: both refs open on their task's
creation, name nothing twice (`Distinct`), have each close after its open and each
rebuttal after its finding (`Grounded`), and hold nothing the rows do not tell of. A
finding before it may be missing, where an append failed: then the fold keeps no row.
`Waiting` says the same of what a command has yet to append, `Working` of the attempt and
the findings its cell still holds. What a ref that can be read (`Readable`) folds to is
its summary `Told`, each field a set of the ref's facts, proved by the least index at
which `After` and the summary would part. `Unpushed` and `MigratedWhole` are about push
and migrate. For the second, `AgreesTells` reads off `_agrees` what an agreeing ref must
hold and `ToppedUpIs` what it holds once topped up, by least elements too. `NothingLost`
adds `Kept`: the ref a write would find (`Ref`, the mirror's or else the origin's), with
what is on its way to it, folds to the rows. It assumes `OneCommand`, and it needs to: two
commands that append in the other order than they committed in part rows and ref with no
failure at all (section 5).

**GateSuite** (`GateSuiteProofs`), for every task, whatever its tests say of the trees,
and any number of faults. `PlacedHolds` is about the worktree: where `pc` stands, what
each path may hold, the one mutant being asked about and the source taken back included,
or else a gate has `Broke`. `EditsStandHolds` is its action property. `InvHolds` adds what
is known by then of the tests. No step between the declared gates and the verdict makes or
unmakes an edit (`EditsSame`), so one function, `Said`, is what the tests say of the head
throughout, and `Testimony` that the whole suite reported it. `Walk`: a witness counted as
surviving does not notice its mutant, and one no longer to come notices it, could not be
asked or has survived. `Reverting`: what was handed to the reverted run is what is
`Claimed`, and its answer is about the tree `Without` the source. `Judgement` keeps what
the core gates read. `Probing`: the head the probes stand on is the exported patch, where
a green suite's witnesses pass, and the suite a survivor's second look is compared with
ran on that head. Each property speaks of one moment and needs facts
gathered at others: that `criteria` found nothing says, at the probes, that a criterion's
kill is that witness noticing that edit. What a command's answer tells of its tree is one
lemma (`Told`, then `Heard` through `run_gate`), and what the bag subtraction leaves
another (`Blames`). `GreenIsSoundHolds`, `BlameIsFairHolds` and `ProbeSaysWhatItSawHolds`
follow.

**Refinement.** `StackNightIsABatch` and `NightIsABatch` prove `Spec => KeepsItsPromise`
for the mapping each module states, step by step. In StackNight a step that spends on the
open row is a `Charge`, the start of a resumed tail a `Resume`, a close or an interruption
an `End`, a kill `Killed`, and every other step a stutter. In Night the opening scan, or
its refusal, is `Open`; a cell's end is a `Charge`; the loop's stop, or an interruption
with the cost of the cell it cut short, an `End`; a kill, with the same cost, `Killed`. What the
operator, or a cell beside the night, does to rows once the night is over is a `Settle`
or a stutter. The two that take work are `Charge`, which needs `Funded` for the overshoot,
and `End`, which needs `Untouched` or `Standing`: the loop decides from its memory that
nothing is left, and the abstract night from the ledger.

**How.** An inductive step has one lemma an action saying what the action writes, then one
a part of the invariant. Least elements and induction over numbers and finite sets come
from `LeastIs`, from the library's well-founded minimum (`WFMin`) over the strict order,
since theorems that take an operator as a parameter cannot be cited; sums are the
recursive function `TotalOf`, and what a recursive function along a sequence gives is
proved at the least index where it would fail.

**What the proofs changed in the models.** Overlapping CASE arms became IF. The count of
runs in CellResources is assumed positive. In StackNight the overshoot was too small (it
left out the writer's sessions, section 5), `decided` is a fact of its own rather than
read from a route a revision clears, and `remaining` is a set. In Night a child and its
parents, and what waits beside a removal, are told from the declared graph and the rows,
not from the walk the scan made; and a task a bound cuts ends ORPHANED over a COMPLETE run
(`session.py:2874`) and is no abort, so a run carries its status: read from the row alone,
`DrainedNightWasSound` was false of the code. In LedgerRecord the folds are recursive
functions, and migrate's facts come by number (`Due`) rather than by a sort; in EndReview
what was a sorted sequence is a set with an order, and three exceptions of section 5 came
to light: the base merged around a bottom layer, the layers under a rewritten one, the
join's base read again. In GateSuite `Claims` asks for a test the head has: a criterion's
witness that the head lost is not revert's to ask about. `GateSuiteAssumption` says what a
task is made of, and `Selected` and `Compare` are written without an operator parameter.

**Only model-checked.** `ReadyIsAccountedFor`, `RowsSayWhatWasSaid` and
`StandingIsCounted` of Findings, which rest on selections over nested sequences (of lenses,
of findings, of answers) that the library's facts, taking a test as a parameter, do not
reach; `TypeOK` of EndReview, whose types are a part of its invariant. `Terminates` and `NightEnds` need fairness, and ENABLED is beyond the
provers: they stay with TLC for good.

## 7. What is not modelled

Text is never modelled: prompts, patches, event wording, parsing. A reply is what it
parses to, a patch is whose it is. "components" in `PROJECT.json` gives the reason for
each part left out. Within the modules:

- CellSession: a suite, a review and a rebuttal are choices of outcome; GateSuite and
  Findings are what those choices are made of.
- CellResources: which /24 a network gets, and the shared egress network, which nothing
  removes.
- LedgerRecord: gate results, batch and stack facts, which take the same path to the ref.
- Delivery: `saffron adopt`, re-verification before a push, a second run of one row, two
  scans at once.
- Night: a cell is one step, so nothing else moves inside it but at its end. A cell that
  comes back in flight and then raises in its queue line: `run_one_cell` returns none in
  flight where it could, and the loop's own handling of one that does is modelled. A
  `saffron cell` beside the night costs the least a cell may. Two batches at once, which
  the code does not forbid and DESIGN.md rules out.
- StackNight: the order of the queue is given; an open pull request is a choice.
- EndReview: a layer merged down into its predecessor's branch (its pull request is a
  draft); ranges are sets of changes, so two commits with one content are two changes;
  findings of one lens differ in place or claim.
- GateSuite: a repository without a `tests` gate.
- `saffron draft`, the event log, the viewer, preflight, re-gate, replay, projection.

## 8. Plan

1. **Done**: CellSession and its first proofs, CellResources, LedgerRecord, Delivery;
   Batch, Queue, Night, SpecReview, StackNight, EndReview; Gates, GateSuite, Findings.
2. Proofs. **Done**: every safety property the runs check but those of Findings
   (`NothingLostRebuilds` for one command at a time); that StackNight and Night implement
   Batch. To do: the properties of Findings.
3. `EventLog`: one writer, one reader resuming, a torn line.
4. `SubnetPool`: two cells on one host claiming a /24.
5. An abstract record, one append-only history per task, with LedgerRecord shown to
   implement it where nothing is lost.
