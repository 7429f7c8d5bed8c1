------------------------------- MODULE Night -------------------------------
(***************************************************************************)
(* `saffron batch`: the loop that drives one night over the queue, one     *)
(* cell at a time, rescanning after each.  Beside it run an operator who   *)
(* decides on pull requests and edits specs, and `saffron cell`, which     *)
(* mints rows and runs of its own in the same ledger.                      *)
(***************************************************************************)
EXTENDS Queue

CONSTANTS
    Budget,  \* what a night may spend
    Costs    \* what a cell may cost

ASSUME NightAssumption ==
    /\ Budget \in Nat /\ Costs \subseteq Nat /\ Costs # {} /\ IsFiniteSet(Costs)
    /\ \A r \in Repos :
          /\ r.ends \subseteq DoneStates \union RequeueStates \union InFlightStates
          \* these are GitHub's to say
          /\ r.ends \intersect {"APPROVED", "CHANGES_REQUESTED", "MERGED", "REJECTED"} = {}

VARIABLES
    pc,        \* where the batch process is
    batches,   \* why each batch row closed, "open" while none has said
    runs,      \* the ledger's runs: the batch stamped, the cost, the status, and the batch
               \* that minted it
    drive,     \* what _drive keeps in memory
    cell,      \* the row of the cell that runs, 0 for none
    attended   \* the `saffron cell` beside the night

nightVars == <<pc, batches, runs, drive, cell, attended>>
vars == <<queueVars, nightVars>>

(* started: the specs started tonight; pending: what the latest scan       *)
(* offers; aborts: how many in a row; inFlight: specs whose cell came back *)
(* mid-phase; unpackaged: specs whose PACKAGE raised; highWater: the       *)
(* latest run before the cell.                                             *)
Fresh == [started |-> {}, pending |-> {}, aborts |-> 0, inFlight |-> {}, unpackaged |-> {},
          highWater |-> 0]

NoCell == [at |-> "none", spec |-> 0, row |-> 0]

AbortStates == {"GATE_ERROR", "PREFLIGHT_FAILED", "RATE_LIMITED", "PROVIDER_UNREACHABLE"}
BreakerThreshold == 2

Tonight == Len(batches)

TypeOK ==
    /\ pc \in {"idle", "reconcile", "scan", "loop", "cell"}
    /\ \A b \in DOMAIN batches : batches[b] \in {"open", "DRAINED", "BUDGET", "UNTIL",
                                                 "INFRASTRUCTURE", "INCOMPLETE"}
    /\ \A i \in DOMAIN rows : rows[i].id = i /\ rows[i].pushed \in 0 .. Len(commits)
                              /\ rows[i].pr \in 0 .. Len(prs)
    /\ \A i \in DOMAIN runs : runs[i].batch \in 0 .. Tonight
    /\ Len(runs) = Len(rows)
    /\ drive.started \subseteq Ids /\ drive.aborts \in 0 .. 3
    /\ drive.inFlight \union drive.unpackaged \subseteq drive.started
    /\ drive.highWater <= Len(runs)
    /\ pc = "cell" <=> cell # 0
    /\ pc = "idle" => drive = Fresh
    /\ \A s \in Ids : remote[s] # 0 => commits[remote[s]].spec = s

Init ==
    /\ QueueInit
    /\ pc = "idle" /\ batches = <<>> /\ runs = <<>> /\ drive = Fresh /\ cell = 0
    /\ attended = NoCell
-----------------------------------------------------------------------------
TotalOf(amount, n) ==
    LET upTo[k \in 0 .. n] == IF k = 0 THEN 0 ELSE upTo[k - 1] + amount[k]
    IN  upTo[n]

Cost(S) == TotalOf([i \in DOMAIN runs |-> IF i \in S THEN runs[i].cost ELSE 0], Len(runs))
BatchSpend(b) == Cost({i \in DOMAIN runs : runs[i].batch = b})

(* Variant: the loop's own reason closes the row. *)
Promoted_AsGiven(reason) == reason

(* Why a night ends, given what it left behind. *)
Promoted(reason) ==
    IF drive.unpackaged # {} THEN "INFRASTRUCTURE"
    ELSE IF drive.inFlight # {} /\ reason # "INFRASTRUCTURE" THEN "INCOMPLETE"
    ELSE reason

Exits == pc' = "idle" /\ cell' = 0 /\ drive' = Fresh
Stop(reason) == batches' = [batches EXCEPT ![Tonight] = Promoted(reason)] /\ Exits

(* Readiness pins the base, then the queue is resolved over the pin. *)
Readiness ==
    /\ pc = "idle" /\ Tonight < repo.nights
    /\ base' = main /\ pc' = "reconcile"
    /\ UNCHANGED <<repo, main, rows, commits, remote, prs, moves, batches, runs, drive, cell,
                   attended>>

(* A host that is not ready leaves a row that says it was tried. *)
NotReady ==
    /\ pc = "idle" /\ Tonight < repo.nights
    /\ batches' = Append(batches, "INFRASTRUCTURE")
    /\ UNCHANGED <<queueVars, pc, runs, drive, cell, attended>>

(* The scans of a night are over one pin.  The first alone stamps, and is *)
(* made before the batch has a row.                                       *)
Opening == drive.started = {}

Reconcile(asked) ==
    /\ pc = "reconcile"
    /\ rows' = Reconciled(Ids, asked, Opening)
    /\ pc' = "scan"
    /\ UNCHANGED <<repo, main, base, commits, remote, prs, moves, batches, runs, drive, cell,
                   attended>>

Scan(answers) ==
    /\ pc = "scan"
    /\ drive' = [drive EXCEPT !.pending = BuildQueue(OpenPrs(answers))]
    /\ pc' = "loop"
    /\ batches' = IF Opening THEN Append(batches, "open") ELSE batches
    /\ UNCHANGED <<queueVars, runs, cell, attended>>

(* A scan that raises ends the night where it is. *)
ScanRaises ==
    /\ pc = "scan"
    /\ IF Opening THEN batches' = Append(batches, "INFRASTRUCTURE") /\ Exits
       ELSE Stop("INFRASTRUCTURE")
    /\ UNCHANGED <<queueVars, runs, attended>>
-----------------------------------------------------------------------------
(* _drive: the first spec offered that has not been started. *)

Offered == drive.pending \ drive.started
Chosen  == First(Offered)

Ends(reason) == pc = "loop" /\ Stop(reason) /\ UNCHANGED <<queueVars, runs, attended>>

OverBudget == Declared(Chosen).budget > Budget - BatchSpend(Tonight)
Tripped    == drive.aborts >= BreakerThreshold

(* Variant: a queue that empties is a night that drained. *)
Drained_Always == Offered = {} /\ Ends("DRAINED")

Drained == Offered = {} /\ Ends(IF Tripped THEN "INFRASTRUCTURE" ELSE "DRAINED")
Until == Offered # {} /\ Ends("UNTIL")  \* the deadline may have passed at any look
OutOfBudget == Offered # {} /\ OverBudget /\ Ends("BUDGET")
Breaker == Offered # {} /\ ~OverBudget /\ Tripped /\ Ends("INFRASTRUCTURE")

Admitted == pc = "loop" /\ Offered # {} /\ ~OverBudget /\ ~Tripped

Begun == [drive EXCEPT !.started = @ \union {Chosen}, !.highWater = Len(runs), !.pending = {}]

NewRun(by) == [batch |-> 0, cost |-> 0, status |-> "RUNNING", by |-> by]

(* The cell starts: a run and a row of its own, whatever row the scan said *)
(* the spec resumes.                                                       *)
StartCell ==
    /\ Admitted /\ Len(rows) < repo.maxRows
    /\ LET cut == ResolveStackedOn(Chosen, base, FALSE)
       IN  ~cut.refused /\ rows' = Append(rows, NewRow(Chosen, base, cut.head))
    /\ runs' = Append(runs, NewRun(Tonight))
    /\ cell' = Len(rows) + 1 /\ pc' = "cell" /\ drive' = Begun
    /\ UNCHANGED <<repo, main, base, commits, remote, prs, moves, batches, attended>>

(* Refused before a cell exists: its open parents, or a `consumes` entry. *)
RefuseCell ==
    /\ Admitted /\ pc' = "reconcile" /\ drive' = Begun
    /\ UNCHANGED <<queueVars, batches, runs, cell, attended>>

(* The runner raises before it has minted a run. *)
RaiseEarly ==
    /\ Admitted /\ pc' = "reconcile" /\ drive' = [Begun EXCEPT !.aborts = @ + 1]
    /\ UNCHANGED <<queueVars, batches, runs, cell, attended>>
-----------------------------------------------------------------------------
(* The cell ends. *)

Ways(states, reaches, status) == [state : states, reach : reaches, status : {status}]

(* run_task returns: a READY_FOR_REVIEW task has its pull request, one     *)
(* PACKAGE would not push is MERGE_FAILED, and PACKAGE takes an EXHAUSTED  *)
(* one too.  Any other state's patch is pushed unpackaged.                 *)
Returned ==
    {e \in Ways(repo.ends, Reaches \ {"pushed"}, "COMPLETE") :
        /\ e.state = "READY_FOR_REVIEW" => Links(e)
        /\ e.state = "MERGE_FAILED" => ~Pushes(e)
        /\ Opens(e) => e.state \in {"READY_FOR_REVIEW", "EXHAUSTED"}}

(* It raises: in the cell, whose row is ORPHANED; in PACKAGE, wherever it  *)
(* had got to, and the row is the reviewed task it was; or, past a settled *)
(* state, in the push or the queue line that follow.                       *)
RaisedInCell    == Ways({"ORPHANED"}, {"nothing"}, "ABORTED")
RaisedInPackage == Ways({"READY_FOR_REVIEW"}, repo.stops, "COMPLETE")
RaisedSettled ==
    {e \in Ways(repo.ends \ (InFlightStates \union {"READY_FOR_REVIEW", "MERGE_FAILED"}),
               repo.stops, "COMPLETE") : Opens(e) => e.state = "EXHAUSTED"}

Raised == RaisedInCell \union RaisedInPackage \union RaisedSettled

(* A process killed under it leaves the row in flight, in PACKAGE too; or  *)
(* killed later, as it settled.                                            *)
CutShort(id) ==
    Ways({rows[id].state}, {"nothing"} \union (repo.stops \ {"linked"}), "RUNNING")

Ended(id, cost, end) == [runs EXCEPT ![id] = [@ EXCEPT !.cost = cost, !.status = end.status]]

(* PACKAGE forces its push; the other refuses a branch that is not its own. *)
MayEnd(id, end) ==
    Pushes(end) /\ end.state \notin {"READY_FOR_REVIEW", "EXHAUSTED"} => MayPushUnpackaged(id)

CellReturns(end, cost) ==
    /\ pc = "cell" /\ MayEnd(cell, end)
    /\ CellSettles(cell, end)
    /\ runs' = [Ended(cell, cost, end) EXCEPT ![cell].batch = Tonight]
    /\ drive' = [drive EXCEPT
          !.aborts = IF end.state \in AbortStates THEN @ + 1 ELSE 0,
          !.inFlight = IF end.state \in InFlightStates THEN @ \union {rows[cell].spec} ELSE @]
    /\ cell' = 0 /\ pc' = "reconcile"
    /\ UNCHANGED <<repo, main, base, moves, batches, attended>>

(* Variant: only runs that returned are charged. *)
WithOrphans_None(found) == found

(* Every run minted since this one's start and in no batch is the batch's. *)
WithOrphans(found) ==
    [i \in DOMAIN found |-> IF i > drive.highWater /\ found[i].batch = 0
                            THEN [found[i] EXCEPT !.batch = Tonight] ELSE found[i]]

(* A raise is an abort, and PACKAGE's is remembered. *)
CellRaises(end, cost) ==
    /\ pc = "cell" /\ MayEnd(cell, end)
    /\ CellSettles(cell, end)
    /\ runs' = WithOrphans(Ended(cell, cost, end))
    /\ drive' = [drive EXCEPT
          !.aborts = @ + 1,
          !.unpackaged = IF end.state = "READY_FOR_REVIEW" THEN @ \union {rows[cell].spec}
                         ELSE @]
    /\ cell' = 0 /\ pc' = "reconcile"
    /\ UNCHANGED <<repo, main, base, moves, batches, attended>>

(* Ctrl-C, or a SIGTERM: raised through the loop, and the row is closed. *)
Interrupted(end, cost) ==
    /\ pc = "cell" /\ MayEnd(cell, end)
    /\ CellSettles(cell, end)
    /\ runs' = Ended(cell, cost, end)
    /\ Stop("INFRASTRUCTURE")
    /\ UNCHANGED <<repo, main, base, moves, attended>>

(* A kill leaves the batch row open, and the run in no batch. *)
KilledInCell(end, cost) ==
    /\ pc = "cell" /\ Exits
    /\ end \in CutShort(cell) \/ MayEnd(cell, end)
    /\ CellSettles(cell, end)
    /\ runs' = Ended(cell, cost, end)
    /\ UNCHANGED <<repo, main, base, moves, batches, attended>>

Kill ==
    /\ pc \in {"reconcile", "scan", "loop"} /\ Exits
    /\ UNCHANGED <<queueVars, batches, runs, attended>>
-----------------------------------------------------------------------------
(* The operator, and a `saffron cell` of the operator's. *)

Operator == OperatorMoves /\ UNCHANGED nightVars

(* It looks at the spec's own paths, reconciles its parents' rows, then    *)
(* resolves its tree; an operator does not run the spec whose cell the     *)
(* night is running.                                                       *)
AttendedAsks(s, asked) ==
    /\ pc # "idle" /\ attended = NoCell /\ s \in main.live
    /\ ~ProtectedTouch(s) /\ ~RetirementRefused(s)
    /\ ~(cell # 0 /\ rows[cell].spec = s)
    /\ rows' = Reconciled(ToSet(Declared(s).deps), asked, FALSE)
    /\ attended' = [at |-> "asked", spec |-> s, row |-> 0]
    /\ UNCHANGED <<repo, main, base, commits, remote, prs, moves, pc, batches, runs, drive,
                   cell>>

AttendedStarts ==
    /\ attended.at = "asked" /\ Len(rows) < repo.maxRows
    /\ LET cut == ResolveStackedOn(attended.spec, main, TRUE)
       IN  IF cut.refused THEN attended' = NoCell /\ UNCHANGED <<rows, runs>>
           ELSE /\ rows' = Append(rows, NewRow(attended.spec, main, cut.head))
                /\ runs' = Append(runs, NewRun(0))
                /\ attended' = [attended EXCEPT !.at = "cell", !.row = Len(rows) + 1]
    /\ UNCHANGED <<repo, main, base, commits, remote, prs, moves, pc, batches, drive, cell>>

(* It returns, raises or is killed; no loop counts what it did. *)
AttendedEnds(end, cost) ==
    /\ attended.at = "cell"
    /\ end \in CutShort(attended.row) \/ MayEnd(attended.row, end)
    /\ CellSettles(attended.row, end)
    /\ runs' = Ended(attended.row, cost, end)
    /\ attended' = NoCell
    /\ UNCHANGED <<repo, main, base, moves, pc, batches, drive, cell>>
-----------------------------------------------------------------------------
Loop == \/ \E asked \in BOOLEAN : Reconcile(asked) \/ Scan(asked)
        \/ ScanRaises \/ Drained \/ Until \/ OutOfBudget \/ Breaker
        \/ StartCell \/ RefuseCell \/ RaiseEarly
        \/ \E cost \in Costs : \/ \E end \in Returned : CellReturns(end, cost)
                               \/ \E end \in Raised : CellRaises(end, cost)
                               \/ \E end \in Raised : Interrupted(end, cost)

Killed == \/ Kill
          \/ /\ pc = "cell"
             /\ \E end \in Returned \union RaisedSettled \union CutShort(cell), cost \in Costs :
                   KilledInCell(end, cost)

Beside == \/ Operator
          \/ \E s \in repo.attended, asked \in BOOLEAN : AttendedAsks(s, asked)
          \/ AttendedStarts
          \/ /\ attended.at = "cell"
             /\ \E end \in Returned \union Raised \union CutShort(attended.row) :
                   AttendedEnds(end, Min(Costs))

Next == Readiness \/ NotReady \/ Loop \/ Killed \/ Beside

Spec == Init /\ [][Next]_vars
-----------------------------------------------------------------------------
(* Properties. *)

NightRuns == {i \in DOMAIN runs : Tonight # 0 /\ runs[i].by = Tonight}

(* The night running has a row of its own once its first scan is made. *)
Running == pc \in {"loop", "cell"} \/ (pc # "idle" /\ ~Opening)

(* What the ledger, and not the loop, says the latest night left: a task   *)
(* in flight, and a reviewed task whose pull request no row names.         *)
Unpackaged(i) == rows[i].state = "READY_FOR_REVIEW" /\ rows[i].pr = 0

Left == {i \in NightRuns \ {cell} : \/ rows[i].state \in InFlightStates
                                    \/ Unpackaged(i)}

Status == IF Tonight = 0 THEN "none"
          ELSE IF batches[Tonight] = "open" /\ ~Running THEN "killed"
          ELSE batches[Tonight]

(* The gate weighs a spec's declared budget, and a cell may cost more. *)
Overshoot == Max(Costs) - Min(UNION {{r.specs[s].budget : s \in DOMAIN r.specs} : r \in Repos})

Promise == INSTANCE Batch WITH Limit <- Budget + Overshoot, status <- Status,
                               charged <- Cost(NightRuns), left <- Left

(* The loop keeps a night's promise (DESIGN.md's "at most one task's       *)
(* overshoot above its budget", and batch._promote_in_flight): what its    *)
(* cells cost stays within the budget and one overshoot, whichever of them *)
(* raised, and it closes for an ordinary reason only when the ledger holds *)
(* no task of its own in flight and none reviewed but not packaged.        *)
KeepsItsPromise == Promise!Spec

(* No cell's cost escapes the gate: when the next spec is weighed, every   *)
(* run this night minted is stamped with it, the ones whose cell raised    *)
(* too (ledger.attach_orphan_runs_to_batch).                               *)
EveryRunIsCounted == pc = "loop" => \A i \in NightRuns : runs[i].batch = Tonight

(* A child is cut over its open parents: of its depends_on, each that has  *)
(* not landed, waits with a push of its own and still has its branch, is   *)
(* under the tree the cell starts from, unless the branch of one above     *)
(* them all is gone (task._resolve_stacked_on).  A `saffron cell` of the   *)
(* operator's leaves a parent whose newest task was rejected.              *)
OpenParentsAt(s, at, asksGh) ==
    {d \in ToSet(Declared(s).deps) :
        /\ ~ParentLanded(d, at)
        /\ Some(RowsOf(d), WaitingStates)
        /\ asksGh => rows[Max(RowsOf(d))].state # "REJECTED"
        /\ FetchParentHead(Newest(RowsOf(d), WaitingStates)) # 0}

TopIsGone(s, open, at, asksGh) ==
    \E d \in ToSet(Declared(s).deps) :
        /\ Some(RowsOf(d), Stackable(asksGh)) /\ ~ParentLanded(d, at)
        /\ FetchParentHead(Newest(RowsOf(d), Stackable(asksGh))) = 0
        /\ open \subseteq Reachable(d, at)

ChildIsOverItsParents ==
    [][\A i \in DOMAIN rows' \ DOMAIN rows :
          LET s      == rows'[i].spec
              asksGh == cell' # i
              at     == IF asksGh THEN main ELSE base
              open   == OpenParentsAt(s, at, asksGh)
          IN  \/ \A d \in open : remote[d] \in rows'[i].tree
              \/ TopIsGone(s, open, at, asksGh)]_vars

(* Only a batch's opening scan takes a row in flight for a corpse: the     *)
(* rescans of a night leave the row of a `saffron cell` that runs beside   *)
(* it alone (reconcile's stamp_orphaned).                                  *)
LiveRowStands ==
    [][attended.at = "cell" /\ attended' = attended
         => \/ rows'[attended.row] = rows[attended.row]
            \/ pc = "reconcile" /\ Opening]_vars

(* A night whose last two tasks were both aborted did not drain: the       *)
(* breaker's count outlives the queue (batch._drive).  A task its bound    *)
(* cut ends ORPHANED too, over a run that is COMPLETE, and is no abort.    *)
Aborted(i) == \/ rows[i].state \in AbortStates
              \/ rows[i].state = "ORPHANED" /\ runs[i].status = "ABORTED"
              \/ Unpackaged(i)

DrainedNightWasSound ==
    [][(pc = "loop" /\ Tonight = Len(batches') /\ batches'[Tonight] = "DRAINED")
         => LET last == Max(NightRuns \union {0})
                prev == Max((NightRuns \ {last}) \union {0})
            IN  /\ drive.pending \subseteq drive.started
                /\ last # 0 /\ prev # 0 => ~(Aborted(last) /\ Aborted(prev))]_vars

(* Of two specs, one removing a name the other reads and no chain of       *)
(* depends_on declared between them, a night's task of each does not wait  *)
(* to land, unless the pull request of one was decided on since: the scan  *)
(* holds one while the other waits (scheduler._removed_name_refusals).  A  *)
(* `saffron cell` asks nothing of the kind, so its rows are let be.        *)
NightWaits == {i \in DOMAIN rows : /\ runs[i].by # 0
                                   /\ rows[i].state \in WaitingStates
                                   /\ rows[i].spec \in base.live
                                   /\ rows[i].text = base.text[rows[i].spec]
                                   /\ rows[i].pr # 0 => ~prs[rows[i].pr].decided}

Strangers(a, b) == a # b /\ Clash(a, b, [base EXCEPT !.live = Ids])

Waiting == {rows[i].spec : i \in NightWaits}

RemovalWaitsAlone == \A a, b \in Waiting : ~Strangers(a, b)

(* A dependency admitted because its task is recorded MERGED is in the     *)
(* tree the cell is cut from.                                              *)
MergedParentIsUnder ==
    [][\A i \in DOMAIN rows' \ DOMAIN rows :
          \A j \in DOMAIN rows :
             /\ rows[j].spec \in ToSet(Declared(rows'[i].spec).deps)
             /\ rows[j].state = "MERGED"
             => rows[j].pushed \in rows'[i].tree]_vars
=============================================================================
