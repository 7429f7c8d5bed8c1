----------------------------- MODULE StackNight -----------------------------
(***************************************************************************)
(* `saffron batch --stack` and `saffron finish`: one planned order, each   *)
(* spec reviewed before its cell and cut over the last one that became a   *)
(* layer; then the end review, the follow-ups it earns, and the finishing  *)
(* layer.  With --defer-end-review the tail waits for `saffron finish`.    *)
(*                                                                         *)
(* A spec is a number, a follow-up a negative one; Base stands for the     *)
(* stack base, the open pull request an order may be cut over.  A spec's   *)
(* text is the count of its spec_texts rows, 0 the file as queued.         *)
(***************************************************************************)
EXTENDS SpecReview, SequencesExt, FiniteSetsExt

CONSTANTS
    Plans,                   \* the orders a behaviour may be about
    Budget, Reserve, Writer, \* a batch's budget, and what it holds back for the
                             \* end review and for spec writing
    MaxReviseRounds,
    SpecBudget, CellCosts,   \* what a spec asks for, and what a cell may cost
    Session,                 \* the most a spec review or a spec writer may cost
    Lens                     \* the most one lens of the end review may cost

(* An order names a spec once and its dependencies before it (_stack_order); *)
(* a cell may use up what its spec asks for.  A plan's ends are the states a *)
(* cell comes back in besides the two with an action of their own.           *)
ASSUME StackNightAssumption ==
    /\ {Budget, Reserve, Writer, MaxReviseRounds, SpecBudget, Session, Lens} \subseteq Nat
    /\ CellCosts \subseteq Nat /\ Reserve + Writer <= Budget
    /\ \E most \in CellCosts : SpecBudget <= most /\ \A cost \in CellCosts : cost <= most
    /\ \A p \in Plans :
          /\ p.order \in Seq(Nat \ {0})
          /\ \A i, j \in DOMAIN p.order :
                /\ p.order[i] = p.order[j] => i = j
                /\ p.order[j] \in p.deps[p.order[i]] => j < i
          /\ {p.base, p.defer} \subseteq BOOLEAN
          /\ p.ends \intersect {"READY_FOR_REVIEW", "RATE_LIMITED"} = {}

VARIABLES
    plan,    \* the order, its depends_on, whether it has a stack base, what it may meet
    pc,      \* where the process is; "over" when there is none
    row,     \* why the batch row closed, "open" before, "none" before that
    drive,   \* what run_stack_batch keeps in memory
    task,    \* the ledger's row of each spec, its texts, its latest spec review, its cell's tree
    layers,  \* the stack_layers rows: the spec, the predecessor, the generation
    spend,   \* what the batch's attempts and end reviews cost, and the writing among them
    tail     \* what the end review and the follow-ups left behind

vars == <<plan, pc, row, drive, task, layers, spend, tail>>

Base == 0
FollowUp(s) == -1 - s
Order   == ToSet(plan.order)
Ids     == Order \union {FollowUp(s) : s \in Order}
Deps(s) == IF s \in Order THEN plan.deps[s] ELSE {}

InFlight      == {"REVIEWING"}  \* of the eight, the one a cell here comes back in
OfferedAgain  == {"PROVIDER_UNREACHABLE", "PREFLIGHT_FAILED"}
AbortStates   == OfferedAgain \union {"GATE_ERROR", "RATE_LIMITED"}
BreakerThreshold == 2

NoTask == [state |-> "none", text |-> 0, route |-> "none", judged |-> 0, decided |-> FALSE,
           tree |-> {}, pushed |-> FALSE]

(* gen: 1 once the follow-ups run; cur: the spec offered; remaining: the   *)
(* order's specs neither run nor missed, kept in the order's order;        *)
(* reviewed: specs a review let run; revising: specs whose revision        *)
(* met a rate limit; pred, predTask: what the next cell is cut over and    *)
(* what the next layer records; routed: specs a review decided on.         *)
Fresh == [gen |-> 0, cur |-> 0, remaining |-> Order, started |-> {}, missed |-> {},
          reviewed |-> {}, rounds |-> [s \in Ids |-> 0], revising |-> {}, gone |-> FALSE,
          pred |-> 0, predTask |-> IF plan.base THEN Base ELSE -1, aborts |-> 0,
          routed |-> {}, inFlight |-> {}, unpackaged |-> {}, waits |-> 0,
          reason |-> "none", resumed |-> FALSE, followUps |-> <<>>]

(* What a process that resumes a deferred night is handed. *)
Resumed == [Fresh EXCEPT !.gen = 1, !.remaining = {}, !.pred = Last(layers).spec,
                         !.predTask = Last(layers).spec, !.reason = row, !.resumed = TRUE]

TypeOK ==
    /\ pc \in {"idle", "offer", "review", "revise", "cell", "ended", "join", "lenses", "qualify",
               "write", "finish", "close", "over"}
    /\ row \in {"none", "open", "DRAINED", "BUDGET", "UNTIL", "INFRASTRUCTURE", "INCOMPLETE"}
    /\ row = "none" <=> pc = "idle"
    /\ DOMAIN task = Ids
    /\ \A s \in Ids : drive.rounds[s] \in 0 .. MaxReviseRounds
    /\ drive.started \subseteq Ids /\ drive.aborts \in 0 .. BreakerThreshold + 1
    /\ drive.remaining \intersect drive.missed = {}
    /\ drive.cur = 0 <=> pc \notin {"review", "revise", "cell"}
    /\ spend.writing <= spend.all
    /\ tail.finished => layers # <<>>

Init ==
    /\ plan \in Plans
    /\ pc = "idle" /\ row = "none" /\ layers = <<>>
    /\ drive = Fresh
    /\ task = [s \in Ids |-> NoTask]
    /\ spend = [all |-> 0, writing |-> 0]
    /\ tail = [deferred |-> FALSE, joined |-> FALSE, read |-> 0, left |-> Reserve, qualified |-> {},
               kept |-> FALSE, groups |-> {}, pooled |-> {}, handedOn |-> {},
               finished |-> FALSE]
-----------------------------------------------------------------------------
(* What is left to run, and what becomes of a spec. *)

Before(s) == {r \in Order : \E i, j \in DOMAIN plan.order :
                              i < j /\ plan.order[i] = r /\ plan.order[j] = s}

(* Variant: one refusal at a time. *)
ResolvePrefix_HeadOnly(d) ==
    [d EXCEPT !.remaining = {s \in @ : @ \intersect Before(s) # {} \/ Deps(s) \intersect d.missed = {}}]

(* The head of what remains is refused while it depends on a miss, which   *)
(* makes it one: the longest prefix all of whose specs do.                 *)
ResolvePrefix(d) ==
    LET Ahead(s)   == d.remaining \intersect Before(s)
        Refused(s) == Deps(s) \intersect (d.missed \union Ahead(s)) # {}
        prefix     == {s \in d.remaining : \A r \in Ahead(s) \union {s} : Refused(r)}
    IN  [d EXCEPT !.missed = @ \union prefix, !.remaining = @ \ prefix]

(* Neither is kept for a follow-up. *)
Missed(d, s) == IF d.gen = 1 THEN d
                 ELSE [d EXCEPT !.missed = @ \union {s}, !.remaining = @ \ {s}]

Ran(d, s) == IF d.gen = 1 THEN d ELSE [d EXCEPT !.remaining = @ \ {s}]
Aborts(d) == [d EXCEPT !.aborts = @ + 1]
NotStarted(d, s) == [d EXCEPT !.started = @ \ {s}]

(* The loop goes on with what is left to run. *)
Rescans(d) == pc' = "offer" /\ drive' = [ResolvePrefix(d) EXCEPT !.cur = 0]

(* Variant: the runtime's own raise is not counted. *)
Raises_Uncounted(d, s, runtime) == Rescans(IF runtime THEN NotStarted(d, s) ELSE Aborts(d))

(* A raise counts towards the breaker, and the runtime's own is offered again. *)
Raises(d, s, runtime) == Rescans(IF runtime THEN NotStarted(Aborts(d), s) ELSE Aborts(d))

(* The pass over the order ends, or the one over the follow-ups. *)
PassEnds(d, reason) ==
    IF d.gen = 1
    THEN pc' = "finish" /\ drive' = [d EXCEPT !.reason = reason, !.cur = 0]
    ELSE pc' = "ended" /\ drive' = [d EXCEPT !.reason = reason, !.cur = 0]

(* A rate limit is waited out, and the spec is offered again; past the     *)
(* deadline the night ends instead.  A resumed tail has no deadline.       *)
WaitsOut(d, s) ==
    \/ drive.waits < plan.waits /\ Rescans([NotStarted(d, s) EXCEPT !.waits = @ + 1])
    \/ ~d.resumed /\ PassEnds(d, "UNTIL")

Charged(cost)        == [spend EXCEPT !.all = @ + cost]
ChargedWriting(cost) == [all |-> spend.all + cost, writing |-> spend.writing + cost]
WriterLeft == Max({0, Writer - spend.writing})
-----------------------------------------------------------------------------
(* The process starts, and the loop offers the next spec. *)

OpenRow ==
    /\ pc = "idle" /\ row' = "open" /\ Rescans(drive)
    /\ UNCHANGED <<plan, task, layers, spend, tail>>

NotReady ==
    /\ pc = "idle" /\ row' = "INFRASTRUCTURE" /\ pc' = "over"
    /\ UNCHANGED <<plan, drive, task, layers, spend, tail>>

Queue   == IF drive.gen = 1 THEN drive.followUps ELSE plan.order
Offered == {i \in DOMAIN Queue : /\ Queue[i] \notin drive.started
                                 /\ drive.gen = 0 => Queue[i] \in drive.remaining}
Next1   == Queue[Min(Offered)]
HeldBack == IF drive.gen = 1 THEN 0 ELSE Reserve
OverBudget == SpecBudget > Budget - HeldBack - (IF drive.gen = 1 THEN 0 ELSE WriterLeft)
                             - spend.all
Tripped == drive.aborts >= BreakerThreshold

Ends(reason) ==
    pc = "offer" /\ PassEnds(drive, reason) /\ UNCHANGED <<plan, row, task, layers, spend, tail>>

Drained     == Offered = {} /\ Ends(IF Tripped THEN "INFRASTRUCTURE" ELSE "DRAINED")
Until       == Offered # {} /\ ~drive.resumed /\ Ends("UNTIL")
OutOfBudget == Offered # {} /\ OverBudget /\ Ends("BUDGET")
Breaker     == Offered # {} /\ ~OverBudget /\ Tripped /\ Ends("INFRASTRUCTURE")

Admitted == pc = "offer" /\ Offered # {} /\ ~OverBudget /\ ~Tripped
Started  == [drive EXCEPT !.started = @ \union {Next1}]

(* With nothing yet to be cut over but the stack base, its branch is asked *)
(* for.  Once it is gone every spec it was to carry is refused.            *)
AsksBase == drive.gen = 0 /\ drive.pred = 0 /\ plan.base

BaseGone ==
    /\ Admitted /\ AsksBase
    /\ Rescans([Missed(Started, Next1) EXCEPT !.gone = TRUE])
    /\ UNCHANGED <<plan, row, task, layers, spend, tail>>

(* It cannot be asked: the raise counts, and the spec is left where it is. *)
BaseUnasked ==
    /\ Admitted /\ AsksBase /\ ~drive.gone /\ plan.faults
    /\ Raises(Started, Next1, FALSE)
    /\ UNCHANGED <<plan, row, task, layers, spend, tail>>

Reaches == Admitted /\ ~(AsksBase /\ drive.gone)

MintRaises ==
    /\ Reaches /\ plan.faults /\ task[Next1].state = "none"
    /\ Raises(Missed(Started, Next1), Next1, FALSE)
    /\ UNCHANGED <<plan, row, task, layers, spend, tail>>

(* A follow-up over the files of an open pull request. *)
OpenPrRefused ==
    /\ Reaches /\ drive.gen = 1 /\ Next1 \notin drive.reviewed
    /\ Rescans(Started)
    /\ UNCHANGED <<plan, row, task, layers, spend, tail>>

Offer ==
    /\ Reaches
    /\ drive' = [Started EXCEPT !.cur = Next1]
    /\ pc' = IF Next1 \in drive.reviewed THEN "cell"
             ELSE IF Next1 \in drive.revising THEN "revise" ELSE "review"
    /\ task' = IF task[Next1].state = "none" THEN [task EXCEPT ![Next1].state = "QUEUED"] ELSE task
    /\ UNCHANGED <<plan, row, layers, spend, tail>>
-----------------------------------------------------------------------------
(* The spec's review, in the call _drive made for it. *)

Cur == drive.cur

(* A review reads the latest text, whose moved citations it first rewrites. *)
TextRead(moved) == task[Cur].text + (IF moved THEN 1 ELSE 0)
Judged(moved, route, state) ==
    [task EXCEPT ![Cur].text = TextRead(moved), ![Cur].judged = TextRead(moved),
                 ![Cur].route = route, ![Cur].state = state,
                 ![Cur].decided = @ \/ route \notin {"wait", "error"}]
Settled(state) == [task EXCEPT ![Cur].state = state]

(* A citation that resolves nowhere, or reading them raises. *)
CiteRefuses ==
    /\ pc = "review" /\ plan.faults
    /\ Rescans(Missed(drive, Cur))
    /\ UNCHANGED <<plan, row, task, layers, spend, tail>>

CiteRaises(runtime) ==
    /\ pc = "review" /\ plan.faults
    /\ Raises(Missed(drive, Cur), Cur, runtime)
    /\ UNCHANGED <<plan, row, task, layers, spend, tail>>

(* The session raises: recorded as an error round, and a miss unless it is *)
(* the runtime's own.                                                      *)
ReviewRaises(runtime, moved) ==
    /\ pc = "review" /\ plan.faults
    /\ task' = Judged(moved, "error", "GATE_ERROR")
    /\ Raises(IF runtime THEN drive ELSE Missed(drive, Cur), Cur, runtime)
    /\ UNCHANGED <<plan, row, layers, spend, tail>>

(* A session in a fresh cell over what the spec would be cut over, whose   *)
(* turns are charged whatever its route.                                   *)
CostOf(session) == IF session.paid THEN Session ELSE 0

Comes(turns, route) == pc = "review" /\ RouteOf(turns) = route

Reads(turns, moved, route, state) ==
    /\ task' = Judged(moved, route, state)
    /\ spend' = Charged(CostOf(ReviewSession(turns)))
    /\ UNCHANGED <<plan, row, layers, tail>>

Routed == [drive EXCEPT !.routed = @ \union {Cur}]

(* Variant: a review that waits counts as one that decided. *)
ReviewWaits_Routed(turns, moved) ==
    /\ Comes(turns, "wait") /\ Reads(turns, moved, "wait", "RATE_LIMITED")
    /\ WaitsOut(Routed, Cur)

ReviewWaits(turns, moved) ==
    /\ Comes(turns, "wait") /\ Reads(turns, moved, "wait", "RATE_LIMITED")
    /\ WaitsOut(drive, Cur)

ReviewErrs(turns, moved) ==
    /\ Comes(turns, "error") /\ Reads(turns, moved, "error", "GATE_ERROR")
    /\ Raises(Missed(drive, Cur), Cur, FALSE)

(* What only the operator can answer, or a revision too many. *)
Escalates(turns, moved) ==
    /\ \/ Comes(turns, "escalate")
       \/ Comes(turns, "revise") /\ drive.rounds[Cur] >= MaxReviseRounds
    /\ Reads(turns, moved, "escalate", "SPEC_WITHHELD")
    /\ Rescans(Missed(Routed, Cur))

AsksRevision(turns, moved) ==
    /\ Comes(turns, "revise") /\ drive.rounds[Cur] < MaxReviseRounds
    /\ Reads(turns, moved, "revise", task[Cur].state)
    /\ pc' = "revise" /\ drive' = Routed

(* A revised spec of the order meets the open pull requests once more. *)
Passes(turns, moved, clashes) ==
    /\ Comes(turns, "run") /\ Reads(turns, moved, "run", task[Cur].state)
    /\ LET d == [Routed EXCEPT !.reviewed = @ \union {Cur}]
       IN  IF clashes THEN /\ drive.gen = 0 /\ TextRead(moved) > 0 /\ plan.faults
                           /\ Rescans(Missed(d, Cur))
           ELSE pc' = "cell" /\ drive' = d
-----------------------------------------------------------------------------
(* The spec writer revises it. *)

(* Variant: what is held back pays for a revision. *)
Affordable_NoReserve == 2 * Session + SpecBudget <= Budget - spend.all

Affordable == 2 * Session + SpecBudget <= Budget - HeldBack - spend.all

Unaffordable ==
    /\ pc = "revise" /\ ~Affordable
    /\ Rescans(Missed([drive EXCEPT !.revising = @ \ {Cur}], Cur))
    /\ UNCHANGED <<plan, row, task, layers, spend, tail>>

Revising == pc = "revise" /\ Affordable /\ UNCHANGED <<plan, row, layers, tail>>
Taken    == [drive EXCEPT !.revising = @ \ {Cur}]

ReviseRaises(runtime) ==
    /\ Revising /\ plan.faults
    /\ task' = Settled("GATE_ERROR")
    /\ Raises(Missed(Taken, Cur), Cur, runtime)
    /\ UNCHANGED spend

ReviseErrs(turns) ==
    /\ Revising /\ WriterSession(turns).error
    /\ task' = Settled("GATE_ERROR") /\ spend' = ChargedWriting(CostOf(WriterSession(turns)))
    /\ Raises(Missed(Taken, Cur), Cur, FALSE)

ReviseWaits(turns) ==
    /\ Revising /\ WriterSession(turns).limited
    /\ task' = Settled("RATE_LIMITED") /\ spend' = ChargedWriting(CostOf(WriterSession(turns)))
    /\ WaitsOut([drive EXCEPT !.revising = @ \union {Cur}], Cur)

Rewritten(turns) ==
    /\ Revising /\ ~WriterSession(turns).error /\ ~WriterSession(turns).limited
    /\ task' = [task EXCEPT ![Cur].text = @ + 1]
    /\ spend' = ChargedWriting(CostOf(WriterSession(turns)))

(* Variant: a revised text goes to its cell unread. *)
Revises_Unread(turns) ==
    Rewritten(turns) /\ pc' = "cell" /\ drive' = [Taken EXCEPT !.rounds[Cur] = @ + 1]

Revises(turns) ==
    Rewritten(turns) /\ pc' = "review" /\ drive' = [Taken EXCEPT !.rounds[Cur] = @ + 1]
-----------------------------------------------------------------------------
(* The cell: over the predecessor's branch, else the stack base's. *)

Under(d) == IF d.pred # 0 THEN task[d.pred].tree \union {d.pred}
            ELSE IF plan.base THEN {Base} ELSE {}

CellEnded(state, pushed) ==
    [task EXCEPT ![Cur].state = state, ![Cur].tree = Under(drive), ![Cur].pushed = pushed]

(* The recorded text, or a name it consumes, is refused before the cell. *)
CellRefused ==
    /\ pc = "cell" /\ plan.faults
    /\ Rescans(Missed(drive, Cur))
    /\ UNCHANGED <<plan, row, task, layers, spend, tail>>

CellReturns(cost) == pc = "cell" /\ spend' = Charged(cost) /\ UNCHANGED <<plan, row, tail>>

(* Variant: the next cell is cut over it, its row is not. *)
PredecessorOf_TreeOnly(d) == [d EXCEPT !.pred = Cur]

PredecessorOf(d) == [d EXCEPT !.pred = Cur, !.predTask = Cur]

BecomesLayer(cost) ==
    /\ CellReturns(cost)
    /\ task' = CellEnded("READY_FOR_REVIEW", TRUE)
    /\ layers' = Append(layers, [spec |-> Cur, over |-> drive.predTask, gen |-> drive.gen])
    /\ Rescans([PredecessorOf(Ran(drive, Cur)) EXCEPT !.aborts = 0])

CellWaits(cost) ==
    /\ CellReturns(cost) /\ plan.limits
    /\ task' = CellEnded("RATE_LIMITED", FALSE) /\ WaitsOut(drive, Cur)
    /\ UNCHANGED layers

CellOfferedAgain(state, cost) ==
    /\ CellReturns(cost) /\ state \in OfferedAgain \intersect plan.ends
    /\ task' = CellEnded(state, FALSE)
    /\ Raises(drive, Cur, TRUE)
    /\ UNCHANGED layers

CellMisses(state, cost) ==
    /\ CellReturns(cost) /\ state \in plan.ends \ OfferedAgain
    /\ task' = CellEnded(state, FALSE)
    /\ Rescans([Missed(drive, Cur) EXCEPT
                   !.aborts = IF state \in AbortStates THEN @ + 1 ELSE 0,
                   !.inFlight = IF state \in InFlight THEN @ \union {Cur} ELSE @])
    /\ UNCHANGED layers

(* It raises: in PACKAGE, which leaves a reviewed task; from the runtime,  *)
(* which offers the spec again; or otherwise.                              *)
CellRaises(kind, cost) ==
    /\ CellReturns(cost) /\ plan.faults
    /\ task' = CellEnded(IF kind = "package" THEN "READY_FOR_REVIEW" ELSE "ORPHANED", FALSE)
    /\ LET d == IF kind = "package" THEN [drive EXCEPT !.unpackaged = @ \union {Cur}] ELSE drive
       IN  Raises(IF kind = "runtime" THEN d ELSE Missed(d, Cur), Cur, kind = "runtime")
    /\ UNCHANGED layers
-----------------------------------------------------------------------------
(* The end review: the join lens over two layers or more, then each layer  *)
(* from the top, while the reserve covers it.                              *)

LayerSpecs == {layers[i].spec : i \in DOMAIN layers}

Defers(written) ==
    /\ pc = "ended" /\ plan.defer /\ ~drive.resumed
    /\ tail' = [tail EXCEPT !.deferred = written]
    /\ pc' = "close"
    /\ UNCHANGED <<plan, row, drive, task, layers, spend>>

StartsEndReview ==
    /\ pc = "ended" /\ ~(plan.defer /\ ~drive.resumed)
    /\ pc' = "join"
    /\ UNCHANGED <<plan, row, drive, task, layers, spend, tail>>

JoinReads(cost) ==
    /\ pc = "join"
    /\ cost > 0 => Len(layers) > 1 /\ Reserve >= Lens
    /\ tail' = [tail EXCEPT !.joined = Len(layers) > 1, !.left = @ - cost]
    /\ spend' = Charged(cost)
    /\ pc' = IF layers = <<>> THEN "finish" ELSE "lenses"
    /\ UNCHANGED <<plan, row, drive, task, layers>>

LayerCost == IF tail.left >= 2 * Lens THEN 0 .. 2 * Lens ELSE {0}

LayerReads(cost) ==
    /\ pc = "lenses" /\ cost \in LayerCost
    /\ tail' = [tail EXCEPT !.read = @ + 1, !.left = @ - cost]
    /\ spend' = Charged(cost)
    /\ pc' = IF tail.read + 1 = Len(layers) THEN "qualify" ELSE "lenses"
    /\ UNCHANGED <<plan, row, drive, task, layers>>

(* A raise files an error for every lens with no row yet. *)
EndReviewRaises ==
    /\ pc \in {"join", "lenses"} /\ plan.faults /\ layers # <<>>
    /\ tail' = [tail EXCEPT !.read = Len(layers)]
    /\ pc' = "qualify"
    /\ UNCHANGED <<plan, row, drive, task, layers, spend>>

(* The findings that qualify, grouped by layer.  A raise keeps the rows of *)
(* the ranges before it, and no group.                                     *)
Qualifies(found, raises) ==
    /\ pc = "qualify" /\ found \subseteq plan.findings \intersect LayerSpecs
    /\ raises => plan.faults
    /\ tail' = [tail EXCEPT !.qualified = found, !.kept = ~raises,
                            !.groups = IF raises THEN {} ELSE found]
    /\ pc' = IF raises THEN "finish" ELSE "write"
    /\ UNCHANGED <<plan, row, drive, task, layers, spend>>
-----------------------------------------------------------------------------
(* The follow-ups: one group, from the top layer down, one draft, sent     *)
(* back to its writer once at most, within what is left of the writer's    *)
(* share.                                                                  *)

Sessions(n) == {k * Session : k \in {m \in 0 .. n : m * Session <= WriterLeft}}
Group  == layers[Max({i \in DOMAIN layers : layers[i].spec \in tail.groups})].spec
Writes == pc = "write" /\ tail.groups # {} /\ UNCHANGED <<plan, row, layers>>
Pooled(groups) == tail' = [tail EXCEPT !.pooled = @ \union groups, !.groups = @ \ groups]

(* No probe of it stands, it cannot be paid for, or its drafts are refused. *)
Pools(cost) ==
    /\ Writes /\ cost \in Sessions(2)
    /\ Pooled({Group}) /\ spend' = ChargedWriting(cost)
    /\ UNCHANGED <<pc, drive, task>>

(* A rate limit, or a judge that raises, ends the writing. *)
Halts(cost) ==
    /\ Writes /\ cost \in Sessions(2) \ {0}
    /\ Pooled(tail.groups) /\ spend' = ChargedWriting(cost)
    /\ UNCHANGED <<pc, drive, task>>

Mints(cost) ==
    /\ Writes /\ cost \in Sessions(2) \ {0}
    /\ task' = [task EXCEPT ![FollowUp(Group)] = [NoTask EXCEPT !.state = "QUEUED", !.text = 1]]
    /\ drive' = [drive EXCEPT !.followUps = Append(@, FollowUp(Group))]
    /\ tail' = [tail EXCEPT !.groups = @ \ {Group}]
    /\ spend' = ChargedWriting(cost)
    /\ UNCHANGED pc

(* A raise pools every group not minted; what was minted is run by no one. *)
WriteRaises ==
    /\ Writes /\ plan.faults
    /\ Pooled(tail.groups)
    /\ pc' = "finish" /\ drive' = [drive EXCEPT !.followUps = <<>>]
    /\ UNCHANGED <<task, spend>>

(* They run one generation up, and only after an order that drained. *)
WritingEnds ==
    /\ pc = "write" /\ tail.groups = {}
    /\ IF drive.followUps # <<>> /\ drive.reason = "DRAINED"
       THEN pc' = "offer" /\ drive' = [drive EXCEPT !.gen = 1, !.started = {}]
       ELSE pc' = "finish" /\ UNCHANGED drive
    /\ UNCHANGED <<plan, row, task, layers, spend, tail>>
-----------------------------------------------------------------------------
(* The finishing layer, and the end. *)

Unrun == ToSet(drive.followUps) \ drive.routed

(* The commit is refused, unchanged, red, or atop a branch that moved. *)
FinishesNothing ==
    /\ pc = "finish" /\ pc' = "close"
    /\ UNCHANGED <<plan, row, drive, task, layers, spend, tail>>

Finishes ==
    /\ pc = "finish" /\ layers # <<>> /\ pc' = "close"
    /\ tail' = [tail EXCEPT !.finished = TRUE, !.handedOn = Unrun]
    /\ UNCHANGED <<plan, row, drive, task, layers, spend>>

Promoted(reason) ==
    IF drive.unpackaged # {} THEN "INFRASTRUCTURE"
    ELSE IF drive.inFlight # {} /\ reason # "INFRASTRUCTURE" THEN "INCOMPLETE"
    ELSE reason

Exits(reason) ==
    /\ row' = IF drive.resumed THEN row ELSE Promoted(reason)
    /\ pc' = "over" /\ drive' = Fresh

Close == pc = "close" /\ Exits(drive.reason) /\ UNCHANGED <<plan, task, layers, spend, tail>>

Running == pc \notin {"idle", "over"}

(* Ctrl-C, a SIGTERM, or a raise nothing catches. *)
Interrupted ==
    /\ Running /\ Exits("INFRASTRUCTURE")
    /\ task' = IF pc = "cell" THEN [task EXCEPT ![Cur].state = "ORPHANED"] ELSE task
    /\ UNCHANGED <<plan, layers, spend, tail>>

Kill ==
    /\ Running /\ pc' = "over" /\ drive' = Fresh
    /\ UNCHANGED <<plan, row, task, layers, spend, tail>>

(* `saffron finish` runs the tail of a night that was deferred and closed, *)
(* once: it is refused as soon as one end review is recorded.              *)
ResumeTail ==
    /\ pc = "over" /\ tail.deferred /\ row # "open" /\ layers # <<>>
    /\ ~tail.joined /\ tail.read = 0 /\ ~tail.finished
    /\ pc' = "ended" /\ drive' = Resumed
    /\ UNCHANGED <<plan, row, task, layers, spend, tail>>
-----------------------------------------------------------------------------
Loop == Drained \/ Until \/ OutOfBudget \/ Breaker
        \/ BaseGone \/ BaseUnasked \/ MintRaises \/ OpenPrRefused \/ Offer

Review ==
    \/ CiteRefuses
    \/ \E runtime \in BOOLEAN : CiteRaises(runtime)
    \/ \E moved \in {m \in BOOLEAN : m => plan.moves /\ pc = "review" /\ task[Cur].text = 0} :
         \/ \E runtime \in BOOLEAN : ReviewRaises(runtime, moved)
         \/ \E turns \in plan.reviews :
              \/ ReviewWaits(turns, moved) \/ ReviewErrs(turns, moved)
              \/ Escalates(turns, moved) \/ AsksRevision(turns, moved)
              \/ \E clashes \in BOOLEAN : Passes(turns, moved, clashes)

Revise == \/ Unaffordable
          \/ \E runtime \in BOOLEAN : ReviseRaises(runtime)
          \/ \E turns \in plan.writings :
               ReviseErrs(turns) \/ ReviseWaits(turns) \/ Revises(turns)

Cell == \/ CellRefused
        \/ \E cost \in CellCosts :
             \/ BecomesLayer(cost) \/ CellWaits(cost)
             \/ \E state \in plan.ends : CellOfferedAgain(state, cost) \/ CellMisses(state, cost)
             \/ \E kind \in {"package", "runtime", "other"} : CellRaises(kind, cost)

Written == \/ \E cost \in Sessions(2) : Pools(cost) \/ Halts(cost) \/ Mints(cost)
           \/ WriteRaises \/ WritingEnds

EndReview == \/ \E written \in BOOLEAN : Defers(written)
             \/ StartsEndReview
             \/ \E cost \in {0, Lens} : JoinReads(cost)
             \/ \E cost \in {0, 2 * Lens} : LayerReads(cost)
             \/ EndReviewRaises
             \/ \E found \in SUBSET plan.findings, raises \in BOOLEAN : Qualifies(found, raises)

Steps == Loop \/ Review \/ Revise \/ Cell \/ EndReview \/ Written
         \/ FinishesNothing \/ Finishes \/ Close

Next == OpenRow \/ NotReady \/ Steps \/ Interrupted \/ Kill \/ ResumeTail

Fairness == WF_vars(Steps)

Spec == Init /\ [][Next]_vars /\ Fairness
-----------------------------------------------------------------------------
(* Properties. *)

(* The layers are one chain (ADR 7, "One stack batch yields one pull       *)
(* request stack"): each records the layer before it as its predecessor,   *)
(* the first the stack base, and its cell was cut over all of those and    *)
(* nothing else, whatever missed, waited or was offered again between; and *)
(* a running cell has the code of every spec of the order its own depends  *)
(* on.  Left aside is a cell behind a spec that stands where it was, whose *)
(* stack base could not be asked for: it keeps the head of what remains,   *)
(* and no spec behind it is refused.                                       *)
StackIsAChain ==
    /\ \A i \in DOMAIN layers :
          /\ layers[i].over = (IF i > 1 THEN layers[i - 1].spec ELSE IF plan.base THEN Base ELSE -1)
          /\ task[layers[i].spec].tree = {layers[j].spec : j \in 1 .. i - 1}
                                         \union (IF plan.base THEN {Base} ELSE {})
    /\ (pc = "cell" /\ drive.remaining \intersect Before(Cur) = {})
          => Deps(Cur) \intersect Order \subseteq Under(drive)

(* What a cell builds is what a review last passed: between the two no     *)
(* revision, moved citation or wait put another text in its place.         *)
RunsTheTextReviewed ==
    pc = "cell" => task[Cur].route = "run" /\ task[Cur].judged = task[Cur].text

(* A follow-up is handed to the next night exactly when none of its        *)
(* recorded reviews decided on it: the finishing layer carries its spec    *)
(* also when its review waited for a rate limit that the night did not     *)
(* outlast.  One sent to its writer counts as decided, whatever the review *)
(* of its revision came to.                                                *)
UnreviewedIsHandedOn ==
    [][~tail.finished /\ tail'.finished
         => tail'.handedOn = {f \in ToSet(drive.followUps) : ~task[f].decided}]_vars

(* A stack night keeps the promise of every night: the order, the end      *)
(* review and the follow-ups together spend no more than the budget and    *)
(* one overshoot, on the one row, closed once; and it closes for an        *)
(* ordinary reason only with no cell left mid-phase or unpackaged.         *)
(* The overshoot is a cell's over its spec's budget, and either the review *)
(* before it or what is left of the writer's share after one revision,     *)
(* which the revision's own check does not hold back.                      *)
Overshoot == Max(CellCosts) - SpecBudget + Max({Session, Writer - Session})

Status == IF row = "open" /\ pc = "over" THEN "killed" ELSE row

LeftBehind == {s \in Ids : \/ task[s].state \in InFlight
                           \/ task[s].state = "READY_FOR_REVIEW" /\ ~task[s].pushed}

Promise == INSTANCE Batch WITH Limit <- Budget + Overshoot, status <- Status,
                               charged <- spend.all, left <- LeftBehind

KeepsItsPromise == Promise!Spec

(* Every night ends, however often a spec is offered again: the breaker    *)
(* bounds what the runtime and the provider break, given a rate limit that *)
(* lifts.                                                                  *)
NightEnds == Running ~> pc = "over"
=============================================================================
