---------------------------- MODULE CellSession ----------------------------
(***************************************************************************)
(* One task's cell, from the row that names it to its teardown: the        *)
(* control flow of saffron/cell/session.py `_drive_cell` with the phases   *)
(* it drives (plan checkpoint, IMPLEMENT, salvage, GATE/REPAIR, notes,     *)
(* REVIEW, REBUT) and its three ways out (a settled outcome, a closed rate *)
(* limit window, an exception).                                            *)
(*                                                                         *)
(* What the agent does is nondeterministic: a turn costs something, may    *)
(* move HEAD, may leave uncommitted edits and ends well or badly.  A gate  *)
(* suite's answer is one value of SuiteResults: all that the control tells *)
(* apart is green, an error or a drift, and which bag of new failures it   *)
(* is.  Money is in whole dollars.                                         *)
(***************************************************************************)
EXTENDS Integers

CONSTANTS
    Budget,          \* spec.budget_usd
    Overshoot,       \* how far one turn can run past the cap it was given
    MaxAttempts,     \* spec.max_attempts, the repair loop's bound
    SalvageReserve,  \* SALVAGE_RESERVE_USD
    ReviewFloor,     \* REVIEW_FLOOR_USD
    RebutCap,        \* REBUT_CAP_USD
    Extraction,      \* REBUT_RESERVES_USD["extraction"]
    Verdict,         \* REBUT_RESERVES_USD["verdict"]
    Lenses,          \* LENSES, one review session each
    ProbeSessions,   \* criterion and wrong-version sessions after them
    VerdictSessions, \* lenses that raised a blocker
    StartSpends,     \* what a stack batch's own task may already have spent
    NotesWorthAsking,\* a forbidden or a protected list is declared
    RedSuites,       \* bags of new failures a suite can report
    FormRed,         \* those of them in declared form gates alone
    TurnCommits,     \* how many commits one turn may make
    TurnLeaves,      \* whether one turn may leave uncommitted edits
    Raises           \* whether something unexpected may be raised

ASSUME MoneyAssumption ==
    /\ Budget \in Nat \ {0}
    /\ Overshoot \in Nat /\ SalvageReserve \in Nat /\ ReviewFloor \in Nat
    /\ RebutCap \in Nat /\ Extraction \in Nat /\ Verdict \in Nat
    /\ RebutCap > 0 /\ Extraction > 0 /\ Verdict > 0
    /\ StartSpends \subseteq Nat

ASSUME CountAssumption ==
    /\ MaxAttempts \in Nat \ {0}
    /\ Lenses \in Nat \ {0} /\ ProbeSessions \in Nat
    /\ VerdictSessions \in Nat \ {0}
    /\ NotesWorthAsking \in BOOLEAN

ASSUME SuiteAssumption ==
    /\ FormRed \subseteq RedSuites
    /\ {"green", "broken", "none"} \cap RedSuites = {}

ASSUME WorkAssumption ==
    /\ TurnCommits \subseteq Nat
    /\ TurnLeaves \subseteq BOOLEAN
    /\ Raises \in BOOLEAN

(***************************************************************************)
(* `broken` is an errored gate or a drift between the two suites: both are *)
(* infrastructure and every reader of a comparison treats them alike.      *)
(***************************************************************************)
SuiteResults == RedSuites \union {"green", "broken"}

LiveStates == {"QUEUED", "IMPLEMENTING", "REPAIRING", "REVIEWING", "REBUTTING"}

EndStates ==
    { "PREFLIGHT_FAILED", "SCOPE_REVIEW", "PLAN_REJECTED", "NOT_IMPLEMENTED",
      "PROVIDER_UNREACHABLE", "EXHAUSTED", "ORPHANED", "GATE_ERROR",
      "REVIEW_INCOMPLETE", "REBUTTAL_UNJUDGED", "RATE_LIMITED" }

Outcomes == EndStates \union {"READY_FOR_REVIEW", "none"}

(* The points at which a turn of the agent runs. *)
TurnPoints ==
    { "plan", "replan", "implement", "salvage", "repair", "notes", "review",
      "rebuttal", "extract", "rebutRepair", "verdict" }

(* The points inside `_drive_cell`'s try block where no turn runs. *)
HostPoints ==
    { "cellUp", "baseline", "planned", "empty", "gate", "afterLoop",
      "gateCell", "criticCell", "reviewed", "rebutStart", "rebutMeasure",
      "rebutGates", "rebutGatesAgain", "verdictCell", "verdictsIn" }

Points ==
    TurnPoints \union HostPoints
      \union { "settle", "finish", "abort", "orphan", "teardown", "done" }

VARIABLES
    pc,        \* where the session is
    row,       \* tasks.state
    run,       \* runs.status
    preflight, \* runs.preflight
    start,     \* ledger.task_spend when the cell began
    booked,    \* ledger.task_spend now: the sum over the closed attempts
    spent,     \* the session's own tally
    frame,     \* cost inside plan_checkpoint or REVIEW, not yet in the tally
    last,      \* last_cost: the figure a turn that reports none is charged
    held,      \* held_for_salvage_usd
    pool,      \* _RebutCap: limit, spent, cut
    head,      \* commits on the worktree's branch
    planned,   \* head when the plan was accepted
    dirty,     \* uncommitted edits in the worktree
    refused,   \* a hook refused a host checkpoint
    judged,    \* head whose patch the critics last read
    green,     \* head the implementer's suite last found green, or -1
    suites,    \* the repair loop's attempt number
    previous,  \* the last attempt's new failures, "none" before the first
    cutOff,    \* a bound cut the implement turn
    sessions,  \* critic sessions run in the current phase
    errored,   \* some critic session gave no answer
    unstarted, \* some verdict session never started
    argued,    \* the rebuttal recorded an argument
    probeInfra,\* a survivor's probe went unanswered after the rebuttal
    before,    \* head when REBUT began
    outcome,   \* the state the session settles on
    caught,    \* settling from an except clause, past the try block
    exported,  \* head of the exported patch, 0 when there is none
    result     \* the CellOutcome returned, or that the call raised

ledgerVars == <<row, run, preflight>>
moneyVars  == <<start, booked, spent, frame, last, held, pool>>
treeVars   == <<head, planned, dirty, refused, judged, green, exported>>
loopVars   == <<suites, previous, cutOff>>
criticVars == <<sessions, errored, unstarted, argued, probeInfra, before>>
endVars    == <<outcome, caught, result>>
vars == <<pc, ledgerVars, moneyVars, treeVars, loopVars, criticVars, endVars>>

NoResult == [how |-> "none", state |-> "none", spent |-> 0]
NoPool   == [limit |-> 0, spent |-> 0, cut |-> FALSE]

PlaceOK == pc \in Points

LedgerOK ==
    /\ row \in LiveStates \union EndStates
    /\ run \in {"RUNNING", "COMPLETE", "ABORTED"}
    /\ preflight \in {"none", "PASSED", "FAILED"}

PoolRecords == [limit : Nat, spent : Nat, cut : BOOLEAN]

MoneyOK ==
    /\ start \in Nat /\ booked \in Nat /\ spent \in Nat /\ frame \in Nat
    /\ last \in Nat /\ held \in Nat
    /\ pool \in PoolRecords

TreeOK ==
    /\ head \in Nat /\ planned \in Nat /\ judged \in Nat /\ exported \in Nat
    /\ green \in Nat \union {-1}
    /\ dirty \in BOOLEAN /\ refused \in BOOLEAN

LoopOK ==
    /\ suites \in 0 .. MaxAttempts
    /\ previous \in RedSuites \union {"none"}
    /\ cutOff \in BOOLEAN

CriticOK ==
    /\ sessions \in Nat /\ before \in Nat
    /\ errored \in BOOLEAN /\ unstarted \in BOOLEAN /\ argued \in BOOLEAN
    /\ probeInfra \in BOOLEAN

Results == [how : {"none", "returned", "raised"}, state : Outcomes, spent : Nat]

EndOK == outcome \in Outcomes /\ caught \in BOOLEAN /\ result \in Results

(* The variables keep their types; the repair loop never runs a suite past *)
(* max_attempts.                                                           *)
TypeOK == PlaceOK /\ LedgerOK /\ MoneyOK /\ TreeOK /\ LoopOK /\ CriticOK /\ EndOK

(***************************************************************************)
(* A cell starts on a row it minted, on a row a stack batch minted and may *)
(* have reviewed the spec of, or on such a row again after an earlier cell *)
(* of the same task ended RATE_LIMITED or cut off: the run is that row's   *)
(* own, finished already, and preflight was passed then.                   *)
(***************************************************************************)
Init ==
    /\ pc = "cellUp"
    /\ \/ row = "QUEUED" /\ run = "RUNNING" /\ preflight = "none"
       \/ row \in {"RATE_LIMITED", "ORPHANED"} /\ run = "COMPLETE" /\ preflight = "PASSED"
    /\ start \in StartSpends \union {0} /\ booked = start
    /\ spent = 0 /\ frame = 0 /\ last = 0 /\ held = 0 /\ pool = NoPool
    /\ head = 0 /\ planned = 0 /\ judged = 0 /\ exported = 0 /\ green = -1
    /\ dirty = FALSE /\ refused = FALSE
    /\ suites = 0 /\ previous = "none"
    /\ cutOff = FALSE
    /\ sessions = 0 /\ before = 0
    /\ errored = FALSE /\ unstarted = FALSE /\ argued = FALSE /\ probeInfra = FALSE
    /\ outcome = "none" /\ caught = FALSE /\ result = NoResult
-----------------------------------------------------------------------------
(* Arithmetic of the ceilings. *)

Larger(a, b)  == IF a >= b THEN a ELSE b
Smaller(a, b) == IF a <= b THEN a ELSE b

(* Variant: no host-side ceiling between the turns. *)
OverBudget_Never == FALSE

OverBudget == spent >= Budget

HeldForSalvage(tally) == Smaller(SalvageReserve, (Budget - tally) \div 2)

CriticBudget == Larger(Budget - spent, ReviewFloor)

PoolRemaining == pool.limit - pool.spent

(* Variant: a stage's reserve pays for the stage before it running over. *)
Opened_FromLimit(p, reserve) ==
    [limit |-> p.limit + reserve, spent |-> p.spent, cut |-> FALSE]

(* The pool a REBUT stage opens: a turn that ran past its pool leaves nothing. *)
Opened(p, reserve) ==
    [limit |-> Larger(p.limit, p.spent) + reserve, spent |-> p.spent, cut |-> FALSE]

(* The max_budget_usd the turn at this point is given. *)
TurnCap ==
    CASE pc = "implement"   -> (Budget - spent) - held
      [] pc = "salvage"     -> held
      [] pc = "review"      -> CriticBudget
      [] pc \in {"rebuttal", "extract", "verdict"} -> PoolRemaining
      [] pc = "rebutRepair" -> Budget - (spent + pool.spent)
      [] OTHER              -> Budget

(***************************************************************************)
(* A failed turn that reported no cost is charged the figure carried into  *)
(* it, last_cost_usd, which no cap of its own bounds.  The salvage turn's  *)
(* is scaled down by its share of the turns.                               *)
(***************************************************************************)
Carried ==
    CASE pc = "replan"  -> {frame}
      [] pc = "extract" -> {pool.spent}
      [] pc = "salvage" -> 0 .. last
      [] pc \in {"implement", "repair", "notes", "rebuttal", "rebutRepair"} -> {last}
      [] OTHER          -> {}

Costs(failed) ==
    0 .. (TurnCap + Overshoot) \union (IF failed THEN Carried ELSE {})
-----------------------------------------------------------------------------
(* Shared pieces of the actions. *)

GoTo(p) == pc' = p

(* Variant: the run is finished without the row. *)
Settle_RunOnly(s) == outcome' = s /\ pc' = "finish" /\ UNCHANGED <<caught, result>>

(* The state is decided; the row and the run are still to be written. *)
Settle(s) ==
    /\ outcome' = s
    /\ pc' = "settle"
    /\ UNCHANGED <<caught, result>>

Proceed(p) == GoTo(p) /\ UNCHANGED endVars

(* An attempt row closes with its cost whatever the turn was worth. *)
Book(c) == booked' = booked + c /\ UNCHANGED start

(* The same for a turn of the session's own, whose cost joins the tally here. *)
Charge(c) ==
    /\ Book(c)
    /\ spent' = spent + c
    /\ last' = c
    /\ UNCHANGED <<frame, held, pool>>

(* What one turn may do to the worktree. *)
Work ==
    /\ \E n \in TurnCommits : head' = head + n
    /\ dirty' \in TurnLeaves
    /\ UNCHANGED <<planned, refused, judged, green, exported>>

(* The host commits what a turn that made h commits left; a hook may refuse. *)
Checkpoint(h) ==
    /\ \/ FALSE \in TurnLeaves /\ head' = h /\ dirty' = FALSE /\ UNCHANGED refused
       \/ TRUE \in TurnLeaves /\ head' = h + 1 /\ dirty' = FALSE /\ UNCHANGED refused
       \/ TRUE \in TurnLeaves /\ head' = h /\ dirty' = TRUE /\ refused' = TRUE
    /\ UNCHANGED <<planned, judged, green, exported>>

(* Variant: the host leaves a failed turn's edits to the teardown. *)
WorkCheckpointed_Not == Work

WorkCheckpointed == \E n \in TurnCommits : Checkpoint(head + n)
-----------------------------------------------------------------------------
(* Bring-up and baseline. *)

(* cell_up, and a preflight check that refuses the start. *)
CellUp ==
    /\ pc = "cellUp"
    /\ \/ Proceed("baseline") /\ UNCHANGED preflight
       \/ /\ preflight' = "FAILED"
          /\ outcome' = "PREFLIGHT_FAILED" /\ pc' = "settle"
          /\ caught' = TRUE /\ UNCHANGED result
    /\ UNCHANGED <<row, run, moneyVars, treeVars, loopVars, criticVars>>

(* The suite at base: an errored gate ends the task before any turn. *)
Baseline ==
    /\ pc = "baseline"
    /\ \/ /\ preflight' = "FAILED"
          /\ Settle("PREFLIGHT_FAILED")
          /\ UNCHANGED row
       \/ /\ preflight' = "PASSED"
          /\ row' = "IMPLEMENTING"
          /\ Proceed("plan")
    /\ UNCHANGED <<run, moneyVars, treeVars, loopVars, criticVars>>
-----------------------------------------------------------------------------
(* The plan checkpoint: one turn, and one re-prompt for a shape failure. *)

(* What the checkpoint can end on without a plan. *)
PlanEnds ==
    {"SCOPE_REVIEW", "PLAN_REJECTED", "NOT_IMPLEMENTED"}
      \union (IF pc = "plan" THEN {"PROVIDER_UNREACHABLE"} ELSE {})

(* The states an AgentFailed plan turn ends on, apart from a rejected answer. *)
PlanFailed(s) == s \in {"NOT_IMPLEMENTED", "PROVIDER_UNREACHABLE"}

PlanCheckpoint ==
    /\ pc \in {"plan", "replan"}
    /\ Work
    /\ \/ \E c \in Costs(FALSE) :
            /\ Book(c)
            /\ frame' = frame + c
            /\ last' = c
            /\ UNCHANGED spent
            /\ \/ Proceed("planned")
               \/ pc = "plan" /\ Proceed("replan")
       \/ \E s \in PlanEnds : \E c \in Costs(PlanFailed(s)) :
            /\ Book(c)
            /\ spent' = frame + c
            /\ frame' = 0
            /\ UNCHANGED last
            /\ Settle(s)
    /\ UNCHANGED <<ledgerVars, held, pool, loopVars, criticVars>>

(* The accepted plan, and the host-side ceiling before any implement turn. *)
Planned ==
    /\ pc = "planned"
    /\ planned' = head
    /\ spent' = frame
    /\ frame' = 0
    /\ IF frame >= Budget
       THEN Settle("EXHAUSTED") /\ UNCHANGED held
       ELSE Proceed("implement") /\ held' = HeldForSalvage(frame)
    /\ UNCHANGED <<ledgerVars, start, booked, last, pool, head, dirty, refused, judged,
                   green, exported, loopVars, criticVars>>
-----------------------------------------------------------------------------
(* IMPLEMENT, its salvage turn, and what nothing committed comes to. *)

(* Doneness is commits past the plan.  A cut with none is salvaged while the *)
(* budget has room, and otherwise only checkpointed by the host.            *)
Implement ==
    /\ pc = "implement"
    /\ \E failed, cut \in BOOLEAN : \E c \in Costs(failed) :
         /\ cut => failed
         /\ Charge(c)
         /\ cutOff' = cut
         /\ \/ Work /\ head' > planned /\ Proceed("gate")
            \/ Work /\ head' = planned /\ ~cut /\ Proceed("empty")
            \/ Work /\ head' = planned /\ cut /\ spent + c < Budget /\ Proceed("salvage")
            \/ /\ cut /\ spent + c >= Budget
               /\ Checkpoint(head)
               /\ Proceed(IF head' > planned THEN "gate" ELSE "empty")
    /\ UNCHANGED <<ledgerVars, suites, previous, criticVars>>

(* last_cost keeps the implement turn's figure. *)
Salvage ==
    /\ pc = "salvage"
    /\ \E failed \in BOOLEAN : \E c \in Costs(failed) :
         Book(c) /\ spent' = spent + c
    /\ WorkCheckpointed
    /\ Proceed(IF head' > planned THEN "gate" ELSE "empty")
    /\ UNCHANGED <<ledgerVars, frame, last, held, pool, loopVars, criticVars>>

(* Only the first bound's cut at one spec_sha is re-queued as ORPHANED, and *)
(* whether an earlier one is on record is the ledger's to say.              *)
Empty ==
    /\ pc = "empty"
    /\ \E earlier \in BOOLEAN :
         Settle(IF cutOff /\ ~earlier THEN "ORPHANED" ELSE "NOT_IMPLEMENTED")
    /\ UNCHANGED <<ledgerVars, moneyVars, treeVars, loopVars, criticVars>>
-----------------------------------------------------------------------------
(* GATE and REPAIR, then the notes turn. *)

(* Variant: one attempt too many. *)
Decision_OffByOne(r, attempt) ==
    IF r = "broken" THEN "GATE_ERROR"
    ELSE IF r = "green" THEN "READY_FOR_REVIEW"
    ELSE IF r = previous \/ attempt > MaxAttempts THEN "EXHAUSTED"
    ELSE "repair"

(* repair_decision over one attempt's comparison. *)
Decision(r, attempt) ==
    IF r = "broken" THEN "GATE_ERROR"
    ELSE IF r = "green" THEN "READY_FOR_REVIEW"
    ELSE IF r = previous \/ attempt >= MaxAttempts THEN "EXHAUSTED"
    ELSE "repair"

(* What a suite in the implementer's cell can find.  Uncommitted edits fail *)
(* the `committed` gate, so a green suite saw none.                         *)
SuiteFinds(r) ==
    /\ r = "green" => ~dirty
    /\ green' = IF r = "green" THEN head ELSE green

LoopEnds(s) ==
    /\ outcome' = s
    /\ GoTo("notes")
    /\ UNCHANGED <<row, caught, result>>

(* One turn of repair_loop up to the turn it may spend. *)
Gate ==
    /\ pc = "gate"
    /\ suites' = suites + 1
    /\ \E r \in SuiteResults :
         /\ SuiteFinds(r)
         /\ previous' = IF r \in RedSuites THEN r ELSE previous
         /\ \/ /\ Decision(r, suites') = "repair" /\ ~OverBudget
               /\ row' = "REPAIRING"
               /\ Proceed("repair")
            \/ /\ Decision(r, suites') = "repair" /\ OverBudget
               /\ LoopEnds("EXHAUSTED")
            \/ /\ Decision(r, suites') # "repair"
               /\ LoopEnds(Decision(r, suites'))
    /\ UNCHANGED <<run, preflight, moneyVars, head, planned, dirty, refused, judged,
                   exported, cutOff, criticVars>>

(* A failed turn's edits are checkpointed; a clean turn's are left to the suite. *)
ImplementerTurn ==
    \E failed \in BOOLEAN : \E c \in Costs(failed) :
       /\ Charge(c)
       /\ IF failed THEN WorkCheckpointed ELSE Work

Repair ==
    /\ pc = "repair"
    /\ ImplementerTurn
    /\ Proceed("gate")
    /\ UNCHANGED <<ledgerVars, loopVars, criticVars>>

(* The implementer's own account, asked after the loop whatever it decided. *)
Notes ==
    /\ pc = "notes"
    /\ IF NotesWorthAsking /\ ~OverBudget
       THEN \E failed \in BOOLEAN : \E c \in Costs(failed) : Charge(c) /\ Work
       ELSE UNCHANGED <<moneyVars, treeVars>>
    /\ Proceed("afterLoop")
    /\ UNCHANGED <<ledgerVars, loopVars, criticVars>>

AfterLoop ==
    /\ pc = "afterLoop"
    /\ IF outcome = "READY_FOR_REVIEW"
       THEN row' = "REVIEWING" /\ Proceed("gateCell")
       ELSE Settle(outcome) /\ UNCHANGED row
    /\ UNCHANGED <<run, preflight, moneyVars, treeVars, loopVars, criticVars>>
-----------------------------------------------------------------------------
(* REVIEW. *)

(* A short-lived cell either takes the exported patch or ends the task. *)
PatchRefused == Settle("EXHAUSTED") \/ Settle("GATE_ERROR")

(* The Gate-only cell: of its suite's answers only `broken` stops the review. *)
GateCell ==
    /\ pc = "gateCell"
    /\ PatchRefused \/ Proceed("criticCell")
    /\ UNCHANGED <<ledgerVars, moneyVars, treeVars, loopVars, criticVars>>

(* Variant: a cell that does not come up has the review tried over, uncounted. *)
CriticCell_Retried ==
    /\ pc = "criticCell"
    /\ \/ Proceed("gateCell") /\ UNCHANGED judged
       \/ judged' = head /\ Proceed("review")
    /\ UNCHANGED <<ledgerVars, moneyVars, head, planned, dirty, refused, green,
                   exported, loopVars, criticVars>>

(* The history run's cell and the lens cell, then the diff the lenses read. *)
CriticCell ==
    /\ pc = "criticCell"
    /\ \/ PatchRefused /\ UNCHANGED judged
       \/ judged' = head /\ Proceed("review")
    /\ UNCHANGED <<ledgerVars, moneyVars, head, planned, dirty, refused, green,
                   exported, loopVars, criticVars>>

(***************************************************************************)
(* One lens, criterion or wrong-version session, its re-prompt included:   *)
(* that one is given what the first turn left.  Every session has the same *)
(* cap, computed from a tally that REVIEW's own cost has not reached.      *)
(***************************************************************************)
ReviewSession ==
    /\ pc = "review"
    /\ \E c \in Costs(FALSE), e \in BOOLEAN :
         /\ Book(c)
         /\ frame' = frame + c
         /\ errored' = (errored \/ (e /\ sessions < Lenses))
    /\ sessions' = sessions + 1
    /\ Proceed(IF sessions + 1 = Lenses + ProbeSessions THEN "reviewed" ELSE "review")
    /\ UNCHANGED <<ledgerVars, spent, last, held, pool, treeVars, loopVars, unstarted,
                   argued, probeInfra, before>>

(* review_state, once the probes have decided which findings are blockers. *)
Reviewed ==
    /\ pc = "reviewed"
    /\ spent' = spent + frame
    /\ frame' = 0
    /\ \/ errored /\ Settle("REVIEW_INCOMPLETE")
       \/ ~errored /\ Proceed("rebutStart")
       \/ ~errored /\ Settle("READY_FOR_REVIEW")
    /\ UNCHANGED <<ledgerVars, start, booked, last, held, pool, treeVars, loopVars,
                   criticVars>>
-----------------------------------------------------------------------------
(* REBUT. *)

RebutStart ==
    /\ pc = "rebutStart"
    /\ row' = "REBUTTING"
    /\ before' = head
    /\ pool' = [limit |-> RebutCap, spent |-> 0, cut |-> FALSE]
    /\ sessions' = 0
    /\ Proceed("rebuttal")
    /\ UNCHANGED <<run, preflight, start, booked, spent, frame, last, held, treeVars,
                   loopVars, errored, unstarted, argued, probeInfra>>

(* A turn drawn from the pool; a failure that spends it means the pool cut it. *)
Drawn(c, failed) ==
    [limit |-> pool.limit,
     spent |-> pool.spent + c,
     cut   |-> IF failed /\ pool.spent + c >= pool.limit THEN TRUE ELSE pool.cut]

(* The implementer's one attempt.  No extraction is bought for a failed one. *)
Rebuttal ==
    /\ pc = "rebuttal"
    /\ \E failed \in BOOLEAN : \E c \in Costs(failed) :
         /\ Book(c)
         /\ IF failed
            THEN pool' = Drawn(c, TRUE) /\ Proceed("rebutMeasure")
            ELSE pool' = Opened(Drawn(c, FALSE), Extraction) /\ Proceed("extract")
    /\ Work
    /\ UNCHANGED <<ledgerVars, spent, frame, last, held, loopVars, criticVars>>

(* Only a parsed answer can hold an argument. *)
Extract ==
    /\ pc = "extract"
    /\ \E failed \in BOOLEAN : \E c \in Costs(failed) :
         /\ Book(c)
         /\ pool' = Drawn(c, failed)
         /\ argued' \in IF failed THEN {FALSE} ELSE BOOLEAN
    /\ Work
    /\ Proceed("rebutMeasure")
    /\ UNCHANGED <<ledgerVars, spent, frame, last, held, loopVars, sessions, errored,
                   unstarted, probeInfra, before>>

(* run_rebut returned with state s: its cost joins the tally, and an unjudged *)
(* rebuttal a pool cut is EXHAUSTED.                                         *)
EndRebut(s) ==
    /\ spent' = spent + pool.spent
    /\ pool' = NoPool
    /\ Settle(IF pool.cut /\ s = "REBUTTAL_UNJUDGED" THEN "EXHAUSTED" ELSE s)

(* Go on to the next stage of run_rebut. *)
Onward(p) == Proceed(p) /\ UNCHANGED <<spent, pool>>

(* Nothing committed and nothing argued: HEAD is where the gates measured it. *)
RebutMeasure ==
    /\ pc = "rebutMeasure"
    /\ IF head = before /\ ~argued
       THEN EndRebut("REBUTTAL_UNJUDGED")
       ELSE Onward("rebutGates")
    /\ UNCHANGED <<ledgerVars, start, booked, frame, last, held, treeVars, loopVars,
                   criticVars>>

(***************************************************************************)
(* How a re-run ends REBUT: an errored or drifted suite is Saffron's, and  *)
(* so is a red one on `revert` alone whose probe went unanswered.          *)
(***************************************************************************)
GatesEnd(r, infra) ==
    \/ r = "broken" /\ EndRebut("GATE_ERROR")
    \/ r \in RedSuites \ FormRed /\ infra /\ EndRebut("GATE_ERROR")
    \/ r \in RedSuites /\ EndRebut("EXHAUSTED")
    \/ r = "green" /\ Onward("verdictCell")

(* Moved, the survivors' probes are asked again first, in a cell that may    *)
(* refuse the patch.  Red in form gates alone, with budget left, is repaired. *)
RebutGates ==
    /\ pc = "rebutGates"
    /\ \/ /\ head > before
          /\ EndRebut("EXHAUSTED") \/ EndRebut("GATE_ERROR")
          /\ UNCHANGED <<green, probeInfra>>
       \/ /\ probeInfra' \in IF head > before THEN BOOLEAN ELSE {FALSE}
          /\ \E r \in SuiteResults :
               /\ SuiteFinds(r)
               /\ IF r \in FormRed /\ spent + pool.spent < Budget
                  THEN Onward("rebutRepair")
                  ELSE GatesEnd(r, probeInfra')
    /\ UNCHANGED <<ledgerVars, start, booked, frame, last, held, head, planned, dirty,
                   refused, judged, exported, loopVars, sessions, errored, unstarted,
                   argued, before>>

(* Drawn from the task's remainder, never from REBUT's pools. *)
RebutRepair ==
    /\ pc = "rebutRepair"
    /\ ImplementerTurn
    /\ Proceed("rebutGatesAgain")
    /\ UNCHANGED <<ledgerVars, loopVars, criticVars>>

(* Variant: the form repair is trusted rather than measured. *)
RebutGatesAgain_Trusted ==
    /\ pc = "rebutGatesAgain"
    /\ Onward("verdictCell")
    /\ UNCHANGED <<ledgerVars, start, booked, frame, last, held, treeVars, loopVars,
                   criticVars>>

RebutGatesAgain ==
    /\ pc = "rebutGatesAgain"
    /\ \E r \in SuiteResults : SuiteFinds(r) /\ GatesEnd(r, probeInfra)
    /\ UNCHANGED <<ledgerVars, start, booked, frame, last, held, head, planned, dirty,
                   refused, judged, exported, loopVars, criticVars>>

(* Variant: the verdicts are taken over the diff REVIEW exported. *)
VerdictCell_Stale ==
    /\ pc = "verdictCell"
    /\ pool' = Opened(pool, Verdict)
    /\ Proceed("verdict")
    /\ UNCHANGED <<ledgerVars, start, booked, spent, frame, last, held, treeVars,
                   loopVars, criticVars>>

(* A fresh critic cell from the implementer's current HEAD. *)
VerdictCell ==
    /\ pc = "verdictCell"
    /\ \/ /\ EndRebut("EXHAUSTED") \/ EndRebut("GATE_ERROR")
          /\ UNCHANGED judged
       \/ /\ judged' = head
          /\ pool' = Opened(pool, Verdict)
          /\ UNCHANGED spent
          /\ Proceed("verdict")
    /\ UNCHANGED <<ledgerVars, start, booked, frame, last, held, head, planned, dirty,
                   refused, green, exported, loopVars, criticVars>>

(* One lens's verdict session; a spent pool refuses it before it starts. *)
VerdictSession ==
    /\ pc = "verdict"
    /\ sessions' = sessions + 1
    /\ \/ /\ PoolRemaining <= 0
          /\ pool' = [limit |-> pool.limit, spent |-> pool.spent, cut |-> TRUE]
          /\ errored' = TRUE
          /\ UNCHANGED <<start, booked, unstarted>>
       \/ /\ PoolRemaining > 0
          /\ \E c \in Costs(FALSE), how \in {"verdicts", "unusable", "failed", "unstarted"} :
               /\ Book(c)
               /\ pool' = Drawn(c, how \in {"failed", "unstarted"})
               /\ errored' = (errored \/ how # "verdicts")
               /\ unstarted' = (unstarted \/ how = "unstarted")
    /\ Proceed(IF sessions + 1 = VerdictSessions THEN "verdictsIn" ELSE "verdict")
    /\ UNCHANGED <<ledgerVars, spent, frame, last, held, treeVars, loopVars, argued,
                   probeInfra, before>>

(* rebut_state over the verdicts. *)
VerdictsIn ==
    /\ pc = "verdictsIn"
    /\ EndRebut(IF unstarted THEN "GATE_ERROR"
                ELSE IF errored THEN "REBUTTAL_UNJUDGED"
                ELSE "READY_FOR_REVIEW")
    /\ UNCHANGED <<ledgerVars, start, booked, frame, last, held, treeVars, loopVars,
                   criticVars>>
-----------------------------------------------------------------------------
(* The ways out. *)

(* Variant: an except clause forgets the row. *)
WriteRow_UnlessCaught ==
    /\ pc = "settle"
    /\ row' = IF outcome = "READY_FOR_REVIEW" \/ caught THEN row ELSE outcome
    /\ Proceed("finish")
    /\ UNCHANGED <<run, preflight, moneyVars, treeVars, loopVars, criticVars>>

(* The row first, then the run.  READY_FOR_REVIEW is left to PACKAGE. *)
WriteRow ==
    /\ pc = "settle"
    /\ row' = IF outcome = "READY_FOR_REVIEW" THEN row ELSE outcome
    /\ Proceed("finish")
    /\ UNCHANGED <<run, preflight, moneyVars, treeVars, loopVars, criticVars>>

FinishRun ==
    /\ pc = "finish"
    /\ run' = "COMPLETE"
    /\ result' = [how |-> "returned", state |-> outcome, spent |-> spent]
    /\ GoTo("teardown")
    /\ UNCHANGED <<outcome, caught, row, preflight, moneyVars, treeVars, loopVars,
                   criticVars>>

(* Variant: the session's own tally, which the walled turn has not reached. *)
ReadBack_Tally(rows) == spent

(* task_spend less what the task had spent before this cell. *)
ReadBack(rows) == rows - start

(***************************************************************************)
(* A rejected window, from any turn, clean or failed: the attempt closed   *)
(* with its cost first, and the tally is read back rather than summed.  A  *)
(* critic's turn is in another cell and cannot touch the worktree.         *)
(***************************************************************************)
RateLimited ==
    /\ pc \in TurnPoints
    /\ pc = "notes" => NotesWorthAsking /\ ~OverBudget
    /\ pc = "verdict" => PoolRemaining > 0
    /\ \E c \in Costs(TRUE) : Book(c) /\ spent' = ReadBack(booked + c)
    /\ frame' = 0
    /\ pool' = NoPool
    /\ IF pc \in {"review", "verdict"} THEN UNCHANGED treeVars ELSE Work
    /\ outcome' = "RATE_LIMITED" /\ caught' = TRUE /\ pc' = "settle"
    /\ UNCHANGED <<result, ledgerVars, last, held, loopVars, criticVars>>

(* Anything else that escapes the try block, Ctrl-C included. *)
Abort ==
    /\ Raises
    /\ pc \in TurnPoints \union HostPoints \union {"settle", "finish"}
    /\ ~caught
    /\ GoTo("abort")
    /\ UNCHANGED <<endVars, ledgerVars, moneyVars, treeVars, loopVars, criticVars>>

(* Variant: the row is orphaned while its run still reads as going. *)
AbortRun_RowFirst ==
    /\ pc = "abort"
    /\ row' = "ORPHANED"
    /\ Proceed("orphan")
    /\ UNCHANGED <<run, preflight, moneyVars, treeVars, loopVars, criticVars>>

(* The run first, then the row. *)
AbortRun ==
    /\ pc = "abort"
    /\ run' = "ABORTED"
    /\ Proceed("orphan")
    /\ UNCHANGED <<row, preflight, moneyVars, treeVars, loopVars, criticVars>>

Raised == result' = [how |-> "raised", state |-> "none", spent |-> 0]

Orphan ==
    /\ pc = "orphan"
    /\ row' = "ORPHANED"
    /\ Raised
    /\ GoTo("teardown")
    /\ UNCHANGED <<outcome, caught, run, preflight, moneyVars, treeVars, loopVars,
                   criticVars>>

(* An exception inside an except clause has no handler but the finally. *)
HandlerRaises ==
    /\ Raises
    /\ \/ pc \in {"settle", "finish"} /\ caught
       \/ pc \in {"abort", "orphan"}
    /\ Raised
    /\ GoTo("teardown")
    /\ UNCHANGED <<outcome, caught, ledgerVars, moneyVars, treeVars, loopVars, criticVars>>

(* The finally clause: the export before the cell goes, and it never raises. *)
Teardown ==
    /\ pc = "teardown"
    /\ exported' \in {head, 0}
    /\ Proceed("done")
    /\ UNCHANGED <<ledgerVars, moneyVars, head, planned, dirty, refused, judged, green,
                   loopVars, criticVars>>

Finished == pc = "done" /\ UNCHANGED vars

Progress ==
    \/ CellUp \/ Baseline \/ PlanCheckpoint \/ Planned
    \/ Implement \/ Salvage \/ Empty
    \/ Gate \/ Repair \/ Notes \/ AfterLoop
    \/ GateCell \/ CriticCell \/ ReviewSession \/ Reviewed
    \/ RebutStart \/ Rebuttal \/ Extract \/ RebutMeasure
    \/ RebutGates \/ RebutRepair \/ RebutGatesAgain
    \/ VerdictCell \/ VerdictSession \/ VerdictsIn
    \/ WriteRow \/ FinishRun \/ RateLimited \/ AbortRun \/ Orphan \/ Teardown

Next == Progress \/ Abort \/ HandlerRaises \/ Finished

(* A SIGKILL is a behaviour that stops: Safety allows it anywhere, and Spec,  *)
(* whose every turn and gate has a timeout, is the process that is not killed. *)
Safety == Init /\ [][Next]_vars

Spec == Init /\ [][Next]_vars /\ WF_vars(Progress)
-----------------------------------------------------------------------------
(* Properties. *)

Returned == result.how = "returned"

(***************************************************************************)
(* The cost a cell reports, on every way it can return, is what its own    *)
(* attempt rows add up to: no turn is dropped by a re-prompt, by a pool,   *)
(* by a window closing inside a phase's frame or by a resumed task's past. *)
(***************************************************************************)
ReportedSpend == Returned => result.spent = booked - start

(* The most any one turn of the implementer's can be charged. *)
TurnCeiling == Budget + Overshoot

ReviewCeiling ==
    (Lenses + ProbeSessions) * (Larger(Budget, ReviewFloor) + Overshoot)

(* The rebuttal and its extraction: each within its pool and one overshoot,  *)
(* or charged a carried figure, the session's or the rebuttal's own.          *)
AnswerCeiling ==
    Larger(Larger(RebutCap, Budget) + Overshoot,
           RebutCap + Larger(RebutCap, Extraction) + 2 * Overshoot)

RebutCeiling == AnswerCeiling + Verdict + Overshoot

(***************************************************************************)
(* A cell is never charged more than its ceilings allow, whatever the      *)
(* agent does: the budget and one turn past it up to the notes turn or the *)
(* form repair (the host asks before a turn and never during one), one     *)
(* capped session per lens and probe, and REBUT's own pools.               *)
(***************************************************************************)
SpendCeiling ==
    booked - start <= Budget + TurnCeiling + ReviewCeiling + RebutCeiling

(***************************************************************************)
(* A costly rebuttal cannot starve what follows it: the extraction and the *)
(* first verdict session each start with their own reserve in the pool.    *)
(***************************************************************************)
StageFunded ==
    /\ pc = "extract" => PoolRemaining >= Extraction
    /\ (pc = "verdict" /\ sessions = 0) => PoolRemaining >= Verdict

(***************************************************************************)
(* What is handed on as READY_FOR_REVIEW is the head the critics last      *)
(* read, and so is the patch exported for it, when one was; after a        *)
(* rebuttal it is also the head the gates last found green.                *)
(***************************************************************************)
ReadyIsJudged ==
    (Returned /\ result.state = "READY_FOR_REVIEW") =>
        /\ judged = head
        /\ pc = "done" => exported \in {head, 0}
        /\ row = "REBUTTING" => green = head /\ ~dirty

(***************************************************************************)
(* A bound's cut never discards work the host could have committed: the    *)
(* cell that ends with nothing to show has a clean worktree, or a hook     *)
(* refused the checkpoint.                                                 *)
(***************************************************************************)
CutWorkIsKept == (Returned /\ result.state = "ORPHANED") => ~dirty \/ refused

(***************************************************************************)
(* The row and the run settle in order.  A cell that returned left both    *)
(* agreeing with its answer, READY_FOR_REVIEW alone being left for PACKAGE *)
(* to write; the row a cell settled is overwritten by an exception's       *)
(* ORPHANED alone, and only once its run reads ABORTED; and a run reads    *)
(* COMPLETE only after the row says what it came to, so a kill between the *)
(* two writes never leaves a finished run over a live row.                 *)
(***************************************************************************)
SettlesInOrder ==
    /\ [](Returned => /\ run = "COMPLETE"
                      /\ IF result.state = "READY_FOR_REVIEW"
                         THEN row \in {"REVIEWING", "REBUTTING"}
                         ELSE row = result.state)
    /\ [][ /\ (row = outcome /\ row' # row) => row' = "ORPHANED" /\ run' = "ABORTED"
           /\ (run # "COMPLETE" /\ run' = "COMPLETE")
                 => row = outcome \/ outcome = "READY_FOR_REVIEW" ]_vars

(* Every cell that is not killed ends, returning or raising: no chain of     *)
(* re-prompts, repairs, sessions and handlers goes round for ever.           *)
Terminates == <>(pc = "done")
=============================================================================
