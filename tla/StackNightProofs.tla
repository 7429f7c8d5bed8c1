-------------------------- MODULE StackNightProofs --------------------------
(***************************************************************************)
(* What holds of every stack night, whatever its order, its prices and its *)
(* reviews.  StackInv is inductive: nine parts, of which Funded says what  *)
(* each place of the process must still be able to pay, Sorted where every *)
(* spec of the order is, Untouched that a spec still to be offered has     *)
(* left nothing behind.  From it follow that the layers are one chain, that *)
(* a cell builds the text a review passed, what the finishing layer hands  *)
(* on, and that a stack night implements Batch.                            *)
(***************************************************************************)
EXTENDS StackNight, SequenceTheorems, FiniteSetTheorems, WellFoundedInduction, TLAPS

(* What a night's process keeps, the ledger's rows, the layers, the tail.  *)
DriveFields == {"gen", "cur", "remaining", "started", "missed", "reviewed", "rounds",
                "revising", "gone", "pred", "predTask", "aborts", "routed", "inFlight",
                "unpackaged", "waits", "reason", "resumed", "followUps"}
TaskFields  == {"state", "text", "route", "judged", "decided", "tree", "pushed"}
TailFields  == {"deferred", "joined", "read", "left", "qualified", "kept", "groups", "pooled",
                "handedOn", "finished"}

IsDrive(d) == /\ DOMAIN d = DriveFields
              /\ d.gen \in {0, 1} /\ d.resumed \in BOOLEAN /\ d.followUps \in Seq(Int)
              /\ d.rounds \in [Ids -> Nat] /\ d.aborts \in Nat

IsTask(t) == DOMAIN t = TaskFields /\ t.decided \in BOOLEAN /\ t.pushed \in BOOLEAN

IsTail(t) == /\ DOMAIN t = TailFields
             /\ t.read \in Nat /\ t.left \in Int
             /\ {t.deferred, t.joined, t.finished} \subseteq BOOLEAN

Layer == [spec : Int, over : Int, gen : {0, 1}]

Busy    == {"review", "revise", "cell"}
Passing == {"offer"} \union Busy
Ending  == {"ended", "join", "lenses", "qualify", "write"}
Closing == {"finish", "close"}
Reasons == {"DRAINED", "BUDGET", "UNTIL", "INFRASTRUCTURE"}
Closed  == Reasons \union {"INCOMPLETE"}

Shape ==
    /\ plan \in Plans
    /\ pc \in {"idle", "over"} \union Passing \union Ending \union Closing
    /\ row \in {"none", "open"} \union Closed
    /\ IsDrive(drive)
    /\ DOMAIN task = Ids /\ \A s \in Ids : IsTask(task[s])
    /\ layers \in Seq(Layer)
    /\ spend \in [all : Nat, writing : Nat]
    /\ IsTail(tail)

(* Where the process can be: its tail runs over the order it ran, or over   *)
(* a closed night's, with nothing kept of it.                               *)
Places ==
    /\ pc = "idle" <=> row = "none"
    /\ ~Running => drive = Fresh
    /\ Running => (drive.resumed <=> row # "open")
    /\ drive.resumed => drive.gen = 1
    /\ drive.gen = 0 => drive.started \union drive.reviewed \union drive.routed \subseteq Order
    /\ (pc \in Ending /\ drive.gen = 1) => /\ drive.resumed /\ drive.started = {}
                                           /\ drive.reviewed = {} /\ drive.routed = {}
    /\ (pc \in Ending \union Closing /\ ~drive.resumed) => drive.reason \in Reasons
    /\ pc \notin Busy => drive.cur = 0
    /\ pc \in Busy =>
          /\ drive.cur \in drive.started
          /\ drive.cur \in (IF drive.gen = 0 THEN drive.remaining ELSE ToSet(drive.followUps))
    /\ drive.remaining \union drive.missed \subseteq Order
    /\ drive.started \subseteq Ids
    /\ ToSet(drive.followUps) \subseteq {FollowUp(s) : s \in Order}

(* The end review reads once, over what the order left.                    *)
ReadOnce ==
    /\ (pc \in {"idle", "ended", "join"} \/ (drive.gen = 0 /\ pc \in Passing))
         => tail.read = 0 /\ ~tail.joined
    /\ (pc \in {"qualify", "write"} \/ (drive.gen = 1 /\ pc \in Passing)) => tail.read > 0
    /\ pc = "write" => tail.groups \subseteq LayerSpecs

(* What the process has left behind it: no spec it may still offer.        *)
Past == (IF drive.gen = 0 THEN {} ELSE Order) \union (drive.started \ {drive.cur})

Untouched ==
    /\ pc = "idle" => layers = <<>> /\ LeftBehind = {} /\ spend.all = 0
    /\ LayerSpecs \subseteq Ids
    /\ Running => LayerSpecs \union LeftBehind \subseteq Past
    /\ tail.read = 0 => LayerSpecs \union LeftBehind \subseteq Order
    /\ (Running /\ row = "open") => LeftBehind \subseteq drive.inFlight \union drive.unpackaged

OverBase == IF plan.base THEN {Base} ELSE {}

Chained ==
    /\ \A i \in DOMAIN layers :
          /\ layers[i].over = (IF i > 1 THEN layers[i - 1].spec ELSE IF plan.base THEN Base ELSE -1)
          /\ task[layers[i].spec].tree = {layers[j].spec : j \in 1 .. i - 1} \union OverBase
    /\ Running => IF layers = <<>>
                  THEN drive.pred = 0 /\ drive.predTask = (IF plan.base THEN Base ELSE -1)
                  ELSE /\ drive.pred = layers[Len(layers)].spec
                       /\ drive.predTask = layers[Len(layers)].spec

(* Each spec of the order is left to run, missed or a layer, and the first  *)
(* of those left depends on no miss.                                        *)
Sorted ==
    (drive.gen = 0 /\ pc \in Passing) =>
        /\ Order \subseteq drive.remaining \union drive.missed \union LayerSpecs
        /\ \A s \in drive.remaining :
              drive.remaining \intersect Before(s) = {} => Deps(s) \intersect drive.missed = {}

Reviewed1 ==
    /\ \A s \in drive.reviewed :
          s \in Ids /\ task[s].route = "run" /\ task[s].judged = task[s].text
    /\ drive.reviewed \intersect drive.revising = {}
    /\ pc \in {"review", "revise"} => drive.cur \notin drive.reviewed
    /\ pc = "review" => drive.cur \notin drive.revising
    /\ pc = "cell" => drive.cur \in drive.reviewed

Decided == \A f \in ToSet(drive.followUps) : f \in drive.routed <=> task[f].decided

Limit == Budget + Overshoot
MaxCell == Max(CellCosts)

(* What the order may not spend: the end review's reserve and what is left *)
(* of the writer's share.                                                  *)
Kept == IF drive.gen = 0 THEN Reserve + WriterLeft ELSE 0

Funded ==
    /\ spend.all <= Limit
    /\ pc = "offer" => spend.all + Kept <= Limit
    /\ pc = "review" => spend.all + Kept + Session + MaxCell <= Limit
    /\ pc \in {"revise", "cell"} => spend.all + Kept + MaxCell <= Limit
    /\ pc \in {"ended", "join"} => spend.all + Reserve + WriterLeft <= Limit
    /\ pc = "lenses" => spend.all + tail.left + WriterLeft <= Limit /\ tail.left >= 0
    /\ pc \in {"qualify", "write"} => spend.all + WriterLeft <= Limit
    /\ (tail.read = 0 /\ ~tail.joined) => tail.left = Reserve
    /\ (tail.deferred /\ tail.read = 0 /\ ~tail.joined) =>
          spend.all + Reserve + WriterLeft <= Limit

StackInv == /\ Shape /\ Places /\ ReadOnce /\ Untouched /\ Chained /\ Sorted /\ Reviewed1
            /\ Decided /\ Funded
-----------------------------------------------------------------------------
(* The constants, the order's numbers, and the maxima.                     *)

LEMMA Constants ==
    /\ Budget \in Nat /\ Reserve \in Nat /\ Writer \in Nat /\ MaxReviseRounds \in Nat
    /\ SpecBudget \in Nat /\ Session \in Nat /\ Lens \in Nat
    /\ Reserve + Writer <= Budget
    /\ CellCosts \subseteq Nat
  BY StackNightAssumption

LEMMA MaxCellIs ==
    MaxCell \in Nat /\ SpecBudget <= MaxCell /\ \A cost \in CellCosts : cost <= MaxCell
<1>1. PICK most \in CellCosts : SpecBudget <= most /\ \A cost \in CellCosts : cost <= most
  BY StackNightAssumption
<1>2. \A cost \in CellCosts : most >= cost
  BY <1>1, Constants
<1>3. MaxCell \in CellCosts /\ \A cost \in CellCosts : MaxCell >= cost
  BY <1>2 DEF MaxCell, Max
<1> QED
  BY <1>1, <1>3, Constants

LEMMA MaxOfTwo ==
    \A a, b \in Int : Max({a, b}) \in {a, b} /\ Max({a, b}) >= a /\ Max({a, b}) >= b
<1> SUFFICES ASSUME NEW a \in Int, NEW b \in Int
             PROVE  Max({a, b}) \in {a, b} /\ Max({a, b}) >= a /\ Max({a, b}) >= b
  OBVIOUS
<1>1. \E x \in {a, b} : \A y \in {a, b} : x >= y
  <2>1. CASE a >= b
    BY <2>1
  <2>2. CASE ~(a >= b)
    BY <2>2
  <2> QED
    BY <2>1, <2>2
<1> QED
  BY <1>1 DEF Max

LEMMA AtLeastNone ==
    \A a \in Int : Max({0, a}) \in {0, a} /\ Max({0, a}) >= 0 /\ Max({0, a}) >= a
  BY MaxOfTwo, 0 \in Int

LEMMA WriterLeftIs ==
    ASSUME spend \in [all : Nat, writing : Nat]
    PROVE  /\ WriterLeft \in Nat /\ WriterLeft >= Writer - spend.writing
           /\ WriterLeft = 0 \/ WriterLeft = Writer - spend.writing
<1>1. Writer - spend.writing \in Int
  BY Constants
<1>2. WriterLeft = Max({0, Writer - spend.writing})
  BY DEF WriterLeft
<1>3. /\ Max({0, Writer - spend.writing}) \in {0, Writer - spend.writing}
      /\ Max({0, Writer - spend.writing}) >= 0
      /\ Max({0, Writer - spend.writing}) >= Writer - spend.writing
  BY <1>1, AtLeastNone
<1> QED
  BY <1>1, <1>2, <1>3

(* The share a charge of the writer's leaves.                              *)
LEMMA WriterPays ==
    ASSUME spend \in [all : Nat, writing : Nat], spend' \in [all : Nat, writing : Nat],
           NEW cost \in Nat, spend'.writing = spend.writing + cost
    PROVE  /\ WriterLeft' \in Nat /\ WriterLeft' <= WriterLeft
           /\ cost <= WriterLeft => WriterLeft' + cost = WriterLeft
           /\ WriterLeft' = 0 \/ WriterLeft' <= Writer - cost
<1>1. WriterLeft = Max({0, Writer - spend.writing})
  BY DEF WriterLeft
<1>2. WriterLeft' = Max({0, Writer - (spend.writing + cost)})
  BY DEF WriterLeft
<1>3. Writer - spend.writing \in Int /\ Writer - (spend.writing + cost) \in Int /\ spend.writing \in Nat
  BY Constants
<1>4. /\ Max({0, Writer - spend.writing}) \in {0, Writer - spend.writing}
      /\ Max({0, Writer - spend.writing}) >= 0
      /\ Max({0, Writer - spend.writing}) >= Writer - spend.writing
  BY <1>3, AtLeastNone
<1>5. /\ Max({0, Writer - (spend.writing + cost)}) \in {0, Writer - (spend.writing + cost)}
      /\ Max({0, Writer - (spend.writing + cost)}) >= 0
      /\ Max({0, Writer - (spend.writing + cost)}) >= Writer - (spend.writing + cost)
  BY <1>3, AtLeastNone
<1> QED
  BY <1>1, <1>2, <1>3, <1>4, <1>5, Constants

LEMMA WriterWaits ==
    ASSUME spend'.writing = spend.writing
    PROVE  WriterLeft' = WriterLeft
  BY DEF WriterLeft

LEMMA LimitIs ==
    /\ Limit \in Int
    /\ Limit >= Budget - SpecBudget + MaxCell + Session
    /\ Limit >= Budget - SpecBudget + MaxCell + (Writer - Session)
<1>1. Writer - Session \in Int /\ Session \in Int
  BY Constants
<1>2. /\ Max({Session, Writer - Session}) \in {Session, Writer - Session}
      /\ Max({Session, Writer - Session}) >= Session
      /\ Max({Session, Writer - Session}) >= Writer - Session
  BY <1>1, MaxOfTwo
<1>3. Limit = Budget + (MaxCell - SpecBudget + Max({Session, Writer - Session}))
  BY DEF Limit, Overshoot, MaxCell
<1> QED
  BY <1>1, <1>2, <1>3, Constants, MaxCellIs

LEMMA LeastIs ==
    ASSUME NEW S, S \subseteq Nat, S # {}
    PROVE  \E x \in S : \A y \in S : x <= y
<1>1. PICK n \in S : TRUE
  OBVIOUS
<1> DEFINE T == {0 .. i : i \in {i \in S : i <= n}}
<1>2. T # {} /\ T \subseteq SUBSET (0 .. n)
  BY <1>1
<1>3. IsFiniteSet(0 .. n)
  BY <1>1, FS_Interval
<1>4. IsWellFoundedOn(StrictSubsetOrdering(0 .. n), SUBSET (0 .. n))
  BY <1>3, FS_StrictSubsetOrderingWellFounded, FS_FiniteSubsetsOfFinite
<1>5. PICK m \in T : \A y \in T : ~ (<<y, m>> \in StrictSubsetOrdering(0 .. n))
  BY <1>2, <1>4, WFMin
<1>6. PICK x \in S : x <= n /\ m = 0 .. x
  OBVIOUS
<1>7. ASSUME NEW y \in S, ~(x <= y)
      PROVE  FALSE
  <2>1. y <= n /\ y < x /\ y \in Nat /\ x \in Nat
    BY <1>1, <1>6, <1>7
  <2>2. 0 .. y \in T /\ 0 .. y \subseteq 0 .. x /\ x \notin 0 .. y /\ x \in 0 .. x
    BY <2>1
  <2>3. <<0 .. y, 0 .. x>> \in StrictSubsetOrdering(0 .. n)
    BY <2>2, <1>2, <1>6 DEF StrictSubsetOrdering
  <2> QED
    BY <2>2, <2>3, <1>5, <1>6
<1> QED
  BY <1>7

LEMMA MinIs ==
    ASSUME NEW S, S \subseteq Nat, S # {}
    PROVE  Min(S) \in S /\ \A y \in S : Min(S) <= y
  BY LeastIs DEF Min

LEMMA MaxIs ==
    ASSUME NEW n \in Nat, NEW S, S \subseteq 1 .. n, S # {}
    PROVE  Max(S) \in S
<1>0. \A i \in S : n - i \in Nat
  <2>1. \A i \in 1 .. n : n - i \in Nat
    OBVIOUS
  <2> QED
    BY <2>1
<1>1. {n - i : i \in S} \subseteq Nat /\ {n - i : i \in S} # {}
  BY <1>0
<1>2. PICK m \in {n - i : i \in S} : \A y \in {n - i : i \in S} : m <= y
  BY <1>1, LeastIs
<1>3. PICK x \in S : m = n - x
  BY <1>2
<1>4. \A y \in S : n - x <= n - y
  BY <1>2, <1>3
<1>5. \A y \in S : x >= y
  <2>1. \A y \in 1 .. n : n - x <= n - y => x >= y
    BY <1>3
  <2> QED
    BY <1>4, <2>1
<1> QED
  BY <1>5 DEF Max
LEMMA PlanIs ==
    ASSUME plan \in Plans
    PROVE  /\ plan.order \in Seq(Nat \ {0})
           /\ \A i, j \in DOMAIN plan.order :
                 /\ plan.order[i] = plan.order[j] => i = j
                 /\ plan.order[j] \in plan.deps[plan.order[i]] => j < i
           /\ plan.base \in BOOLEAN /\ "READY_FOR_REVIEW" \notin plan.ends
  BY StackNightAssumption

LEMMA SpecsAre ==
    ASSUME plan \in Plans
    PROVE  /\ Order \subseteq Nat \ {0}
           /\ Ids \subseteq Int /\ 0 \notin Ids
           /\ Order \subseteq Ids
           /\ \A s \in Order : FollowUp(s) \in Ids /\ FollowUp(s) \notin Order
<1>1. Order \subseteq Nat \ {0}
  BY PlanIs DEF Order, ToSet
<1>2. \A s \in Order : FollowUp(s) \in Int /\ FollowUp(s) < 0
  BY <1>1 DEF FollowUp
<1>3. Ids \subseteq Int /\ 0 \notin Ids /\ Order \subseteq Ids
  <2>1. \A x \in Ids : x \in Order \/ \E s \in Order : x = FollowUp(s)
    BY DEF Ids
  <2>2. \A s \in Order : s \in Int /\ s # 0 /\ FollowUp(s) \in Int /\ FollowUp(s) # 0
    BY <1>1, <1>2
  <2>3. \A x \in Ids : x \in Int /\ x # 0
    BY <2>1, <2>2
  <2> QED
    BY <2>3 DEF Ids
<1>4. \A s \in Order : FollowUp(s) \in Ids
  BY DEF Ids
<1>5. \A s \in Order : FollowUp(s) \notin Order
  BY <1>1, <1>2
<1> QED
  BY <1>1, <1>3, <1>4, <1>5

LEMMA BeforeOrAfter ==
    ASSUME plan \in Plans, NEW r \in Order, NEW s \in Order, r # s
    PROVE  r \in Before(s) \/ s \in Before(r)
<1>1. PICK i \in DOMAIN plan.order : plan.order[i] = r
  BY DEF Order, ToSet
<1>2. PICK j \in DOMAIN plan.order : plan.order[j] = s
  BY DEF Order, ToSet
<1>3. i \in Int /\ j \in Int /\ i # j
  BY <1>1, <1>2, PlanIs
<1> QED
  BY <1>1, <1>2, <1>3 DEF Before

LEMMA DepsAreBefore ==
    ASSUME plan \in Plans, NEW s \in Order, NEW r \in Order, r \in Deps(s)
    PROVE  r \in Before(s)
<1>1. PICK i \in DOMAIN plan.order : plan.order[i] = s
  BY DEF Order, ToSet
<1>2. PICK j \in DOMAIN plan.order : plan.order[j] = r
  BY DEF Order, ToSet
<1>3. j < i
  BY <1>1, <1>2, PlanIs DEF Deps
<1> QED
  BY <1>1, <1>2, <1>3 DEF Before
-----------------------------------------------------------------------------
(* What the loop's helpers do to what the process keeps.                   *)

LEMMA FreshIs ==
    ASSUME plan \in Plans
    PROVE  /\ IsDrive(Fresh)
           /\ Fresh.gen = 0 /\ Fresh.cur = 0 /\ Fresh.remaining = Order /\ Fresh.started = {}
           /\ Fresh.missed = {} /\ Fresh.reviewed = {} /\ Fresh.revising = {} /\ Fresh.routed = {}
           /\ Fresh.inFlight = {} /\ Fresh.unpackaged = {} /\ Fresh.resumed = FALSE
           /\ Fresh.followUps = <<>> /\ Fresh.pred = 0
           /\ Fresh.predTask = (IF plan.base THEN Base ELSE -1)
<1>2. <<>> \in Seq(Int)
  OBVIOUS
<1>3. [s \in Ids |-> 0] \in [Ids -> Nat]
  OBVIOUS
<1>5. /\ Fresh.gen = 0 /\ Fresh.cur = 0 /\ Fresh.remaining = Order /\ Fresh.started = {}
      /\ Fresh.missed = {} /\ Fresh.reviewed = {} /\ Fresh.revising = {} /\ Fresh.routed = {}
      /\ Fresh.inFlight = {} /\ Fresh.unpackaged = {} /\ Fresh.resumed = FALSE
      /\ Fresh.followUps = <<>> /\ Fresh.pred = 0
      /\ Fresh.predTask = (IF plan.base THEN Base ELSE -1)
  BY DEF Fresh
<1>6. IsDrive(Fresh)
  BY <1>2, <1>3 DEF Fresh, IsDrive, DriveFields
<1> QED
  BY <1>5, <1>6

LEMMA ResolveDoes ==
    ASSUME plan \in Plans, NEW d, IsDrive(d)
    PROVE  /\ IsDrive(ResolvePrefix(d))
           /\ ResolvePrefix(d).remaining \subseteq d.remaining
           /\ d.missed \subseteq ResolvePrefix(d).missed
           /\ ResolvePrefix(d).missed \subseteq d.missed \union d.remaining
           /\ d.remaining \union d.missed
                \subseteq ResolvePrefix(d).remaining \union ResolvePrefix(d).missed
           /\ ResolvePrefix(d).gen = d.gen /\ ResolvePrefix(d).started = d.started
           /\ ResolvePrefix(d).reviewed = d.reviewed /\ ResolvePrefix(d).revising = d.revising
           /\ ResolvePrefix(d).routed = d.routed /\ ResolvePrefix(d).inFlight = d.inFlight
           /\ ResolvePrefix(d).unpackaged = d.unpackaged /\ ResolvePrefix(d).pred = d.pred
           /\ ResolvePrefix(d).predTask = d.predTask /\ ResolvePrefix(d).resumed = d.resumed
           /\ ResolvePrefix(d).followUps = d.followUps
           /\ ResolvePrefix(d).rounds = d.rounds /\ ResolvePrefix(d).aborts = d.aborts
           /\ d.remaining = {} => ResolvePrefix(d).remaining = {} /\ ResolvePrefix(d).missed = d.missed
  BY DEF ResolvePrefix, IsDrive, DriveFields

(* The first of what is left after it depends on no miss.                  *)
LEMMA ResolveLeaves ==
    ASSUME plan \in Plans, NEW d, IsDrive(d), d.remaining \subseteq Order,
           NEW s \in ResolvePrefix(d).remaining, ResolvePrefix(d).remaining \intersect Before(s) = {}
    PROVE  Deps(s) \intersect ResolvePrefix(d).missed = {}
<1> DEFINE Ahead(t)   == d.remaining \intersect Before(t)
           Refused(t) == Deps(t) \intersect (d.missed \union Ahead(t)) # {}
           prefix     == {t \in d.remaining : \A r \in Ahead(t) \union {t} : Refused(r)}
<1>1. /\ ResolvePrefix(d).remaining = d.remaining \ prefix
      /\ ResolvePrefix(d).missed = d.missed \union prefix
  BY DEF ResolvePrefix, IsDrive, DriveFields
<1>2. s \in d.remaining /\ s \notin prefix /\ Ahead(s) \subseteq prefix
  BY <1>1
<1>3. ~Refused(s)
  <2>1. PICK r \in Ahead(s) \union {s} : ~Refused(r)
    BY <1>2
  <2>2. r \notin Ahead(s)
    <3>1. \A t \in prefix : Refused(t)
      OBVIOUS
    <3> QED
      BY <2>1, <3>1, <1>2
  <2> QED
    BY <2>1, <2>2
<1>4. Deps(s) \intersect prefix = {}
  <2>1. \A r \in prefix : r \in d.remaining /\ r \in Order
    OBVIOUS
  <2>2. \A r \in prefix : r \in Deps(s) => r \in Ahead(s)
    BY <1>2, <2>1, DepsAreBefore
  <2> QED
    BY <1>3, <2>2
<1> QED
  BY <1>1, <1>3, <1>4
-----------------------------------------------------------------------------
(* A step that is done with the spec s for now: the loop goes on, or the   *)
(* pass over the order, or over the follow-ups, ends.                      *)

(* What the process keeps once it is, of what it kept before.              *)
Follows(s, d) ==
    /\ IsDrive(d)
    /\ d.gen = drive.gen /\ d.pred = drive.pred /\ d.predTask = drive.predTask
    /\ d.resumed = drive.resumed /\ d.followUps = drive.followUps
    /\ drive.started \ {s} \subseteq d.started /\ d.started \subseteq drive.started \union {s}
    /\ drive.reviewed \subseteq d.reviewed /\ d.reviewed \subseteq drive.reviewed \union {s}
    /\ drive.revising \ {s} \subseteq d.revising /\ d.revising \subseteq drive.revising \union {s}
    /\ drive.routed \subseteq d.routed /\ d.routed \subseteq drive.routed \union {s}
    /\ drive.inFlight \subseteq d.inFlight /\ drive.unpackaged \subseteq d.unpackaged
    /\ \/ d.remaining = drive.remaining /\ d.missed = drive.missed
       \/ /\ drive.gen = 0
          /\ d.remaining = drive.remaining \ {s} /\ d.missed = drive.missed \union {s}

(* What it makes of the spec's row, and of the money.                      *)
Context(s) ==
    /\ pc \in Passing
    /\ pc = "offer" => s \notin drive.started
    /\ pc \in Busy => s = drive.cur
    /\ s \in (IF drive.gen = 0 THEN drive.remaining ELSE ToSet(drive.followUps))
    /\ DOMAIN task' = Ids /\ \A r \in Ids \ {s} : task'[r] = task[r]
    /\ IsTask(task'[s])
    /\ spend' \in [all : Nat, writing : Nat] /\ spend.all <= spend'.all
    /\ spend'.all + (IF drive.gen = 0 THEN Reserve + WriterLeft' ELSE 0) <= Limit
    /\ UNCHANGED <<plan, row, layers, tail>>

(* What is kept says of the spec what its row says.                        *)
Settles(s, d) ==
    /\ s \in d.reviewed => /\ s \notin d.revising
                           /\ task'[s].route = "run" /\ task'[s].judged = task'[s].text
    /\ (s \in drive.routed <=> task[s].decided) => (s \in d.routed <=> task'[s].decided)
    /\ s \in LeftBehind' => s \in d.started /\ s \in d.inFlight \union d.unpackaged

Leaves(s, d) == /\ Context(s) /\ Follows(s, d) /\ Settles(s, d)
                /\ Rescans(d) \/ PassEnds(d, "UNTIL")

LEMMA PlanStays ==
    ASSUME plan' = plan
    PROVE  /\ Order' = Order /\ Ids' = Ids /\ OverBase' = OverBase /\ Limit' = Limit
           /\ \A s : Before(s)' = Before(s) /\ Deps(s)' = Deps(s)
  BY DEF Order, Ids, OverBase, Limit, Overshoot, Before, Deps

(* What the process keeps after it.                                        *)
LEMMA LeavesDoes ==
    ASSUME StackInv, NEW s, NEW d, Leaves(s, d)
    PROVE  /\ IsDrive(drive') /\ drive'.cur = 0
           /\ drive'.gen = drive.gen /\ drive'.pred = drive.pred
           /\ drive'.predTask = drive.predTask /\ drive'.resumed = drive.resumed
           /\ drive'.followUps = drive.followUps
           /\ drive'.started = d.started /\ drive'.reviewed = d.reviewed
           /\ drive'.revising = d.revising /\ drive'.routed = d.routed
           /\ drive'.inFlight = d.inFlight /\ drive'.unpackaged = d.unpackaged
           /\ drive'.remaining \subseteq d.remaining
           /\ drive'.missed \subseteq d.missed \union d.remaining
           /\ drive.gen = 0 => s \in Order
           /\ drive.gen = 1 => s \in {FollowUp(r) : r \in Order}
           /\ s \in Ids
           /\ \/ /\ pc' = "offer" /\ drive'.remaining = ResolvePrefix(d).remaining
                 /\ drive'.missed = ResolvePrefix(d).missed
              \/ /\ drive'.reason = "UNTIL"
                 /\ pc' = (IF drive.gen = 1 THEN "finish" ELSE "ended")
<1>1. IsDrive(d) /\ plan \in Plans /\ IsDrive(drive)
  BY DEF StackInv, Shape, Leaves, Context, Follows
<1>2. IsDrive(ResolvePrefix(d))
  BY <1>1, ResolveDoes
<1>3. d.gen = drive.gen /\ d.pred = drive.pred /\ d.predTask = drive.predTask
      /\ d.resumed = drive.resumed /\ d.followUps = drive.followUps
  BY DEF Leaves, Follows
<1>4. /\ drive.gen \in {0, 1}
      /\ drive.gen = 0 => s \in Order
      /\ drive.gen = 1 => s \in {FollowUp(r) : r \in Order}
  BY <1>1 DEF Leaves, Context, StackInv, Places, IsDrive
<1>5. s \in Ids
  BY <1>4 DEF Ids
<1>6. CASE pc' = "offer" /\ drive' = [ResolvePrefix(d) EXCEPT !.cur = 0]
  <2>1. PICK e : IsDrive(e) /\ e = ResolvePrefix(d)
    BY <1>2
  <2>2. drive' = [e EXCEPT !.cur = 0]
    BY <1>6, <2>1
  <2>3. IsDrive(drive')
    BY <2>1, <2>2 DEF IsDrive, DriveFields
  <2>4. /\ drive'.cur = 0 /\ drive'.gen = e.gen /\ drive'.pred = e.pred
        /\ drive'.predTask = e.predTask /\ drive'.resumed = e.resumed
        /\ drive'.followUps = e.followUps /\ drive'.started = e.started
        /\ drive'.reviewed = e.reviewed /\ drive'.revising = e.revising
        /\ drive'.routed = e.routed /\ drive'.inFlight = e.inFlight
        /\ drive'.unpackaged = e.unpackaged /\ drive'.remaining = e.remaining
        /\ drive'.missed = e.missed
    BY <2>1, <2>2 DEF IsDrive, DriveFields
  <2> QED
    BY <1>1, <1>3, <1>4, <1>5, <1>6, <2>1, <2>3, <2>4, ResolveDoes
<1>7. CASE PassEnds(d, "UNTIL")
  <2>1. /\ drive' = [d EXCEPT !.reason = "UNTIL", !.cur = 0]
        /\ pc' = (IF d.gen = 1 THEN "finish" ELSE "ended")
    BY <1>7 DEF PassEnds
  <2>2. IsDrive(drive')
    BY <1>1, <2>1 DEF IsDrive, DriveFields
  <2>3. /\ drive'.cur = 0 /\ drive'.gen = d.gen /\ drive'.pred = d.pred
        /\ drive'.predTask = d.predTask /\ drive'.resumed = d.resumed
        /\ drive'.followUps = d.followUps /\ drive'.started = d.started
        /\ drive'.reviewed = d.reviewed /\ drive'.revising = d.revising
        /\ drive'.routed = d.routed /\ drive'.inFlight = d.inFlight
        /\ drive'.unpackaged = d.unpackaged /\ drive'.remaining = d.remaining
        /\ drive'.missed = d.missed /\ drive'.reason = "UNTIL"
    BY <1>1, <2>1 DEF IsDrive, DriveFields
  <2> QED
    BY <1>3, <1>4, <1>5, <2>1, <2>2, <2>3
<1> QED
  BY <1>6, <1>7 DEF Leaves, Rescans

(* The spec such a step is about has no layer, and left nothing behind.    *)
LEMMA NotPast ==
    ASSUME StackInv, pc \in Passing, NEW s,
           pc = "offer" => s \notin drive.started,
           pc \in Busy => s = drive.cur,
           s \in (IF drive.gen = 0 THEN drive.remaining ELSE ToSet(drive.followUps))
    PROVE  /\ s \notin Past /\ s \notin LayerSpecs /\ s \notin LeftBehind
           /\ s \in Ids /\ Running
           /\ drive.gen = 0 => s \in Order
           /\ drive.gen = 1 => s \notin Order
<1>1. plan \in Plans /\ drive.gen \in {0, 1}
  BY DEF StackInv, Shape, IsDrive
<1>2. Running
  BY DEF Running, Passing, Busy
<1>3. drive.gen = 0 => s \in Order
  BY DEF StackInv, Places
<1>4. drive.gen = 1 => s \in {FollowUp(r) : r \in Order}
  BY <1>1 DEF StackInv, Places
<1>5. s \in Ids
  BY <1>1, <1>3, <1>4 DEF Ids
<1>6. drive.gen = 1 => s \notin Order
  BY <1>1, <1>4, SpecsAre
<1>7. s \notin Past
  BY <1>1, <1>6 DEF Past, Passing
<1> QED
  BY <1>2, <1>3, <1>5, <1>6, <1>7 DEF StackInv, Untouched

(* One spec's row changes, and no other.                                   *)
LEMMA OneRow ==
    ASSUME plan' = plan, NEW s, \A r \in Ids \ {s} : task'[r] = task[r]
    PROVE  /\ \A r \in Ids \ {s} : r \in LeftBehind' <=> r \in LeftBehind
           /\ s \notin LeftBehind => LeftBehind \subseteq LeftBehind'
           /\ LeftBehind' \subseteq LeftBehind \union {s}
<1>1. Ids' = Ids
  BY PlanStays
<1>2. \A r \in Ids \ {s} : r \in LeftBehind' <=> r \in LeftBehind
  BY <1>1 DEF LeftBehind
<1>3. LeftBehind \subseteq Ids /\ LeftBehind' \subseteq Ids
  BY <1>1 DEF LeftBehind
<1> QED
  BY <1>2, <1>3

LEMMA LeavesShape ==
    ASSUME StackInv, NEW s, NEW d, Leaves(s, d)
    PROVE  Shape' /\ Places' /\ ReadOnce'
<1>1. /\ plan' = plan /\ row' = row /\ layers' = layers /\ tail' = tail
      /\ DOMAIN task' = Ids /\ (\A r \in Ids \ {s} : task'[r] = task[r]) /\ IsTask(task'[s])
      /\ spend' \in [all : Nat, writing : Nat] /\ pc \in Passing
  BY DEF Leaves, Context
<1>2. Ids' = Ids /\ Order' = Order /\ LayerSpecs' = LayerSpecs
  BY <1>1, PlanStays DEF LayerSpecs
<1>3. /\ IsDrive(drive') /\ drive'.cur = 0
      /\ drive'.gen = drive.gen /\ drive'.resumed = drive.resumed
      /\ drive'.followUps = drive.followUps
      /\ drive'.remaining \subseteq d.remaining
      /\ drive'.missed \subseteq d.missed \union d.remaining
      /\ drive'.started = d.started /\ drive'.reviewed = d.reviewed /\ drive'.routed = d.routed
      /\ drive.gen = 0 => s \in Order
      /\ s \in Ids
      /\ \/ pc' = "offer"
         \/ drive'.reason = "UNTIL" /\ pc' = (IF drive.gen = 1 THEN "finish" ELSE "ended")
  BY LeavesDoes
<1>4. IsDrive(drive)' /\ drive.gen \in {0, 1}
  BY <1>2, <1>3 DEF IsDrive, StackInv, Shape
<1>5. Shape'
  BY <1>1, <1>2, <1>3, <1>4 DEF StackInv, Shape, IsTask, IsTail, Passing, Ending, Closing
<1>6. /\ drive.remaining \union drive.missed \subseteq Order /\ drive.started \subseteq Ids
      /\ drive.gen = 0 => drive.started \union drive.reviewed \union drive.routed \subseteq Order
      /\ ToSet(drive.followUps) \subseteq {FollowUp(r) : r \in Order}
      /\ drive.resumed => drive.gen = 1
      /\ drive.resumed <=> row # "open"
      /\ row # "none"
  BY <1>1 DEF StackInv, Places, Running, Passing, Busy
<1>7. /\ d.remaining \union d.missed \subseteq Order
      /\ d.started \subseteq drive.started \union {s} /\ d.reviewed \subseteq drive.reviewed \union {s}
      /\ d.routed \subseteq drive.routed \union {s}
  BY <1>3, <1>6 DEF Leaves, Context, Settles, Follows
<1>8. Places'
  <2>1. pc' \in {"offer", "ended", "finish"} /\ (pc' = "ended" => drive.gen = 0)
        /\ (pc' # "offer" => drive'.reason \in Reasons)
    BY <1>3, <1>4 DEF Reasons
  <2>2. /\ drive'.remaining \union drive'.missed \subseteq Order /\ drive'.started \subseteq Ids
        /\ drive.gen = 0 => drive'.started \union drive'.reviewed \union drive'.routed \subseteq Order
    BY <1>3, <1>6, <1>7
  <2>3. {FollowUp(r) : r \in Order}' = {FollowUp(r) : r \in Order}
    BY <1>2
  <2> QED
    BY <1>1, <1>2, <1>3, <1>6, <2>1, <2>2, <2>3
       DEF Places, Running, Passing, Busy, Ending, Closing
<1>9. ReadOnce'
  BY <1>1, <1>2, <1>3, <1>4 DEF StackInv, ReadOnce, Passing, Busy
<1> QED
  BY <1>5, <1>8, <1>9

LEMMA LeavesUntouched ==
    ASSUME StackInv, NEW s, NEW d, Leaves(s, d)
    PROVE  Untouched' /\ Chained' /\ LeftBehind \subseteq LeftBehind'
<1>1. /\ plan' = plan /\ row' = row /\ layers' = layers /\ tail' = tail
      /\ \A r \in Ids \ {s} : task'[r] = task[r]
      /\ pc \in Passing
      /\ s \in LeftBehind' => s \in d.started /\ s \in d.inFlight \union d.unpackaged
      /\ drive.started \ {s} \subseteq d.started
      /\ drive.inFlight \subseteq d.inFlight /\ drive.unpackaged \subseteq d.unpackaged
  BY DEF Leaves, Context, Settles, Follows
<1>2. Ids' = Ids /\ Order' = Order /\ OverBase' = OverBase /\ LayerSpecs' = LayerSpecs
  BY <1>1, PlanStays DEF LayerSpecs
<1>3. /\ s \notin Past /\ s \notin LayerSpecs /\ s \notin LeftBehind /\ s \in Ids /\ Running
      /\ drive.gen = 0 => s \in Order
      /\ drive.gen = 1 => s \notin Order
  BY NotPast DEF Leaves, Context
<1>4. /\ drive'.cur = 0 /\ drive'.gen = drive.gen /\ drive'.pred = drive.pred
      /\ drive'.predTask = drive.predTask /\ drive'.started = d.started
      /\ drive'.inFlight = d.inFlight /\ drive'.unpackaged = d.unpackaged
      /\ pc' \in {"offer", "ended", "finish"}
  BY LeavesDoes
<1>5. /\ LeftBehind \subseteq LeftBehind' /\ LeftBehind' \subseteq LeftBehind \union {s}
  BY <1>1, <1>3, OneRow
<1>6. LayerSpecs \subseteq Ids /\ LayerSpecs \union LeftBehind \subseteq Past
      /\ (tail.read = 0 => LayerSpecs \union LeftBehind \subseteq Order)
      /\ (row = "open" => LeftBehind \subseteq drive.inFlight \union drive.unpackaged)
  BY <1>3 DEF StackInv, Untouched
<1>7. 0 \notin Ids /\ drive.gen \in {0, 1}
  BY SpecsAre DEF StackInv, Shape, IsDrive
<1>8. \A r \in Past : r # s /\ r # 0 => r \in Past'
  BY <1>1, <1>2, <1>4 DEF Past
<1>9. s \in LeftBehind' => s \in Past'
  BY <1>1, <1>3, <1>4, <1>7 DEF Past
<1>10. LayerSpecs' \union LeftBehind' \subseteq Past'
  <2>1. LeftBehind \subseteq Ids
    BY DEF LeftBehind
  <2> QED
    BY <1>2, <1>3, <1>5, <1>6, <1>7, <1>8, <1>9, <2>1
<1>11. tail.read = 0 => LayerSpecs' \union LeftBehind' \subseteq Order
  <2>1. tail.read = 0 => drive.gen = 0
    BY <1>1, <1>7 DEF StackInv, ReadOnce
  <2> QED
    BY <2>1, <1>2, <1>3, <1>5, <1>6
<1>12. row = "open" => LeftBehind' \subseteq drive'.inFlight \union drive'.unpackaged
  BY <1>1, <1>4, <1>5, <1>6
<1>13. Untouched'
  BY <1>1, <1>2, <1>4, <1>6, <1>10, <1>11, <1>12 DEF Untouched
<1>14. Chained'
  <2>1. \A i \in DOMAIN layers : layers[i].spec \in LayerSpecs
    BY DEF LayerSpecs
  <2>2. \A i \in DOMAIN layers : task'[layers[i].spec] = task[layers[i].spec]
    BY <1>1, <1>3, <1>6, <2>1
  <2>3. \A i \in DOMAIN layers :
           /\ layers[i].over = (IF i > 1 THEN layers[i - 1].spec
                               ELSE IF plan.base THEN Base ELSE -1)
           /\ task'[layers[i].spec].tree = {layers[j].spec : j \in 1 .. i - 1} \union OverBase
    BY <2>2 DEF StackInv, Chained
  <2>4. IF layers = <<>>
        THEN drive.pred = 0 /\ drive.predTask = (IF plan.base THEN Base ELSE -1)
        ELSE /\ drive.pred = layers[Len(layers)].spec
             /\ drive.predTask = layers[Len(layers)].spec
    BY <1>3 DEF StackInv, Chained
  <2>5. \A i \in DOMAIN layers' :
           /\ layers'[i].over = (IF i > 1 THEN layers'[i - 1].spec
                                ELSE IF plan'.base THEN Base ELSE -1)
           /\ task'[layers'[i].spec].tree
                = {layers'[j].spec : j \in 1 .. i - 1} \union OverBase'
    BY <1>1, <1>2, <2>3
  <2>6. IF layers' = <<>>
        THEN drive'.pred = 0 /\ drive'.predTask = (IF plan'.base THEN Base ELSE -1)
        ELSE /\ drive'.pred = layers'[Len(layers')].spec
             /\ drive'.predTask = layers'[Len(layers')].spec
    BY <1>1, <1>4, <2>4
  <2>7. Base' = Base
    BY DEF Base
  <2> QED
    BY <2>5, <2>6, <2>7 DEF Chained
<1> QED
  BY <1>5, <1>13, <1>14

LEMMA LeavesSorted ==
    ASSUME StackInv, NEW s, NEW d, Leaves(s, d)
    PROVE  Sorted'
<1>1. /\ plan' = plan /\ layers' = layers /\ IsDrive(d)
      /\ d.gen = drive.gen
      /\ \/ d.remaining = drive.remaining /\ d.missed = drive.missed
         \/ d.remaining = drive.remaining \ {s} /\ d.missed = drive.missed \union {s}
  BY DEF Leaves, Context, Settles, Follows
<1>2. Order' = Order /\ LayerSpecs' = LayerSpecs
  BY <1>1, PlanStays DEF LayerSpecs
<1>3. /\ drive'.gen = drive.gen
      /\ \/ /\ pc' = "offer" /\ drive'.remaining = ResolvePrefix(d).remaining
            /\ drive'.missed = ResolvePrefix(d).missed
         \/ pc' = (IF drive.gen = 1 THEN "finish" ELSE "ended")
  BY LeavesDoes
<1> SUFFICES ASSUME drive.gen = 0, pc' = "offer"
             PROVE  /\ Order \subseteq drive'.remaining \union drive'.missed \union LayerSpecs
                    /\ \A r \in drive'.remaining :
                          drive'.remaining \intersect Before(r) = {}
                             => Deps(r) \intersect drive'.missed = {}
  <2>1. \A r : Before(r)' = Before(r) /\ Deps(r)' = Deps(r)
    BY <1>1, PlanStays
  <2>2. drive'.gen = 0 /\ pc' \in Passing => drive.gen = 0 /\ pc' = "offer"
    BY <1>3 DEF Passing, Busy
  <2> QED
    BY <1>2, <2>1, <2>2 DEF Sorted
<1>4. drive'.remaining = ResolvePrefix(d).remaining /\ drive'.missed = ResolvePrefix(d).missed
  BY <1>3
<1>5. plan \in Plans /\ Order \subseteq drive.remaining \union drive.missed \union LayerSpecs
  BY DEF StackInv, Shape, Sorted, Leaves, Context
<1>6. d.remaining \union d.missed \subseteq drive'.remaining \union drive'.missed
  BY <1>1, <1>4, <1>5, ResolveDoes
<1>7. drive.remaining \union drive.missed \subseteq d.remaining \union d.missed
  BY <1>1
<1>8. d.remaining \subseteq Order
  BY <1>1 DEF StackInv, Places
<1>9. \A r \in drive'.remaining :
         drive'.remaining \intersect Before(r) = {} => Deps(r) \intersect drive'.missed = {}
  BY <1>1, <1>4, <1>5, <1>8, ResolveLeaves
<1> QED
  BY <1>5, <1>6, <1>7, <1>9

LEMMA LeavesReviewed ==
    ASSUME StackInv, NEW s, NEW d, Leaves(s, d)
    PROVE  Reviewed1' /\ Decided'
<1>1. /\ plan' = plan /\ \A r \in Ids \ {s} : task'[r] = task[r]
      /\ s \in d.reviewed => /\ s \notin d.revising
                             /\ task'[s].route = "run" /\ task'[s].judged = task'[s].text
      /\ (s \in drive.routed <=> task[s].decided) => (s \in d.routed <=> task'[s].decided)
      /\ drive.reviewed \subseteq d.reviewed /\ d.reviewed \subseteq drive.reviewed \union {s}
      /\ d.revising \subseteq drive.revising \union {s}
      /\ drive.routed \subseteq d.routed /\ d.routed \subseteq drive.routed \union {s}
  BY DEF Leaves, Context, Settles, Follows
<1>2. Ids' = Ids
  BY <1>1, PlanStays
<1>3. /\ drive'.followUps = drive.followUps /\ drive'.reviewed = d.reviewed
      /\ drive'.revising = d.revising /\ drive'.routed = d.routed /\ s \in Ids
      /\ pc' \notin Busy
  BY LeavesDoes DEF Busy
<1>4. Reviewed1'
  BY <1>1, <1>2, <1>3 DEF StackInv, Reviewed1, Busy
<1>5. Decided'
  <2>1. ToSet(drive.followUps) \subseteq Ids
    BY DEF StackInv, Places, Ids
  <2>2. \A f \in ToSet(drive.followUps) : f \in drive.routed <=> task[f].decided
    BY DEF StackInv, Decided
  <2>3. \A f \in ToSet(drive.followUps) : f \in d.routed <=> task'[f].decided
    <3> SUFFICES ASSUME NEW f \in ToSet(drive.followUps)
                 PROVE  f \in d.routed <=> task'[f].decided
      OBVIOUS
    <3>1. CASE f = s
      BY <3>1, <1>1, <2>2
    <3>2. CASE f # s
      BY <3>2, <1>1, <2>1, <2>2
    <3> QED
      BY <3>1, <3>2
  <2> QED
    BY <1>3, <2>3 DEF Decided
<1> QED
  BY <1>4, <1>5

LEMMA LeavesFunded ==
    ASSUME StackInv, NEW s, NEW d, Leaves(s, d)
    PROVE  Funded' /\ spend'.all <= Limit
<1>1. /\ plan' = plan /\ tail' = tail /\ spend' \in [all : Nat, writing : Nat]
      /\ spend'.all + (IF drive.gen = 0 THEN Reserve + WriterLeft' ELSE 0) <= Limit
      /\ pc \in Passing
  BY DEF Leaves, Context
<1>2. Limit' = Limit /\ Limit \in Int
  BY <1>1, PlanStays, LimitIs
<1>3. /\ drive'.gen = drive.gen
      /\ pc' = "offer" \/ pc' = (IF drive.gen = 1 THEN "finish" ELSE "ended")
  BY LeavesDoes
<1>4. WriterLeft' \in Nat /\ Reserve \in Nat
  <2>1. WriterLeft' = Max({0, Writer - spend'.writing})
    BY DEF WriterLeft
  <2>2. Writer - spend'.writing \in Int
    BY <1>1, Constants
  <2> QED
    BY <2>1, <2>2, AtLeastNone, Constants
<1>5. /\ Kept' = (IF drive.gen = 0 THEN Reserve + WriterLeft' ELSE 0)
      /\ drive.gen = 0 => Kept' = Reserve + WriterLeft'
      /\ Kept' \in Nat
  <2>1. Kept' = (IF drive'.gen = 0 THEN Reserve + WriterLeft' ELSE 0)
    BY DEF Kept
  <2>2. PICK w \in Nat : w = WriterLeft'
    BY <1>4
  <2>3. Reserve + w \in Nat /\ 0 \in Nat
    BY <1>4
  <2> QED
    BY <1>1, <1>3, <2>1, <2>2, <2>3
<1>6. spend'.all <= Limit
  BY <1>1, <1>2, <1>5
<1>7. (tail.read = 0 /\ ~tail.joined) => tail.left = Reserve
  BY DEF StackInv, Funded
<1>8. (tail.deferred /\ tail.read = 0 /\ ~tail.joined)
         => spend'.all + Reserve + WriterLeft' <= Limit
  <2>1. tail.read = 0 => drive.gen = 0
    BY <1>1 DEF StackInv, ReadOnce, Shape, IsDrive, IsTail
  <2>2. drive.gen = 0 => spend'.all + Reserve + WriterLeft' <= Limit
    BY <1>1, <1>2, <1>4, <1>5
  <2> QED
    BY <2>1, <2>2
<1>9. drive.gen \in {0, 1}
  BY DEF StackInv, Shape, IsDrive
<1>10. pc' = "ended" => spend'.all + Reserve + WriterLeft' <= Limit
  <2>1. pc' = "ended" => drive.gen = 0
    BY <1>3, <1>9
  <2>2. drive.gen = 0 => spend'.all + Reserve + WriterLeft' <= Limit
    BY <1>1, <1>2, <1>4, <1>5
  <2> QED
    BY <2>1, <2>2
<1>11. spend'.all + Kept' <= Limit
  BY <1>1, <1>5
<1> QED
  BY <1>1, <1>2, <1>3, <1>6, <1>7, <1>8, <1>10, <1>11 DEF Funded

LEMMA LeavesKeeps ==
    ASSUME StackInv, NEW s, NEW d, Leaves(s, d)
    PROVE  StackInv' /\ LeftBehind \subseteq LeftBehind' /\ spend'.all <= Limit
  BY LeavesShape, LeavesUntouched, LeavesSorted, LeavesReviewed, LeavesFunded DEF StackInv
-----------------------------------------------------------------------------
(* The helpers keep what is kept in step.                                  *)

LEMMA MissedFollows ==
    ASSUME StackInv, NEW s, NEW d, Follows(s, d), Settles(s, d)
    PROVE  Follows(s, Missed(d, s)) /\ Settles(s, Missed(d, s))
<1>1. IsDrive(d) /\ d.gen = drive.gen /\ d.gen \in {0, 1}
  BY DEF Follows, IsDrive
<1>2. CASE d.gen = 1
  BY <1>2 DEF Missed
<1>3. CASE d.gen # 1
  <2>1. Missed(d, s) = [d EXCEPT !.missed = @ \union {s}, !.remaining = @ \ {s}]
    BY <1>3 DEF Missed
  <2>2. PICK e : e = Missed(d, s)
    OBVIOUS
  <2>3. IsDrive(e) /\ e.missed = d.missed \union {s} /\ e.remaining = d.remaining \ {s}
    BY <1>1, <2>1, <2>2 DEF IsDrive, DriveFields
  <2>4. /\ e.gen = d.gen /\ e.pred = d.pred /\ e.predTask = d.predTask
        /\ e.resumed = d.resumed /\ e.followUps = d.followUps /\ e.started = d.started
        /\ e.reviewed = d.reviewed /\ e.revising = d.revising /\ e.routed = d.routed
        /\ e.inFlight = d.inFlight /\ e.unpackaged = d.unpackaged
    BY <1>1, <2>1, <2>2 DEF IsDrive, DriveFields
  <2>5. Follows(s, e)
    BY <1>1, <1>3, <2>3, <2>4 DEF Follows
  <2>6. Settles(s, e)
    BY <2>4 DEF Settles
  <2> QED
    BY <2>2, <2>5, <2>6
<1> QED
  BY <1>2, <1>3

LEMMA AbortsFollows ==
    ASSUME NEW s, NEW d, Follows(s, d), Settles(s, d)
    PROVE  Follows(s, Aborts(d)) /\ Settles(s, Aborts(d))
<1>1. IsDrive(d)
  BY DEF Follows
<1>2. PICK e : e = Aborts(d)
  OBVIOUS
<1>3. e = [d EXCEPT !.aborts = @ + 1]
  BY <1>2 DEF Aborts
<1>4. IsDrive(e) /\ e.missed = d.missed /\ e.remaining = d.remaining
  BY <1>1, <1>3 DEF IsDrive, DriveFields
<1>5. /\ e.gen = d.gen /\ e.pred = d.pred /\ e.predTask = d.predTask
      /\ e.resumed = d.resumed /\ e.followUps = d.followUps /\ e.started = d.started
      /\ e.reviewed = d.reviewed /\ e.revising = d.revising /\ e.routed = d.routed
      /\ e.inFlight = d.inFlight /\ e.unpackaged = d.unpackaged
  BY <1>1, <1>3 DEF IsDrive, DriveFields
<1>6. Follows(s, e)
  BY <1>4, <1>5 DEF Follows
<1>7. Settles(s, e)
  BY <1>5 DEF Settles
<1> QED
  BY <1>2, <1>6, <1>7

(* Offered again, or waited out: the spec is not started any more.         *)
LEMMA UnstartedFollows ==
    ASSUME NEW s, NEW d, Follows(s, d), Settles(s, d), s \notin LeftBehind',
           NEW e, e = NotStarted(d, s) \/ e = [NotStarted(d, s) EXCEPT !.waits = @ + 1]
    PROVE  Follows(s, e) /\ Settles(s, e)
<1>1. IsDrive(d)
  BY DEF Follows
<1>2. IsDrive(e) /\ e.missed = d.missed /\ e.remaining = d.remaining
      /\ e.started = d.started \ {s}
  BY <1>1 DEF NotStarted, IsDrive, DriveFields
<1>3. /\ e.gen = d.gen /\ e.pred = d.pred /\ e.predTask = d.predTask
      /\ e.resumed = d.resumed /\ e.followUps = d.followUps
      /\ e.reviewed = d.reviewed /\ e.revising = d.revising /\ e.routed = d.routed
      /\ e.inFlight = d.inFlight /\ e.unpackaged = d.unpackaged
  BY <1>1 DEF NotStarted, IsDrive, DriveFields
<1>4. Follows(s, e)
  BY <1>2, <1>3 DEF Follows
<1>5. Settles(s, e)
  BY <1>3 DEF Settles
<1> QED
  BY <1>4, <1>5

LEMMA RaisesLeaves ==
    ASSUME NEW s, NEW d, NEW runtime, Context(s), Follows(s, d), Settles(s, d),
           runtime => s \notin LeftBehind', Raises(d, s, runtime)
    PROVE  \E e : Leaves(s, e)
<1>1. CASE runtime
  <2>1. Follows(s, Aborts(d)) /\ Settles(s, Aborts(d))
    BY AbortsFollows
  <2>2. PICK e : e = NotStarted(Aborts(d), s)
    OBVIOUS
  <2>3. Follows(s, e) /\ Settles(s, e)
    BY <1>1, <2>1, <2>2, UnstartedFollows
  <2>4. Rescans(e)
    BY <1>1, <2>2 DEF Raises
  <2> QED
    BY <2>3, <2>4 DEF Leaves
<1>2. CASE ~runtime
  <2>1. Follows(s, Aborts(d)) /\ Settles(s, Aborts(d))
    BY AbortsFollows
  <2>2. Rescans(Aborts(d))
    BY <1>2 DEF Raises
  <2> QED
    BY <2>1, <2>2 DEF Leaves
<1> QED
  BY <1>1, <1>2

LEMMA WaitsLeaves ==
    ASSUME NEW s, NEW d, Context(s), Follows(s, d), Settles(s, d), s \notin LeftBehind',
           WaitsOut(d, s)
    PROVE  \E e : Leaves(s, e)
<1>1. CASE Rescans([NotStarted(d, s) EXCEPT !.waits = @ + 1])
  <2>1. PICK e : e = [NotStarted(d, s) EXCEPT !.waits = @ + 1]
    OBVIOUS
  <2>2. Follows(s, e) /\ Settles(s, e)
    BY <2>1, UnstartedFollows
  <2>3. Rescans(e)
    BY <1>1, <2>1
  <2> QED
    BY <2>2, <2>3 DEF Leaves
<1>2. CASE PassEnds(d, "UNTIL")
  BY <1>2 DEF Leaves
<1> QED
  BY <1>1, <1>2 DEF WaitsOut
-----------------------------------------------------------------------------
(* The steps that leave a spec, from the loop and from its review.         *)

LEMMA PassingPays ==
    ASSUME StackInv, pc \in Passing
    PROVE  /\ spend.all + (IF drive.gen = 0 THEN Reserve + WriterLeft ELSE 0) <= Limit
           /\ spend \in [all : Nat, writing : Nat] /\ WriterLeft \in Nat
           /\ drive.gen \in {0, 1} /\ Limit \in Int
           /\ plan \in Plans /\ IsDrive(drive) /\ DOMAIN task = Ids
           /\ \A r \in Ids : IsTask(task[r])
<1>1. /\ spend \in [all : Nat, writing : Nat] /\ plan \in Plans /\ IsDrive(drive)
      /\ DOMAIN task = Ids /\ \A r \in Ids : IsTask(task[r])
  BY DEF StackInv, Shape
<1>2. WriterLeft \in Nat /\ drive.gen \in {0, 1}
  BY <1>1, WriterLeftIs DEF IsDrive
<1>3. /\ Kept = (IF drive.gen = 0 THEN Reserve + WriterLeft ELSE 0)
      /\ Kept \in Nat
  BY <1>2, Constants DEF Kept
<1>4. spend.all + Kept <= Limit
  <2>1. \/ spend.all + Kept <= Limit
        \/ spend.all + Kept + Session + MaxCell <= Limit
        \/ spend.all + Kept + MaxCell <= Limit
    BY DEF StackInv, Funded, Passing, Busy
  <2> QED
    BY <2>1, <1>1, <1>3, Constants, MaxCellIs, LimitIs
<1> QED
  BY <1>1, <1>2, <1>3, <1>4, LimitIs

LEMMA OfferedIs ==
    ASSUME StackInv, pc = "offer", Offered # {}
    PROVE  /\ Next1 \notin drive.started
           /\ Next1 \in (IF drive.gen = 0 THEN drive.remaining ELSE ToSet(drive.followUps))
<1>1. plan \in Plans /\ drive.followUps \in Seq(Int) /\ drive.gen \in {0, 1}
  BY DEF StackInv, Shape, IsDrive
<1>2. plan.order \in Seq(Nat \ {0})
  BY <1>1, PlanIs
<1>3. DOMAIN Queue \subseteq Nat
  BY <1>1, <1>2 DEF Queue
<1>4. Offered \subseteq Nat
  BY <1>3 DEF Offered
<1>5. Min(Offered) \in Offered
  BY <1>4, MinIs
<1>6. PICK i \in Offered : i = Min(Offered)
  BY <1>5
<1>7. Next1 = Queue[i]
  BY <1>6 DEF Next1
<1>8. /\ i \in DOMAIN Queue /\ Queue[i] \notin drive.started
      /\ drive.gen = 0 => Queue[i] \in drive.remaining
  BY DEF Offered
<1>9. drive.gen = 1 => Queue[i] \in ToSet(drive.followUps)
  BY <1>8 DEF Queue, ToSet
<1> QED
  BY <1>1, <1>7, <1>8, <1>9

(* What stays of a spec that is left as it was found.                      *)
LEMMA StaysContext ==
    ASSUME StackInv, pc \in Passing, NEW s,
           pc = "offer" => s \notin drive.started,
           pc \in Busy => s = drive.cur,
           s \in (IF drive.gen = 0 THEN drive.remaining ELSE ToSet(drive.followUps)),
           UNCHANGED <<plan, row, task, layers, spend, tail>>
    PROVE  Context(s) /\ s \notin LeftBehind'
<1>1. s \notin LeftBehind /\ s \in Ids
  BY NotPast
<1>2. LeftBehind' = LeftBehind
  BY PlanStays DEF LeftBehind
<1>3. WriterLeft' = WriterLeft
  BY WriterWaits
<1>4. Context(s)
  BY <1>1, <1>3, PassingPays DEF Context
<1> QED
  BY <1>1, <1>2, <1>4

LEMMA OfferContext ==
    ASSUME StackInv, pc = "offer", Offered # {},
           UNCHANGED <<plan, row, task, layers, spend, tail>>
    PROVE  /\ Context(Next1) /\ Follows(Next1, Started) /\ Settles(Next1, Started)
           /\ Next1 \notin LeftBehind'
<1>1. PICK s : s = Next1
  OBVIOUS
<1>2. /\ s \notin drive.started
      /\ s \in (IF drive.gen = 0 THEN drive.remaining ELSE ToSet(drive.followUps))
  BY <1>1, OfferedIs
<1>3. Context(s) /\ s \notin LeftBehind'
  BY <1>2, StaysContext DEF Passing, Busy
<1>4. PICK d : d = Started
  OBVIOUS
<1>5. d = [drive EXCEPT !.started = @ \union {s}] /\ IsDrive(drive)
  BY <1>1, <1>4 DEF Started, StackInv, Shape
<1>6. IsDrive(d) /\ d.missed = drive.missed /\ d.remaining = drive.remaining
      /\ d.started = drive.started \union {s}
  BY <1>5 DEF IsDrive, DriveFields
<1>7. /\ d.gen = drive.gen /\ d.pred = drive.pred /\ d.predTask = drive.predTask
      /\ d.resumed = drive.resumed /\ d.followUps = drive.followUps
      /\ d.reviewed = drive.reviewed /\ d.revising = drive.revising /\ d.routed = drive.routed
      /\ d.inFlight = drive.inFlight /\ d.unpackaged = drive.unpackaged
  BY <1>5 DEF IsDrive, DriveFields
<1>8. Follows(s, d)
  BY <1>6, <1>7 DEF Follows
<1>9. Settles(s, d)
  BY <1>3, <1>7 DEF Settles, StackInv, Reviewed1
<1> QED
  BY <1>1, <1>3, <1>4, <1>8, <1>9

LEMMA LoopLeaves ==
    ASSUME StackInv, BaseGone \/ BaseUnasked \/ MintRaises \/ OpenPrRefused
    PROVE  \E s, d : Leaves(s, d)
<1>1. pc = "offer" /\ Offered # {} /\ UNCHANGED <<plan, row, task, layers, spend, tail>>
  BY DEF BaseGone, BaseUnasked, MintRaises, OpenPrRefused, Reaches, Admitted
<1>2. /\ Context(Next1) /\ Follows(Next1, Started) /\ Settles(Next1, Started)
      /\ Next1 \notin LeftBehind'
  BY <1>1, OfferContext
<1>3. Follows(Next1, Missed(Started, Next1)) /\ Settles(Next1, Missed(Started, Next1))
  BY <1>2, MissedFollows
<1>4. CASE BaseGone
  <2>1. PICK d : d = Missed(Started, Next1)
    OBVIOUS
  <2>2. PICK e : e = [d EXCEPT !.gone = TRUE]
    OBVIOUS
  <2>3. IsDrive(d) /\ Follows(Next1, d) /\ Settles(Next1, d)
    BY <1>3, <2>1 DEF Follows
  <2>4. IsDrive(e) /\ e.missed = d.missed /\ e.remaining = d.remaining
    BY <2>2, <2>3 DEF IsDrive, DriveFields
  <2>5. /\ e.gen = d.gen /\ e.pred = d.pred /\ e.predTask = d.predTask
        /\ e.resumed = d.resumed /\ e.followUps = d.followUps /\ e.started = d.started
        /\ e.reviewed = d.reviewed /\ e.revising = d.revising /\ e.routed = d.routed
        /\ e.inFlight = d.inFlight /\ e.unpackaged = d.unpackaged
    BY <2>2, <2>3 DEF IsDrive, DriveFields
  <2>6. Follows(Next1, e) /\ Settles(Next1, e)
    BY <2>3, <2>4, <2>5 DEF Follows, Settles
  <2>7. Rescans(e)
    BY <1>4, <2>1, <2>2 DEF BaseGone
  <2> QED
    BY <1>2, <2>6, <2>7 DEF Leaves
<1>5. CASE BaseUnasked
  <2>1. Raises(Started, Next1, FALSE)
    BY <1>5 DEF BaseUnasked
  <2> QED
    BY <1>2, <2>1, RaisesLeaves
<1>6. CASE MintRaises
  <2>1. Raises(Missed(Started, Next1), Next1, FALSE)
    BY <1>6 DEF MintRaises
  <2> QED
    BY <1>2, <1>3, <2>1, RaisesLeaves
<1>7. CASE OpenPrRefused
  <2>1. Rescans(Started)
    BY <1>7 DEF OpenPrRefused
  <2> QED
    BY <1>2, <2>1 DEF Leaves
<1> QED
  BY <1>4, <1>5, <1>6, <1>7
-----------------------------------------------------------------------------
LEMMA CurIs ==
    ASSUME StackInv, pc \in Busy
    PROVE  /\ Cur = drive.cur /\ Cur \in drive.started
           /\ Cur \in (IF drive.gen = 0 THEN drive.remaining ELSE ToSet(drive.followUps))
           /\ Cur \notin LeftBehind /\ Cur \notin LayerSpecs /\ Cur \in Ids
           /\ pc \in Passing /\ pc # "offer" /\ Running /\ Follows(Cur, drive)
<1>1. /\ Cur = drive.cur /\ Cur \in drive.started
      /\ Cur \in (IF drive.gen = 0 THEN drive.remaining ELSE ToSet(drive.followUps))
  BY DEF Cur, StackInv, Places
<1>2. pc \in Passing /\ pc # "offer"
  BY DEF Passing, Busy
<1>3. Follows(Cur, drive)
  BY DEF Follows, StackInv, Shape
<1> QED
  BY <1>1, <1>2, <1>3, NotPast

LEMMA CostIs ==
    ASSUME NEW session
    PROVE  CostOf(session) \in {0, Session} /\ CostOf(session) \in Nat /\ CostOf(session) <= Session
           /\ session.paid => CostOf(session) = Session
  BY Constants DEF CostOf

(* A step that only the spec's row and the money know of.                  *)
LEMMA RowContext ==
    ASSUME StackInv, pc \in Busy, NEW t,
           task' = [task EXCEPT ![Cur] = t], IsTask(t),
           spend' \in [all : Nat, writing : Nat], spend.all <= spend'.all,
           spend'.all + (IF drive.gen = 0 THEN Reserve + WriterLeft' ELSE 0) <= Limit,
           UNCHANGED <<plan, row, layers, tail>>
    PROVE  /\ Context(Cur) /\ task'[Cur] = t
           /\ Cur \in LeftBehind' <=> \/ t.state \in InFlight
                                      \/ t.state = "READY_FOR_REVIEW" /\ ~t.pushed
<1>1. DOMAIN task = Ids /\ Cur \in Ids
  BY CurIs DEF StackInv, Shape
<1>2. DOMAIN task' = Ids /\ task'[Cur] = t /\ \A r \in Ids \ {Cur} : task'[r] = task[r]
  BY <1>1
<1>3. Context(Cur)
  BY <1>2, CurIs DEF Context
<1>4. Ids' = Ids
  BY PlanStays
<1> QED
  BY <1>1, <1>2, <1>3, <1>4 DEF LeftBehind, InFlight

LEMMA JudgedDoes ==
    ASSUME StackInv, pc = "review", NEW moved, NEW route, NEW state
    PROVE  \E t : /\ Judged(moved, route, state) = [task EXCEPT ![Cur] = t] /\ IsTask(t)
                  /\ t.route = route /\ t.judged = t.text /\ t.state = state
                  /\ t.pushed = task[Cur].pushed
                  /\ t.decided <=> (task[Cur].decided \/ route \notin {"wait", "error"})
<1>1. Cur \in Ids /\ DOMAIN task = Ids /\ IsTask(task[Cur])
  BY CurIs DEF Busy, StackInv, Shape
<1>2. PICK t : t = [task[Cur] EXCEPT !.text = TextRead(moved), !.judged = TextRead(moved),
                                    !.route = route, !.state = state,
                                    !.decided = @ \/ route \notin {"wait", "error"}]
  OBVIOUS
<1>3. Judged(moved, route, state) = [task EXCEPT ![Cur] = t]
  BY <1>1, <1>2 DEF Judged
<1>4. /\ DOMAIN t = TaskFields /\ t.route = route /\ t.judged = t.text /\ t.state = state
      /\ t.pushed = task[Cur].pushed
      /\ t.decided = (task[Cur].decided \/ route \notin {"wait", "error"})
  BY <1>1, <1>2 DEF IsTask, TaskFields
<1>5. IsTask(t)
  BY <1>1, <1>4 DEF IsTask
<1> QED
  BY <1>3, <1>4, <1>5

LEMMA ReviewPays ==
    ASSUME StackInv, pc = "review", NEW cost \in Nat, cost <= Session, spend' = Charged(cost)
    PROVE  /\ spend' \in [all : Nat, writing : Nat] /\ spend.all <= spend'.all
           /\ WriterLeft' = WriterLeft
           /\ spend'.all + (IF drive.gen = 0 THEN Reserve + WriterLeft' ELSE 0) + MaxCell <= Limit
           /\ spend'.all + (IF drive.gen = 0 THEN Reserve + WriterLeft' ELSE 0) <= Limit
<1>1. spend \in [all : Nat, writing : Nat] /\ WriterLeft \in Nat /\ drive.gen \in {0, 1}
  BY PassingPays DEF Passing, Busy
<1>2. spend' \in [all : Nat, writing : Nat] /\ spend'.all = spend.all + cost
      /\ spend'.writing = spend.writing
  BY <1>1 DEF Charged
<1>3. WriterLeft' = WriterLeft
  BY <1>2, WriterWaits
<1>4. PICK k : k = (IF drive.gen = 0 THEN Reserve + WriterLeft ELSE 0)
  OBVIOUS
<1>5. k \in Nat /\ Kept = k
  BY <1>1, <1>4, Constants DEF Kept
<1>6. spend.all + k + Session + MaxCell <= Limit
  BY <1>5 DEF StackInv, Funded
<1>7. spend'.all + k + MaxCell <= Limit /\ spend'.all + k <= Limit /\ spend.all <= spend'.all
  BY <1>1, <1>2, <1>5, <1>6, Constants, MaxCellIs, LimitIs
<1> QED
  BY <1>2, <1>3, <1>4, <1>7

LEMMA ReviewContext ==
    ASSUME StackInv, pc = "review", NEW moved, NEW route, NEW state,
           task' = Judged(moved, route, state),
           \/ spend' = spend
           \/ \E session : spend' = Charged(CostOf(session)),
           UNCHANGED <<plan, row, layers, tail>>
    PROVE  /\ Context(Cur)
           /\ task'[Cur].route = route /\ task'[Cur].judged = task'[Cur].text
           /\ task'[Cur].decided <=> (task[Cur].decided \/ route \notin {"wait", "error"})
           /\ state \in {"GATE_ERROR", "RATE_LIMITED", "SPEC_WITHHELD", task[Cur].state}
                => Cur \notin LeftBehind'
<1>1. /\ spend' \in [all : Nat, writing : Nat] /\ spend.all <= spend'.all
      /\ spend'.all + (IF drive.gen = 0 THEN Reserve + WriterLeft' ELSE 0) <= Limit
  <2>1. CASE spend' = spend
    <3>1. WriterLeft' = WriterLeft
      BY <2>1, WriterWaits
    <3>2. /\ spend.all + (IF drive.gen = 0 THEN Reserve + WriterLeft ELSE 0) <= Limit
          /\ spend \in [all : Nat, writing : Nat]
      BY PassingPays DEF Passing, Busy
    <3> QED
      BY <2>1, <3>1, <3>2
  <2>2. CASE \E session : spend' = Charged(CostOf(session))
    <3>1. PICK session : spend' = Charged(CostOf(session))
      BY <2>2
    <3>2. CostOf(session) \in Nat /\ CostOf(session) <= Session
      BY Constants DEF CostOf
    <3>3. PICK cost \in Nat : cost <= Session /\ spend' = Charged(cost)
      BY <3>1, <3>2
    <3> QED
      BY <3>3, ReviewPays
  <2> QED
    BY <2>1, <2>2
<1>2. PICK t : /\ Judged(moved, route, state) = [task EXCEPT ![Cur] = t] /\ IsTask(t)
               /\ t.route = route /\ t.judged = t.text /\ t.state = state
               /\ t.pushed = task[Cur].pushed
               /\ t.decided <=> (task[Cur].decided \/ route \notin {"wait", "error"})
  BY JudgedDoes
<1>3. task' = [task EXCEPT ![Cur] = t]
  BY <1>2
<1>4. /\ Context(Cur) /\ task'[Cur] = t
      /\ Cur \in LeftBehind' <=> \/ t.state \in InFlight
                                 \/ t.state = "READY_FOR_REVIEW" /\ ~t.pushed
  BY <1>1, <1>2, <1>3, RowContext DEF Busy
<1>5. Cur \notin LeftBehind /\ Cur \in Ids
  BY CurIs DEF Busy
<1>6. state \in {"GATE_ERROR", "RATE_LIMITED", "SPEC_WITHHELD", task[Cur].state} => Cur \notin LeftBehind'
  BY <1>2, <1>4, <1>5 DEF LeftBehind, InFlight
<1> QED
  BY <1>2, <1>4, <1>6
-----------------------------------------------------------------------------
LEMMA RoutedFollows ==
    ASSUME StackInv, pc = "review"
    PROVE  /\ Follows(Cur, Routed) /\ Routed.reviewed = drive.reviewed
           /\ Routed.revising = drive.revising /\ Routed.started = drive.started
           /\ Routed.routed = drive.routed \union {Cur}
           /\ Routed.cur = drive.cur /\ Routed.rounds = drive.rounds
           /\ Routed.remaining = drive.remaining /\ Routed.missed = drive.missed
           /\ Routed.inFlight = drive.inFlight /\ Routed.unpackaged = drive.unpackaged
<1>1. IsDrive(drive)
  BY DEF StackInv, Shape
<1>2. PICK d : d = Routed
  OBVIOUS
<1>3. d = [drive EXCEPT !.routed = @ \union {Cur}]
  BY <1>2 DEF Routed
<1>4. IsDrive(d) /\ d.missed = drive.missed /\ d.remaining = drive.remaining
      /\ d.started = drive.started /\ d.routed = drive.routed \union {Cur}
      /\ d.cur = drive.cur /\ d.rounds = drive.rounds
  BY <1>1, <1>3 DEF IsDrive, DriveFields
<1>5. /\ d.gen = drive.gen /\ d.pred = drive.pred /\ d.predTask = drive.predTask
      /\ d.resumed = drive.resumed /\ d.followUps = drive.followUps
      /\ d.reviewed = drive.reviewed /\ d.revising = drive.revising
      /\ d.inFlight = drive.inFlight /\ d.unpackaged = drive.unpackaged
  BY <1>1, <1>3 DEF IsDrive, DriveFields
<1>6. Follows(Cur, d)
  BY <1>4, <1>5 DEF Follows
<1> QED
  BY <1>2, <1>4, <1>5, <1>6

LEMMA PassedFollows ==
    ASSUME StackInv, pc = "review", NEW d, d = [Routed EXCEPT !.reviewed = @ \union {Cur}]
    PROVE  /\ Follows(Cur, d) /\ d.reviewed = drive.reviewed \union {Cur}
           /\ d.revising = drive.revising /\ d.started = drive.started
           /\ d.routed = drive.routed \union {Cur}
           /\ d.cur = drive.cur /\ d.rounds = drive.rounds
           /\ d.remaining = drive.remaining /\ d.missed = drive.missed
           /\ d.inFlight = drive.inFlight /\ d.unpackaged = drive.unpackaged
<1>1. PICK e : e = Routed
  OBVIOUS
<1>2. /\ Follows(Cur, e) /\ e.reviewed = drive.reviewed
      /\ e.revising = drive.revising /\ e.started = drive.started
      /\ e.routed = drive.routed \union {Cur} /\ e.cur = drive.cur /\ e.rounds = drive.rounds
      /\ e.remaining = drive.remaining /\ e.missed = drive.missed
      /\ e.inFlight = drive.inFlight /\ e.unpackaged = drive.unpackaged
  BY <1>1, RoutedFollows
<1>3. d = [e EXCEPT !.reviewed = @ \union {Cur}] /\ IsDrive(e)
  BY <1>1, <1>2 DEF Follows
<1>4. IsDrive(d) /\ d.missed = e.missed /\ d.remaining = e.remaining
      /\ d.started = e.started /\ d.reviewed = e.reviewed \union {Cur}
      /\ d.cur = e.cur /\ d.rounds = e.rounds
  BY <1>3 DEF IsDrive, DriveFields
<1>5. /\ d.gen = e.gen /\ d.pred = e.pred /\ d.predTask = e.predTask
      /\ d.resumed = e.resumed /\ d.followUps = e.followUps
      /\ d.routed = e.routed /\ d.revising = e.revising
      /\ d.inFlight = e.inFlight /\ d.unpackaged = e.unpackaged
  BY <1>3 DEF IsDrive, DriveFields
<1>6. Follows(Cur, d)
  BY <1>2, <1>4, <1>5 DEF Follows
<1> QED
  BY <1>2, <1>4, <1>5, <1>6

LEMMA ReviewLeaves ==
    ASSUME StackInv,
           \/ CiteRefuses
           \/ \E runtime \in BOOLEAN : CiteRaises(runtime)
           \/ \E runtime, moved \in BOOLEAN : ReviewRaises(runtime, moved)
           \/ \E turns, moved : \/ ReviewWaits(turns, moved) \/ ReviewErrs(turns, moved)
                                \/ Escalates(turns, moved) \/ Passes(turns, moved, TRUE)
    PROVE  \E s, d : Leaves(s, d)
<1>1. pc = "review"
  BY DEF CiteRefuses, CiteRaises, ReviewRaises, ReviewWaits, ReviewErrs, Escalates, Passes, Comes
<1>2. /\ Cur = drive.cur
      /\ Cur \in (IF drive.gen = 0 THEN drive.remaining ELSE ToSet(drive.followUps))
      /\ pc \in Passing /\ pc # "offer" /\ Follows(Cur, drive)
  BY <1>1, CurIs DEF Busy
<1>3. Cur \notin drive.reviewed /\ Cur \notin drive.revising
  BY <1>1 DEF StackInv, Reviewed1, Cur
<1>4. CASE CiteRefuses \/ \E runtime \in BOOLEAN : CiteRaises(runtime)
  <2>1. UNCHANGED <<plan, row, task, layers, spend, tail>>
    BY <1>4 DEF CiteRefuses, CiteRaises
  <2>2. Context(Cur) /\ Cur \notin LeftBehind'
    BY <1>2, <2>1, StaysContext
  <2>3. Settles(Cur, drive)
    BY <1>3, <2>1, <2>2 DEF Settles
  <2>4. Follows(Cur, Missed(drive, Cur)) /\ Settles(Cur, Missed(drive, Cur))
    BY <1>2, <2>3, MissedFollows
  <2>5. CASE CiteRefuses
    <3>1. Rescans(Missed(drive, Cur))
      BY <2>5 DEF CiteRefuses
    <3> QED
      BY <2>2, <2>4, <3>1 DEF Leaves
  <2>6. CASE \E runtime \in BOOLEAN : CiteRaises(runtime)
    <3>1. PICK runtime \in BOOLEAN : Raises(Missed(drive, Cur), Cur, runtime)
      BY <2>6 DEF CiteRaises
    <3> QED
      BY <2>2, <2>4, <3>1, RaisesLeaves
  <2> QED
    BY <1>4, <2>5, <2>6
<1>5. ASSUME NEW moved, NEW route \in {"wait", "error"}, NEW state \in {"GATE_ERROR", "RATE_LIMITED"},
             task' = Judged(moved, route, state),
             spend' = spend \/ \E session : spend' = Charged(CostOf(session)),
             UNCHANGED <<plan, row, layers, tail>>
      PROVE  /\ Context(Cur) /\ Cur \notin LeftBehind' /\ Settles(Cur, drive)
             /\ Follows(Cur, Missed(drive, Cur)) /\ Settles(Cur, Missed(drive, Cur))
  <2>1. /\ Context(Cur) /\ Cur \notin LeftBehind'
        /\ task'[Cur].decided <=> (task[Cur].decided \/ route \notin {"wait", "error"})
    BY <1>1, <1>5, ReviewContext
  <2>2. Settles(Cur, drive)
    BY <1>3, <1>5, <2>1 DEF Settles
  <2> QED
    BY <1>2, <2>1, <2>2, MissedFollows
<1>6. CASE \E runtime, moved \in BOOLEAN : ReviewRaises(runtime, moved)
  <2>1. PICK runtime \in BOOLEAN, moved \in BOOLEAN : ReviewRaises(runtime, moved)
    BY <1>6
  <2>2. /\ task' = Judged(moved, "error", "GATE_ERROR")
        /\ UNCHANGED <<plan, row, layers, spend, tail>>
        /\ Raises(IF runtime THEN drive ELSE Missed(drive, Cur), Cur, runtime)
    BY <2>1 DEF ReviewRaises
  <2>3. /\ Context(Cur) /\ Cur \notin LeftBehind' /\ Settles(Cur, drive)
        /\ Follows(Cur, Missed(drive, Cur)) /\ Settles(Cur, Missed(drive, Cur))
    BY <1>5, <2>2
  <2>4. PICK d : d = (IF runtime THEN drive ELSE Missed(drive, Cur))
    OBVIOUS
  <2>5. Follows(Cur, d) /\ Settles(Cur, d) /\ Raises(d, Cur, runtime)
    BY <1>2, <2>2, <2>3, <2>4
  <2> QED
    BY <2>3, <2>5, RaisesLeaves
<1>7. CASE \E turns, moved : ReviewWaits(turns, moved) \/ ReviewErrs(turns, moved)
  <2>1. PICK turns, moved : ReviewWaits(turns, moved) \/ ReviewErrs(turns, moved)
    BY <1>7
  <2>2. CASE ReviewWaits(turns, moved)
    <3>1. /\ task' = Judged(moved, "wait", "RATE_LIMITED")
          /\ spend' = Charged(CostOf(ReviewSession(turns)))
          /\ UNCHANGED <<plan, row, layers, tail>> /\ WaitsOut(drive, Cur)
      BY <2>2 DEF ReviewWaits, Reads
    <3>2. Context(Cur) /\ Cur \notin LeftBehind' /\ Settles(Cur, drive)
      BY <1>5, <3>1
    <3> QED
      BY <1>2, <3>1, <3>2, WaitsLeaves
  <2>3. CASE ReviewErrs(turns, moved)
    <3>1. /\ task' = Judged(moved, "error", "GATE_ERROR")
          /\ spend' = Charged(CostOf(ReviewSession(turns)))
          /\ UNCHANGED <<plan, row, layers, tail>> /\ Raises(Missed(drive, Cur), Cur, FALSE)
      BY <2>3 DEF ReviewErrs, Reads
    <3>2. /\ Context(Cur)
          /\ Follows(Cur, Missed(drive, Cur)) /\ Settles(Cur, Missed(drive, Cur))
      BY <1>5, <3>1
    <3> QED
      BY <3>1, <3>2, RaisesLeaves
  <2> QED
    BY <2>1, <2>2, <2>3
<1>8. CASE \E turns, moved : Escalates(turns, moved)
  <2>1. PICK turns, moved : Escalates(turns, moved)
    BY <1>8
  <2>2. /\ task' = Judged(moved, "escalate", "SPEC_WITHHELD")
        /\ spend' = Charged(CostOf(ReviewSession(turns)))
        /\ UNCHANGED <<plan, row, layers, tail>> /\ Rescans(Missed(Routed, Cur))
    BY <2>1 DEF Escalates, Reads
  <2>3. /\ Context(Cur) /\ Cur \notin LeftBehind' /\ task'[Cur].decided
    BY <1>1, <2>2, ReviewContext
  <2>4. Follows(Cur, Routed) /\ Settles(Cur, Routed)
    BY <1>1, <1>3, <2>3, RoutedFollows DEF Settles
  <2>5. Follows(Cur, Missed(Routed, Cur)) /\ Settles(Cur, Missed(Routed, Cur))
    BY <2>4, MissedFollows
  <2> QED
    BY <2>2, <2>3, <2>5 DEF Leaves
<1>9. CASE \E turns, moved : Passes(turns, moved, TRUE)
  <2>1. PICK turns, moved : Passes(turns, moved, TRUE)
    BY <1>9
  <2>2. PICK d : d = [Routed EXCEPT !.reviewed = @ \union {Cur}]
    OBVIOUS
  <2>3. /\ task' = Judged(moved, "run", task[Cur].state)
        /\ spend' = Charged(CostOf(ReviewSession(turns)))
        /\ UNCHANGED <<plan, row, layers, tail>> /\ Rescans(Missed(d, Cur))
    BY <2>1, <2>2 DEF Passes, Reads
  <2>4. /\ Context(Cur) /\ Cur \notin LeftBehind' /\ task'[Cur].decided
        /\ task'[Cur].route = "run" /\ task'[Cur].judged = task'[Cur].text
    BY <1>1, <2>3, ReviewContext
  <2>5. Follows(Cur, d) /\ Settles(Cur, d)
    BY <1>1, <1>3, <2>2, <2>4, PassedFollows DEF Settles
  <2>6. Follows(Cur, Missed(d, Cur)) /\ Settles(Cur, Missed(d, Cur))
    BY <2>5, MissedFollows
  <2> QED
    BY <2>3, <2>4, <2>6 DEF Leaves
<1> QED
  BY <1>4, <1>6, <1>7, <1>8, <1>9
-----------------------------------------------------------------------------
LEMMA RevisePays ==
    ASSUME StackInv, pc = "revise", Affordable, NEW cost \in {0, Session},
           spend' = ChargedWriting(cost)
    PROVE  /\ spend' \in [all : Nat, writing : Nat] /\ spend.all <= spend'.all
           /\ spend'.all + (IF drive.gen = 0 THEN Reserve + WriterLeft' ELSE 0) <= Limit
           /\ cost = Session =>
                 spend'.all + (IF drive.gen = 0 THEN Reserve + WriterLeft' ELSE 0)
                    + Session + MaxCell <= Limit
<1>1. /\ spend \in [all : Nat, writing : Nat] /\ WriterLeft \in Nat /\ drive.gen \in {0, 1}
      /\ spend.all + (IF drive.gen = 0 THEN Reserve + WriterLeft ELSE 0) <= Limit
  BY PassingPays DEF Passing, Busy
<1>2. cost \in Nat /\ Session \in Nat /\ Reserve \in Nat /\ Writer \in Nat /\ Budget \in Nat
      /\ SpecBudget \in Nat /\ MaxCell \in Nat /\ Limit \in Int /\ MaxCell >= SpecBudget
      /\ Limit >= Budget - SpecBudget + MaxCell + Session
      /\ Limit >= Budget - SpecBudget + MaxCell + (Writer - Session)
  BY Constants, MaxCellIs, LimitIs
<1>3. spend' \in [all : Nat, writing : Nat] /\ spend'.all = spend.all + cost
      /\ spend'.writing = spend.writing + cost /\ spend.all <= spend'.all
  <2>1. spend.all + cost \in Nat /\ spend.writing + cost \in Nat /\ spend.all <= spend.all + cost
    BY <1>1, <1>2
  <2> QED
    BY <2>1 DEF ChargedWriting
<1>4. /\ WriterLeft' \in Nat /\ WriterLeft' <= WriterLeft
      /\ WriterLeft' = 0 \/ WriterLeft' <= Writer - cost
  BY <1>1, <1>2, <1>3, WriterPays
<1>5. 2 * Session + SpecBudget <= Budget - HeldBack - spend.all
  BY DEF Affordable
<1>6. CASE drive.gen = 0
  <2>1. HeldBack = Reserve
    BY <1>6 DEF HeldBack
  <2>2. PICK w \in Nat : w = WriterLeft' /\ (w = 0 \/ w <= Writer - cost) /\ w <= WriterLeft
    BY <1>4
  <2>3. PICK a \in Nat : a = spend.all
    BY <1>1
  <2>4. 2 * Session + SpecBudget + Reserve + a <= Budget
    BY <1>2, <1>5, <2>1, <2>3
  <2>5. cost = 0 => a + cost + (Reserve + w) <= Limit
    <3>1. a + (Reserve + WriterLeft) <= Limit
      BY <1>1, <1>6, <2>3
    <3> QED
      BY <1>1, <1>2, <2>2, <2>3, <3>1
  <2>6. cost = Session => a + cost + (Reserve + w) + Session + MaxCell <= Limit
    <3>1. CASE w = 0
      BY <1>2, <2>4, <3>1
    <3>2. CASE w <= Writer - cost
      BY <1>2, <2>4, <3>2
    <3> QED
      BY <2>2, <3>1, <3>2
  <2>7. cost = Session => a + cost + (Reserve + w) <= Limit
    BY <1>2, <2>6
  <2> QED
    BY <1>3, <1>6, <2>2, <2>3, <2>5, <2>6, <2>7
<1>7. CASE drive.gen = 1
  <2>1. HeldBack = 0
    BY <1>7 DEF HeldBack
  <2>2. PICK a \in Nat : a = spend.all
    BY <1>1
  <2>3. 2 * Session + SpecBudget + a <= Budget
    BY <1>2, <1>5, <2>1, <2>2
  <2>4. a + cost + 0 <= Limit
    BY <1>2, <2>3
  <2>5. a + Session + 0 + Session + MaxCell <= Limit
    BY <1>2, <2>3
  <2> QED
    BY <1>3, <1>7, <2>2, <2>4, <2>5
<1> QED
  BY <1>1, <1>6, <1>7

LEMMA TakenFollows ==
    ASSUME StackInv, pc = "revise", NEW d,
           \/ d = [drive EXCEPT !.revising = @ \ {Cur}]
           \/ d = [drive EXCEPT !.revising = @ \union {Cur}]
    PROVE  /\ Follows(Cur, d) /\ d.reviewed = drive.reviewed
           /\ d.routed = drive.routed /\ d.started = drive.started
           /\ d.revising \subseteq drive.revising \union {Cur}
           /\ d = [drive EXCEPT !.revising = @ \ {Cur}] => d.revising = drive.revising \ {Cur}
           /\ d.cur = drive.cur /\ d.rounds = drive.rounds
           /\ d.remaining = drive.remaining /\ d.missed = drive.missed
           /\ d.inFlight = drive.inFlight /\ d.unpackaged = drive.unpackaged
<1>1. IsDrive(drive)
  BY DEF StackInv, Shape
<1>2. IsDrive(d) /\ d.missed = drive.missed /\ d.remaining = drive.remaining
      /\ d.started = drive.started /\ d.routed = drive.routed
      /\ d.cur = drive.cur /\ d.rounds = drive.rounds
  BY <1>1 DEF IsDrive, DriveFields
<1>3. /\ d.gen = drive.gen /\ d.pred = drive.pred /\ d.predTask = drive.predTask
      /\ d.resumed = drive.resumed /\ d.followUps = drive.followUps
      /\ d.reviewed = drive.reviewed
      /\ d.inFlight = drive.inFlight /\ d.unpackaged = drive.unpackaged
  BY <1>1 DEF IsDrive, DriveFields
<1>4. /\ d.revising = drive.revising \ {Cur} \/ d.revising = drive.revising \union {Cur}
      /\ d = [drive EXCEPT !.revising = @ \ {Cur}] => d.revising = drive.revising \ {Cur}
  BY <1>1 DEF IsDrive, DriveFields
<1>5. Follows(Cur, d)
  BY <1>2, <1>3, <1>4 DEF Follows
<1> QED
  BY <1>2, <1>3, <1>4, <1>5

(* Its state is all that changes of the spec's row.                        *)
LEMMA SettledContext ==
    ASSUME StackInv, pc \in Busy, NEW state \in {"GATE_ERROR", "RATE_LIMITED"},
           task' = Settled(state),
           spend' \in [all : Nat, writing : Nat], spend.all <= spend'.all,
           spend'.all + (IF drive.gen = 0 THEN Reserve + WriterLeft' ELSE 0) <= Limit,
           UNCHANGED <<plan, row, layers, tail>>
    PROVE  /\ Context(Cur) /\ Cur \notin LeftBehind'
           /\ task'[Cur].decided = task[Cur].decided
<1>1. Cur \in Ids /\ DOMAIN task = Ids /\ IsTask(task[Cur])
  BY CurIs DEF StackInv, Shape
<1>2. PICK t : t = [task[Cur] EXCEPT !.state = state]
  OBVIOUS
<1>3. task' = [task EXCEPT ![Cur] = t]
  BY <1>1, <1>2 DEF Settled
<1>4. /\ IsTask(t) /\ t.state = state /\ t.decided = task[Cur].decided
  BY <1>1, <1>2 DEF IsTask, TaskFields
<1>5. /\ Context(Cur) /\ task'[Cur] = t
      /\ Cur \in LeftBehind' <=> \/ t.state \in InFlight
                                 \/ t.state = "READY_FOR_REVIEW" /\ ~t.pushed
  BY <1>3, <1>4, RowContext
<1> QED
  BY <1>4, <1>5 DEF InFlight

LEMMA ReviseLeaves ==
    ASSUME StackInv,
           \/ Unaffordable
           \/ \E runtime \in BOOLEAN : ReviseRaises(runtime)
           \/ \E turns : ReviseErrs(turns) \/ ReviseWaits(turns)
    PROVE  \E s, d : Leaves(s, d)
<1>1. pc = "revise"
  BY DEF Unaffordable, ReviseRaises, ReviseErrs, ReviseWaits, Revising
<1>2. /\ Cur = drive.cur
      /\ Cur \in (IF drive.gen = 0 THEN drive.remaining ELSE ToSet(drive.followUps))
      /\ pc \in Passing /\ pc # "offer" /\ pc \in Busy
  BY <1>1, CurIs DEF Busy
<1>3. Cur \notin drive.reviewed
  BY <1>1 DEF StackInv, Reviewed1, Cur
<1>4. PICK d : d = [drive EXCEPT !.revising = @ \ {Cur}]
  OBVIOUS
<1>5. Follows(Cur, d) /\ d.reviewed = drive.reviewed /\ d.routed = drive.routed
  BY <1>1, <1>4, TakenFollows
<1>6. CASE Unaffordable
  <2>1. UNCHANGED <<plan, row, task, layers, spend, tail>> /\ Rescans(Missed(d, Cur))
    BY <1>4, <1>6 DEF Unaffordable
  <2>2. Context(Cur) /\ Cur \notin LeftBehind'
    BY <1>2, <2>1, StaysContext
  <2>3. Settles(Cur, d)
    BY <1>3, <1>5, <2>1, <2>2 DEF Settles
  <2>4. Follows(Cur, Missed(d, Cur)) /\ Settles(Cur, Missed(d, Cur))
    BY <1>5, <2>3, MissedFollows
  <2> QED
    BY <2>1, <2>2, <2>4 DEF Leaves
<1>7. CASE \E runtime \in BOOLEAN : ReviseRaises(runtime)
  <2>1. PICK runtime \in BOOLEAN : ReviseRaises(runtime)
    BY <1>7
  <2>2. /\ task' = Settled("GATE_ERROR") /\ UNCHANGED <<plan, row, layers, spend, tail>>
        /\ Raises(Missed(d, Cur), Cur, runtime)
    BY <1>4, <2>1 DEF ReviseRaises, Revising, Taken
  <2>3. WriterLeft' = WriterLeft
    BY <2>2, WriterWaits
  <2>4. /\ spend' \in [all : Nat, writing : Nat] /\ spend.all <= spend'.all
        /\ spend'.all + (IF drive.gen = 0 THEN Reserve + WriterLeft' ELSE 0) <= Limit
    <3>1. /\ spend.all + (IF drive.gen = 0 THEN Reserve + WriterLeft ELSE 0) <= Limit
          /\ spend \in [all : Nat, writing : Nat]
      BY <1>2, PassingPays
    <3> QED
      BY <2>2, <2>3, <3>1
  <2>5. /\ Context(Cur) /\ Cur \notin LeftBehind'
        /\ task'[Cur].decided = task[Cur].decided
    BY <1>2, <2>2, <2>4, SettledContext
  <2>6. Settles(Cur, d)
    BY <1>3, <1>5, <2>5 DEF Settles
  <2>7. Follows(Cur, Missed(d, Cur)) /\ Settles(Cur, Missed(d, Cur))
    BY <1>5, <2>6, MissedFollows
  <2> QED
    BY <2>2, <2>5, <2>7, RaisesLeaves
<1>8. ASSUME NEW state \in {"GATE_ERROR", "RATE_LIMITED"}, NEW session,
             Affordable, task' = Settled(state), spend' = ChargedWriting(CostOf(session)),
             UNCHANGED <<plan, row, layers, tail>>
      PROVE  /\ Context(Cur) /\ Cur \notin LeftBehind'
             /\ task'[Cur].decided = task[Cur].decided
  <2>1. PICK cost : cost \in {0, Session} /\ cost = CostOf(session)
    BY DEF CostOf
  <2>2. /\ spend' \in [all : Nat, writing : Nat] /\ spend.all <= spend'.all
        /\ spend'.all + (IF drive.gen = 0 THEN Reserve + WriterLeft' ELSE 0) <= Limit
    BY <1>1, <1>8, <2>1, RevisePays
  <2> QED
    BY <1>2, <1>8, <2>2, SettledContext
<1>9. CASE \E turns : ReviseErrs(turns)
  <2>1. PICK turns : ReviseErrs(turns)
    BY <1>9
  <2>2. /\ Affordable /\ task' = Settled("GATE_ERROR")
        /\ spend' = ChargedWriting(CostOf(WriterSession(turns)))
        /\ UNCHANGED <<plan, row, layers, tail>> /\ Raises(Missed(d, Cur), Cur, FALSE)
    BY <1>4, <2>1 DEF ReviseErrs, Revising, Taken
  <2>3. /\ Context(Cur) /\ Cur \notin LeftBehind'
        /\ task'[Cur].decided = task[Cur].decided
    BY <1>8, <2>2
  <2>4. Settles(Cur, d)
    BY <1>3, <1>5, <2>3 DEF Settles
  <2>5. Follows(Cur, Missed(d, Cur)) /\ Settles(Cur, Missed(d, Cur))
    BY <1>5, <2>4, MissedFollows
  <2> QED
    BY <2>2, <2>3, <2>5, RaisesLeaves
<1>10. CASE \E turns : ReviseWaits(turns)
  <2>1. PICK turns : ReviseWaits(turns)
    BY <1>10
  <2>2. PICK e : e = [drive EXCEPT !.revising = @ \union {Cur}]
    OBVIOUS
  <2>3. /\ Affordable /\ task' = Settled("RATE_LIMITED")
        /\ spend' = ChargedWriting(CostOf(WriterSession(turns)))
        /\ UNCHANGED <<plan, row, layers, tail>> /\ WaitsOut(e, Cur)
    BY <2>1, <2>2 DEF ReviseWaits, Revising
  <2>4. /\ Context(Cur) /\ Cur \notin LeftBehind'
        /\ task'[Cur].decided = task[Cur].decided
    BY <1>8, <2>3
  <2>5. Follows(Cur, e) /\ e.reviewed = drive.reviewed /\ e.routed = drive.routed
    BY <1>1, <2>2, TakenFollows
  <2>6. Settles(Cur, e)
    BY <1>3, <2>4, <2>5 DEF Settles
  <2> QED
    BY <2>3, <2>4, <2>5, <2>6, WaitsLeaves
<1> QED
  BY <1>6, <1>7, <1>9, <1>10
-----------------------------------------------------------------------------
LEMMA CellPays ==
    ASSUME StackInv, pc = "cell", NEW cost \in CellCosts, spend' = Charged(cost)
    PROVE  /\ spend' \in [all : Nat, writing : Nat] /\ spend.all <= spend'.all
           /\ WriterLeft' = WriterLeft
           /\ spend'.all + (IF drive.gen = 0 THEN Reserve + WriterLeft' ELSE 0) <= Limit
<1>1. spend \in [all : Nat, writing : Nat] /\ WriterLeft \in Nat /\ drive.gen \in {0, 1}
  BY PassingPays DEF Passing, Busy
<1>2. cost \in Nat /\ cost <= MaxCell
  BY Constants, MaxCellIs
<1>3. spend' \in [all : Nat, writing : Nat] /\ spend'.all = spend.all + cost
      /\ spend'.writing = spend.writing
  BY <1>1, <1>2 DEF Charged
<1>4. WriterLeft' = WriterLeft
  BY <1>3, WriterWaits
<1>5. PICK k : k = (IF drive.gen = 0 THEN Reserve + WriterLeft ELSE 0)
  OBVIOUS
<1>6. k \in Nat /\ Kept = k
  BY <1>1, <1>5, Constants DEF Kept
<1>7. spend.all + k + MaxCell <= Limit
  BY <1>6 DEF StackInv, Funded
<1>8. spend'.all + k <= Limit /\ spend.all <= spend'.all
  BY <1>1, <1>2, <1>3, <1>6, <1>7, Constants, MaxCellIs, LimitIs
<1> QED
  BY <1>3, <1>4, <1>5, <1>8

LEMMA EndedContext ==
    ASSUME StackInv, pc = "cell", NEW state, NEW cost \in CellCosts,
           task' = CellEnded(state, FALSE), spend' = Charged(cost),
           UNCHANGED <<plan, row, layers, tail>>
    PROVE  /\ Context(Cur)
           /\ Cur \in LeftBehind' <=> state \in InFlight \union {"READY_FOR_REVIEW"}
           /\ task'[Cur].decided = task[Cur].decided
           /\ task'[Cur].route = "run" /\ task'[Cur].judged = task'[Cur].text
<1>1. Cur \in Ids /\ DOMAIN task = Ids /\ IsTask(task[Cur])
  BY CurIs DEF Busy, StackInv, Shape
<1>2. task[Cur].route = "run" /\ task[Cur].judged = task[Cur].text
  BY DEF StackInv, Reviewed1, Cur
<1>3. PICK t : t = [task[Cur] EXCEPT !.state = state, !.tree = Under(drive), !.pushed = FALSE]
  OBVIOUS
<1>4. task' = [task EXCEPT ![Cur] = t]
  BY <1>1, <1>3 DEF CellEnded
<1>5. /\ IsTask(t) /\ t.state = state /\ ~t.pushed
      /\ t.decided = task[Cur].decided
      /\ t.route = task[Cur].route /\ t.judged = task[Cur].judged /\ t.text = task[Cur].text
  BY <1>1, <1>3 DEF IsTask, TaskFields
<1>6. IsTask(t) /\ t.state = state /\ ~t.pushed
      /\ t.decided = task[Cur].decided /\ t.route = "run" /\ t.judged = t.text
  BY <1>2, <1>5
<1>7. /\ spend' \in [all : Nat, writing : Nat] /\ spend.all <= spend'.all
      /\ spend'.all + (IF drive.gen = 0 THEN Reserve + WriterLeft' ELSE 0) <= Limit
  BY CellPays
<1>8. /\ Context(Cur) /\ task'[Cur] = t
      /\ Cur \in LeftBehind' <=> \/ t.state \in InFlight
                                 \/ t.state = "READY_FOR_REVIEW" /\ ~t.pushed
  BY <1>6, <1>4, <1>7, RowContext DEF Busy
<1> QED
  BY <1>6, <1>8

LEMMA CellLeaves ==
    ASSUME StackInv,
           \/ CellRefused
           \/ \E cost \in CellCosts :
                \/ CellWaits(cost)
                \/ \E state \in plan.ends : CellOfferedAgain(state, cost) \/ CellMisses(state, cost)
                \/ \E kind \in {"package", "runtime", "other"} : CellRaises(kind, cost)
    PROVE  \E s, d : Leaves(s, d)
<1>1. pc = "cell"
  BY DEF CellRefused, CellWaits, CellOfferedAgain, CellMisses, CellRaises, CellReturns
<1>2. /\ Cur = drive.cur /\ Cur \in drive.started
      /\ Cur \in (IF drive.gen = 0 THEN drive.remaining ELSE ToSet(drive.followUps))
      /\ pc \in Passing /\ pc # "offer" /\ Follows(Cur, drive)
  BY <1>1, CurIs DEF Busy
<1>3. /\ Cur \notin drive.revising /\ IsDrive(drive)
      /\ task[Cur].route = "run" /\ task[Cur].judged = task[Cur].text
  BY <1>1 DEF StackInv, Reviewed1, Cur, Shape
<1>4. CASE CellRefused
  <2>1. UNCHANGED <<plan, row, task, layers, spend, tail>> /\ Rescans(Missed(drive, Cur))
    BY <1>4 DEF CellRefused
  <2>2. Context(Cur) /\ Cur \notin LeftBehind'
    BY <1>2, <2>1, StaysContext
  <2>3. Settles(Cur, drive)
    BY <1>3, <2>1, <2>2 DEF Settles
  <2>4. Follows(Cur, Missed(drive, Cur)) /\ Settles(Cur, Missed(drive, Cur))
    BY <1>2, <2>3, MissedFollows
  <2> QED
    BY <2>1, <2>2, <2>4 DEF Leaves
<1>5. ASSUME NEW state, NEW cost \in CellCosts, task' = CellEnded(state, FALSE),
             spend' = Charged(cost), UNCHANGED <<plan, row, layers, tail>>
      PROVE  /\ Context(Cur)
             /\ Cur \in LeftBehind' <=> state \in InFlight \union {"READY_FOR_REVIEW"}
             /\ task'[Cur].decided = task[Cur].decided
             /\ task'[Cur].route = "run" /\ task'[Cur].judged = task'[Cur].text
  BY <1>1, <1>5, EndedContext
<1>6. CASE \E cost \in CellCosts : CellWaits(cost)
  <2>1. PICK cost \in CellCosts : CellWaits(cost)
    BY <1>6
  <2>2. /\ task' = CellEnded("RATE_LIMITED", FALSE) /\ spend' = Charged(cost)
        /\ UNCHANGED <<plan, row, layers, tail>> /\ WaitsOut(drive, Cur)
    BY <2>1 DEF CellWaits, CellReturns
  <2>3. /\ Context(Cur) /\ Cur \notin LeftBehind'
        /\ task'[Cur].decided = task[Cur].decided
        /\ task'[Cur].route = "run" /\ task'[Cur].judged = task'[Cur].text
    <3>1. "RATE_LIMITED" \notin InFlight \union {"READY_FOR_REVIEW"}
      BY DEF InFlight
    <3> QED
      BY <1>5, <2>2, <3>1
  <2>4. Settles(Cur, drive)
    BY <1>3, <2>3 DEF Settles
  <2> QED
    BY <1>2, <2>2, <2>3, <2>4, WaitsLeaves
<1>7. CASE \E cost \in CellCosts, state \in plan.ends : CellOfferedAgain(state, cost)
  <2>1. PICK cost \in CellCosts, state \in plan.ends : CellOfferedAgain(state, cost)
    BY <1>7
  <2>2. /\ task' = CellEnded(state, FALSE) /\ spend' = Charged(cost) /\ state \in OfferedAgain
        /\ UNCHANGED <<plan, row, layers, tail>> /\ Raises(drive, Cur, TRUE)
    BY <2>1 DEF CellOfferedAgain, CellReturns
  <2>3. state \notin InFlight \union {"READY_FOR_REVIEW"}
    BY <2>2 DEF InFlight, OfferedAgain
  <2>4. /\ Context(Cur) /\ Cur \notin LeftBehind'
        /\ task'[Cur].decided = task[Cur].decided
        /\ task'[Cur].route = "run" /\ task'[Cur].judged = task'[Cur].text
    BY <1>5, <2>2, <2>3
  <2>5. Settles(Cur, drive)
    BY <1>3, <2>4 DEF Settles
  <2> QED
    BY <1>2, <2>2, <2>4, <2>5, RaisesLeaves
<1>8. CASE \E cost \in CellCosts, state \in plan.ends : CellMisses(state, cost)
  <2>1. PICK cost \in CellCosts, state \in plan.ends : CellMisses(state, cost)
    BY <1>8
  <2>2. PICK m : m = Missed(drive, Cur)
    OBVIOUS
  <2>3. PICK e : e = [m EXCEPT !.aborts = IF state \in AbortStates THEN @ + 1 ELSE 0,
                              !.inFlight = IF state \in InFlight THEN @ \union {Cur} ELSE @]
    OBVIOUS
  <2>4. /\ task' = CellEnded(state, FALSE) /\ spend' = Charged(cost)
        /\ UNCHANGED <<plan, row, layers, tail>> /\ Rescans(e)
    BY <2>1, <2>2, <2>3 DEF CellMisses, CellReturns
  <2>5. state # "READY_FOR_REVIEW"
    BY PlanIs DEF StackInv, Shape
  <2>6. /\ Context(Cur)
        /\ Cur \in LeftBehind' <=> state \in InFlight
        /\ task'[Cur].decided = task[Cur].decided
        /\ task'[Cur].route = "run" /\ task'[Cur].judged = task'[Cur].text
    BY <1>5, <2>4, <2>5
  <2>7. /\ Follows(Cur, m) /\ m.reviewed = drive.reviewed /\ m.revising = drive.revising
        /\ m.routed = drive.routed /\ m.started = drive.started
        /\ m.inFlight = drive.inFlight /\ m.unpackaged = drive.unpackaged
    <3>1. PICK d : d = drive
      OBVIOUS
    <3>2. m.reviewed = d.reviewed /\ m.revising = d.revising
          /\ m.routed = d.routed /\ m.started = d.started
          /\ m.inFlight = d.inFlight /\ m.unpackaged = d.unpackaged
      BY <1>3, <2>2, <3>1 DEF Missed, IsDrive, DriveFields
    <3>3. IsDrive(m) /\ m.gen = d.gen /\ m.pred = d.pred /\ m.predTask = d.predTask
          /\ m.resumed = d.resumed /\ m.followUps = d.followUps
      BY <1>3, <2>2, <3>1 DEF Missed, IsDrive, DriveFields
    <3>4. \/ m.remaining = d.remaining /\ m.missed = d.missed
          \/ d.gen = 0 /\ m.remaining = d.remaining \ {Cur} /\ m.missed = d.missed \union {Cur}
      BY <1>3, <2>2, <3>1 DEF Missed, IsDrive, DriveFields
    <3> QED
      BY <3>1, <3>2, <3>3, <3>4 DEF Follows
  <2>8. IsDrive(m)
    BY <2>7 DEF Follows
  <2>9. /\ IsDrive(e) /\ e.missed = m.missed /\ e.remaining = m.remaining
        /\ m.inFlight \subseteq e.inFlight /\ (state \in InFlight => Cur \in e.inFlight)
    BY <2>3, <2>8 DEF IsDrive, DriveFields
  <2>10. /\ e.gen = m.gen /\ e.pred = m.pred /\ e.predTask = m.predTask
         /\ e.resumed = m.resumed /\ e.followUps = m.followUps
         /\ e.reviewed = m.reviewed /\ e.revising = m.revising /\ e.routed = m.routed
         /\ e.started = m.started /\ e.unpackaged = m.unpackaged
    BY <2>3, <2>8 DEF IsDrive, DriveFields
  <2>11. Follows(Cur, e)
    BY <2>7, <2>9, <2>10 DEF Follows
  <2>12. Settles(Cur, e)
    BY <1>2, <1>3, <2>6, <2>7, <2>9, <2>10 DEF Settles
  <2> QED
    BY <2>4, <2>6, <2>11, <2>12 DEF Leaves
<1>9. CASE \E cost \in CellCosts, kind \in {"package", "runtime", "other"} : CellRaises(kind, cost)
  <2>1. PICK cost \in CellCosts, kind \in {"package", "runtime", "other"} : CellRaises(kind, cost)
    BY <1>9
  <2>2. CASE kind = "package"
    <3>1. PICK d : d = [drive EXCEPT !.unpackaged = @ \union {Cur}]
      OBVIOUS
    <3>2. /\ task' = CellEnded("READY_FOR_REVIEW", FALSE) /\ spend' = Charged(cost)
          /\ UNCHANGED <<plan, row, layers, tail>> /\ Raises(Missed(d, Cur), Cur, FALSE)
      BY <2>1, <2>2, <3>1 DEF CellRaises, CellReturns
    <3>3. IsDrive(d) /\ d.missed = drive.missed /\ d.remaining = drive.remaining
          /\ d.started = drive.started /\ d.unpackaged = drive.unpackaged \union {Cur}
      BY <1>3, <3>1 DEF IsDrive, DriveFields
    <3>4. /\ d.gen = drive.gen /\ d.pred = drive.pred /\ d.predTask = drive.predTask
          /\ d.resumed = drive.resumed /\ d.followUps = drive.followUps
          /\ d.reviewed = drive.reviewed /\ d.revising = drive.revising
          /\ d.routed = drive.routed /\ d.inFlight = drive.inFlight
      BY <1>3, <3>1 DEF IsDrive, DriveFields
    <3>5. Follows(Cur, d)
      BY <3>3, <3>4 DEF Follows
    <3>6. Context(Cur) /\ Settles(Cur, d)
      <4>1. /\ Context(Cur) /\ task'[Cur].decided = task[Cur].decided
            /\ task'[Cur].route = "run" /\ task'[Cur].judged = task'[Cur].text
        BY <1>5, <3>2
      <4> QED
        BY <1>2, <1>3, <3>3, <3>4, <4>1 DEF Settles
    <3>7. Follows(Cur, Missed(d, Cur)) /\ Settles(Cur, Missed(d, Cur))
      BY <3>5, <3>6, MissedFollows
    <3> QED
      BY <3>2, <3>6, <3>7, RaisesLeaves
  <2>3. CASE kind # "package"
    <3>1. PICK d : d = (IF kind = "runtime" THEN drive ELSE Missed(drive, Cur))
      OBVIOUS
    <3>2. PICK runtime : runtime = (kind = "runtime")
      OBVIOUS
    <3>3. /\ task' = CellEnded("ORPHANED", FALSE) /\ spend' = Charged(cost)
          /\ UNCHANGED <<plan, row, layers, tail>> /\ Raises(d, Cur, kind = "runtime")
      BY <2>1, <2>3, <3>1 DEF CellRaises, CellReturns
    <3>4. Context(Cur) /\ Cur \notin LeftBehind' /\ Settles(Cur, drive)
      <4>1. /\ Context(Cur) /\ Cur \notin LeftBehind'
            /\ task'[Cur].decided = task[Cur].decided
            /\ task'[Cur].route = "run" /\ task'[Cur].judged = task'[Cur].text
        <5>1. "ORPHANED" \notin InFlight \union {"READY_FOR_REVIEW"}
          BY DEF InFlight
        <5> QED
          BY <1>5, <3>3, <5>1
      <4> QED
        BY <1>3, <4>1 DEF Settles
    <3>5. Follows(Cur, d) /\ Settles(Cur, d)
      BY <1>2, <3>1, <3>4, MissedFollows
    <3> QED
      BY <3>2, <3>3, <3>4, <3>5, RaisesLeaves
  <2> QED
    BY <2>2, <2>3
<1> QED
  BY <1>4, <1>6, <1>7, <1>8, <1>9
-----------------------------------------------------------------------------
(* A step that turns to the spec s, or goes on with it.                    *)
Works(s) ==
    /\ Context(s) /\ Follows(s, drive')
    /\ pc' \in Busy /\ drive'.cur = s /\ s \in drive'.started
    /\ drive'.remaining = drive.remaining /\ drive'.missed = drive.missed
    /\ s \notin LeftBehind'
    /\ s \in drive'.reviewed => /\ s \notin drive'.revising
                                /\ task'[s].route = "run" /\ task'[s].judged = task'[s].text
    /\ s \in drive'.reviewed <=> pc' = "cell"
    /\ pc' = "review" => s \notin drive'.revising
    /\ (s \in drive.routed <=> task[s].decided) => (s \in drive'.routed <=> task'[s].decided)
    /\ spend'.all + (IF drive.gen = 0 THEN Reserve + WriterLeft' ELSE 0) + MaxCell <= Limit
    /\ pc' = "review" =>
          spend'.all + (IF drive.gen = 0 THEN Reserve + WriterLeft' ELSE 0)
             + Session + MaxCell <= Limit

LEMMA WorksShape ==
    ASSUME StackInv, NEW s, Works(s)
    PROVE  Shape' /\ Places' /\ ReadOnce'
<1>1. /\ plan' = plan /\ row' = row /\ layers' = layers /\ tail' = tail
      /\ DOMAIN task' = Ids /\ (\A r \in Ids \ {s} : task'[r] = task[r]) /\ IsTask(task'[s])
      /\ spend' \in [all : Nat, writing : Nat] /\ pc \in Passing /\ pc' \in Busy
      /\ s \in (IF drive.gen = 0 THEN drive.remaining ELSE ToSet(drive.followUps))
  BY DEF Works, Context
<1>2. Ids' = Ids /\ Order' = Order /\ LayerSpecs' = LayerSpecs
  BY <1>1, PlanStays DEF LayerSpecs
<1>3. /\ IsDrive(drive') /\ drive'.cur = s /\ s \in drive'.started
      /\ drive'.gen = drive.gen /\ drive'.resumed = drive.resumed
      /\ drive'.followUps = drive.followUps
      /\ drive'.remaining = drive.remaining /\ drive'.missed = drive.missed
      /\ drive'.started \subseteq drive.started \union {s}
      /\ drive'.reviewed \subseteq drive.reviewed \union {s}
      /\ drive'.routed \subseteq drive.routed \union {s}
  BY DEF Works, Follows
<1>4. s \in Ids /\ (drive.gen = 0 => s \in Order)
  BY NotPast DEF Works, Context
<1>5. IsDrive(drive)' /\ drive.gen \in {0, 1}
  BY <1>2, <1>3 DEF IsDrive, StackInv, Shape
<1>6. pc' \in Passing /\ pc' # "offer"
  BY <1>1 DEF Passing, Busy
<1>7. Shape'
  BY <1>1, <1>2, <1>4, <1>5, <1>6 DEF StackInv, Shape, IsTask, IsTail
<1>8. /\ drive.remaining \union drive.missed \subseteq Order /\ drive.started \subseteq Ids
      /\ drive.gen = 0 => drive.started \union drive.reviewed \union drive.routed \subseteq Order
      /\ ToSet(drive.followUps) \subseteq {FollowUp(r) : r \in Order}
      /\ drive.resumed => drive.gen = 1
      /\ drive.resumed <=> row # "open"
      /\ row # "none"
  BY <1>1 DEF StackInv, Places, Running, Passing, Busy
<1>9. Places'
  <2>1. drive'.started \subseteq Ids
    BY <1>3, <1>4, <1>8
  <2>2. drive.gen = 0 => drive'.started \union drive'.reviewed \union drive'.routed \subseteq Order
    BY <1>3, <1>4, <1>8
  <2>3. {FollowUp(r) : r \in Order}' = {FollowUp(r) : r \in Order}
    BY <1>2
  <2> QED
    BY <1>1, <1>2, <1>3, <1>5, <1>8, <2>1, <2>2, <2>3
       DEF Places, Running, Passing, Busy, Ending, Closing
<1>10. ReadOnce'
  BY <1>1, <1>2, <1>3, <1>5 DEF StackInv, ReadOnce, Passing, Busy
<1> QED
  BY <1>7, <1>9, <1>10

LEMMA WorksUntouched ==
    ASSUME StackInv, NEW s, Works(s)
    PROVE  Untouched' /\ Chained' /\ LeftBehind' = LeftBehind
<1>1. /\ plan' = plan /\ row' = row /\ layers' = layers /\ tail' = tail
      /\ \A r \in Ids \ {s} : task'[r] = task[r]
      /\ pc \in Passing /\ pc' \in Busy /\ s \notin LeftBehind'
      /\ drive.started \ {s} \subseteq drive'.started
      /\ drive.inFlight \subseteq drive'.inFlight /\ drive.unpackaged \subseteq drive'.unpackaged
      /\ pc = "offer" => s \notin drive.started
      /\ pc \in Busy => s = drive.cur
  BY DEF Works, Context, Follows
<1>2. Ids' = Ids /\ Order' = Order /\ OverBase' = OverBase /\ LayerSpecs' = LayerSpecs
  BY <1>1, PlanStays DEF LayerSpecs
<1>3. /\ s \notin Past /\ s \notin LayerSpecs /\ s \notin LeftBehind /\ s \in Ids /\ Running
  BY NotPast DEF Works, Context
<1>4. /\ drive'.cur = s /\ drive'.gen = drive.gen /\ drive'.pred = drive.pred
      /\ drive'.predTask = drive.predTask
  BY DEF Works, Follows
<1>5. LeftBehind' = LeftBehind
  <2>1. LeftBehind \subseteq LeftBehind' /\ LeftBehind' \subseteq LeftBehind \union {s}
    BY <1>1, <1>3, OneRow
  <2> QED
    BY <1>1, <2>1
<1>6. LayerSpecs \subseteq Ids /\ LayerSpecs \union LeftBehind \subseteq Past
      /\ (tail.read = 0 => LayerSpecs \union LeftBehind \subseteq Order)
      /\ (row = "open" => LeftBehind \subseteq drive.inFlight \union drive.unpackaged)
  BY <1>3 DEF StackInv, Untouched
<1>7. \A r \in Past : r # s => r \in Past'
  BY <1>1, <1>2, <1>4 DEF Past
<1>8. LayerSpecs \union LeftBehind \subseteq Past'
  BY <1>3, <1>6, <1>7
<1>9. Running' /\ pc' # "idle"
  BY <1>1 DEF Running, Busy
<1>10. row = "open" => LeftBehind \subseteq drive'.inFlight \union drive'.unpackaged
  BY <1>1, <1>6
<1>11. Untouched'
  BY <1>1, <1>2, <1>5, <1>6, <1>8, <1>9, <1>10 DEF Untouched
<1>12. Chained'
  <2>1. \A i \in DOMAIN layers : layers[i].spec \in LayerSpecs
    BY DEF LayerSpecs
  <2>2. \A i \in DOMAIN layers : task'[layers[i].spec] = task[layers[i].spec]
    BY <1>1, <1>3, <1>6, <2>1
  <2>3. \A i \in DOMAIN layers :
           /\ layers[i].over = (IF i > 1 THEN layers[i - 1].spec
                               ELSE IF plan.base THEN Base ELSE -1)
           /\ task'[layers[i].spec].tree = {layers[j].spec : j \in 1 .. i - 1} \union OverBase
    BY <2>2 DEF StackInv, Chained
  <2>4. IF layers = <<>>
        THEN drive.pred = 0 /\ drive.predTask = (IF plan.base THEN Base ELSE -1)
        ELSE /\ drive.pred = layers[Len(layers)].spec
             /\ drive.predTask = layers[Len(layers)].spec
    BY <1>3 DEF StackInv, Chained
  <2>5. \A i \in DOMAIN layers' :
           /\ layers'[i].over = (IF i > 1 THEN layers'[i - 1].spec
                                ELSE IF plan'.base THEN Base ELSE -1)
           /\ task'[layers'[i].spec].tree
                = {layers'[j].spec : j \in 1 .. i - 1} \union OverBase'
    BY <1>1, <1>2, <2>3
  <2>6. IF layers' = <<>>
        THEN drive'.pred = 0 /\ drive'.predTask = (IF plan'.base THEN Base ELSE -1)
        ELSE /\ drive'.pred = layers'[Len(layers')].spec
             /\ drive'.predTask = layers'[Len(layers')].spec
    BY <1>1, <1>4, <2>4
  <2>7. Base' = Base
    BY DEF Base
  <2> QED
    BY <2>5, <2>6, <2>7 DEF Chained
<1> QED
  BY <1>5, <1>11, <1>12

LEMMA WorksReviewed ==
    ASSUME StackInv, NEW s, Works(s)
    PROVE  Sorted' /\ Reviewed1' /\ Decided'
<1>1. /\ plan' = plan /\ layers' = layers /\ (\A r \in Ids \ {s} : task'[r] = task[r])
      /\ pc \in Passing /\ pc' \in Busy
      /\ drive'.gen = drive.gen /\ drive'.followUps = drive.followUps /\ drive'.cur = s
      /\ drive'.remaining = drive.remaining /\ drive'.missed = drive.missed
      /\ s \in drive'.reviewed => /\ s \notin drive'.revising
                                  /\ task'[s].route = "run" /\ task'[s].judged = task'[s].text
      /\ s \in drive'.reviewed <=> pc' = "cell"
      /\ pc' = "review" => s \notin drive'.revising
      /\ (s \in drive.routed <=> task[s].decided) => (s \in drive'.routed <=> task'[s].decided)
  BY DEF Works, Context, Follows
<1>2. /\ drive.reviewed \subseteq drive'.reviewed /\ drive'.reviewed \subseteq drive.reviewed \union {s}
      /\ drive'.revising \subseteq drive.revising \union {s}
      /\ drive.routed \subseteq drive'.routed /\ drive'.routed \subseteq drive.routed \union {s}
  BY DEF Works, Follows
<1>3. Ids' = Ids /\ Order' = Order /\ LayerSpecs' = LayerSpecs
      /\ \A r : Before(r)' = Before(r) /\ Deps(r)' = Deps(r)
  BY <1>1, PlanStays DEF LayerSpecs
<1>4. s \in Ids
  BY NotPast DEF Works, Context
<1>5. Sorted'
  BY <1>1, <1>3 DEF StackInv, Sorted
<1>6. Reviewed1'
  BY <1>1, <1>2, <1>3, <1>4 DEF StackInv, Reviewed1, Busy
<1>7. Decided'
  <2>1. ToSet(drive.followUps) \subseteq Ids
    BY DEF StackInv, Places, Ids
  <2>2. \A f \in ToSet(drive.followUps) : f \in drive.routed <=> task[f].decided
    BY DEF StackInv, Decided
  <2>3. \A f \in ToSet(drive.followUps) : f \in drive'.routed <=> task'[f].decided
    <3> SUFFICES ASSUME NEW f \in ToSet(drive.followUps)
                 PROVE  f \in drive'.routed <=> task'[f].decided
      OBVIOUS
    <3>1. CASE f = s
      BY <3>1, <1>1, <2>2
    <3>2. CASE f # s
      BY <3>2, <1>1, <1>2, <2>1, <2>2
    <3> QED
      BY <3>1, <3>2
  <2> QED
    BY <1>1, <2>3 DEF Decided
<1> QED
  BY <1>5, <1>6, <1>7

LEMMA WorksFunded ==
    ASSUME StackInv, NEW s, Works(s)
    PROVE  Funded' /\ spend'.all <= Limit
<1>1. /\ plan' = plan /\ tail' = tail /\ spend' \in [all : Nat, writing : Nat]
      /\ pc \in Passing /\ pc' \in Busy /\ drive'.gen = drive.gen
  BY DEF Works, Context, Follows
<1>2. Limit' = Limit /\ Limit \in Int /\ MaxCell' = MaxCell /\ MaxCell \in Nat /\ Session \in Nat
  BY <1>1, PlanStays, LimitIs, MaxCellIs, Constants DEF MaxCell
<1>3. WriterLeft' \in Nat /\ Reserve \in Nat
  <2>1. WriterLeft' = Max({0, Writer - spend'.writing})
    BY DEF WriterLeft
  <2>2. Writer - spend'.writing \in Int
    BY <1>1, Constants
  <2> QED
    BY <2>1, <2>2, AtLeastNone, Constants
<1>4. PICK k : k = (IF drive.gen = 0 THEN Reserve + WriterLeft' ELSE 0)
  OBVIOUS
<1>5. k \in Nat
  <2>1. PICK w \in Nat : w = WriterLeft'
    BY <1>3
  <2>2. Reserve + w \in Nat /\ 0 \in Nat
    BY <1>3
  <2> QED
    BY <1>4, <2>1, <2>2
<1>6. Kept' = k
  <2>1. Kept' = (IF drive'.gen = 0 THEN Reserve + WriterLeft' ELSE 0)
    BY DEF Kept
  <2> QED
    BY <1>1, <1>4, <2>1
<1>7. /\ spend'.all + k + MaxCell <= Limit
      /\ pc' = "review" => spend'.all + k + Session + MaxCell <= Limit
  BY <1>4 DEF Works
<1>8. spend'.all <= Limit
  BY <1>1, <1>2, <1>5, <1>7
<1>9. (tail.deferred /\ tail.read = 0 /\ ~tail.joined)
         => spend'.all + Reserve + WriterLeft' <= Limit
  <2>1. tail.read = 0 => drive.gen = 0
    BY <1>1 DEF StackInv, ReadOnce, Shape, IsDrive, IsTail
  <2>2. spend'.all + k <= Limit
    BY <1>1, <1>2, <1>5, <1>7
  <2>3. drive.gen = 0 => spend'.all + Reserve + WriterLeft' <= Limit
    <3>1. PICK w \in Nat : w = WriterLeft'
      BY <1>3
    <3> QED
      BY <1>1, <1>3, <1>4, <2>2, <3>1
  <2> QED
    BY <2>1, <2>3
<1>10. (tail.read = 0 /\ ~tail.joined) => tail.left = Reserve
  BY DEF StackInv, Funded
<1> QED
  BY <1>1, <1>2, <1>6, <1>7, <1>8, <1>9, <1>10 DEF Funded, Busy

LEMMA WorksKeeps ==
    ASSUME StackInv, NEW s, Works(s)
    PROVE  StackInv' /\ LeftBehind' = LeftBehind /\ spend'.all <= Limit
  BY WorksShape, WorksUntouched, WorksReviewed, WorksFunded DEF StackInv
-----------------------------------------------------------------------------
LEMMA OfferPays ==
    ASSUME StackInv, pc = "offer", ~OverBudget, spend' = spend
    PROVE  /\ spend'.all + (IF drive.gen = 0 THEN Reserve + WriterLeft' ELSE 0) + MaxCell <= Limit
           /\ spend'.all + (IF drive.gen = 0 THEN Reserve + WriterLeft' ELSE 0)
                 + Session + MaxCell <= Limit
<1>1. spend \in [all : Nat, writing : Nat] /\ WriterLeft \in Nat /\ drive.gen \in {0, 1}
  BY PassingPays DEF Passing
<1>2. WriterLeft' = WriterLeft
  BY WriterWaits
<1>3. Session \in Nat /\ Reserve \in Nat /\ Budget \in Nat
      /\ SpecBudget \in Nat /\ MaxCell \in Nat /\ Limit \in Int
      /\ Limit >= Budget - SpecBudget + MaxCell + Session
  BY Constants, MaxCellIs, LimitIs
<1>4. PICK a \in Nat, w \in Nat : a = spend.all /\ w = WriterLeft
  BY <1>1
<1>5. ~(SpecBudget > Budget - HeldBack - (IF drive.gen = 1 THEN 0 ELSE w) - a)
  BY <1>4 DEF OverBudget
<1>6. CASE drive.gen = 0
  <2>1. ~(SpecBudget > Budget - Reserve - w - a)
    BY <1>5, <1>6 DEF HeldBack
  <2>2. a + (Reserve + w) + MaxCell <= Limit /\ a + (Reserve + w) + Session + MaxCell <= Limit
    BY <1>3, <2>1
  <2> QED
    BY <1>2, <1>4, <1>6, <2>2
<1>7. CASE drive.gen = 1
  <2>1. ~(SpecBudget > Budget - 0 - 0 - a)
    BY <1>5, <1>7 DEF HeldBack
  <2>2. a + 0 + MaxCell <= Limit /\ a + 0 + Session + MaxCell <= Limit
    BY <1>3, <2>1
  <2> QED
    BY <1>2, <1>4, <1>7, <2>2
<1> QED
  BY <1>1, <1>6, <1>7

LEMMA OfferWorks ==
    ASSUME StackInv, Offer
    PROVE  Works(Next1)
<1>1. /\ pc = "offer" /\ Offered # {} /\ ~OverBudget
      /\ drive' = [Started EXCEPT !.cur = Next1]
      /\ pc' = (IF Next1 \in drive.reviewed THEN "cell"
               ELSE IF Next1 \in drive.revising THEN "revise" ELSE "review")
      /\ task' = (IF task[Next1].state = "none" THEN [task EXCEPT ![Next1].state = "QUEUED"] ELSE task)
      /\ UNCHANGED <<plan, row, layers, spend, tail>>
  BY DEF Offer, Reaches, Admitted
<1>2. PICK s : s = Next1
  OBVIOUS
<1>3. /\ s \notin drive.started
      /\ s \in (IF drive.gen = 0 THEN drive.remaining ELSE ToSet(drive.followUps))
  BY <1>1, <1>2, OfferedIs
<1>4. /\ s \in Ids /\ s \notin LeftBehind
  BY <1>1, <1>3, NotPast DEF Passing, Busy
<1>5. DOMAIN task = Ids /\ IsTask(task[s]) /\ IsDrive(drive)
  BY <1>4 DEF StackInv, Shape
<1>6. PICK t : t = (IF task[s].state = "none" THEN [task[s] EXCEPT !.state = "QUEUED"] ELSE task[s])
  OBVIOUS
<1>7. /\ IsTask(t) /\ t.state \in {"QUEUED", task[s].state} /\ t.pushed = task[s].pushed
      /\ t.decided = task[s].decided /\ t.route = task[s].route
      /\ t.judged = task[s].judged /\ t.text = task[s].text
  BY <1>5, <1>6 DEF IsTask, TaskFields
<1>8. DOMAIN task' = Ids /\ task'[s] = t /\ \A r \in Ids \ {s} : task'[r] = task[r]
  <2>1. CASE task[s].state = "none"
    BY <1>1, <1>2, <1>4, <1>5, <1>6, <2>1
  <2>2. CASE task[s].state # "none"
    BY <1>1, <1>2, <1>5, <1>6, <2>2
  <2> QED
    BY <2>1, <2>2
<1>9. s \notin LeftBehind'
  <2>1. Ids' = Ids
    BY <1>1, PlanStays
  <2> QED
    BY <1>4, <1>7, <1>8, <2>1 DEF LeftBehind, InFlight
<1>10. WriterLeft' = WriterLeft
  BY <1>1, WriterWaits
<1>11. Context(s)
  <2>1. /\ spend.all + (IF drive.gen = 0 THEN Reserve + WriterLeft ELSE 0) <= Limit
        /\ spend \in [all : Nat, writing : Nat]
    BY <1>1, PassingPays DEF Passing
  <2> QED
    BY <1>1, <1>3, <1>7, <1>8, <1>10, <2>1 DEF Context, Passing, Busy
<1>12. drive' = [drive EXCEPT !.started = @ \union {s}, !.cur = s]
  BY <1>1, <1>2, <1>5 DEF Started, IsDrive, DriveFields
<1>13. IsDrive(drive') /\ drive'.missed = drive.missed /\ drive'.remaining = drive.remaining
      /\ drive'.started = drive.started \union {s} /\ drive'.cur = s
  BY <1>5, <1>12 DEF IsDrive, DriveFields
<1>14. /\ drive'.gen = drive.gen /\ drive'.pred = drive.pred /\ drive'.predTask = drive.predTask
       /\ drive'.resumed = drive.resumed /\ drive'.followUps = drive.followUps
       /\ drive'.reviewed = drive.reviewed /\ drive'.revising = drive.revising
       /\ drive'.routed = drive.routed
       /\ drive'.inFlight = drive.inFlight /\ drive'.unpackaged = drive.unpackaged
  BY <1>5, <1>12 DEF IsDrive, DriveFields
<1>15. Follows(s, drive')
  BY <1>13, <1>14 DEF Follows
<1>16. pc' = (IF s \in drive.reviewed THEN "cell"
              ELSE IF s \in drive.revising THEN "revise" ELSE "review")
  BY <1>1, <1>2
<1>17. s \in drive.reviewed => /\ s \notin drive.revising
                               /\ task[s].route = "run" /\ task[s].judged = task[s].text
  BY DEF StackInv, Reviewed1
<1>18. /\ spend'.all + (IF drive.gen = 0 THEN Reserve + WriterLeft' ELSE 0) + MaxCell <= Limit
       /\ spend'.all + (IF drive.gen = 0 THEN Reserve + WriterLeft' ELSE 0)
             + Session + MaxCell <= Limit
  BY <1>1, OfferPays
<1>19. Works(s)
  BY <1>7, <1>8, <1>9, <1>11, <1>13, <1>14, <1>15, <1>16, <1>17, <1>18 DEF Works, Busy
<1> QED
  BY <1>2, <1>19

LEMMA PassesWorks ==
    ASSUME StackInv, NEW turns, NEW moved, AsksRevision(turns, moved) \/ Passes(turns, moved, FALSE)
    PROVE  Works(Cur)
<1>1. PICK route \in {"revise", "run"} :
          /\ pc = "review"
          /\ task' = Judged(moved, route, task[Cur].state)
          /\ spend' = Charged(CostOf(ReviewSession(turns)))
          /\ UNCHANGED <<plan, row, layers, tail>>
          /\ route = "revise" => pc' = "revise" /\ drive' = Routed
          /\ route = "run" => /\ pc' = "cell"
                              /\ drive' = [Routed EXCEPT !.reviewed = @ \union {Cur}]
  BY DEF AsksRevision, Passes, Reads, Comes
<1>2. /\ Cur = drive.cur /\ Cur \in drive.started
  BY <1>1, CurIs DEF Busy
<1>3. Cur \notin drive.reviewed /\ Cur \notin drive.revising
  BY <1>1 DEF StackInv, Reviewed1, Cur
<1>4. /\ Context(Cur)
      /\ task'[Cur].route = route /\ task'[Cur].judged = task'[Cur].text
      /\ task'[Cur].decided
      /\ Cur \notin LeftBehind'
  BY <1>1, ReviewContext
<1>5. CostOf(ReviewSession(turns)) \in Nat /\ CostOf(ReviewSession(turns)) <= Session
  BY Constants DEF CostOf
<1>6. spend'.all + (IF drive.gen = 0 THEN Reserve + WriterLeft' ELSE 0) + MaxCell <= Limit
  BY <1>1, <1>5, ReviewPays
<1>7. /\ Follows(Cur, drive') /\ drive'.started = drive.started /\ drive'.cur = drive.cur
      /\ drive'.remaining = drive.remaining /\ drive'.missed = drive.missed
      /\ drive'.routed = drive.routed \union {Cur} /\ drive'.revising = drive.revising
      /\ route = "revise" => drive'.reviewed = drive.reviewed
      /\ route = "run" => drive'.reviewed = drive.reviewed \union {Cur}
  <2>1. CASE route = "revise"
    BY <1>1, <2>1, RoutedFollows
  <2>2. CASE route = "run"
    BY <1>1, <2>2, PassedFollows
  <2> QED
    BY <2>1, <2>2
<1>8. pc' = (IF route = "run" THEN "cell" ELSE "revise")
  BY <1>1
<1> QED
  BY <1>2, <1>3, <1>4, <1>6, <1>7, <1>8 DEF Works, Busy

LEMMA RevisesWorks ==
    ASSUME StackInv, NEW turns, Revises(turns)
    PROVE  Works(Cur)
<1>1. /\ pc = "revise" /\ Affordable /\ pc' = "review"
      /\ ~WriterSession(turns).error /\ ~WriterSession(turns).limited
      /\ task' = [task EXCEPT ![Cur].text = @ + 1]
      /\ spend' = ChargedWriting(CostOf(WriterSession(turns)))
      /\ drive' = [Taken EXCEPT !.rounds[Cur] = @ + 1]
      /\ UNCHANGED <<plan, row, layers, tail>>
  BY DEF Revises, Rewritten, Revising
<1>2. /\ Cur = drive.cur /\ Cur \in drive.started /\ Cur \in Ids /\ Cur \notin LeftBehind
  BY <1>1, CurIs DEF Busy
<1>3. Cur \notin drive.reviewed
  BY <1>1 DEF StackInv, Reviewed1, Cur
<1>4. CostOf(WriterSession(turns)) = Session
  BY <1>1 DEF CostOf, WriterSession
<1>5. /\ spend' \in [all : Nat, writing : Nat] /\ spend.all <= spend'.all
      /\ spend'.all + (IF drive.gen = 0 THEN Reserve + WriterLeft' ELSE 0) <= Limit
      /\ spend'.all + (IF drive.gen = 0 THEN Reserve + WriterLeft' ELSE 0)
            + Session + MaxCell <= Limit
  BY <1>1, <1>4, RevisePays
<1>6. DOMAIN task = Ids /\ IsTask(task[Cur]) /\ IsDrive(drive)
  BY <1>2 DEF StackInv, Shape
<1>7. PICK t : t = [task[Cur] EXCEPT !.text = @ + 1]
  OBVIOUS
<1>8. task' = [task EXCEPT ![Cur] = t]
  BY <1>1, <1>2, <1>6, <1>7
<1>9. IsTask(t) /\ t.state = task[Cur].state /\ t.pushed = task[Cur].pushed
      /\ t.decided = task[Cur].decided
  BY <1>6, <1>7 DEF IsTask, TaskFields
<1>10. /\ Context(Cur) /\ task'[Cur] = t
       /\ Cur \in LeftBehind' <=> \/ t.state \in InFlight
                                  \/ t.state = "READY_FOR_REVIEW" /\ ~t.pushed
  BY <1>1, <1>5, <1>8, <1>9, RowContext DEF Busy
<1>11. Cur \notin LeftBehind'
  BY <1>2, <1>9, <1>10 DEF LeftBehind
<1>12. PICK d : d = [drive EXCEPT !.revising = @ \ {Cur}]
  OBVIOUS
<1>13. /\ Follows(Cur, d) /\ d.reviewed = drive.reviewed
       /\ d.routed = drive.routed /\ d.started = drive.started
       /\ d.revising = drive.revising \ {Cur}
       /\ d.cur = drive.cur
       /\ d.remaining = drive.remaining /\ d.missed = drive.missed
  BY <1>1, <1>12, TakenFollows
<1>14. drive' = [d EXCEPT !.rounds[Cur] = @ + 1] /\ IsDrive(d)
  BY <1>1, <1>12, <1>13 DEF Taken, Follows
<1>15. IsDrive(drive') /\ drive'.missed = d.missed /\ drive'.remaining = d.remaining
       /\ drive'.started = d.started /\ drive'.cur = d.cur
  BY <1>2, <1>14 DEF IsDrive, DriveFields
<1>16. /\ drive'.gen = d.gen /\ drive'.pred = d.pred /\ drive'.predTask = d.predTask
       /\ drive'.resumed = d.resumed /\ drive'.followUps = d.followUps
       /\ drive'.reviewed = d.reviewed /\ drive'.revising = d.revising
       /\ drive'.routed = d.routed
       /\ drive'.inFlight = d.inFlight /\ drive'.unpackaged = d.unpackaged
  BY <1>14 DEF IsDrive, DriveFields
<1>17. Follows(Cur, drive')
  BY <1>13, <1>15, <1>16 DEF Follows
<1>18. spend'.all + (IF drive.gen = 0 THEN Reserve + WriterLeft' ELSE 0) + MaxCell <= Limit
  <2>1. PICK k : k = (IF drive.gen = 0 THEN Reserve + WriterLeft' ELSE 0)
    OBVIOUS
  <2>2. WriterLeft' \in Nat
    <3>1. WriterLeft' = Max({0, Writer - spend'.writing})
      BY DEF WriterLeft
    <3>2. Writer - spend'.writing \in Int
      BY <1>5, Constants
    <3> QED
      BY <3>1, <3>2, AtLeastNone
  <2>3. k \in Nat
    <3>1. PICK w \in Nat : w = WriterLeft'
      BY <2>2
    <3>2. Reserve + w \in Nat /\ 0 \in Nat
      BY Constants
    <3> QED
      BY <2>1, <3>1, <3>2
  <2>4. spend'.all + k + Session + MaxCell <= Limit
    BY <1>5, <2>1
  <2>5. spend'.all + k + MaxCell <= Limit
    BY <1>5, <2>3, <2>4, Constants, MaxCellIs, LimitIs
  <2> QED
    BY <2>1, <2>5
<1> QED
  BY <1>1, <1>2, <1>3, <1>5, <1>9, <1>10, <1>11, <1>13, <1>15, <1>16, <1>17, <1>18 DEF Works, Busy
-----------------------------------------------------------------------------
(* A cell becomes a layer.                                                 *)

(* What the predecessor's branch holds: every layer's code, and the base's. *)
LEMMA UnderAll ==
    ASSUME StackInv, Running
    PROVE  Under(drive) = LayerSpecs \union OverBase
<1>1. layers \in Seq(Layer) /\ plan \in Plans
  BY DEF StackInv, Shape
<1>2. CASE layers = <<>>
  <2>1. drive.pred = 0 /\ LayerSpecs = {}
    BY <1>2 DEF StackInv, Chained, LayerSpecs
  <2> QED
    BY <2>1 DEF Under, OverBase
<1>3. CASE layers # <<>>
  <2>1. PICK n \in Nat : n = Len(layers) /\ n # 0 /\ DOMAIN layers = 1 .. n
    BY <1>1, <1>3
  <2>2. n \in DOMAIN layers /\ 1 .. n = (1 .. n - 1) \union {n}
    BY <2>1
  <2>3. drive.pred = layers[n].spec /\ drive.pred \in LayerSpecs
    BY <1>3, <2>1, <2>2 DEF StackInv, Chained, LayerSpecs
  <2>4. drive.pred # 0
    BY <1>1, <2>3, SpecsAre DEF StackInv, Untouched
  <2>5. task[layers[n].spec].tree = {layers[j].spec : j \in 1 .. n - 1} \union OverBase
    BY <2>2 DEF StackInv, Chained
  <2>6. LayerSpecs = {layers[j].spec : j \in 1 .. n - 1} \union {layers[n].spec}
    BY <2>1, <2>2 DEF LayerSpecs
  <2>7. Under(drive) = task[drive.pred].tree \union {drive.pred}
    BY <2>4 DEF Under
  <2> QED
    BY <2>3, <2>5, <2>6, <2>7
<1> QED
  BY <1>2, <1>3

LEMMA LayerDoes ==
    ASSUME StackInv, NEW cost \in CellCosts, BecomesLayer(cost)
    PROVE  /\ pc = "cell" /\ UNCHANGED <<plan, row, tail>>
           /\ spend' = Charged(cost)
           /\ DOMAIN task' = Ids /\ IsTask(task'[Cur])
           /\ \A r \in Ids \ {Cur} : task'[r] = task[r]
           /\ task'[Cur].tree = Under(drive) /\ Cur \notin LeftBehind'
           /\ task'[Cur].route = "run" /\ task'[Cur].judged = task'[Cur].text
           /\ task'[Cur].decided = task[Cur].decided
           /\ layers' = Append(layers, [spec |-> Cur, over |-> drive.predTask, gen |-> drive.gen])
           /\ pc' = "offer"
           /\ IsDrive(drive') /\ drive'.cur = 0 /\ drive'.gen = drive.gen
           /\ drive'.pred = Cur /\ drive'.predTask = Cur
           /\ drive'.resumed = drive.resumed /\ drive'.followUps = drive.followUps
           /\ drive'.started = drive.started /\ drive'.reviewed = drive.reviewed
           /\ drive'.revising = drive.revising /\ drive'.routed = drive.routed
           /\ drive'.inFlight = drive.inFlight /\ drive'.unpackaged = drive.unpackaged
           /\ drive'.remaining \union drive'.missed \subseteq drive.remaining \union drive.missed
           /\ drive.remaining \union drive.missed
                \subseteq drive'.remaining \union drive'.missed \union {Cur}
           /\ \A r \in drive'.remaining :
                 drive'.remaining \intersect Before(r) = {} => Deps(r) \intersect drive'.missed = {}
<1>1. /\ pc = "cell" /\ spend' = Charged(cost) /\ UNCHANGED <<plan, row, tail>>
      /\ task' = CellEnded("READY_FOR_REVIEW", TRUE)
      /\ layers' = Append(layers, [spec |-> Cur, over |-> drive.predTask, gen |-> drive.gen])
      /\ Rescans([PredecessorOf(Ran(drive, Cur)) EXCEPT !.aborts = 0])
  BY DEF BecomesLayer, CellReturns
<1>2. Cur \in Ids /\ DOMAIN task = Ids /\ IsTask(task[Cur]) /\ IsDrive(drive) /\ plan \in Plans
  BY <1>1, CurIs DEF Busy, StackInv, Shape
<1>3. task[Cur].route = "run" /\ task[Cur].judged = task[Cur].text
  BY <1>1 DEF StackInv, Reviewed1, Cur
<1>4. PICK t : t = [task[Cur] EXCEPT !.state = "READY_FOR_REVIEW", !.tree = Under(drive),
                                    !.pushed = TRUE]
  OBVIOUS
<1>5. task' = [task EXCEPT ![Cur] = t]
  BY <1>1, <1>2, <1>4 DEF CellEnded
<1>6. /\ IsTask(t) /\ t.state = "READY_FOR_REVIEW" /\ t.pushed /\ t.tree = Under(drive)
      /\ t.decided = task[Cur].decided
      /\ t.route = task[Cur].route /\ t.judged = task[Cur].judged /\ t.text = task[Cur].text
  BY <1>2, <1>4 DEF IsTask, TaskFields
<1>7. DOMAIN task' = Ids /\ task'[Cur] = t /\ \A r \in Ids \ {Cur} : task'[r] = task[r]
  BY <1>2, <1>5
<1>8. Cur \notin LeftBehind'
  BY <1>6, <1>7 DEF LeftBehind, InFlight
<1>9. PICK d : d = [PredecessorOf(Ran(drive, Cur)) EXCEPT !.aborts = 0]
  OBVIOUS
<1>10. PICK e : e = Ran(drive, Cur)
  OBVIOUS
<1>11. IsDrive(e) /\ e.missed = drive.missed /\ drive.remaining \ {Cur} \subseteq e.remaining
       /\ e.remaining \subseteq drive.remaining
  BY <1>2, <1>10 DEF Ran, IsDrive, DriveFields
<1>12. /\ e.gen = drive.gen /\ e.started = drive.started
       /\ e.resumed = drive.resumed /\ e.followUps = drive.followUps
       /\ e.reviewed = drive.reviewed /\ e.revising = drive.revising /\ e.routed = drive.routed
       /\ e.inFlight = drive.inFlight /\ e.unpackaged = drive.unpackaged
  BY <1>2, <1>10 DEF Ran, IsDrive, DriveFields
<1>13. d = [e EXCEPT !.pred = Cur, !.predTask = Cur, !.aborts = 0]
  BY <1>9, <1>10, <1>11 DEF PredecessorOf, IsDrive, DriveFields
<1>14. IsDrive(d) /\ d.missed = e.missed /\ d.remaining = e.remaining
       /\ d.pred = Cur /\ d.predTask = Cur
  BY <1>11, <1>13 DEF IsDrive, DriveFields
<1>15. /\ d.gen = e.gen /\ d.started = e.started
       /\ d.resumed = e.resumed /\ d.followUps = e.followUps
       /\ d.reviewed = e.reviewed /\ d.revising = e.revising /\ d.routed = e.routed
       /\ d.inFlight = e.inFlight /\ d.unpackaged = e.unpackaged
  BY <1>11, <1>13 DEF IsDrive, DriveFields
<1>16. PICK f : f = ResolvePrefix(d)
  OBVIOUS
<1>17. /\ IsDrive(f) /\ f.gen = d.gen /\ f.started = d.started
       /\ f.resumed = d.resumed /\ f.followUps = d.followUps
       /\ f.reviewed = d.reviewed /\ f.revising = d.revising /\ f.routed = d.routed
       /\ f.inFlight = d.inFlight /\ f.unpackaged = d.unpackaged
       /\ f.pred = d.pred /\ f.predTask = d.predTask
       /\ f.remaining \subseteq d.remaining /\ f.missed \subseteq d.missed \union d.remaining
       /\ d.remaining \union d.missed \subseteq f.remaining \union f.missed
  BY <1>2, <1>14, <1>16, ResolveDoes
<1>18. \A r \in f.remaining : f.remaining \intersect Before(r) = {} => Deps(r) \intersect f.missed = {}
  <2>1. d.remaining \subseteq Order
    BY <1>11, <1>14 DEF StackInv, Places
  <2> QED
    BY <1>2, <1>14, <1>16, <2>1, ResolveLeaves
<1>19. pc' = "offer" /\ drive' = [f EXCEPT !.cur = 0]
  BY <1>1, <1>9, <1>16 DEF Rescans
<1>20. /\ IsDrive(drive') /\ drive'.cur = 0 /\ drive'.gen = f.gen
       /\ drive'.remaining = f.remaining /\ drive'.missed = f.missed
       /\ drive'.pred = f.pred /\ drive'.predTask = f.predTask
  BY <1>17, <1>19 DEF IsDrive, DriveFields
<1>21. /\ drive'.started = f.started
       /\ drive'.resumed = f.resumed /\ drive'.followUps = f.followUps
       /\ drive'.reviewed = f.reviewed /\ drive'.revising = f.revising
       /\ drive'.routed = f.routed
       /\ drive'.inFlight = f.inFlight /\ drive'.unpackaged = f.unpackaged
  BY <1>17, <1>19 DEF IsDrive, DriveFields
<1>22. /\ drive'.pred = Cur /\ drive'.predTask = Cur /\ drive'.gen = drive.gen
       /\ drive'.resumed = drive.resumed /\ drive'.followUps = drive.followUps
       /\ drive'.started = drive.started /\ drive'.reviewed = drive.reviewed
       /\ drive'.revising = drive.revising /\ drive'.routed = drive.routed
       /\ drive'.inFlight = drive.inFlight /\ drive'.unpackaged = drive.unpackaged
  BY <1>12, <1>14, <1>15, <1>17, <1>20, <1>21
<1>23. /\ drive'.remaining \union drive'.missed \subseteq drive.remaining \union drive.missed
       /\ drive.remaining \union drive.missed
            \subseteq drive'.remaining \union drive'.missed \union {Cur}
  BY <1>11, <1>14, <1>17, <1>20
<1>24. \A r \in drive'.remaining :
          drive'.remaining \intersect Before(r) = {} => Deps(r) \intersect drive'.missed = {}
  BY <1>18, <1>20
<1>25. /\ task'[Cur].tree = Under(drive) /\ IsTask(task'[Cur])
       /\ task'[Cur].route = "run" /\ task'[Cur].judged = task'[Cur].text
       /\ task'[Cur].decided = task[Cur].decided
  BY <1>3, <1>6, <1>7
<1> QED
  BY <1>1, <1>7, <1>8, <1>19, <1>20, <1>22, <1>23, <1>24, <1>25

LEMMA LayerSpecsGrow ==
    ASSUME layers \in Seq(Layer), NEW s, NEW over, NEW gen,
           layers' = Append(layers, [spec |-> s, over |-> over, gen |-> gen])
    PROVE  LayerSpecs' = LayerSpecs \union {s}
<1>1. PICK n \in Nat : n = Len(layers) /\ DOMAIN layers = 1 .. n
  OBVIOUS
<1>2. /\ DOMAIN layers' = 1 .. n + 1 /\ layers'[n + 1].spec = s
      /\ \A i \in 1 .. n : layers'[i] = layers[i]
  BY <1>1
<1>3. 1 .. n + 1 = (1 .. n) \union {n + 1}
  BY <1>1
<1>4. LayerSpecs' = {layers'[i].spec : i \in DOMAIN layers'}
  BY DEF LayerSpecs
<1>5. {layers'[i].spec : i \in 1 .. n} = {layers[i].spec : i \in 1 .. n}
  BY <1>2
<1> QED
  BY <1>1, <1>2, <1>3, <1>4, <1>5 DEF LayerSpecs

LEMMA LayerKeeps ==
    ASSUME StackInv, NEW cost \in CellCosts, BecomesLayer(cost)
    PROVE  /\ StackInv' /\ LeftBehind' = LeftBehind
           /\ spend.all <= spend'.all /\ spend'.all <= Limit
<1>1. /\ pc = "cell" /\ plan' = plan /\ row' = row /\ tail' = tail /\ spend' = Charged(cost)
      /\ DOMAIN task' = Ids /\ IsTask(task'[Cur])
      /\ \A r \in Ids \ {Cur} : task'[r] = task[r]
      /\ task'[Cur].tree = Under(drive) /\ Cur \notin LeftBehind'
      /\ task'[Cur].route = "run" /\ task'[Cur].judged = task'[Cur].text
      /\ task'[Cur].decided = task[Cur].decided
      /\ layers' = Append(layers, [spec |-> Cur, over |-> drive.predTask, gen |-> drive.gen])
      /\ pc' = "offer"
  BY LayerDoes
<1>2. /\ IsDrive(drive') /\ drive'.cur = 0 /\ drive'.gen = drive.gen
      /\ drive'.pred = Cur /\ drive'.predTask = Cur
      /\ drive'.resumed = drive.resumed /\ drive'.followUps = drive.followUps
      /\ drive'.started = drive.started /\ drive'.reviewed = drive.reviewed
      /\ drive'.revising = drive.revising /\ drive'.routed = drive.routed
      /\ drive'.inFlight = drive.inFlight /\ drive'.unpackaged = drive.unpackaged
      /\ drive'.remaining \union drive'.missed \subseteq drive.remaining \union drive.missed
      /\ drive.remaining \union drive.missed
           \subseteq drive'.remaining \union drive'.missed \union {Cur}
      /\ \A r \in drive'.remaining :
            drive'.remaining \intersect Before(r) = {} => Deps(r) \intersect drive'.missed = {}
  BY LayerDoes
<1>3. /\ Ids' = Ids /\ Order' = Order /\ OverBase' = OverBase /\ Limit' = Limit
      /\ \A r : Before(r)' = Before(r) /\ Deps(r)' = Deps(r)
  BY <1>1, PlanStays
<1>4. /\ Cur = drive.cur /\ Cur \in drive.started
      /\ Cur \in (IF drive.gen = 0 THEN drive.remaining ELSE ToSet(drive.followUps))
      /\ Cur \notin LeftBehind /\ Cur \notin LayerSpecs /\ Cur \in Ids /\ Running
  BY <1>1, CurIs DEF Busy
<1>5. /\ plan \in Plans /\ IsDrive(drive) /\ layers \in Seq(Layer) /\ drive.gen \in {0, 1}
      /\ spend \in [all : Nat, writing : Nat]
  BY DEF StackInv, Shape, IsDrive
<1>6. Cur \in Int /\ Cur # 0 /\ 0 \notin Ids /\ Ids \subseteq Int
  BY <1>4, <1>5, SpecsAre
<1>7. drive.predTask \in Int
  <2>1. LayerSpecs \subseteq Int
    BY <1>5, SpecsAre DEF StackInv, Untouched
  <2>2. CASE layers = <<>>
    <3>1. (IF plan.base THEN Base ELSE -1) \in Int
      BY DEF Base
    <3> QED
      BY <1>4, <2>2, <3>1 DEF StackInv, Chained
  <2>3. CASE layers # <<>>
    <3>1. drive.predTask = layers[Len(layers)].spec
      BY <1>4, <2>3 DEF StackInv, Chained
    <3>2. Len(layers) \in DOMAIN layers
      BY <1>5, <2>3
    <3> QED
      BY <2>1, <3>1, <3>2 DEF LayerSpecs
  <2> QED
    BY <2>2, <2>3
<1>8. layers' \in Seq(Layer)
  <2>1. [spec |-> Cur, over |-> drive.predTask, gen |-> drive.gen] \in Layer
    BY <1>5, <1>6, <1>7 DEF Layer
  <2> QED
    BY <1>1, <1>5, <2>1
<1>9. LayerSpecs' = LayerSpecs \union {Cur}
  BY <1>1, <1>5, LayerSpecsGrow
<1>10. LeftBehind' = LeftBehind
  <2>1. LeftBehind \subseteq LeftBehind' /\ LeftBehind' \subseteq LeftBehind \union {Cur}
    BY <1>1, <1>4, OneRow
  <2> QED
    BY <1>1, <2>1
<1>11. /\ spend' \in [all : Nat, writing : Nat] /\ spend.all <= spend'.all
       /\ WriterLeft' = WriterLeft
       /\ spend'.all + (IF drive.gen = 0 THEN Reserve + WriterLeft' ELSE 0) <= Limit
  BY <1>1, CellPays
<1>12. Shape'
  <2>1. IsDrive(drive)'
    BY <1>2, <1>3 DEF IsDrive
  <2> QED
    BY <1>1, <1>3, <1>4, <1>8, <1>11, <2>1 DEF StackInv, Shape, IsTask, IsTail, Passing
<1>13. Places'
  <2>1. /\ drive.remaining \union drive.missed \subseteq Order /\ drive.started \subseteq Ids
        /\ drive.gen = 0 => drive.started \union drive.reviewed \union drive.routed \subseteq Order
        /\ ToSet(drive.followUps) \subseteq {FollowUp(r) : r \in Order}
        /\ drive.resumed => drive.gen = 1
        /\ drive.resumed <=> row # "open"
        /\ row # "none"
    BY <1>1, <1>4 DEF StackInv, Places
  <2>2. {FollowUp(r) : r \in Order}' = {FollowUp(r) : r \in Order}
    BY <1>3
  <2> QED
    BY <1>1, <1>2, <1>3, <2>1, <2>2 DEF Places, Running, Passing, Busy, Ending, Closing
<1>14. ReadOnce'
  <2>1. /\ drive.gen = 0 => tail.read = 0 /\ ~tail.joined
        /\ drive.gen = 1 => tail.read > 0
    BY <1>1 DEF StackInv, ReadOnce, Passing, Busy
  <2> QED
    BY <1>1, <1>2, <2>1 DEF ReadOnce, Passing, Busy
<1>15. Untouched'
  <2>1. LayerSpecs \subseteq Ids /\ LayerSpecs \union LeftBehind \subseteq Past
        /\ (tail.read = 0 => LayerSpecs \union LeftBehind \subseteq Order)
        /\ (row = "open" => LeftBehind \subseteq drive.inFlight \union drive.unpackaged)
    BY <1>4 DEF StackInv, Untouched
  <2>2. Past' = (IF drive.gen = 0 THEN {} ELSE Order) \union (drive.started \ {0})
    BY <1>2, <1>3 DEF Past
  <2>3. Past \subseteq Past' /\ Cur \in Past'
    <3>1. 0 \notin drive.started
      BY <1>6 DEF StackInv, Places
    <3> QED
      BY <1>4, <1>6, <2>2, <3>1 DEF Past
  <2>4. tail.read = 0 => Cur \in Order
    <3>1. tail.read = 0 => drive.gen = 0
      BY <1>1, <1>5 DEF StackInv, ReadOnce, Passing, Busy
    <3> QED
      BY <1>4, <3>1 DEF StackInv, Places
  <2> QED
    BY <1>1, <1>2, <1>3, <1>4, <1>9, <1>10, <2>1, <2>3, <2>4 DEF Untouched
<1>16. Chained'
  <2>1. PICK n \in Nat : n = Len(layers) /\ DOMAIN layers = 1 .. n
    BY <1>5
  <2>2. /\ DOMAIN layers' = 1 .. n + 1 /\ Len(layers') = n + 1
        /\ layers'[n + 1] = [spec |-> Cur, over |-> drive.predTask, gen |-> drive.gen]
        /\ \A i \in 1 .. n : layers'[i] = layers[i]
    BY <1>1, <1>5, <2>1
  <2>3. \A i \in 1 .. n : task'[layers[i].spec] = task[layers[i].spec]
    <3>1. \A i \in 1 .. n : layers[i].spec \in LayerSpecs
      BY <2>1 DEF LayerSpecs
    <3> QED
      BY <1>1, <1>4, <3>1 DEF StackInv, Untouched
  <2>4. \A i \in 1 .. n : \A j \in 1 .. i - 1 : j \in 1 .. n
    BY <2>1
  <2>5. ASSUME NEW i \in 1 .. n
        PROVE  /\ layers'[i].over = (IF i > 1 THEN layers'[i - 1].spec
                                    ELSE IF plan'.base THEN Base ELSE -1)
               /\ task'[layers'[i].spec].tree = {layers'[j].spec : j \in 1 .. i - 1} \union OverBase'
    <3>1. /\ layers[i].over = (IF i > 1 THEN layers[i - 1].spec
                              ELSE IF plan.base THEN Base ELSE -1)
          /\ task[layers[i].spec].tree = {layers[j].spec : j \in 1 .. i - 1} \union OverBase
      BY <2>1 DEF StackInv, Chained
    <3>2. i > 1 => i - 1 \in 1 .. n
      BY <2>1
    <3>3. {layers'[j].spec : j \in 1 .. i - 1} = {layers[j].spec : j \in 1 .. i - 1}
      BY <2>2, <2>4
    <3>4. layers'[i].over = (IF i > 1 THEN layers'[i - 1].spec
                            ELSE IF plan'.base THEN Base ELSE -1)
      BY <1>1, <2>2, <3>1, <3>2
    <3>5. task'[layers'[i].spec].tree = {layers'[j].spec : j \in 1 .. i - 1} \union OverBase'
      BY <1>3, <2>2, <2>3, <3>1, <3>3
    <3> QED
      BY <3>4, <3>5
  <2>6. /\ layers'[n + 1].over = (IF n + 1 > 1 THEN layers'[n + 1 - 1].spec
                                 ELSE IF plan'.base THEN Base ELSE -1)
        /\ task'[layers'[n + 1].spec].tree
             = {layers'[j].spec : j \in 1 .. n + 1 - 1} \union OverBase'
    <3>1. layers'[n + 1].over = drive.predTask /\ layers'[n + 1].spec = Cur
      BY <2>2
    <3>4. layers'[n + 1].over = (IF n + 1 > 1 THEN layers'[n + 1 - 1].spec
                                ELSE IF plan'.base THEN Base ELSE -1)
      <4>1. CASE n = 0
        <5>1. layers = <<>>
          BY <1>5, <2>1, <4>1
        <5>2. drive.predTask = (IF plan.base THEN Base ELSE -1)
          BY <1>4, <5>1 DEF StackInv, Chained
        <5>3. ~(n + 1 > 1)
          BY <4>1
        <5> QED
          BY <1>1, <3>1, <5>2, <5>3
      <4>2. CASE n # 0
        <5>1. drive.predTask = layers[n].spec
          <6>1. layers # <<>>
            BY <2>1, <4>2
          <6> QED
            BY <1>4, <2>1, <6>1 DEF StackInv, Chained
        <5>2. n + 1 > 1 /\ n + 1 - 1 = n /\ n \in 1 .. n
          BY <2>1, <4>2
        <5> QED
          BY <2>2, <3>1, <5>1, <5>2
      <4> QED
        BY <4>1, <4>2
    <3>5. n + 1 - 1 = n
      BY <2>1
    <3>6. {layers'[j].spec : j \in 1 .. n} = LayerSpecs
      BY <2>1, <2>2 DEF LayerSpecs
    <3>7. task'[Cur].tree = LayerSpecs \union OverBase
      BY <1>1, <1>4, UnderAll
    <3>8. task'[layers'[n + 1].spec].tree
             = {layers'[j].spec : j \in 1 .. n + 1 - 1} \union OverBase'
      BY <1>3, <3>1, <3>5, <3>6, <3>7
    <3> QED
      BY <3>4, <3>8
  <2>7. 1 .. n + 1 = (1 .. n) \union {n + 1}
    BY <2>1
  <2>8. \A i \in DOMAIN layers' :
           /\ layers'[i].over = (IF i > 1 THEN layers'[i - 1].spec
                                ELSE IF plan'.base THEN Base ELSE -1)
           /\ task'[layers'[i].spec].tree = {layers'[j].spec : j \in 1 .. i - 1} \union OverBase'
    <3> SUFFICES ASSUME NEW i \in DOMAIN layers'
                 PROVE  /\ layers'[i].over = (IF i > 1 THEN layers'[i - 1].spec
                                             ELSE IF plan'.base THEN Base ELSE -1)
                        /\ task'[layers'[i].spec].tree
                             = {layers'[j].spec : j \in 1 .. i - 1} \union OverBase'
      OBVIOUS
    <3>1. CASE i \in 1 .. n
      BY <2>5, <3>1
    <3>2. CASE i = n + 1
      BY <2>6, <3>2
    <3> QED
      BY <2>2, <2>7, <3>1, <3>2
  <2>9. /\ layers' # <<>> /\ drive'.pred = layers'[Len(layers')].spec
        /\ drive'.predTask = layers'[Len(layers')].spec
    BY <1>2, <2>1, <2>2
  <2>10. Base' = Base
    BY DEF Base
  <2> QED
    BY <2>8, <2>9, <2>10 DEF Chained
<1>17. Sorted'
  <2>1. drive.gen = 0 => Order \subseteq drive.remaining \union drive.missed \union LayerSpecs
    BY <1>1 DEF StackInv, Sorted, Passing, Busy
  <2>2. drive.gen = 0 => Order \subseteq drive'.remaining \union drive'.missed \union LayerSpecs'
    BY <1>2, <1>9, <2>1
  <2> QED
    BY <1>2, <1>3, <2>2 DEF Sorted
<1>18. Reviewed1'
  BY <1>1, <1>2, <1>3 DEF StackInv, Reviewed1, Busy
<1>19. Decided'
  <2>1. ToSet(drive.followUps) \subseteq Ids
    BY DEF StackInv, Places, Ids
  <2>2. \A f \in ToSet(drive.followUps) : task'[f].decided = task[f].decided
    BY <1>1, <2>1
  <2> QED
    BY <1>2, <2>2 DEF StackInv, Decided
<1>20. Funded' /\ spend'.all <= Limit
  <2>1. PICK k : k = (IF drive.gen = 0 THEN Reserve + WriterLeft' ELSE 0)
    OBVIOUS
  <2>2. WriterLeft' \in Nat /\ Reserve \in Nat /\ Limit \in Int
    BY <1>11, WriterLeftIs, <1>5, Constants, LimitIs
  <2>3. k \in Nat /\ (drive.gen = 0 => k = Reserve + WriterLeft')
    <3>1. PICK w \in Nat : w = WriterLeft'
      BY <2>2
    <3>2. Reserve + w \in Nat /\ 0 \in Nat
      BY <2>2
    <3> QED
      BY <2>1, <3>1, <3>2
  <2>4. Kept' = k
    <3>1. Kept' = (IF drive'.gen = 0 THEN Reserve + WriterLeft' ELSE 0)
      BY DEF Kept
    <3> QED
      BY <1>2, <2>1, <3>1
  <2>5. spend'.all + k <= Limit
    BY <1>11, <2>1
  <2>6. spend'.all <= Limit
    BY <1>11, <2>2, <2>3, <2>5
  <2>7. (tail.deferred /\ tail.read = 0 /\ ~tail.joined)
           => spend'.all + Reserve + WriterLeft' <= Limit
    <3>1. tail.read = 0 => drive.gen = 0
      BY <1>1, <1>5 DEF StackInv, ReadOnce, Passing, Busy
    <3>2. drive.gen = 0 => spend'.all + Reserve + WriterLeft' <= Limit
      <4>1. PICK w \in Nat : w = WriterLeft'
        BY <2>2
      <4> QED
        BY <1>11, <2>2, <2>3, <2>5, <4>1
    <3> QED
      BY <3>1, <3>2
  <2>8. (tail.read = 0 /\ ~tail.joined) => tail.left = Reserve
    BY DEF StackInv, Funded
  <2> QED
    BY <1>1, <1>3, <2>4, <2>5, <2>6, <2>7, <2>8 DEF Funded
<1> QED
  BY <1>10, <1>11, <1>12, <1>13, <1>14, <1>15, <1>16, <1>17, <1>18, <1>19, <1>20 DEF StackInv
-----------------------------------------------------------------------------
(* The tail: steps that change the money and what the tail left behind.    *)

LEMMA TailFits ==
    ASSUME StackInv, pc \in Ending \union {"finish"},
           UNCHANGED <<plan, row, drive, task, layers>>,
           pc' \in (Ending \ {"ended"}) \union Closing, pc' \in Ending => pc \in Ending,
           IsTail(tail'), tail'.read = 0 => tail.read = 0,
           spend' \in [all : Nat, writing : Nat], ReadOnce', Funded'
    PROVE  StackInv' /\ LeftBehind' = LeftBehind /\ spend'.all <= Limit
<1>1. /\ Ids' = Ids /\ Order' = Order /\ OverBase' = OverBase /\ Limit' = Limit
      /\ \A r : Before(r)' = Before(r) /\ Deps(r)' = Deps(r)
  BY PlanStays
<1>2. LayerSpecs' = LayerSpecs /\ LeftBehind' = LeftBehind
  BY <1>1 DEF LayerSpecs, LeftBehind
<1>3. Running /\ pc \notin Passing /\ pc \notin Busy /\ pc' \notin Passing /\ pc' \notin Busy /\ pc # "idle"
  BY DEF Running, Passing, Busy, Ending, Closing
<1>4. Running' /\ pc' # "idle" /\ pc' # "over"
  BY DEF Running, Passing, Busy, Ending, Closing
<1>5. Shape'
  <2>1. IsDrive(drive)' /\ IsTail(tail)'
    <3>1. IsDrive(drive)'
      BY <1>1 DEF StackInv, Shape, IsDrive
    <3>2. IsTail(tail)'
      BY DEF IsTail, TailFields
    <3> QED
      BY <3>1, <3>2
  <2>2. (DOMAIN task = Ids)' /\ \A s \in Ids' : IsTask(task'[s])
    BY <1>1 DEF StackInv, Shape
  <2>3. \A s \in Ids' : IsTask(task[s])'
    BY <2>2 DEF IsTask
  <2>4. (layers \in Seq(Layer))' /\ (row \in {"none", "open"} \union Closed)' /\ (plan \in Plans)'
    BY DEF StackInv, Shape
  <2> QED
    BY <2>1, <2>2, <2>3, <2>4 DEF Shape, Ending, Closing
<1>6. Places'
  <2>1. {FollowUp(r) : r \in Order}' = {FollowUp(r) : r \in Order}
    BY <1>1
  <2>2. /\ row # "none" /\ drive.cur = 0
        /\ drive.resumed <=> row # "open"
        /\ drive.resumed => drive.gen = 1
        /\ drive.gen = 0 => drive.started \union drive.reviewed \union drive.routed \subseteq Order
        /\ (pc \in Ending /\ drive.gen = 1) => /\ drive.resumed /\ drive.started = {}
                                               /\ drive.reviewed = {} /\ drive.routed = {}
        /\ ~drive.resumed => drive.reason \in Reasons
        /\ drive.remaining \union drive.missed \subseteq Order
        /\ drive.started \subseteq Ids
        /\ ToSet(drive.followUps) \subseteq {FollowUp(s) : s \in Order}
    <3>1. pc \in Ending \union Closing
      BY DEF Closing
    <3>2. row # "none" /\ drive.cur = 0 /\ (drive.resumed <=> row # "open")
      <4>1. row # "none"
        BY <1>3 DEF StackInv, Places
      <4>2. drive.cur = 0
        BY <1>3 DEF StackInv, Places
      <4>3. drive.resumed <=> row # "open"
        BY <1>3 DEF StackInv, Places
      <4> QED
        BY <4>1, <4>2, <4>3
    <3>3. /\ (pc \in Ending /\ drive.gen = 1) => /\ drive.resumed /\ drive.started = {}
                                                 /\ drive.reviewed = {} /\ drive.routed = {}
          /\ ~drive.resumed => drive.reason \in Reasons
      BY <3>1 DEF StackInv, Places
    <3>4. /\ drive.resumed => drive.gen = 1
          /\ drive.gen = 0 => drive.started \union drive.reviewed \union drive.routed \subseteq Order
          /\ drive.remaining \union drive.missed \subseteq Order
          /\ drive.started \subseteq Ids
          /\ ToSet(drive.followUps) \subseteq {FollowUp(s) : s \in Order}
      BY DEF StackInv, Places
    <3> QED
      BY <3>2, <3>3, <3>4
  <2> QED
    BY <1>1, <1>3, <1>4, <2>1, <2>2 DEF Places
<1>7. Untouched'
  <2>1. Past' = Past
    BY <1>1 DEF Past
  <2>2. /\ LayerSpecs \subseteq Ids /\ LayerSpecs \union LeftBehind \subseteq Past
        /\ (tail.read = 0 => LayerSpecs \union LeftBehind \subseteq Order)
        /\ (row = "open" => LeftBehind \subseteq drive.inFlight \union drive.unpackaged)
    BY <1>3 DEF StackInv, Untouched
  <2> QED
    BY <1>1, <1>2, <1>4, <2>1, <2>2 DEF Untouched
<1>8. Chained'
  <2>1. Base' = Base
    BY DEF Base
  <2> QED
    BY <1>1, <1>3, <1>4, <2>1 DEF StackInv, Chained
<1>9. Sorted'
  BY <1>3 DEF Sorted
<1>10. Reviewed1'
  BY <1>1, <1>3 DEF StackInv, Reviewed1, Busy
<1>11. Decided'
  BY DEF StackInv, Decided
<1>12. spend'.all <= Limit
  BY <1>1 DEF Funded
<1> QED
  BY <1>2, <1>5, <1>6, <1>7, <1>8, <1>9, <1>10, <1>11, <1>12 DEF StackInv

(* What the tail has to spend.                                             *)
LEMMA EndingPays ==
    ASSUME StackInv
    PROVE  /\ plan \in Plans /\ IsTail(tail) /\ spend \in [all : Nat, writing : Nat]
           /\ tail.read \in Nat /\ tail.left \in Int
           /\ spend.all \in Nat /\ WriterLeft \in Nat /\ Limit \in Int /\ Reserve \in Nat
           /\ Lens \in Nat /\ Len(layers) \in Nat /\ (layers # <<>> => Len(layers) > 0)
<1>1. plan \in Plans /\ IsTail(tail) /\ spend \in [all : Nat, writing : Nat]
      /\ layers \in Seq(Layer)
  BY DEF StackInv, Shape
<1>2. Len(layers) \in Nat /\ (layers # <<>> => Len(layers) > 0)
  BY <1>1
<1>3. WriterLeft \in Nat
  BY <1>1, WriterLeftIs
<1> QED
  BY <1>1, <1>2, <1>3, Constants, LimitIs DEF IsTail

LEMMA DefersKeeps ==
    ASSUME StackInv, NEW written \in BOOLEAN, Defers(written)
    PROVE  StackInv' /\ LeftBehind' = LeftBehind /\ spend'.all <= Limit
<1>1. /\ pc = "ended" /\ pc' = "close" /\ tail' = [tail EXCEPT !.deferred = written]
      /\ UNCHANGED <<plan, row, drive, task, layers, spend>>
  BY DEF Defers
<1>2. /\ IsTail(tail) /\ spend \in [all : Nat, writing : Nat]
      /\ spend.all \in Nat /\ Limit \in Int /\ Limit' = Limit /\ WriterLeft' = WriterLeft
  BY <1>1, EndingPays, PlanStays DEF WriterLeft
<1>3. IsTail(tail') /\ tail'.read = tail.read /\ tail'.left = tail.left
      /\ tail'.joined = tail.joined
  BY <1>1, <1>2 DEF IsTail, TailFields
<1>4. ReadOnce'
  BY <1>1 DEF ReadOnce, Passing, Busy
<1>5. Funded'
  <2>1. spend.all <= Limit /\ spend.all + Reserve + WriterLeft <= Limit
        /\ ((tail.read = 0 /\ ~tail.joined) => tail.left = Reserve)
    BY <1>1 DEF StackInv, Funded
  <2> QED
    BY <1>1, <1>2, <1>3, <2>1 DEF Funded
<1> QED
  BY <1>1, <1>2, <1>3, <1>4, <1>5, TailFits DEF Ending, Closing

LEMMA StartsKeeps ==
    ASSUME StackInv, StartsEndReview
    PROVE  StackInv' /\ LeftBehind' = LeftBehind /\ spend'.all <= Limit
<1>1. pc = "ended" /\ pc' = "join" /\ UNCHANGED <<plan, row, drive, task, layers, spend, tail>>
  BY DEF StartsEndReview
<1>2. /\ IsTail(tail) /\ spend \in [all : Nat, writing : Nat]
      /\ Limit' = Limit /\ WriterLeft' = WriterLeft
  BY <1>1, EndingPays, PlanStays DEF WriterLeft
<1>3. ReadOnce'
  BY <1>1 DEF StackInv, ReadOnce, Passing, Busy
<1>4. Funded'
  BY <1>1, <1>2 DEF StackInv, Funded
<1> QED
  BY <1>1, <1>2, <1>3, <1>4, TailFits DEF Ending, Closing

LEMMA JoinKeeps ==
    ASSUME StackInv, NEW cost \in {0, Lens}, JoinReads(cost)
    PROVE  /\ StackInv' /\ LeftBehind' = LeftBehind /\ spend'.all <= Limit
           /\ spend.all <= spend'.all
<1>1. /\ pc = "join" /\ spend' = Charged(cost)
      /\ cost > 0 => Len(layers) > 1 /\ Reserve >= Lens
      /\ tail' = [tail EXCEPT !.joined = Len(layers) > 1, !.left = @ - cost]
      /\ pc' = (IF layers = <<>> THEN "finish" ELSE "lenses")
      /\ UNCHANGED <<plan, row, drive, task, layers>>
  BY DEF JoinReads
<1>2. /\ IsTail(tail) /\ spend \in [all : Nat, writing : Nat] /\ tail.left \in Int
      /\ spend.all \in Nat /\ WriterLeft \in Nat /\ Limit \in Int /\ Reserve \in Nat
      /\ Lens \in Nat /\ Limit' = Limit
  BY <1>1, EndingPays, PlanStays
<1>3. /\ spend' \in [all : Nat, writing : Nat] /\ spend'.all = spend.all + cost
      /\ spend'.writing = spend.writing
  BY <1>1, <1>2 DEF Charged
<1>4. WriterLeft' = WriterLeft
  BY <1>3, WriterWaits
<1>5. /\ spend.all + Reserve + WriterLeft <= Limit /\ tail.left = Reserve /\ tail.read = 0
  BY <1>1 DEF StackInv, Funded, ReadOnce
<1>6. IsTail(tail') /\ tail'.read = tail.read /\ tail'.left = tail.left - cost
      /\ tail'.joined = (Len(layers) > 1)
  <2>1. tail.left - cost \in Int /\ (Len(layers) > 1) \in BOOLEAN
    BY <1>2
  <2> QED
    BY <1>1, <1>2, <2>1 DEF IsTail, TailFields
<1>7. ReadOnce'
  BY <1>1 DEF ReadOnce, Passing, Busy
<1>8. PICK w \in Nat : w = WriterLeft
  BY <1>2
<1>9. /\ spend'.all <= Limit /\ spend.all <= spend'.all
      /\ spend'.all + tail'.left + w <= Limit /\ tail'.left >= 0
      /\ ~tail'.joined => cost = 0
      /\ cost = 0 => tail'.left = Reserve /\ spend'.all + Reserve + w <= Limit
  <2>1. cost = 0 \/ cost = Lens
    OBVIOUS
  <2>2. CASE cost = 0
    BY <1>2, <1>3, <1>5, <1>6, <1>8, <2>2
  <2>3. CASE cost > 0
    <3>1. Len(layers) > 1 /\ Reserve >= Lens
      BY <1>1, <2>3
    <3>2. tail'.joined
      BY <1>6, <3>1
    <3>3. cost # 0
      BY <2>3
    <3> QED
      BY <1>2, <1>3, <1>5, <1>6, <1>8, <2>1, <2>3, <3>1, <3>2, <3>3
  <2> QED
    BY <1>2, <2>1, <2>2, <2>3
<1>10. Funded'
  <2>1. pc' \in {"finish", "lenses"}
    BY <1>1
  <2> QED
    BY <1>2, <1>4, <1>8, <1>9, <2>1 DEF Funded
<1>11. pc' \in {"finish", "lenses"} /\ UNCHANGED <<plan, row, drive, task, layers>>
  BY <1>1
<1> QED
  BY <1>1, <1>3, <1>6, <1>7, <1>9, <1>10, <1>11, TailFits DEF Ending, Closing

LEMMA LayerReadsKeeps ==
    ASSUME StackInv, NEW cost \in {0, 2 * Lens}, LayerReads(cost)
    PROVE  /\ StackInv' /\ LeftBehind' = LeftBehind /\ spend'.all <= Limit
           /\ spend.all <= spend'.all
<1>1. /\ pc = "lenses" /\ spend' = Charged(cost) /\ cost \in LayerCost
      /\ tail' = [tail EXCEPT !.read = @ + 1, !.left = @ - cost]
      /\ pc' = (IF tail.read + 1 = Len(layers) THEN "qualify" ELSE "lenses")
      /\ UNCHANGED <<plan, row, drive, task, layers>>
  BY DEF LayerReads
<1>2. /\ IsTail(tail) /\ spend \in [all : Nat, writing : Nat] /\ tail.left \in Int
      /\ tail.read \in Nat
      /\ spend.all \in Nat /\ WriterLeft \in Nat /\ Limit \in Int
      /\ Lens \in Nat /\ Limit' = Limit
  BY <1>1, EndingPays, PlanStays
<1>3. spend.all + tail.left + WriterLeft <= Limit /\ tail.left >= 0
  BY <1>1 DEF StackInv, Funded
<1>4. cost \in Nat /\ cost <= tail.left
  <2>1. CASE tail.left >= 2 * Lens
    BY <1>2, <2>1
  <2>2. CASE ~(tail.left >= 2 * Lens)
    BY <1>1, <1>2, <1>3, <2>2 DEF LayerCost
  <2> QED
    BY <2>1, <2>2
<1>5. /\ spend' \in [all : Nat, writing : Nat] /\ spend'.all = spend.all + cost
      /\ spend'.writing = spend.writing
  BY <1>1, <1>2, <1>4 DEF Charged
<1>6. WriterLeft' = WriterLeft
  BY <1>5, WriterWaits
<1>7. IsTail(tail') /\ tail'.read = tail.read + 1 /\ tail'.left = tail.left - cost
  <2>1. tail.left - cost \in Int /\ tail.read + 1 \in Nat
    BY <1>2, <1>4
  <2> QED
    BY <1>1, <1>2, <2>1 DEF IsTail, TailFields
<1>8. tail'.read # 0 /\ tail'.read > 0
  BY <1>2, <1>7
<1>9. pc' \in {"qualify", "lenses"}
  BY <1>1
<1>10. ReadOnce'
  BY <1>8, <1>9 DEF ReadOnce, Passing, Busy
<1>11. PICK w \in Nat : w = WriterLeft
  BY <1>2
<1>12. /\ spend'.all <= Limit /\ spend.all <= spend'.all
       /\ spend'.all + tail'.left + w <= Limit /\ tail'.left >= 0 /\ spend'.all + w <= Limit
  BY <1>2, <1>3, <1>4, <1>5, <1>7, <1>11
<1>13. Funded'
  BY <1>2, <1>6, <1>8, <1>9, <1>11, <1>12 DEF Funded
<1>14. UNCHANGED <<plan, row, drive, task, layers>>
  BY <1>1
<1> QED
  BY <1>1, <1>5, <1>7, <1>8, <1>9, <1>10, <1>12, <1>13, <1>14, TailFits DEF Ending, Closing

LEMMA EndRaisesKeeps ==
    ASSUME StackInv, EndReviewRaises
    PROVE  StackInv' /\ LeftBehind' = LeftBehind /\ spend'.all <= Limit
<1>1. /\ pc \in {"join", "lenses"} /\ layers # <<>> /\ pc' = "qualify"
      /\ tail' = [tail EXCEPT !.read = Len(layers)]
      /\ UNCHANGED <<plan, row, drive, task, layers, spend>>
  BY DEF EndReviewRaises
<1>2. /\ IsTail(tail) /\ spend \in [all : Nat, writing : Nat] /\ tail.left \in Int
      /\ spend.all \in Nat /\ WriterLeft \in Nat /\ Limit \in Int /\ Reserve \in Nat
      /\ Limit' = Limit /\ Len(layers) \in Nat /\ Len(layers) > 0 /\ WriterLeft' = WriterLeft
  BY <1>1, EndingPays, PlanStays DEF WriterLeft
<1>3. IsTail(tail') /\ tail'.read = Len(layers) /\ tail'.read # 0
  BY <1>1, <1>2 DEF IsTail, TailFields
<1>4. ReadOnce'
  BY <1>1, <1>2, <1>3 DEF ReadOnce, Passing, Busy
<1>5. Funded'
  <2>1. spend.all + WriterLeft <= Limit /\ spend.all <= Limit
    <3>1. PICK w \in Nat : w = WriterLeft
      BY <1>2
    <3>2. CASE pc = "join"
      <4>1. spend.all + Reserve + w <= Limit
        BY <3>1, <3>2 DEF StackInv, Funded
      <4> QED
        BY <1>2, <3>1, <4>1
    <3>3. CASE pc = "lenses"
      <4>1. spend.all + tail.left + w <= Limit /\ tail.left >= 0
        BY <3>1, <3>3 DEF StackInv, Funded
      <4> QED
        BY <1>2, <3>1, <4>1
    <3> QED
      BY <1>1, <3>2, <3>3
  <2> QED
    BY <1>1, <1>2, <1>3, <2>1 DEF Funded
<1> QED
  BY <1>1, <1>2, <1>3, <1>4, <1>5, TailFits DEF Ending, Closing

LEMMA QualifiesKeeps ==
    ASSUME StackInv, NEW found, NEW raises \in BOOLEAN, Qualifies(found, raises)
    PROVE  StackInv' /\ LeftBehind' = LeftBehind /\ spend'.all <= Limit
<1>1. /\ pc = "qualify" /\ found \subseteq LayerSpecs
      /\ tail' = [tail EXCEPT !.qualified = found, !.kept = ~raises,
                              !.groups = IF raises THEN {} ELSE found]
      /\ pc' = (IF raises THEN "finish" ELSE "write")
      /\ UNCHANGED <<plan, row, drive, task, layers, spend>>
  BY DEF Qualifies
<1>2. /\ IsTail(tail) /\ spend \in [all : Nat, writing : Nat] /\ tail.read \in Nat
      /\ Limit' = Limit /\ WriterLeft' = WriterLeft /\ LayerSpecs' = LayerSpecs
  BY <1>1, EndingPays, PlanStays DEF WriterLeft, LayerSpecs
<1>3. tail.read > 0 /\ tail.read # 0
  BY <1>1, <1>2 DEF StackInv, ReadOnce
<1>4. IsTail(tail') /\ tail'.read = tail.read /\ tail'.groups \subseteq LayerSpecs
  BY <1>1, <1>2 DEF IsTail, TailFields
<1>5. pc' \in {"finish", "write"}
  BY <1>1
<1>6. ReadOnce'
  BY <1>2, <1>3, <1>4, <1>5 DEF ReadOnce, Passing, Busy
<1>7. Funded'
  BY <1>1, <1>2, <1>3, <1>4, <1>5 DEF StackInv, Funded
<1>8. UNCHANGED <<plan, row, drive, task, layers, spend>>
  BY <1>1
<1> QED
  BY <1>1, <1>2, <1>3, <1>4, <1>5, <1>6, <1>7, <1>8, TailFits DEF Ending, Closing

LEMMA FinishKeeps ==
    ASSUME StackInv, FinishesNothing \/ Finishes
    PROVE  StackInv' /\ LeftBehind' = LeftBehind /\ spend'.all <= Limit
<1>1. /\ pc = "finish" /\ pc' = "close"
      /\ tail' = tail \/ tail' = [tail EXCEPT !.finished = TRUE, !.handedOn = Unrun]
      /\ UNCHANGED <<plan, row, drive, task, layers, spend>>
  BY DEF FinishesNothing, Finishes
<1>2. /\ IsTail(tail) /\ spend \in [all : Nat, writing : Nat]
      /\ Limit' = Limit /\ WriterLeft' = WriterLeft
  BY <1>1, EndingPays, PlanStays DEF WriterLeft
<1>3. IsTail(tail') /\ tail'.read = tail.read /\ tail'.left = tail.left
      /\ tail'.joined = tail.joined /\ tail'.deferred = tail.deferred
  BY <1>1, <1>2 DEF IsTail, TailFields
<1>4. ReadOnce'
  BY <1>1 DEF ReadOnce, Passing, Busy
<1>5. Funded'
  BY <1>1, <1>2, <1>3 DEF StackInv, Funded
<1> QED
  BY <1>1, <1>2, <1>3, <1>4, <1>5, TailFits DEF Ending, Closing
-----------------------------------------------------------------------------
(* A pass over the order ends, and the follow-ups are written.             *)

LEMMA EndsFit ==
    ASSUME StackInv, Running, Running', pc' \notin Busy,
           pc' \in {"offer"} \union Ending \union Closing,
           UNCHANGED <<plan, row, layers>>,
           IsDrive(drive'), drive'.pred = drive.pred, drive'.predTask = drive.predTask,
           drive'.reviewed = drive.reviewed, drive'.revising = drive.revising,
           drive'.inFlight = drive.inFlight, drive'.unpackaged = drive.unpackaged,
           DOMAIN task' = Ids, \A s \in Ids : IsTask(task'[s]),
           \A s \in LayerSpecs \union drive.reviewed : task'[s] = task[s],
           LeftBehind' = LeftBehind, LayerSpecs \union LeftBehind \subseteq Past',
           IsTail(tail'), tail'.read = 0 => tail.read = 0,
           spend' \in [all : Nat, writing : Nat],
           Places', ReadOnce', Sorted', Decided', Funded'
    PROVE  StackInv' /\ spend'.all <= Limit
<1>1. Ids' = Ids /\ Order' = Order /\ OverBase' = OverBase /\ Limit' = Limit
  BY PlanStays
<1>2. LayerSpecs' = LayerSpecs
  BY DEF LayerSpecs
<1>3. pc # "idle" /\ pc' # "idle" /\ pc' # "over" /\ pc' \in {"idle", "over"} \union Passing
                                                         \union Ending \union Closing
  BY DEF Running, Passing, Ending, Closing
<1>4. Shape'
  <2>1. IsDrive(drive)'
    BY <1>1 DEF IsDrive
  <2>2. IsTail(tail)'
    BY DEF IsTail, TailFields
  <2>3. \A s \in Ids' : IsTask(task[s])'
    BY <1>1 DEF IsTask
  <2>4. (DOMAIN task = Ids)'
    BY <1>1
  <2>5. (layers \in Seq(Layer))' /\ (row \in {"none", "open"} \union Closed)'
        /\ (plan \in Plans)'
    BY DEF StackInv, Shape
  <2> QED
    BY <1>3, <2>1, <2>2, <2>3, <2>4, <2>5 DEF Shape, Passing, Ending, Closing
<1>5. Untouched'
  <2>1. /\ LayerSpecs \subseteq Ids
        /\ (tail.read = 0 => LayerSpecs \union LeftBehind \subseteq Order)
        /\ (row = "open" => LeftBehind \subseteq drive.inFlight \union drive.unpackaged)
    BY DEF StackInv, Untouched
  <2> QED
    BY <1>1, <1>2, <1>3, <2>1 DEF Untouched
<1>6. Chained'
  <2>1. Base' = Base
    BY DEF Base
  <2>2. \A i \in DOMAIN layers : task'[layers[i].spec] = task[layers[i].spec]
    <3>1. \A i \in DOMAIN layers : layers[i].spec \in LayerSpecs
      BY DEF LayerSpecs
    <3> QED
      BY <3>1
  <2>3. \A i \in DOMAIN layers :
           /\ layers[i].over = (IF i > 1 THEN layers[i - 1].spec
                               ELSE IF plan.base THEN Base ELSE -1)
           /\ task'[layers[i].spec].tree = {layers[j].spec : j \in 1 .. i - 1} \union OverBase
    BY <2>2 DEF StackInv, Chained
  <2>4. IF layers = <<>>
        THEN drive.pred = 0 /\ drive.predTask = (IF plan.base THEN Base ELSE -1)
        ELSE /\ drive.pred = layers[Len(layers)].spec
             /\ drive.predTask = layers[Len(layers)].spec
    BY DEF StackInv, Chained
  <2>5. \A i \in DOMAIN layers' :
           /\ layers'[i].over = (IF i > 1 THEN layers'[i - 1].spec
                                ELSE IF plan'.base THEN Base ELSE -1)
           /\ task'[layers'[i].spec].tree
                = {layers'[j].spec : j \in 1 .. i - 1} \union OverBase'
    BY <1>1, <2>3
  <2>6. IF layers' = <<>>
        THEN drive'.pred = 0 /\ drive'.predTask = (IF plan'.base THEN Base ELSE -1)
        ELSE /\ drive'.pred = layers'[Len(layers')].spec
             /\ drive'.predTask = layers'[Len(layers')].spec
    BY <2>4
  <2> QED
    BY <2>1, <2>5, <2>6 DEF Chained
<1>7. Reviewed1'
  BY <1>1 DEF StackInv, Reviewed1, Busy
<1>8. spend'.all <= Limit
  BY <1>1 DEF Funded
<1> QED
  BY <1>4, <1>5, <1>6, <1>7, <1>8 DEF StackInv

(* What the end of a pass makes of what the process keeps.                 *)
LEMMA EndsKeeps ==
    ASSUME StackInv, NEW reason \in Reasons, Ends(reason)
    PROVE  StackInv' /\ LeftBehind' = LeftBehind /\ spend'.all <= Limit
<1>1. /\ pc = "offer" /\ drive' = [drive EXCEPT !.reason = reason, !.cur = 0]
      /\ pc' = (IF drive.gen = 1 THEN "finish" ELSE "ended")
      /\ UNCHANGED <<plan, row, task, layers, spend, tail>>
  BY DEF Ends, PassEnds
<1>2. /\ plan \in Plans /\ IsDrive(drive) /\ drive.gen \in {0, 1} /\ IsTail(tail)
      /\ DOMAIN task = Ids /\ (\A s \in Ids : IsTask(task[s]))
      /\ spend \in [all : Nat, writing : Nat]
  BY DEF StackInv, Shape, IsDrive
<1>3. /\ Ids' = Ids /\ Order' = Order /\ Limit' = Limit /\ WriterLeft' = WriterLeft
      /\ LeftBehind' = LeftBehind
  BY <1>1, PlanStays DEF WriterLeft, LeftBehind
<1>4. /\ IsDrive(drive') /\ drive'.cur = 0 /\ drive'.reason = reason
      /\ drive'.gen = drive.gen /\ drive'.resumed = drive.resumed
      /\ drive'.started = drive.started /\ drive'.routed = drive.routed
      /\ drive'.remaining = drive.remaining /\ drive'.missed = drive.missed
      /\ drive'.followUps = drive.followUps
  BY <1>1, <1>2 DEF IsDrive, DriveFields
<1>5. /\ drive'.pred = drive.pred /\ drive'.predTask = drive.predTask
      /\ drive'.reviewed = drive.reviewed /\ drive'.revising = drive.revising
      /\ drive'.inFlight = drive.inFlight /\ drive'.unpackaged = drive.unpackaged
  BY <1>1, <1>2 DEF IsDrive, DriveFields
<1>6. /\ pc' \in {"finish", "ended"} /\ (pc' = "ended" => drive.gen = 0)
      /\ pc' \notin Busy /\ pc' \notin Passing /\ Running /\ Running'
  BY <1>1, <1>2 DEF Busy, Passing, Running
<1>7. drive.cur = 0
  BY <1>1 DEF StackInv, Places, Busy
<1>8. Places'
  <2>1. {FollowUp(r) : r \in Order}' = {FollowUp(r) : r \in Order}
    BY <1>3
  <2>2. row # "none" /\ (drive.resumed <=> row # "open")
    <3>1. row # "none"
      BY <1>1 DEF StackInv, Places
    <3>2. drive.resumed <=> row # "open"
      BY <1>6 DEF StackInv, Places
    <3> QED
      BY <3>1, <3>2
  <2>3. /\ drive.resumed => drive.gen = 1
        /\ drive.gen = 0 => drive.started \union drive.reviewed \union drive.routed \subseteq Order
        /\ drive.remaining \union drive.missed \subseteq Order
        /\ drive.started \subseteq Ids
        /\ ToSet(drive.followUps) \subseteq {FollowUp(s) : s \in Order}
    BY DEF StackInv, Places
  <2>4. (pc' \in Ending /\ drive'.gen = 1) => FALSE
    BY <1>4, <1>6 DEF Ending
  <2>5. pc' # "idle" /\ row' # "none"
    BY <1>1, <1>6, <2>2
  <2> QED
    BY <1>1, <1>3, <1>4, <1>5, <1>6, <2>1, <2>2, <2>3, <2>4, <2>5 DEF Places
<1>9. ReadOnce'
  <2>1. drive.gen = 0 => tail.read = 0 /\ ~tail.joined
    BY <1>1 DEF StackInv, ReadOnce, Passing
  <2> QED
    BY <1>1, <1>6, <2>1 DEF ReadOnce
<1>10. Sorted' /\ Decided'
  BY <1>1, <1>4, <1>6 DEF StackInv, Sorted, Decided
<1>11. Funded'
  <2>1. spend.all <= Limit /\ spend.all + Kept <= Limit
    BY <1>1 DEF StackInv, Funded
  <2>2. drive.gen = 0 => spend.all + Reserve + WriterLeft <= Limit
    <3>1. drive.gen = 0 => Kept = Reserve + WriterLeft
      BY DEF Kept
    <3>2. PICK w \in Nat : w = WriterLeft
      BY EndingPays
    <3>3. Limit \in Int /\ Reserve \in Nat /\ spend.all \in Nat
      BY EndingPays
    <3> QED
      BY <2>1, <3>1, <3>2, <3>3
  <2> QED
    BY <1>1, <1>3, <1>6, <2>1, <2>2 DEF StackInv, Funded
<1>12. LayerSpecs \union LeftBehind \subseteq Past'
  <2>1. Past' = Past
    BY <1>3, <1>4, <1>7 DEF Past
  <2> QED
    BY <1>6, <2>1 DEF StackInv, Untouched
<1>13. pc' \in {"offer"} \union Ending \union Closing
  BY <1>6 DEF Ending, Closing
<1>14. /\ UNCHANGED <<plan, row, layers>> /\ tail' = tail /\ task' = task /\ spend' = spend
       /\ DOMAIN task' = Ids /\ (\A s \in Ids : IsTask(task'[s])) /\ IsTail(tail')
       /\ spend' \in [all : Nat, writing : Nat]
  BY <1>1, <1>2
<1> QED
  BY <1>3, <1>4, <1>5, <1>6, <1>8, <1>9, <1>10, <1>11, <1>12, <1>13, <1>14, EndsFit

LEMMA WritePays ==
    ASSUME StackInv, pc = "write", NEW cost \in Sessions(2), spend' = ChargedWriting(cost)
    PROVE  /\ spend' \in [all : Nat, writing : Nat] /\ spend.all <= spend'.all
           /\ WriterLeft' \in Nat /\ spend'.all + WriterLeft' <= Limit
<1>1. /\ spend \in [all : Nat, writing : Nat] /\ spend.all \in Nat /\ WriterLeft \in Nat
      /\ Limit \in Int /\ Session \in Nat /\ spend.writing \in Nat
  BY EndingPays, Constants
<1>2. cost \in Nat /\ cost <= WriterLeft
  <2>1. PICK k \in 0 .. 2 : k * Session <= WriterLeft /\ cost = k * Session
    BY DEF Sessions
  <2>2. k * Session \in Nat
    BY <1>1, <2>1
  <2> QED
    BY <2>1, <2>2
<1>3. /\ spend' \in [all : Nat, writing : Nat] /\ spend'.all = spend.all + cost
      /\ spend'.writing = spend.writing + cost
  BY <1>1, <1>2 DEF ChargedWriting
<1>4. WriterLeft' \in Nat /\ WriterLeft' + cost = WriterLeft
  BY <1>1, <1>2, <1>3, WriterPays
<1>5. spend.all + WriterLeft <= Limit
  BY DEF StackInv, Funded
<1>6. PICK w, v \in Nat : w = WriterLeft' /\ v = WriterLeft
  BY <1>1, <1>4
<1>7. spend.all + v <= Limit /\ w + cost = v
  BY <1>4, <1>5, <1>6
<1>8. spend.all + cost + w <= Limit /\ spend.all <= spend.all + cost
  <2>1. PICK a \in Nat, l \in Int : a = spend.all /\ l = Limit
    BY <1>1
  <2>2. a + v <= l
    BY <1>7, <2>1
  <2>3. a + cost + w <= l /\ a <= a + cost
    <3>1. cost \in Nat /\ w \in Nat /\ v \in Nat /\ a \in Nat /\ l \in Int /\ w + cost = v
      BY <1>2, <1>6, <1>7, <2>1
    <3>2. \A c, x, y, z \in Nat, m \in Int :
             x + c = y /\ z + y <= m => z + c + x <= m /\ z <= z + c
      OBVIOUS
    <3> QED
      BY <2>2, <3>1, <3>2
  <2> QED
    BY <2>1, <2>3
<1> QED
  BY <1>3, <1>4, <1>6, <1>8

(* Every layer is then of the order, and no follow-up is anything yet.     *)
LEMMA WriteIs ==
    ASSUME StackInv, pc = "write"
    PROVE  /\ plan \in Plans /\ IsDrive(drive) /\ IsTail(tail) /\ tail.read > 0 /\ tail.read # 0
           /\ tail.groups \subseteq LayerSpecs /\ drive.cur = 0
           /\ LayerSpecs \subseteq Order /\ LeftBehind \subseteq Order
           /\ drive.reviewed \subseteq Order /\ drive.routed \subseteq Order
           /\ DOMAIN task = Ids /\ \A s \in Ids : IsTask(task[s])
<1>1. /\ plan \in Plans /\ IsDrive(drive) /\ IsTail(tail) /\ drive.gen \in {0, 1}
      /\ DOMAIN task = Ids /\ \A s \in Ids : IsTask(task[s])
  BY DEF StackInv, Shape, IsDrive
<1>2. tail.read > 0 /\ tail.groups \subseteq LayerSpecs /\ tail.read \in Nat
  BY <1>1 DEF StackInv, ReadOnce, IsTail
<1>3. /\ drive.gen = 0 => drive.started \union drive.reviewed \union drive.routed \subseteq Order
      /\ drive.gen = 1 => drive.started = {} /\ drive.reviewed = {} /\ drive.routed = {}
      /\ drive.cur = 0
  BY DEF StackInv, Places, Ending, Busy
<1>4. LayerSpecs \union LeftBehind \subseteq Past
  BY DEF StackInv, Untouched, Running
<1>5. Past \subseteq Order
  BY <1>1, <1>3 DEF Past
<1> QED
  BY <1>1, <1>2, <1>3, <1>4, <1>5

LEMMA GroupIs ==
    ASSUME StackInv, Writes
    PROVE  Group \in tail.groups /\ Group \in Order
<1>1. pc = "write" /\ tail.groups # {}
  BY DEF Writes
<1>2. tail.groups \subseteq LayerSpecs /\ LayerSpecs \subseteq Order /\ layers \in Seq(Layer)
  BY <1>1, WriteIs DEF StackInv, Shape
<1>3. PICK n \in Nat : n = Len(layers) /\ DOMAIN layers = 1 .. n
  BY <1>2
<1> DEFINE S == {i \in DOMAIN layers : layers[i].spec \in tail.groups}
<1>4. S \subseteq 1 .. n /\ S # {}
  <2>1. PICK g \in tail.groups : g \in LayerSpecs
    BY <1>1, <1>2
  <2> QED
    BY <1>3, <2>1 DEF LayerSpecs
<1>5. Max(S) \in S
  <2> HIDE DEF S
  <2> QED
    BY <1>3, <1>4, MaxIs
<1>6. Group = layers[Max(S)].spec
  BY DEF Group
<1> QED
  BY <1>2, <1>5, <1>6

LEMMA PoolsKeeps ==
    ASSUME StackInv, NEW cost \in Sessions(2), Pools(cost) \/ Halts(cost)
    PROVE  /\ StackInv' /\ LeftBehind' = LeftBehind /\ spend'.all <= Limit
           /\ spend.all <= spend'.all
<1>1. /\ pc = "write" /\ pc' = pc /\ spend' = ChargedWriting(cost)
      /\ UNCHANGED <<plan, row, drive, task, layers>>
      /\ \E gs : Pooled(gs)
  BY DEF Pools, Halts, Writes
<1>2. /\ IsTail(tail) /\ tail.read > 0 /\ tail.read # 0 /\ tail.groups \subseteq LayerSpecs
      /\ LayerSpecs' = LayerSpecs /\ Limit' = Limit
  BY <1>1, WriteIs, PlanStays DEF LayerSpecs
<1>3. /\ spend' \in [all : Nat, writing : Nat] /\ spend.all <= spend'.all
      /\ WriterLeft' \in Nat /\ spend'.all + WriterLeft' <= Limit
  BY <1>1, WritePays
<1>4. PICK gs : tail' = [tail EXCEPT !.pooled = @ \union gs, !.groups = @ \ gs]
  BY <1>1 DEF Pooled
<1>5. IsTail(tail') /\ tail'.read = tail.read /\ tail'.groups \subseteq tail.groups
  BY <1>2, <1>4 DEF IsTail, TailFields
<1>6. ReadOnce'
  BY <1>1, <1>2, <1>5 DEF ReadOnce, Passing, Busy
<1>7. spend'.all <= Limit
  <2>1. PICK w \in Nat : w = WriterLeft'
    BY <1>3
  <2>2. spend'.all \in Nat /\ Limit \in Int
    BY <1>3, EndingPays
  <2> QED
    BY <1>3, <2>1, <2>2
<1>8. Funded'
  BY <1>1, <1>2, <1>3, <1>5, <1>7 DEF Funded
<1> QED
  BY <1>1, <1>2, <1>3, <1>5, <1>6, <1>7, <1>8, TailFits DEF Ending, Closing
-----------------------------------------------------------------------------
(* A follow-up is minted; the writing ends.                                *)

LEMMA MintsKeeps ==
    ASSUME StackInv, NEW cost \in Sessions(2), Mints(cost)
    PROVE  /\ StackInv' /\ LeftBehind' = LeftBehind /\ spend'.all <= Limit
           /\ spend.all <= spend'.all
<1>1. /\ pc = "write" /\ pc' = pc /\ spend' = ChargedWriting(cost) /\ Writes
      /\ UNCHANGED <<plan, row, layers>>
      /\ drive' = [drive EXCEPT !.followUps = Append(@, FollowUp(Group))]
      /\ tail' = [tail EXCEPT !.groups = @ \ {Group}]
  BY DEF Mints, Writes
<1>2. /\ plan \in Plans /\ IsDrive(drive) /\ IsTail(tail) /\ tail.read > 0 /\ tail.read # 0
      /\ tail.groups \subseteq LayerSpecs /\ drive.cur = 0
      /\ LayerSpecs \subseteq Order /\ LeftBehind \subseteq Order
      /\ drive.reviewed \subseteq Order /\ drive.routed \subseteq Order
      /\ DOMAIN task = Ids /\ (\A s \in Ids : IsTask(task[s]))
  BY <1>1, WriteIs
<1>3. PICK f : f = FollowUp(Group)
  OBVIOUS
<1>4. f \in Ids /\ f \notin Order /\ f \in Int /\ Group \in Order
      /\ f \in {FollowUp(r) : r \in Order}
  BY <1>1, <1>2, <1>3, GroupIs, SpecsAre
<1>5. PICK t : t = [NoTask EXCEPT !.state = "QUEUED", !.text = 1]
  OBVIOUS
<1>6. IsTask(t) /\ t.state = "QUEUED" /\ t.decided = FALSE
  BY <1>5 DEF IsTask, TaskFields, NoTask
<1>7. /\ DOMAIN task' = Ids /\ task'[f] = t /\ \A r \in Ids \ {f} : task'[r] = task[r]
  <2>1. task' = [task EXCEPT ![f] = t]
    BY <1>3, <1>5 DEF Mints
  <2> QED
    BY <1>2, <1>4, <2>1
<1>8. \A s \in Ids : IsTask(task'[s])
  BY <1>2, <1>6, <1>7
<1>9. Ids' = Ids /\ Order' = Order /\ Limit' = Limit /\ LayerSpecs' = LayerSpecs
  BY <1>1, PlanStays DEF LayerSpecs
<1>10. LeftBehind' = LeftBehind
  <2>1. f \notin LeftBehind /\ f \notin LeftBehind'
    BY <1>2, <1>4, <1>6, <1>7 DEF LeftBehind, InFlight
  <2>2. LeftBehind \subseteq LeftBehind' /\ LeftBehind' \subseteq LeftBehind \union {f}
    BY <1>1, <1>7, <2>1, OneRow
  <2> QED
    BY <2>1, <2>2
<1>11. /\ spend' \in [all : Nat, writing : Nat] /\ spend.all <= spend'.all
       /\ WriterLeft' \in Nat /\ spend'.all + WriterLeft' <= Limit
  BY <1>1, WritePays
<1>12. PICK fs : fs = Append(drive.followUps, f)
  OBVIOUS
<1>13. fs \in Seq(Int) /\ ToSet(fs) = ToSet(drive.followUps) \union {f}
  <2>1. drive.followUps \in Seq(Int)
    BY <1>2 DEF IsDrive
  <2>2. PICK n \in Nat : n = Len(drive.followUps) /\ DOMAIN drive.followUps = 1 .. n
    BY <2>1
  <2>3. fs \in Seq(Int) /\ DOMAIN fs = 1 .. n + 1 /\ fs[n + 1] = f
        /\ \A i \in 1 .. n : fs[i] = drive.followUps[i]
    BY <1>4, <1>12, <2>1, <2>2
  <2>4. 1 .. n + 1 = (1 .. n) \union {n + 1}
    BY <2>2
  <2>5. /\ ToSet(fs) = {fs[i] : i \in 1 .. n + 1}
        /\ ToSet(drive.followUps) = {drive.followUps[i] : i \in 1 .. n}
    BY <2>2, <2>3 DEF ToSet
  <2>6. {fs[i] : i \in 1 .. n + 1} = {fs[i] : i \in 1 .. n} \union {fs[n + 1]}
    BY <2>4
  <2>7. {fs[i] : i \in 1 .. n} = {drive.followUps[i] : i \in 1 .. n}
    BY <2>3
  <2> QED
    BY <2>3, <2>5, <2>6, <2>7
<1>14. drive' = [drive EXCEPT !.followUps = fs]
  BY <1>1, <1>2, <1>3, <1>12 DEF IsDrive, DriveFields
<1>15. /\ IsDrive(drive') /\ drive'.cur = drive.cur /\ drive'.reason = drive.reason
       /\ drive'.gen = drive.gen /\ drive'.resumed = drive.resumed
       /\ drive'.started = drive.started /\ drive'.routed = drive.routed
       /\ drive'.remaining = drive.remaining /\ drive'.missed = drive.missed
       /\ drive'.followUps = fs
  BY <1>2, <1>13, <1>14 DEF IsDrive, DriveFields
<1>16. /\ drive'.pred = drive.pred /\ drive'.predTask = drive.predTask
       /\ drive'.reviewed = drive.reviewed /\ drive'.revising = drive.revising
       /\ drive'.inFlight = drive.inFlight /\ drive'.unpackaged = drive.unpackaged
  BY <1>2, <1>14 DEF IsDrive, DriveFields
<1>17. IsTail(tail') /\ tail'.read = tail.read /\ tail'.groups \subseteq tail.groups
  BY <1>1, <1>2 DEF IsTail, TailFields
<1>18. Running /\ Running' /\ pc' \notin Busy /\ pc' \notin Passing
       /\ pc' \in {"offer"} \union Ending \union Closing
  BY <1>1 DEF Busy, Passing, Running, Ending, Closing
<1>19. Places'
  <2>1. {FollowUp(r) : r \in Order}' = {FollowUp(r) : r \in Order}
    BY <1>9
  <2>2. row # "none" /\ (drive.resumed <=> row # "open")
    <3>1. row # "none"
      BY <1>1 DEF StackInv, Places
    <3>2. drive.resumed <=> row # "open"
      BY <1>18 DEF StackInv, Places
    <3> QED
      BY <3>1, <3>2
  <2>3. /\ drive.resumed => drive.gen = 1
        /\ drive.gen = 0 =>
              drive.started \union drive.reviewed \union drive.routed \subseteq Order
        /\ drive.remaining \union drive.missed \subseteq Order
        /\ drive.started \subseteq Ids
        /\ ToSet(drive.followUps) \subseteq {FollowUp(s) : s \in Order}
    BY DEF StackInv, Places
  <2>4. /\ drive.gen = 1 => /\ drive.resumed /\ drive.started = {}
                            /\ drive.reviewed = {} /\ drive.routed = {}
        /\ ~drive.resumed => drive.reason \in Reasons
    BY <1>1 DEF StackInv, Places, Ending
  <2>5. pc' # "idle" /\ row' # "none"
    BY <1>1, <2>2
  <2>6. ToSet(drive'.followUps) \subseteq {FollowUp(s) : s \in Order}
    BY <1>4, <1>13, <1>15, <2>3
  <2> QED
    BY <1>1, <1>2, <1>9, <1>15, <1>16, <1>18, <2>1, <2>2, <2>3, <2>4, <2>5, <2>6 DEF Places
<1>20. ReadOnce'
  BY <1>1, <1>2, <1>9, <1>17 DEF ReadOnce, Passing, Busy
<1>21. Sorted'
  BY <1>18 DEF Sorted
<1>22. Decided'
  <2>1. \A g \in ToSet(drive.followUps) : g \in drive.routed <=> task[g].decided
    BY DEF StackInv, Decided
  <2>2. ToSet(drive.followUps) \subseteq Ids
    BY DEF StackInv, Places, Ids
  <2>3. f \notin drive.routed /\ ~task'[f].decided
    BY <1>2, <1>4, <1>6, <1>7
  <2>4. \A g \in ToSet(fs) : g \in drive.routed <=> task'[g].decided
    <3> SUFFICES ASSUME NEW g \in ToSet(fs)
                 PROVE  g \in drive.routed <=> task'[g].decided
      OBVIOUS
    <3>1. CASE g = f
      BY <2>3, <3>1
    <3>2. CASE g # f
      <4>1. g \in ToSet(drive.followUps) /\ task'[g] = task[g]
        BY <1>7, <1>13, <2>2, <3>2
      <4> QED
        BY <2>1, <4>1
    <3> QED
      BY <3>1, <3>2
  <2> QED
    BY <1>15, <2>4 DEF Decided
<1>23. spend'.all <= Limit
  <2>1. PICK w \in Nat : w = WriterLeft'
    BY <1>11
  <2>2. spend'.all \in Nat /\ Limit \in Int
    BY <1>11, EndingPays
  <2> QED
    BY <1>11, <2>1, <2>2
<1>24. Funded'
  BY <1>1, <1>2, <1>9, <1>11, <1>17, <1>23 DEF Funded
<1>25. LayerSpecs \union LeftBehind \subseteq Past'
  <2>1. Past' = Past
    BY <1>9, <1>15 DEF Past
  <2> QED
    BY <1>18, <2>1 DEF StackInv, Untouched
<1>26. \A s \in LayerSpecs \union drive.reviewed : task'[s] = task[s]
  BY <1>2, <1>4, <1>7, SpecsAre
<1>27. UNCHANGED <<plan, row, layers>>
  BY <1>1
<1> QED
  BY <1>7, <1>8, <1>10, <1>11, <1>15, <1>16, <1>17, <1>18, <1>19, <1>20, <1>21, <1>22, <1>23,
     <1>24, <1>25, <1>26, <1>27, EndsFit

LEMMA WriteRaisesKeeps ==
    ASSUME StackInv, WriteRaises
    PROVE  StackInv' /\ LeftBehind' = LeftBehind /\ spend'.all <= Limit
<1>1. /\ pc = "write" /\ pc' = "finish" /\ spend' = spend /\ task' = task
      /\ UNCHANGED <<plan, row, layers>>
      /\ drive' = [drive EXCEPT !.followUps = <<>>]
      /\ tail' = [tail EXCEPT !.pooled = @ \union tail.groups, !.groups = @ \ tail.groups]
  BY DEF WriteRaises, Writes, Pooled
<1>2. /\ plan \in Plans /\ IsDrive(drive) /\ IsTail(tail) /\ tail.read > 0 /\ tail.read # 0
      /\ drive.cur = 0 /\ DOMAIN task = Ids /\ (\A s \in Ids : IsTask(task[s]))
      /\ spend \in [all : Nat, writing : Nat]
  BY <1>1, WriteIs, EndingPays
<1>3. /\ Ids' = Ids /\ Order' = Order /\ Limit' = Limit /\ WriterLeft' = WriterLeft
      /\ LeftBehind' = LeftBehind
  BY <1>1, PlanStays DEF WriterLeft, LeftBehind
<1>4. /\ IsDrive(drive') /\ drive'.cur = drive.cur /\ drive'.reason = drive.reason
      /\ drive'.gen = drive.gen /\ drive'.resumed = drive.resumed
      /\ drive'.started = drive.started /\ drive'.routed = drive.routed
      /\ drive'.remaining = drive.remaining /\ drive'.missed = drive.missed
      /\ drive'.followUps = <<>>
  BY <1>1, <1>2 DEF IsDrive, DriveFields
<1>5. /\ drive'.pred = drive.pred /\ drive'.predTask = drive.predTask
      /\ drive'.reviewed = drive.reviewed /\ drive'.revising = drive.revising
      /\ drive'.inFlight = drive.inFlight /\ drive'.unpackaged = drive.unpackaged
  BY <1>1, <1>2 DEF IsDrive, DriveFields
<1>6. IsTail(tail') /\ tail'.read = tail.read
  BY <1>1, <1>2 DEF IsTail, TailFields
<1>7. Running /\ Running' /\ pc' \notin Busy /\ pc' \notin Passing /\ pc' \notin Ending
      /\ pc' \in {"offer"} \union Ending \union Closing
  BY <1>1 DEF Busy, Passing, Running, Ending, Closing
<1>8. ToSet(drive'.followUps) = {}
  BY <1>4 DEF ToSet
<1>9. Places'
  <2>1. row # "none" /\ (drive.resumed <=> row # "open")
    <3>1. row # "none"
      BY <1>1 DEF StackInv, Places
    <3>2. drive.resumed <=> row # "open"
      BY <1>7 DEF StackInv, Places
    <3> QED
      BY <3>1, <3>2
  <2>2. /\ drive.resumed => drive.gen = 1
        /\ drive.gen = 0 =>
              drive.started \union drive.reviewed \union drive.routed \subseteq Order
        /\ drive.remaining \union drive.missed \subseteq Order
        /\ drive.started \subseteq Ids
    BY DEF StackInv, Places
  <2>3. ~drive.resumed => drive.reason \in Reasons
    BY <1>1 DEF StackInv, Places, Ending
  <2>4. pc' # "idle" /\ row' # "none"
    BY <1>1, <2>1
  <2> QED
    BY <1>1, <1>2, <1>3, <1>4, <1>5, <1>7, <1>8, <2>1, <2>2, <2>3, <2>4 DEF Places
<1>10. ReadOnce'
  BY <1>1 DEF ReadOnce, Passing, Busy
<1>11. Sorted' /\ Decided'
  BY <1>7, <1>8 DEF Sorted, Decided
<1>12. Funded'
  BY <1>1, <1>2, <1>3, <1>6 DEF StackInv, Funded
<1>13. LayerSpecs \union LeftBehind \subseteq Past'
  <2>1. Past' = Past
    BY <1>3, <1>4 DEF Past
  <2> QED
    BY <1>7, <2>1 DEF StackInv, Untouched
<1>14. /\ UNCHANGED <<plan, row, layers>> /\ task' = task /\ spend' = spend
       /\ DOMAIN task' = Ids /\ (\A s \in Ids : IsTask(task'[s]))
       /\ spend' \in [all : Nat, writing : Nat]
  BY <1>1, <1>2
<1> QED
  BY <1>3, <1>4, <1>5, <1>6, <1>7, <1>9, <1>10, <1>11, <1>12, <1>13, <1>14, EndsFit

LEMMA WritingEndsKeeps ==
    ASSUME StackInv, WritingEnds
    PROVE  StackInv' /\ LeftBehind' = LeftBehind /\ spend'.all <= Limit
<1>1. /\ pc = "write" /\ UNCHANGED <<plan, row, task, layers, spend, tail>>
      /\ \/ pc' = "offer" /\ drive' = [drive EXCEPT !.gen = 1, !.started = {}]
         \/ pc' = "finish" /\ drive' = drive
  BY DEF WritingEnds
<1>2. /\ plan \in Plans /\ IsDrive(drive) /\ IsTail(tail) /\ tail.read > 0 /\ tail.read # 0
      /\ drive.cur = 0 /\ DOMAIN task = Ids /\ (\A s \in Ids : IsTask(task[s]))
      /\ LayerSpecs \subseteq Order /\ LeftBehind \subseteq Order
      /\ spend \in [all : Nat, writing : Nat]
  BY <1>1, WriteIs, EndingPays
<1>3. /\ Ids' = Ids /\ Order' = Order /\ Limit' = Limit /\ WriterLeft' = WriterLeft
      /\ LeftBehind' = LeftBehind
  BY <1>1, PlanStays DEF WriterLeft, LeftBehind
<1>4. /\ IsDrive(drive') /\ drive'.cur = drive.cur /\ drive'.reason = drive.reason
      /\ drive'.resumed = drive.resumed /\ drive'.routed = drive.routed
      /\ drive'.remaining = drive.remaining /\ drive'.missed = drive.missed
      /\ drive'.followUps = drive.followUps
  BY <1>1, <1>2 DEF IsDrive, DriveFields
<1>5. /\ drive'.pred = drive.pred /\ drive'.predTask = drive.predTask
      /\ drive'.reviewed = drive.reviewed /\ drive'.revising = drive.revising
      /\ drive'.inFlight = drive.inFlight /\ drive'.unpackaged = drive.unpackaged
  BY <1>1, <1>2 DEF IsDrive, DriveFields
<1>6. \/ pc' = "offer" /\ drive'.gen = 1 /\ drive'.started = {}
      \/ pc' = "finish" /\ drive'.gen = drive.gen /\ drive'.started = drive.started
  BY <1>1, <1>2 DEF IsDrive, DriveFields
<1>7. Running /\ Running' /\ pc' \notin Busy /\ pc' \notin Ending
      /\ pc' \in {"offer"} \union Ending \union Closing
  BY <1>1 DEF Busy, Running, Ending, Closing
<1>8. Places'
  <2>1. row # "none" /\ (drive.resumed <=> row # "open")
    <3>1. row # "none"
      BY <1>1 DEF StackInv, Places
    <3>2. drive.resumed <=> row # "open"
      BY <1>7 DEF StackInv, Places
    <3> QED
      BY <3>1, <3>2
  <2>2. /\ drive.resumed => drive.gen = 1
        /\ drive.gen = 0 =>
              drive.started \union drive.reviewed \union drive.routed \subseteq Order
        /\ drive.remaining \union drive.missed \subseteq Order
        /\ drive.started \subseteq Ids
        /\ ToSet(drive.followUps) \subseteq {FollowUp(s) : s \in Order}
    BY DEF StackInv, Places
  <2>3. ~drive.resumed => drive.reason \in Reasons
    BY <1>1 DEF StackInv, Places, Ending
  <2>4. pc' # "idle" /\ row' # "none"
    BY <1>1, <2>1
  <2>5. {FollowUp(r) : r \in Order}' = {FollowUp(r) : r \in Order}
    BY <1>3
  <2>6. /\ drive'.resumed => drive'.gen = 1
        /\ drive'.gen = 0 =>
              drive'.started \union drive'.reviewed \union drive'.routed \subseteq Order
        /\ drive'.started \subseteq Ids
    BY <1>4, <1>5, <1>6, <2>2
  <2> QED
    BY <1>1, <1>2, <1>3, <1>4, <1>7, <2>1, <2>2, <2>3, <2>4, <2>5, <2>6 DEF Places
<1>9. ReadOnce'
  BY <1>1, <1>2, <1>6 DEF ReadOnce, Passing, Busy
<1>10. Sorted'
  BY <1>6 DEF Sorted, Passing, Busy
<1>11. Decided'
  BY <1>1, <1>4 DEF StackInv, Decided
<1>12. Funded'
  <2>1. spend.all <= Limit
    BY DEF StackInv, Funded
  <2>2. pc' = "offer" => Kept' = 0
    BY <1>6 DEF Kept
  <2>3. spend.all + 0 <= Limit
    BY <1>2, <2>1
  <2> QED
    BY <1>1, <1>2, <1>3, <1>6, <2>1, <2>2, <2>3 DEF Funded
<1>13. LayerSpecs \union LeftBehind \subseteq Past'
  <2>1. CASE pc' = "offer" /\ drive'.gen = 1 /\ drive'.started = {}
    BY <1>2, <1>3, <2>1 DEF Past
  <2>2. CASE pc' = "finish" /\ drive'.gen = drive.gen /\ drive'.started = drive.started
    <3>1. Past' = Past
      BY <1>3, <1>4, <2>2 DEF Past
    <3> QED
      BY <1>7, <3>1 DEF StackInv, Untouched
  <2> QED
    BY <1>6, <2>1, <2>2
<1>14. /\ UNCHANGED <<plan, row, layers>> /\ task' = task /\ spend' = spend /\ tail' = tail
       /\ DOMAIN task' = Ids /\ (\A s \in Ids : IsTask(task'[s])) /\ IsTail(tail')
       /\ spend' \in [all : Nat, writing : Nat]
  BY <1>1, <1>2
<1> QED
  BY <1>3, <1>4, <1>5, <1>7, <1>8, <1>9, <1>10, <1>11, <1>12, <1>13, <1>14, EndsFit
-----------------------------------------------------------------------------
(* A process starts, and is over.                                          *)

LEMMA InitHolds ==
    ASSUME Init
    PROVE  StackInv /\ spend.all = 0 /\ LeftBehind = {}
<1>1. /\ plan \in Plans /\ pc = "idle" /\ row = "none" /\ layers = <<>> /\ drive = Fresh
      /\ task = [s \in Ids |-> NoTask] /\ spend = [all |-> 0, writing |-> 0]
      /\ tail = [deferred |-> FALSE, joined |-> FALSE, read |-> 0, left |-> Reserve,
                 qualified |-> {}, kept |-> FALSE, groups |-> {}, pooled |-> {},
                 handedOn |-> {}, finished |-> FALSE]
  BY DEF Init
<1>2. /\ IsDrive(drive) /\ drive.gen = 0 /\ drive.cur = 0 /\ drive.remaining = Order
      /\ drive.started = {} /\ drive.missed = {} /\ drive.reviewed = {} /\ drive.revising = {}
      /\ drive.routed = {} /\ drive.followUps = <<>> /\ drive.resumed = FALSE
  BY <1>1, FreshIs
<1>3. /\ IsTail(tail) /\ tail.read = 0 /\ ~tail.joined /\ ~tail.deferred /\ tail.left = Reserve
  BY <1>1, Constants DEF IsTail, TailFields
<1>4. /\ DOMAIN task = Ids /\ \A s \in Ids : task[s] = NoTask /\ IsTask(task[s])
  BY <1>1 DEF IsTask, TaskFields, NoTask
<1>5. /\ spend \in [all : Nat, writing : Nat] /\ spend.all = 0
  BY <1>1
<1>6. LayerSpecs = {} /\ layers \in Seq(Layer) /\ ToSet(drive.followUps) = {}
  BY <1>1, <1>2 DEF LayerSpecs, ToSet
<1>7. LeftBehind = {}
  <2>1. NoTask.state = "none"
    BY DEF NoTask
  <2> QED
    BY <1>4, <2>1 DEF LeftBehind, InFlight
<1>8. ~Running /\ pc \notin Passing /\ pc \notin Busy /\ pc \notin Ending /\ pc \notin Closing
  BY <1>1 DEF Running, Passing, Busy, Ending, Closing
<1>9. Shape
  BY <1>1, <1>2, <1>3, <1>4, <1>5, <1>6 DEF Shape
<1>10. Places
  BY <1>1, <1>2, <1>6, <1>8 DEF Places
<1>11. ReadOnce /\ Untouched /\ Chained
  BY <1>1, <1>3, <1>5, <1>6, <1>7, <1>8 DEF ReadOnce, Untouched, Chained
<1>12. Sorted /\ Reviewed1 /\ Decided
  BY <1>1, <1>2, <1>6, <1>8 DEF Sorted, Reviewed1, Decided
<1>13. 0 <= Limit
  BY Constants, LimitIs, MaxCellIs
<1>14. Funded
  BY <1>1, <1>3, <1>5, <1>13 DEF Funded
<1> QED
  BY <1>5, <1>7, <1>9, <1>10, <1>11, <1>12, <1>14 DEF StackInv

(* What is kept once there is no process.                                  *)
LEMMA OverFits ==
    ASSUME StackInv, pc' = "over", drive' = Fresh, UNCHANGED <<plan, layers, spend, tail>>,
           row' \in {"open"} \union Closed, DOMAIN task' = Ids,
           \A s \in Ids : IsTask(task'[s]) /\ task'[s].tree = task[s].tree,
           LeftBehind' \subseteq LeftBehind
    PROVE  StackInv' /\ spend'.all <= Limit
<1>1. /\ Ids' = Ids /\ Order' = Order /\ OverBase' = OverBase /\ Limit' = Limit
      /\ LayerSpecs' = LayerSpecs /\ WriterLeft' = WriterLeft
  BY PlanStays DEF LayerSpecs, WriterLeft
<1>2. plan \in Plans /\ IsTail(tail) /\ spend \in [all : Nat, writing : Nat]
      /\ layers \in Seq(Layer)
  BY DEF StackInv, Shape
<1>3. /\ IsDrive(drive') /\ drive'.gen = 0 /\ drive'.cur = 0 /\ drive'.remaining = Order
      /\ drive'.started = {} /\ drive'.missed = {} /\ drive'.reviewed = {}
      /\ drive'.revising = {} /\ drive'.routed = {} /\ drive'.followUps = <<>>
      /\ drive'.resumed = FALSE
  BY <1>2, FreshIs
<1>4. ToSet(drive'.followUps) = {}
  BY <1>3 DEF ToSet
<1>5. Fresh' = Fresh
  BY <1>1 DEF Fresh, Base
<1>6. ~Running' /\ pc' \notin Passing /\ pc' \notin Busy /\ pc' \notin Ending /\ pc' \notin Closing
  BY DEF Running, Passing, Busy, Ending, Closing
<1>7. row' # "none"
  BY DEF Closed, Reasons
<1>8. Shape'
  <2>1. IsDrive(drive)'
    BY <1>1, <1>3 DEF IsDrive
  <2>2. IsTail(tail)'
    BY <1>2 DEF IsTail
  <2>3. \A s \in Ids' : IsTask(task[s])'
    BY <1>1 DEF IsTask
  <2>4. (DOMAIN task = Ids)'
    BY <1>1
  <2>5. (row \in {"none", "open"} \union Closed)'
    BY DEF Closed
  <2> QED
    BY <1>2, <2>1, <2>2, <2>3, <2>4, <2>5 DEF Shape
<1>9. Places'
  BY <1>1, <1>3, <1>4, <1>5, <1>6, <1>7 DEF Places
<1>10. ReadOnce' /\ Sorted' /\ Decided'
  BY <1>4, <1>6 DEF ReadOnce, Sorted, Decided
<1>11. Untouched'
  BY <1>1, <1>6 DEF StackInv, Untouched
<1>12. Chained'
  <2>1. Base' = Base
    BY DEF Base
  <2>2. \A i \in DOMAIN layers : task'[layers[i].spec].tree = task[layers[i].spec].tree
    <3>1. \A i \in DOMAIN layers : layers[i].spec \in Ids
      BY DEF StackInv, Untouched, LayerSpecs
    <3> QED
      BY <3>1
  <2>3. \A i \in DOMAIN layers :
           /\ layers[i].over = (IF i > 1 THEN layers[i - 1].spec
                               ELSE IF plan.base THEN Base ELSE -1)
           /\ task'[layers[i].spec].tree = {layers[j].spec : j \in 1 .. i - 1} \union OverBase
    BY <2>2 DEF StackInv, Chained
  <2>4. \A i \in DOMAIN layers' :
           /\ layers'[i].over = (IF i > 1 THEN layers'[i - 1].spec
                                ELSE IF plan'.base THEN Base ELSE -1)
           /\ task'[layers'[i].spec].tree
                = {layers'[j].spec : j \in 1 .. i - 1} \union OverBase'
    BY <1>1, <2>3
  <2> QED
    BY <1>6, <2>1, <2>4 DEF Chained
<1>13. Reviewed1'
  BY <1>3, <1>6 DEF Reviewed1, Busy
<1>14. Funded' /\ spend'.all <= Limit
  BY <1>1 DEF StackInv, Funded
<1> QED
  BY <1>8, <1>9, <1>10, <1>11, <1>12, <1>13, <1>14 DEF StackInv

LEMMA PromotedIs ==
    ASSUME NEW reason \in Reasons
    PROVE  /\ Promoted(reason) \in Closed
           /\ Promoted(reason) \in {"DRAINED", "BUDGET", "UNTIL"}
                => drive.inFlight = {} /\ drive.unpackaged = {}
  BY DEF Promoted, Closed, Reasons

LEMMA CloseKeeps ==
    ASSUME StackInv, Close
    PROVE  StackInv' /\ LeftBehind' = LeftBehind /\ spend'.all <= Limit
<1>1. /\ pc = "close" /\ row' = (IF drive.resumed THEN row ELSE Promoted(drive.reason))
      /\ pc' = "over" /\ drive' = Fresh /\ UNCHANGED <<plan, task, layers, spend, tail>>
  BY DEF Close, Exits
<1>2. LeftBehind' = LeftBehind
  BY <1>1, PlanStays DEF LeftBehind
<1>3. row' \in {"open"} \union Closed
  <2>1. ~drive.resumed => drive.reason \in Reasons
    BY <1>1 DEF StackInv, Places, Closing
  <2>2. row \in {"open"} \union Closed
    BY <1>1 DEF StackInv, Shape, Places
  <2> QED
    BY <1>1, <2>1, <2>2, PromotedIs
<1>4. DOMAIN task' = Ids /\ \A s \in Ids : IsTask(task'[s]) /\ task'[s].tree = task[s].tree
  BY <1>1 DEF StackInv, Shape
<1> QED
  BY <1>1, <1>2, <1>3, <1>4, OverFits

LEMMA InterruptedKeeps ==
    ASSUME StackInv, Interrupted
    PROVE  StackInv' /\ LeftBehind' = LeftBehind /\ spend'.all <= Limit
<1>1. /\ Running /\ row' = (IF drive.resumed THEN row ELSE Promoted("INFRASTRUCTURE"))
      /\ pc' = "over" /\ drive' = Fresh /\ UNCHANGED <<plan, layers, spend, tail>>
      /\ task' = (IF pc = "cell" THEN [task EXCEPT ![Cur].state = "ORPHANED"] ELSE task)
  BY DEF Interrupted, Exits
<1>2. row' \in {"open"} \union Closed
  <2>1. row \in {"open"} \union Closed
    BY <1>1 DEF StackInv, Shape, Places, Running
  <2>2. "INFRASTRUCTURE" \in Reasons
    BY DEF Reasons
  <2> QED
    BY <1>1, <2>1, <2>2, PromotedIs
<1>3. DOMAIN task = Ids /\ \A s \in Ids : IsTask(task[s])
  BY DEF StackInv, Shape
<1>4. CASE pc # "cell"
  <2>1. DOMAIN task' = Ids /\ \A s \in Ids : IsTask(task'[s]) /\ task'[s].tree = task[s].tree
    BY <1>1, <1>3, <1>4
  <2>2. LeftBehind' = LeftBehind
    BY <1>1, <1>4, PlanStays DEF LeftBehind
  <2> QED
    BY <1>1, <1>2, <2>1, <2>2, OverFits
<1>5. CASE pc = "cell"
  <2>1. Cur \in Ids /\ Cur \notin LeftBehind
    BY <1>5, CurIs DEF Busy
  <2>2. PICK t : t = [task[Cur] EXCEPT !.state = "ORPHANED"]
    OBVIOUS
  <2>3. IsTask(t) /\ t.state = "ORPHANED" /\ t.tree = task[Cur].tree
    BY <1>3, <2>1, <2>2 DEF IsTask, TaskFields
  <2>4. task' = [task EXCEPT ![Cur] = t]
    BY <1>1, <1>3, <1>5, <2>1, <2>2
  <2>5. DOMAIN task' = Ids /\ task'[Cur] = t /\ \A r \in Ids \ {Cur} : task'[r] = task[r]
    BY <1>3, <2>1, <2>4
  <2>6. \A s \in Ids : IsTask(task'[s]) /\ task'[s].tree = task[s].tree
    BY <1>3, <2>1, <2>3, <2>5
  <2>7. LeftBehind' = LeftBehind
    <3>1. Cur \notin LeftBehind'
      BY <2>3, <2>5 DEF LeftBehind, InFlight
    <3>2. LeftBehind \subseteq LeftBehind' /\ LeftBehind' \subseteq LeftBehind \union {Cur}
      BY <1>1, <2>1, <2>5, OneRow
    <3> QED
      BY <2>1, <3>1, <3>2
  <2> QED
    BY <1>1, <1>2, <2>5, <2>6, <2>7, OverFits
<1> QED
  BY <1>4, <1>5

LEMMA KillKeeps ==
    ASSUME StackInv, Kill \/ NotReady
    PROVE  StackInv' /\ LeftBehind' = LeftBehind /\ spend'.all <= Limit
<1>1. /\ pc' = "over" /\ UNCHANGED <<plan, task, layers, spend, tail>>
      /\ row' \in {"open"} \union Closed
      /\ drive' = Fresh
  <2>1. CASE Kill
    <3>1. Running /\ pc' = "over" /\ drive' = Fresh
          /\ UNCHANGED <<plan, row, task, layers, spend, tail>>
      BY <2>1 DEF Kill
    <3>2. row \in {"open"} \union Closed
      BY <3>1 DEF StackInv, Shape, Places, Running
    <3> QED
      BY <3>1, <3>2
  <2>2. CASE NotReady
    <3>1. pc = "idle" /\ row' = "INFRASTRUCTURE" /\ pc' = "over"
          /\ UNCHANGED <<plan, drive, task, layers, spend, tail>>
      BY <2>2 DEF NotReady
    <3>2. drive = Fresh
      BY <3>1 DEF StackInv, Places, Running
    <3> QED
      BY <3>1, <3>2 DEF Closed, Reasons
  <2> QED
    BY <2>1, <2>2
<1>2. LeftBehind' = LeftBehind
  BY <1>1, PlanStays DEF LeftBehind
<1>3. DOMAIN task' = Ids /\ \A s \in Ids : IsTask(task'[s]) /\ task'[s].tree = task[s].tree
  BY <1>1 DEF StackInv, Shape
<1> QED
  BY <1>1, <1>2, <1>3, OverFits

LEMMA ResumeKeeps ==
    ASSUME StackInv, ResumeTail
    PROVE  StackInv' /\ LeftBehind' = LeftBehind /\ spend'.all <= Limit
<1>1. /\ pc = "over" /\ tail.deferred /\ row # "open" /\ layers # <<>>
      /\ ~tail.joined /\ tail.read = 0 /\ pc' = "ended" /\ drive' = Resumed
      /\ UNCHANGED <<plan, row, task, layers, spend, tail>>
  BY DEF ResumeTail
<1>2. /\ plan \in Plans /\ layers \in Seq(Layer) /\ IsTail(tail)
      /\ spend \in [all : Nat, writing : Nat]
      /\ DOMAIN task = Ids /\ (\A s \in Ids : IsTask(task[s]))
  BY DEF StackInv, Shape
<1>3. /\ Ids' = Ids /\ Order' = Order /\ OverBase' = OverBase /\ Limit' = Limit
      /\ LayerSpecs' = LayerSpecs /\ WriterLeft' = WriterLeft /\ LeftBehind' = LeftBehind
  BY <1>1, PlanStays DEF LayerSpecs, WriterLeft, LeftBehind
<1>4. PICK f : f = Fresh
  OBVIOUS
<1>5. /\ IsDrive(f) /\ f.cur = 0 /\ f.started = {} /\ f.missed = {} /\ f.reviewed = {}
      /\ f.revising = {} /\ f.routed = {} /\ f.followUps = <<>>
  BY <1>2, <1>4, FreshIs
<1>6. PICK s : s = Last(layers).spec
  OBVIOUS
<1>7. s = layers[Len(layers)].spec
  BY <1>6 DEF Last
<1>8. drive' = [f EXCEPT !.gen = 1, !.remaining = {}, !.pred = s, !.predTask = s,
                         !.reason = row, !.resumed = TRUE]
  BY <1>1, <1>4, <1>6 DEF Resumed
<1>9. /\ IsDrive(drive') /\ drive'.gen = 1 /\ drive'.cur = 0 /\ drive'.remaining = {}
      /\ drive'.pred = s /\ drive'.predTask = s /\ drive'.resumed = TRUE
  BY <1>5, <1>8 DEF IsDrive, DriveFields
<1>10. /\ drive'.started = {} /\ drive'.missed = {} /\ drive'.reviewed = {}
       /\ drive'.revising = {} /\ drive'.routed = {} /\ drive'.followUps = <<>>
  BY <1>5, <1>8 DEF IsDrive, DriveFields
<1>11. ToSet(drive'.followUps) = {}
  BY <1>10 DEF ToSet
<1>12. Running' /\ pc' \notin Passing /\ pc' \notin Busy /\ row # "none"
  BY <1>1 DEF StackInv, Places, Running, Passing, Busy
<1>13. Shape'
  <2>1. IsDrive(drive)'
    BY <1>3, <1>9 DEF IsDrive
  <2>2. IsTail(tail)'
    BY <1>1, <1>2 DEF IsTail
  <2>3. \A r \in Ids' : IsTask(task[r])'
    BY <1>1, <1>2, <1>3 DEF IsTask
  <2>4. (DOMAIN task = Ids)' /\ (row \in {"none", "open"} \union Closed)'
    BY <1>1, <1>2, <1>3 DEF StackInv, Shape
  <2> QED
    BY <1>1, <1>2, <2>1, <2>2, <2>3, <2>4 DEF Shape, Ending
<1>14. Places'
  BY <1>1, <1>3, <1>9, <1>10, <1>11, <1>12 DEF Places
<1>15. ReadOnce' /\ Sorted' /\ Decided' /\ Reviewed1'
  BY <1>1, <1>9, <1>10, <1>11, <1>12 DEF ReadOnce, Sorted, Decided, Reviewed1, Busy
<1>16. Untouched'
  <2>1. LayerSpecs \subseteq Ids /\ LayerSpecs \union LeftBehind \subseteq Order
    BY <1>1 DEF StackInv, Untouched
  <2>2. Order \subseteq Past'
    BY <1>3, <1>9 DEF Past
  <2> QED
    BY <1>1, <1>3, <2>1, <2>2 DEF Untouched
<1>17. Chained'
  <2>1. Base' = Base
    BY DEF Base
  <2>2. \A i \in DOMAIN layers :
           /\ layers[i].over = (IF i > 1 THEN layers[i - 1].spec
                               ELSE IF plan.base THEN Base ELSE -1)
           /\ task[layers[i].spec].tree = {layers[j].spec : j \in 1 .. i - 1} \union OverBase
    BY DEF StackInv, Chained
  <2>3. \A i \in DOMAIN layers' :
           /\ layers'[i].over = (IF i > 1 THEN layers'[i - 1].spec
                                ELSE IF plan'.base THEN Base ELSE -1)
           /\ task'[layers'[i].spec].tree
                = {layers'[j].spec : j \in 1 .. i - 1} \union OverBase'
    BY <1>1, <1>3, <2>2
  <2>4. layers' # <<>> /\ drive'.pred = layers'[Len(layers')].spec
        /\ drive'.predTask = layers'[Len(layers')].spec
    BY <1>1, <1>7, <1>9
  <2> QED
    BY <2>1, <2>3, <2>4 DEF Chained
<1>18. Funded' /\ spend'.all <= Limit
  BY <1>1, <1>3 DEF StackInv, Funded
<1> QED
  BY <1>3, <1>13, <1>14, <1>15, <1>16, <1>17, <1>18 DEF StackInv

LEMMA OpenKeeps ==
    ASSUME StackInv, OpenRow
    PROVE  /\ StackInv' /\ LeftBehind' = {} /\ spend'.all = 0 /\ spend'.all <= Limit
           /\ pc' = "offer"
<1>1. /\ pc = "idle" /\ row' = "open" /\ pc' = "offer"
      /\ drive' = [ResolvePrefix(drive) EXCEPT !.cur = 0]
      /\ UNCHANGED <<plan, task, layers, spend, tail>>
  BY DEF OpenRow, Rescans
<1>2. /\ plan \in Plans /\ IsDrive(drive) /\ IsTail(tail) /\ spend \in [all : Nat, writing : Nat]
      /\ DOMAIN task = Ids /\ (\A s \in Ids : IsTask(task[s]))
  BY DEF StackInv, Shape
<1>3. drive = Fresh
  BY <1>1 DEF StackInv, Places, Running
<1>4. /\ drive.gen = 0 /\ drive.remaining = Order /\ drive.started = {}
      /\ drive.missed = {} /\ drive.reviewed = {} /\ drive.revising = {} /\ drive.routed = {}
      /\ drive.inFlight = {} /\ drive.unpackaged = {} /\ drive.resumed = FALSE
      /\ drive.followUps = <<>> /\ drive.pred = 0
      /\ drive.predTask = (IF plan.base THEN Base ELSE -1)
  BY <1>2, <1>3, FreshIs
<1>5. /\ Ids' = Ids /\ Order' = Order /\ OverBase' = OverBase /\ Limit' = Limit
      /\ LayerSpecs' = LayerSpecs /\ WriterLeft' = WriterLeft /\ LeftBehind' = LeftBehind
      /\ \A s : Before(s)' = Before(s) /\ Deps(s)' = Deps(s)
  BY <1>1, PlanStays DEF LayerSpecs, WriterLeft, LeftBehind
<1>6. PICK e : e = ResolvePrefix(drive)
  OBVIOUS
<1>7. /\ IsDrive(e) /\ e.remaining \subseteq Order /\ e.missed \subseteq Order
      /\ Order \subseteq e.remaining \union e.missed
      /\ e.gen = 0 /\ e.started = {} /\ e.reviewed = {} /\ e.revising = {} /\ e.routed = {}
      /\ e.inFlight = {} /\ e.unpackaged = {} /\ e.resumed = FALSE /\ e.followUps = <<>>
      /\ e.pred = 0 /\ e.predTask = drive.predTask
  BY <1>2, <1>4, <1>6, ResolveDoes
<1>8. \A s \in e.remaining : e.remaining \intersect Before(s) = {} => Deps(s) \intersect e.missed = {}
  BY <1>2, <1>4, <1>6, ResolveLeaves
<1>9. drive' = [e EXCEPT !.cur = 0]
  BY <1>1, <1>6
<1>10. /\ IsDrive(drive') /\ drive'.cur = 0 /\ drive'.gen = 0 /\ drive'.resumed = FALSE
       /\ drive'.remaining = e.remaining /\ drive'.missed = e.missed
       /\ drive'.pred = 0 /\ drive'.predTask = drive.predTask
  BY <1>7, <1>9 DEF IsDrive, DriveFields
<1>11. /\ drive'.started = {} /\ drive'.reviewed = {} /\ drive'.revising = {}
       /\ drive'.routed = {} /\ drive'.inFlight = {} /\ drive'.unpackaged = {}
       /\ drive'.followUps = <<>>
  BY <1>7, <1>9 DEF IsDrive, DriveFields
<1>12. ToSet(drive'.followUps) = {}
  BY <1>11 DEF ToSet
<1>13. layers = <<>> /\ LeftBehind = {} /\ spend.all = 0 /\ LayerSpecs = {}
       /\ tail.read = 0 /\ ~tail.joined
  BY <1>1 DEF StackInv, Untouched, ReadOnce, LayerSpecs
<1>14. Running' /\ pc' \in Passing /\ pc' \notin Busy /\ pc' \notin Ending /\ pc' \notin Closing
  BY <1>1 DEF Running, Passing, Busy, Ending, Closing
<1>15. Shape'
  <2>1. IsDrive(drive)'
    BY <1>5, <1>10 DEF IsDrive
  <2>2. IsTail(tail)'
    BY <1>1, <1>2 DEF IsTail
  <2>3. \A r \in Ids' : IsTask(task[r])'
    BY <1>1, <1>2, <1>5 DEF IsTask
  <2>4. (DOMAIN task = Ids)' /\ (row \in {"none", "open"} \union Closed)'
        /\ (layers \in Seq(Layer))'
    BY <1>1, <1>2, <1>5 DEF StackInv, Shape
  <2> QED
    BY <1>1, <1>2, <1>14, <2>1, <2>2, <2>3, <2>4 DEF Shape
<1>16. Places'
  BY <1>1, <1>5, <1>7, <1>10, <1>11, <1>12, <1>14 DEF Places
<1>17. ReadOnce'
  BY <1>1, <1>10, <1>13 DEF ReadOnce
<1>18. Untouched'
  BY <1>1, <1>5, <1>13 DEF Untouched
<1>19. Chained'
  <2>1. Base' = Base
    BY DEF Base
  <2>2. layers' = <<>> /\ drive'.pred = 0 /\ drive'.predTask = (IF plan'.base THEN Base ELSE -1)
    BY <1>1, <1>4, <1>10, <1>13
  <2> QED
    BY <2>1, <2>2 DEF Chained
<1>20. Sorted'
  BY <1>5, <1>7, <1>8, <1>10 DEF Sorted
<1>21. Reviewed1' /\ Decided'
  BY <1>1, <1>11, <1>12 DEF Reviewed1, Decided, Busy
<1>22. Funded' /\ spend.all <= Limit
  <2>1. PICK w \in Nat : w = WriterLeft
    BY <1>2, WriterLeftIs
  <2>2. w <= Writer
    <3>1. w = 0 \/ w = Writer - spend.writing
      BY <1>2, <2>1, WriterLeftIs
    <3>2. spend.writing \in Nat /\ Writer \in Nat
      BY <1>2, Constants
    <3> QED
      BY <3>1, <3>2
  <2>3. PICK l \in Int : l = Limit
    BY LimitIs
  <2>4. Budget <= l
    BY <2>3, Constants, LimitIs, MaxCellIs
  <2>5. Reserve + w <= l /\ 0 <= l
    BY <2>1, <2>2, <2>3, <2>4, Constants
  <2>6. Kept' = Reserve + w
    BY <1>5, <1>10, <2>1 DEF Kept
  <2>7. spend.all = 0 /\ spend.all <= Limit /\ spend.all + (Reserve + w) <= Limit
        /\ spend.all + Reserve + w <= Limit
    BY <1>13, <2>1, <2>3, <2>5, Constants
  <2>8. (tail.read = 0 /\ ~tail.joined) => tail.left = Reserve
    BY DEF StackInv, Funded
  <2> QED
    BY <1>1, <1>5, <2>1, <2>6, <2>7, <2>8 DEF Funded
<1> QED
  BY <1>1, <1>5, <1>13, <1>15, <1>16, <1>17, <1>18, <1>19, <1>20, <1>21, <1>22 DEF StackInv
-----------------------------------------------------------------------------
(* The steps of a process that is not over by them.                        *)
Onward == Loop \/ Review \/ Revise \/ Cell \/ EndReview \/ Written \/ FinishesNothing \/ Finishes

LEMMA LoopKeeps ==
    ASSUME StackInv, Loop
    PROVE  /\ StackInv' /\ LeftBehind \subseteq LeftBehind'
           /\ spend.all <= spend'.all /\ spend'.all <= Limit
<1>1. CASE Drained \/ Until \/ OutOfBudget \/ Breaker
  <2>1. PICK reason \in Reasons : Ends(reason)
    BY <1>1 DEF Drained, Until, OutOfBudget, Breaker, Reasons
  <2>2. spend' = spend /\ spend.all \in Nat
    BY <2>1, EndingPays DEF Ends
  <2> QED
    BY <2>1, <2>2, EndsKeeps
<1>2. CASE BaseGone \/ BaseUnasked \/ MintRaises \/ OpenPrRefused
  <2>1. PICK s, d : Leaves(s, d)
    BY <1>2, LoopLeaves
  <2> QED
    BY <2>1, LeavesKeeps DEF Leaves, Context
<1>3. CASE Offer
  <2>1. Works(Next1)
    BY <1>3, OfferWorks
  <2> QED
    BY <2>1, WorksKeeps DEF Works, Context
<1> QED
  BY <1>1, <1>2, <1>3 DEF Loop

LEMMA ReviewKeeps ==
    ASSUME StackInv, Review
    PROVE  /\ StackInv' /\ LeftBehind \subseteq LeftBehind'
           /\ spend.all <= spend'.all /\ spend'.all <= Limit
<1>1. CASE \/ CiteRefuses
           \/ \E runtime \in BOOLEAN : CiteRaises(runtime)
           \/ \E runtime, moved \in BOOLEAN : ReviewRaises(runtime, moved)
           \/ \E turns, moved : \/ ReviewWaits(turns, moved) \/ ReviewErrs(turns, moved)
                                \/ Escalates(turns, moved) \/ Passes(turns, moved, TRUE)
  <2>1. PICK s, d : Leaves(s, d)
    BY <1>1, ReviewLeaves
  <2> QED
    BY <2>1, LeavesKeeps DEF Leaves, Context
<1>2. CASE \E turns, moved : AsksRevision(turns, moved) \/ Passes(turns, moved, FALSE)
  <2>1. Works(Cur)
    BY <1>2, PassesWorks
  <2> QED
    BY <2>1, WorksKeeps DEF Works, Context
<1> QED
  BY <1>1, <1>2 DEF Review

LEMMA ReviseKeeps ==
    ASSUME StackInv, Revise
    PROVE  /\ StackInv' /\ LeftBehind \subseteq LeftBehind'
           /\ spend.all <= spend'.all /\ spend'.all <= Limit
<1>1. CASE \/ Unaffordable
           \/ \E runtime \in BOOLEAN : ReviseRaises(runtime)
           \/ \E turns : ReviseErrs(turns) \/ ReviseWaits(turns)
  <2>1. PICK s, d : Leaves(s, d)
    BY <1>1, ReviseLeaves
  <2> QED
    BY <2>1, LeavesKeeps DEF Leaves, Context
<1>2. CASE \E turns : Revises(turns)
  <2>1. Works(Cur)
    BY <1>2, RevisesWorks
  <2> QED
    BY <2>1, WorksKeeps DEF Works, Context
<1> QED
  BY <1>1, <1>2 DEF Revise

LEMMA CellKeeps ==
    ASSUME StackInv, Cell
    PROVE  /\ StackInv' /\ LeftBehind \subseteq LeftBehind'
           /\ spend.all <= spend'.all /\ spend'.all <= Limit
<1>1. CASE \/ CellRefused
           \/ \E cost \in CellCosts :
                \/ CellWaits(cost)
                \/ \E state \in plan.ends : CellOfferedAgain(state, cost) \/ CellMisses(state, cost)
                \/ \E kind \in {"package", "runtime", "other"} : CellRaises(kind, cost)
  <2>1. PICK s, d : Leaves(s, d)
    BY <1>1, CellLeaves
  <2> QED
    BY <2>1, LeavesKeeps DEF Leaves, Context
<1>2. CASE \E cost \in CellCosts : BecomesLayer(cost)
  BY <1>2, LayerKeeps
<1> QED
  BY <1>1, <1>2 DEF Cell

LEMMA TailKeeps ==
    ASSUME StackInv, EndReview \/ Written \/ FinishesNothing \/ Finishes
    PROVE  /\ StackInv' /\ LeftBehind \subseteq LeftBehind'
           /\ spend.all <= spend'.all /\ spend'.all <= Limit
<1>1. spend.all \in Nat
  BY EndingPays
<1>2. CASE FinishesNothing \/ Finishes
  BY <1>1, <1>2, FinishKeeps DEF FinishesNothing, Finishes
<1>3. CASE EndReview
  <2>1. CASE \E written \in BOOLEAN : Defers(written)
    BY <1>1, <2>1, DefersKeeps DEF Defers
  <2>2. CASE StartsEndReview
    BY <1>1, <2>2, StartsKeeps DEF StartsEndReview
  <2>3. CASE \E cost \in {0, Lens} : JoinReads(cost)
    BY <2>3, JoinKeeps
  <2>4. CASE \E cost \in {0, 2 * Lens} : LayerReads(cost)
    BY <2>4, LayerReadsKeeps
  <2>5. CASE EndReviewRaises
    BY <1>1, <2>5, EndRaisesKeeps DEF EndReviewRaises
  <2>6. CASE \E found \in SUBSET plan.findings, raises \in BOOLEAN : Qualifies(found, raises)
    <3>1. PICK found \in SUBSET plan.findings, raises \in BOOLEAN : Qualifies(found, raises)
      BY <2>6
    <3>2. spend' = spend
      BY <3>1 DEF Qualifies
    <3> QED
      BY <1>1, <3>1, <3>2, QualifiesKeeps
  <2> QED
    BY <1>3, <2>1, <2>2, <2>3, <2>4, <2>5, <2>6 DEF EndReview
<1>4. CASE Written
  <2>1. CASE \E cost \in Sessions(2) : Pools(cost) \/ Halts(cost)
    BY <2>1, PoolsKeeps
  <2>2. CASE \E cost \in Sessions(2) : Mints(cost)
    BY <2>2, MintsKeeps
  <2>3. CASE WriteRaises
    BY <1>1, <2>3, WriteRaisesKeeps DEF WriteRaises
  <2>4. CASE WritingEnds
    BY <1>1, <2>4, WritingEndsKeeps DEF WritingEnds
  <2> QED
    BY <1>4, <2>1, <2>2, <2>3, <2>4 DEF Written
<1> QED
  BY <1>2, <1>3, <1>4

LEMMA OnwardKeeps ==
    ASSUME StackInv, Onward
    PROVE  /\ StackInv' /\ LeftBehind \subseteq LeftBehind'
           /\ spend.all <= spend'.all /\ spend'.all <= Limit
  BY LoopKeeps, ReviewKeeps, ReviseKeeps, CellKeeps, TailKeeps DEF Onward

(* It is running before and after, on the row it has.                      *)
LEMMA OnwardStays ==
    ASSUME Onward
    PROVE  Running /\ Running' /\ row' = row
<1>1. ASSUME NEW d, Rescans(d) PROVE pc' = "offer"
  BY <1>1 DEF Rescans
<1>2. ASSUME NEW d, NEW reason, PassEnds(d, reason) PROVE pc' \in {"finish", "ended"}
  BY <1>2 DEF PassEnds
<1>3. ASSUME NEW d, NEW s, NEW runtime, Raises(d, s, runtime) PROVE pc' = "offer"
  BY <1>3 DEF Raises, Rescans
<1>4. ASSUME NEW d, NEW s, WaitsOut(d, s) PROVE pc' \in {"offer", "finish", "ended"}
  BY <1>1, <1>2, <1>4 DEF WaitsOut
<1>5. Loop => pc = "offer" /\ pc' \in {"offer", "finish", "ended"} \union Busy /\ row' = row
  BY <1>1, <1>2, <1>3 DEF Loop, Drained, Until, OutOfBudget, Breaker, Ends, BaseGone, BaseUnasked,
       MintRaises, OpenPrRefused, Offer, Reaches, Admitted, Busy
<1>6. Review => pc = "review" /\ pc' \in {"offer", "finish", "ended"} \union Busy /\ row' = row
  BY <1>1, <1>3, <1>4 DEF Review, CiteRefuses, CiteRaises, ReviewRaises, ReviewWaits, ReviewErrs,
       Escalates, AsksRevision, Passes, Comes, Reads, Busy
<1>7. Revise => pc = "revise" /\ pc' \in {"offer", "finish", "ended"} \union Busy /\ row' = row
  BY <1>1, <1>3, <1>4 DEF Revise, Unaffordable, ReviseRaises, ReviseErrs, ReviseWaits, Revises,
       Rewritten, Revising, Busy
<1>8. Cell => pc = "cell" /\ pc' \in {"offer", "finish", "ended"} /\ row' = row
  BY <1>1, <1>3, <1>4 DEF Cell, CellRefused, BecomesLayer, CellWaits, CellOfferedAgain, CellMisses,
       CellRaises, CellReturns
<1>9. EndReview => pc \in Ending /\ pc' \in Ending \union Closing /\ row' = row
  BY DEF EndReview, Defers, StartsEndReview, JoinReads, LayerReads, EndReviewRaises, Qualifies,
       Ending, Closing
<1>10. Written => pc = "write" /\ pc' \in {"write", "offer", "finish"} /\ row' = row
  BY DEF Written, Pools, Halts, Mints, WriteRaises, WritingEnds, Writes
<1>11. FinishesNothing \/ Finishes => pc = "finish" /\ pc' = "close" /\ row' = row
  BY DEF FinishesNothing, Finishes
<1> QED
  BY <1>5, <1>6, <1>7, <1>8, <1>9, <1>10, <1>11 DEF Onward, Running, Busy, Ending, Closing
-----------------------------------------------------------------------------
(* What holds of every behaviour.                                          *)

LEMMA StepKeeps ==
    ASSUME StackInv, [Next]_vars
    PROVE  StackInv'
<1>1. CASE Onward
  BY <1>1, OnwardKeeps
<1>2. CASE OpenRow
  BY <1>2, OpenKeeps
<1>3. CASE Kill \/ NotReady
  BY <1>3, KillKeeps
<1>4. CASE Close
  BY <1>4, CloseKeeps
<1>5. CASE Interrupted
  BY <1>5, InterruptedKeeps
<1>6. CASE ResumeTail
  BY <1>6, ResumeKeeps
<1>7. CASE UNCHANGED vars
  <2>1. UNCHANGED <<plan, pc, row, drive, task, layers, spend, tail>>
    BY <1>7 DEF vars
  <2>2. /\ Ids' = Ids /\ Order' = Order /\ OverBase' = OverBase /\ Limit' = Limit
        /\ LayerSpecs' = LayerSpecs /\ WriterLeft' = WriterLeft /\ LeftBehind' = LeftBehind
        /\ \A s : Before(s)' = Before(s) /\ Deps(s)' = Deps(s)
    BY <2>1, PlanStays DEF LayerSpecs, WriterLeft, LeftBehind
  <2>3. Fresh' = Fresh /\ Running' = Running /\ Past' = Past /\ Kept' = Kept /\ Base' = Base
    BY <2>1, <2>2 DEF Fresh, Running, Past, Kept, Base
  <2>4. Shape'
    <3>1. IsDrive(drive)' /\ IsTail(tail)'
      BY <2>1, <2>2 DEF StackInv, Shape, IsDrive, IsTail
    <3>2. \A s \in Ids' : IsTask(task[s])'
      BY <2>1, <2>2 DEF StackInv, Shape, IsTask
    <3> QED
      BY <2>1, <2>2, <3>1, <3>2 DEF StackInv, Shape
  <2>5. Places'
    <3>1. {FollowUp(s) : s \in Order}' = {FollowUp(s) : s \in Order}
      BY <2>2
    <3>2. (pc = "idle" <=> row = "none")' /\ (~Running => drive = Fresh)'
          /\ (Running => (drive.resumed <=> row # "open"))'
      BY <2>1, <2>3 DEF StackInv, Places
    <3>3. /\ (drive.resumed => drive.gen = 1)'
          /\ (drive.gen = 0 =>
                 drive.started \union drive.reviewed \union drive.routed \subseteq Order)'
          /\ ((pc \in Ending /\ drive.gen = 1) => /\ drive.resumed /\ drive.started = {}
                                                  /\ drive.reviewed = {} /\ drive.routed = {})'
          /\ ((pc \in Ending \union Closing /\ ~drive.resumed) => drive.reason \in Reasons)'
      BY <2>1, <2>2 DEF StackInv, Places
    <3>4. /\ (pc \notin Busy => drive.cur = 0)'
          /\ (pc \in Busy => /\ drive.cur \in drive.started
                             /\ drive.cur \in (IF drive.gen = 0 THEN drive.remaining
                                               ELSE ToSet(drive.followUps)))'
          /\ (drive.remaining \union drive.missed \subseteq Order)'
          /\ (drive.started \subseteq Ids)'
          /\ (ToSet(drive.followUps) \subseteq {FollowUp(s) : s \in Order})'
      BY <2>1, <2>2, <3>1 DEF StackInv, Places
    <3> QED
      BY <3>2, <3>3, <3>4 DEF Places
  <2>6. ReadOnce' /\ Untouched' /\ Chained'
    <3>1. ReadOnce'
      BY <2>1, <2>2 DEF StackInv, ReadOnce
    <3>2. Untouched'
      BY <2>1, <2>2, <2>3 DEF StackInv, Untouched
    <3>3. Chained'
      BY <2>1, <2>2, <2>3 DEF StackInv, Chained
    <3> QED
      BY <3>1, <3>2, <3>3
  <2>7. Sorted' /\ Reviewed1' /\ Decided' /\ Funded'
    BY <2>1, <2>2, <2>3 DEF StackInv, Sorted, Reviewed1, Decided, Funded
  <2> QED
    BY <2>4, <2>5, <2>6, <2>7 DEF StackInv
<1> QED
  BY <1>1, <1>2, <1>3, <1>4, <1>5, <1>6, <1>7 DEF Next, Steps, Onward

(* The inductive invariant of a stack night.                               *)
THEOREM StackStands == Spec => []StackInv
<1>1. Init => StackInv
  BY InitHolds
<1>2. StackInv /\ [Next]_vars => StackInv'
  BY StepKeeps
<1> QED
  BY <1>1, <1>2, PTL DEF Spec

(* Where the layers are one chain, a cell's predecessor holds every layer, *)
(* and a spec of the order is left to run, missed or one of them, a cell   *)
(* has the code of all its own depends on.                                 *)
LEMMA ChainIs ==
    ASSUME StackInv
    PROVE  StackIsAChain
<1>1. \A i \in DOMAIN layers :
         /\ layers[i].over = (IF i > 1 THEN layers[i - 1].spec ELSE IF plan.base THEN Base ELSE -1)
         /\ task[layers[i].spec].tree = {layers[j].spec : j \in 1 .. i - 1}
                                        \union (IF plan.base THEN {Base} ELSE {})
  BY DEF StackInv, Chained, OverBase
<1>2. ASSUME pc = "cell", drive.remaining \intersect Before(Cur) = {}
      PROVE  Deps(Cur) \intersect Order \subseteq Under(drive)
  <2>1. /\ Cur \in (IF drive.gen = 0 THEN drive.remaining ELSE ToSet(drive.followUps))
        /\ Running /\ pc \in Passing /\ Cur = drive.cur
    BY <1>2, CurIs DEF Busy
  <2>2. plan \in Plans /\ drive.gen \in {0, 1}
    BY DEF StackInv, Shape, IsDrive
  <2>3. Under(drive) = LayerSpecs \union OverBase
    BY <2>1, UnderAll
  <2>4. CASE drive.gen = 0
    <3>1. /\ Cur \in drive.remaining /\ Cur \in Order
          /\ Order \subseteq drive.remaining \union drive.missed \union LayerSpecs
          /\ Deps(Cur) \intersect drive.missed = {}
      BY <1>2, <2>1, <2>4 DEF StackInv, Sorted, Places
    <3>2. \A s \in Deps(Cur) \intersect Order : s \in Before(Cur)
      BY <2>2, <3>1, DepsAreBefore
    <3> QED
      BY <1>2, <2>3, <3>1, <3>2
  <2>5. CASE drive.gen = 1
    <3>1. Cur \notin Order
      BY <1>2, <2>1, <2>5, NotPast DEF Busy
    <3>2. Deps(Cur) = {}
      BY <3>1 DEF Deps
    <3> QED
      BY <3>2
  <2> QED
    BY <2>2, <2>4, <2>5
<1> QED
  BY <1>1, <1>2 DEF StackIsAChain

(* StackIsAChain: the layers record one chain, each cell was cut over all  *)
(* of those before its own, and none runs without the code it depends on.  *)
THEOREM LayersAreOneChain == Spec => []StackIsAChain
<1>1. StackInv => StackIsAChain
  BY ChainIs
<1> QED
  BY <1>1, StackStands, PTL

LEMMA ReviewedIs ==
    ASSUME StackInv
    PROVE  RunsTheTextReviewed
  BY DEF StackInv, Reviewed1, RunsTheTextReviewed, Cur

(* RunsTheTextReviewed: a cell builds the text a review last passed.       *)
THEOREM CellRunsWhatPassed == Spec => []RunsTheTextReviewed
<1>1. StackInv => RunsTheTextReviewed
  BY ReviewedIs
<1> QED
  BY <1>1, StackStands, PTL

(* The finishing layer is all that finishes a stack.                       *)
LEMMA OnlyFinishes ==
    ASSUME StackInv, Onward, ~tail.finished, tail'.finished
    PROVE  Finishes
<1>1. DOMAIN tail = TailFields
  BY DEF StackInv, Shape, IsTail
<1>2. Loop => tail' = tail
  BY DEF Loop, Drained, Until, OutOfBudget, Breaker, Ends, BaseGone, BaseUnasked, MintRaises,
         OpenPrRefused, Offer
<1>3. Review => tail' = tail
  BY DEF Review, CiteRefuses, CiteRaises, ReviewRaises, ReviewWaits, ReviewErrs, Escalates,
         AsksRevision, Passes, Reads
<1>4. Revise => tail' = tail
  BY DEF Revise, Unaffordable, ReviseRaises, ReviseErrs, ReviseWaits, Revises, Rewritten, Revising
<1>5. Cell => tail' = tail
  BY DEF Cell, CellRefused, BecomesLayer, CellWaits, CellOfferedAgain, CellMisses, CellRaises,
         CellReturns
<1>6. EndReview => tail'.finished = tail.finished
  BY <1>1 DEF EndReview, Defers, StartsEndReview, JoinReads, LayerReads, EndReviewRaises,
              Qualifies, TailFields
<1>7. Written => tail'.finished = tail.finished
  BY <1>1 DEF Written, Pools, Halts, Mints, WriteRaises, WritingEnds, Writes, Pooled, TailFields
<1>8. FinishesNothing => tail' = tail
  BY DEF FinishesNothing
<1> QED
  BY <1>2, <1>3, <1>4, <1>5, <1>6, <1>7, <1>8 DEF Onward

(* UnreviewedIsHandedOn: the finishing layer hands on the follow-ups that  *)
(* no review decided on, and only those.                                   *)
THEOREM UndecidedAreHandedOn == Spec => UnreviewedIsHandedOn
<1>1. ASSUME StackInv, [Next]_vars
      PROVE  [~tail.finished /\ tail'.finished
                => tail'.handedOn = {f \in ToSet(drive.followUps) : ~task[f].decided}]_vars
  <2> SUFFICES ASSUME ~tail.finished, tail'.finished
               PROVE  tail'.handedOn = {f \in ToSet(drive.followUps) : ~task[f].decided}
    OBVIOUS
  <2>1. Onward
    BY <1>1 DEF Next, Steps, Onward, OpenRow, NotReady, Close, Interrupted, Kill, ResumeTail, vars
  <2>2. Finishes
    BY <1>1, <2>1, OnlyFinishes
  <2>3. tail'.handedOn = Unrun
    BY <1>1, <2>2 DEF Finishes, StackInv, Shape, IsTail, TailFields
  <2>4. \A f \in ToSet(drive.followUps) : f \in drive.routed <=> task[f].decided
    BY <1>1 DEF StackInv, Decided
  <2> QED
    BY <2>3, <2>4 DEF Unrun
<1>2. StackInv /\ [Next]_vars
        => [~tail.finished /\ tail'.finished
              => tail'.handedOn = {f \in ToSet(drive.followUps) : ~task[f].decided}]_vars
  BY <1>1
<1> QED
  BY <1>2, StackStands, PTL DEF Spec, UnreviewedIsHandedOn
-----------------------------------------------------------------------------
(* A stack night keeps the promise of every night.                         *)

LEMMA PromiseOpens ==
    ASSUME Init
    PROVE  Promise!Init
<1>1. row = "none" /\ pc = "idle" /\ spend.all = 0 /\ LeftBehind = {}
  BY InitHolds DEF Init
<1> QED
  BY <1>1 DEF Promise!Init, Status

LEMMA PromiseGoesOn ==
    ASSUME StackInv, Onward
    PROVE  Promise!Next
<1>1. /\ LeftBehind \subseteq LeftBehind' /\ Running /\ Running' /\ row' = row
      /\ spend'.all \in spend.all .. Budget + Overshoot
  <2>1. /\ StackInv' /\ LeftBehind \subseteq LeftBehind'
        /\ spend.all <= spend'.all /\ spend'.all <= Limit
    BY OnwardKeeps
  <2>2. spend.all \in Nat /\ Limit \in Int
    BY EndingPays
  <2>3. spend'.all \in Nat
    BY <2>1 DEF StackInv, Shape
  <2>4. Limit = Budget + Overshoot
    BY DEF Limit
  <2> QED
    BY <2>1, <2>2, <2>3, <2>4, OnwardStays
<1>2. Status = row /\ Status' = row'
  BY <1>1 DEF Status, Running
<1>3. row \in {"open"} \union Closed
  BY <1>1 DEF StackInv, Shape, Places, Running
<1>4. CASE row = "open"
  BY <1>1, <1>2, <1>4 DEF Promise!Next, Promise!Charge, Promise!Spends
<1>5. CASE row \in Closed
  <2>1. row \in Promise!Reasons
    BY <1>5 DEF Closed, Reasons, Promise!Reasons, Promise!Ordinary
  <2> QED
    BY <1>1, <1>2, <2>1 DEF Promise!Next, Promise!Resume, Promise!Spends
<1> QED
  BY <1>3, <1>4, <1>5

LEMMA PromiseCloses ==
    ASSUME StackInv, Close \/ Interrupted
    PROVE  Promise!Next \/ UNCHANGED <<Status, spend.all, LeftBehind>>
<1>1. PICK reason \in Reasons :
         /\ Running /\ pc' = "over" /\ spend' = spend
         /\ row' = (IF drive.resumed THEN row ELSE Promoted(reason))
  <2>1. CASE Close
    <3>1. drive.resumed \/ drive.reason \in Reasons
      BY <2>1 DEF Close, StackInv, Places, Closing
    <3>2. CASE drive.reason \in Reasons
      BY <2>1, <3>2 DEF Close, Exits, Running
    <3>3. CASE drive.resumed
      BY <2>1, <3>3 DEF Close, Exits, Running, Reasons
    <3> QED
      BY <3>1, <3>2, <3>3
  <2>2. CASE Interrupted
    BY <2>2 DEF Interrupted, Exits, Reasons
  <2> QED
    BY <2>1, <2>2
<1>2. LeftBehind' = LeftBehind
  BY CloseKeeps, InterruptedKeeps
<1>3. drive.resumed <=> row # "open"
  BY <1>1 DEF StackInv, Places
<1>4. Status = row
  BY <1>1 DEF Status, Running
<1>5. CASE drive.resumed
  BY <1>1, <1>2, <1>3, <1>4, <1>5 DEF Status
<1>6. CASE ~drive.resumed
  <2>1. row = "open" /\ row' = Promoted(reason) /\ row' \in Closed
    BY <1>1, <1>3, <1>6, PromotedIs
  <2>2. Status' = row' /\ row' \in Promise!Reasons
    BY <2>1 DEF Status, Closed, Reasons, Promise!Reasons, Promise!Ordinary
  <2>3. row' \in Promise!Ordinary => LeftBehind = {}
    <3>1. row' \in Promise!Ordinary => drive.inFlight = {} /\ drive.unpackaged = {}
      BY <2>1, PromotedIs DEF Promise!Ordinary
    <3>2. LeftBehind \subseteq drive.inFlight \union drive.unpackaged
      BY <1>1, <2>1 DEF StackInv, Untouched
    <3> QED
      BY <3>1, <3>2
  <2> QED
    BY <1>1, <1>2, <1>4, <2>1, <2>2, <2>3
       DEF Promise!Next, Promise!End, Promise!Spends
<1> QED
  BY <1>5, <1>6

LEMMA PromiseSteps ==
    ASSUME StackInv, [Next]_vars
    PROVE  [Promise!Next]_<<Status, spend.all, LeftBehind>>
<1>1. CASE Onward
  BY <1>1, PromiseGoesOn
<1>2. CASE OpenRow
  <2>1. /\ pc = "idle" /\ row = "none" /\ row' = "open" /\ pc' = "offer"
        /\ spend'.all = 0 /\ LeftBehind' = {}
    BY <1>2, OpenKeeps DEF OpenRow, StackInv, Places
  <2>2. Status = "none" /\ Status' = "open"
    BY <2>1 DEF Status
  <2> QED
    BY <2>1, <2>2 DEF Promise!Next, Promise!Open
<1>3. CASE NotReady
  <2>1. /\ pc = "idle" /\ row = "none" /\ row' = "INFRASTRUCTURE" /\ spend' = spend
        /\ LeftBehind' = LeftBehind /\ LeftBehind = {} /\ spend.all = 0
    BY <1>3, KillKeeps DEF NotReady, StackInv, Places, Untouched
  <2>2. Status = "none" /\ Status' = "INFRASTRUCTURE"
    BY <2>1 DEF Status
  <2> QED
    BY <2>1, <2>2 DEF Promise!Next, Promise!Open
<1>4. CASE Kill
  <2>1. /\ Running /\ pc' = "over" /\ row' = row /\ spend' = spend /\ LeftBehind' = LeftBehind
    BY <1>4, KillKeeps DEF Kill
  <2>2. CASE row = "open"
    <3>1. Status = "open" /\ Status' = "killed"
      BY <2>1, <2>2 DEF Status, Running
    <3> QED
      BY <2>1, <3>1 DEF Promise!Next, Promise!Killed, Promise!Spends
  <2>3. CASE row # "open"
    BY <2>1, <2>3 DEF Status
  <2> QED
    BY <2>2, <2>3
<1>5. CASE Close \/ Interrupted
  BY <1>5, PromiseCloses
<1>6. CASE ResumeTail
  <2>1. row # "open" /\ row' = row /\ spend' = spend /\ LeftBehind' = LeftBehind
    BY <1>6, ResumeKeeps DEF ResumeTail
  <2> QED
    BY <2>1 DEF Status
<1>7. CASE UNCHANGED vars
  BY <1>7 DEF vars, Status, LeftBehind, InFlight, Ids, Order
<1> QED
  BY <1>1, <1>2, <1>3, <1>4, <1>5, <1>6, <1>7 DEF Next, Steps, Onward

(* KeepsItsPromise: a stack night implements Batch.  It spends no more     *)
(* than the budget and one overshoot, on one row that closes once, and for *)
(* an ordinary reason only with nothing in flight or unpackaged.           *)
THEOREM StackNightIsABatch == Spec => KeepsItsPromise
<1>1. Init => Promise!Init
  BY PromiseOpens
<1>2. StackInv /\ [Next]_vars => [Promise!Next]_<<Status, spend.all, LeftBehind>>
  BY PromiseSteps
<1> QED
  BY <1>1, <1>2, StackStands, PTL DEF Spec, KeepsItsPromise, Promise!Spec, Promise!vars
=============================================================================
