------------------------- MODULE CellSessionProofs -------------------------
(***************************************************************************)
(* What CellSession's own TLC runs show on small ceilings, for every value *)
(* of the constants: the variables keep their types, and the spend a cell  *)
(* reports is its attempt rows'.  Both rest on one inductive invariant,    *)
(* because the rate-limited read-back is a natural number only if the      *)
(* tally and the rows agree.                                               *)
(***************************************************************************)
EXTENDS CellSession, TLAPS

(* Before the repair loop no suite has run; inside it one more is allowed, *)
(* and what follows it has an outcome to write.                            *)
LoopInv ==
    /\ pc \in {"cellUp", "baseline", "plan", "replan", "planned", "implement", "salvage",
               "empty"} => suites = 0
    /\ pc \in {"gate", "repair"} => suites < MaxAttempts
    /\ pc \in {"notes", "afterLoop", "settle", "finish"} => outcome # "none"

(* Where cost can be outside the tally: a phase's frame, and REBUT's pool. *)
FramePoints ==
    {"replan", "planned", "review", "reviewed", "abort", "orphan", "teardown", "done"}

PoolPoints ==
    { "rebuttal", "extract", "rebutMeasure", "rebutGates", "rebutRepair",
      "rebutGatesAgain", "verdictCell", "verdict", "verdictsIn",
      "abort", "orphan", "teardown", "done" }

(* Every booked dollar is in the tally, in the frame or in the pool. *)
TallyInv ==
    /\ booked = start + spent + frame + pool.spent
    /\ pc \in {"cellUp", "baseline", "plan", "replan", "planned"} => spent = 0
    /\ pc \notin FramePoints => frame = 0
    /\ pc \notin PoolPoints => pool.spent = 0
    /\ Returned => pc \in {"teardown", "done"} /\ result.spent = booked - start

BookInv == TypeOK /\ LoopInv /\ TallyInv
-----------------------------------------------------------------------------
(* A turn costs a natural number, whatever it is capped at. *)
LEMMA CostsAreNatural ==
    ASSUME MoneyOK, NEW f \in BOOLEAN, NEW c \in Costs(f)
    PROVE  c \in Nat
<1>1. TurnCap \in Int
  BY MoneyAssumption DEF MoneyOK, PoolRecords, TurnCap, CriticBudget, Larger,
     PoolRemaining
<1>2. Carried \subseteq Nat
  BY DEF MoneyOK, PoolRecords, Carried
<1> QED
  BY <1>1, <1>2, MoneyAssumption DEF Costs

(* A REBUT stage's pool is a pool. *)
LEMMA OpenedIsPool ==
    ASSUME NEW p \in PoolRecords, NEW r \in Nat
    PROVE  /\ Opened(p, r) \in PoolRecords
           /\ Opened(p, r).spent = p.spent
  BY DEF Opened, Larger, PoolRecords

(* And so is what a turn leaves of one. *)
LEMMA DrawnIsPool ==
    ASSUME MoneyOK, NEW c \in Nat, NEW f \in BOOLEAN
    PROVE  /\ Drawn(c, f) \in PoolRecords
           /\ Drawn(c, f).spent = pool.spent + c
<1>1. pool.limit \in Nat /\ pool.spent \in Nat /\ pool.cut \in BOOLEAN
  BY DEF MoneyOK, PoolRecords
<1> DEFINE isCut == IF f /\ pool.spent + c >= pool.limit THEN TRUE ELSE pool.cut
<1>2. isCut \in BOOLEAN
  BY <1>1
<1>3. Drawn(c, f) = [limit |-> pool.limit, spent |-> pool.spent + c, cut |-> isCut]
  BY DEF Drawn
<1> HIDE DEF isCut
<1>4. pool.spent + c \in Nat
  BY <1>1
<1> QED
  BY <1>1, <1>2, <1>3, <1>4 DEF PoolRecords

(* An empty pool is one. *)
LEMMA NoPoolIsPool == NoPool \in PoolRecords /\ NoPool.spent = 0
  BY DEF NoPool, PoolRecords

(* Going on to a point, or settling a state, keeps the types of both. *)
LEMMA ProceedTypes ==
    ASSUME EndOK, NEW p \in Points, Proceed(p)
    PROVE  PlaceOK' /\ EndOK'
  BY DEF EndOK, PlaceOK, Proceed, GoTo, endVars

(* So does settling the state a return of `_drive_cell` hands back. *)
LEMMA SettleTypes ==
    ASSUME EndOK, NEW s \in Outcomes, Settle(s)
    PROVE  PlaceOK' /\ EndOK'
  BY DEF EndOK, PlaceOK, Settle, Points

(* What a turn and a checkpoint do to the worktree keeps its types. *)
LEMMA WorkTypes == TreeOK /\ Work => TreeOK'
  BY WorkAssumption DEF TreeOK, Work

(* A checkpoint moves HEAD by nothing or by one commit, over any HEAD. *)
LEMMA CheckpointTypes ==
    ASSUME TreeOK, NEW h \in Nat, Checkpoint(h)
    PROVE  TreeOK'
<1>1. head' \in {h, h + 1}
  BY DEF Checkpoint
<1>2. dirty' \in BOOLEAN /\ refused' \in BOOLEAN
  BY Zenon DEF TreeOK, Checkpoint
<1>3. UNCHANGED <<planned, judged, green, exported>>
  BY DEF Checkpoint
<1> QED
  BY <1>1, <1>2, <1>3 DEF TreeOK

(* A failed turn's work, committed or checkpointed, is a worktree still. *)
LEMMA WorkCheckpointedTypes == TreeOK /\ WorkCheckpointed => TreeOK'
<1> SUFFICES ASSUME TreeOK, WorkCheckpointed PROVE TreeOK'
  OBVIOUS
<1>1. PICK n \in TurnCommits : Checkpoint(head + n)
  BY DEF WorkCheckpointed
<1>2. head + n \in Nat
  BY WorkAssumption DEF TreeOK
<1> QED
  BY <1>1, <1>2, CheckpointTypes

(* A suite that finds nothing red names the HEAD it ran over. *)
LEMMA SuiteTypes ==
    ASSUME TreeOK, NEW r, SuiteFinds(r)
    PROVE  green' \in Nat \union {-1}
  BY DEF TreeOK, SuiteFinds

(* A charged turn keeps the money's types. *)
LEMMA ChargeTypes ==
    ASSUME MoneyOK, NEW c \in Nat, Charge(c)
    PROVE  MoneyOK'
  BY DEF MoneyOK, Charge, Book

(* An implementer turn, failed or not, keeps the money's and the tree's types. *)
LEMMA TurnTypes ==
    ASSUME MoneyOK, TreeOK, ImplementerTurn
    PROVE  MoneyOK' /\ TreeOK'
<1>1. PICK failed \in BOOLEAN : \E c \in Costs(failed) :
           Charge(c) /\ IF failed THEN WorkCheckpointed ELSE Work
  BY DEF ImplementerTurn
<1>2. PICK c \in Costs(failed) : Charge(c)
  BY <1>1
<1>3. TreeOK'
  BY <1>1, WorkTypes, WorkCheckpointedTypes
<1> QED
  BY <1>2, <1>3, CostsAreNatural, ChargeTypes

(* How REBUT ends keeps every type it touches. *)
RebutRest == UNCHANGED <<start, booked, frame, last, held>>

(* Every end folds REBUT's pool into the tally and settles a state. *)
LEMMA EndRebutTypes ==
    ASSUME MoneyOK, EndOK, RebutRest, NEW s \in Outcomes, EndRebut(s)
    PROVE  MoneyOK' /\ PlaceOK' /\ EndOK'
<1>1. MoneyOK'
  <2>1. spent' \in Nat /\ pool' \in PoolRecords
    BY NoPoolIsPool DEF MoneyOK, PoolRecords, EndRebut
  <2> QED
    BY <2>1 DEF MoneyOK, RebutRest
<1>2. PICK t \in Outcomes : Settle(t)
  BY DEF EndRebut, Outcomes, EndStates
<1> QED
  BY <1>1, <1>2, SettleTypes

(* What REBUT does between two of its stages touches no type. *)
LEMMA OnwardTypes ==
    ASSUME MoneyOK, EndOK, RebutRest, NEW p \in Points, Onward(p)
    PROVE  MoneyOK' /\ PlaceOK' /\ EndOK'
  BY ProceedTypes DEF MoneyOK, RebutRest, Onward

(* A suite in REBUT either ends it or sends it on to the verdict. *)
LEMMA GatesEndTypes ==
    ASSUME MoneyOK, EndOK, RebutRest, NEW r, NEW i, GatesEnd(r, i)
    PROVE  MoneyOK' /\ PlaceOK' /\ EndOK'
<1>1. "GATE_ERROR" \in Outcomes /\ "EXHAUSTED" \in Outcomes /\ "verdictCell" \in Points
  BY DEF Outcomes, EndStates, Points, HostPoints
<1> QED
  BY <1>1, EndRebutTypes, OnwardTypes DEF GatesEnd

(* The hold for a salvage turn is money still unspent. *)
LEMMA HeldTypes == ASSUME NEW t \in Nat, t < Budget PROVE HeldForSalvage(t) \in Nat
  BY MoneyAssumption DEF HeldForSalvage, Smaller
-----------------------------------------------------------------------------
(***************************************************************************)
(* Types.  A step keeps them, given that the rows and the tally agree: what *)
(* RateLimited reads back would otherwise be negative for all TypeOK knows. *)
(***************************************************************************)
LEMMA TypeStep == BookInv /\ [Next]_vars => TypeOK'
<1> SUFFICES ASSUME BookInv, [Next]_vars PROVE TypeOK'
  OBVIOUS
<1>0. /\ TypeOK /\ LoopInv /\ TallyInv
      /\ PlaceOK /\ LedgerOK /\ MoneyOK /\ TreeOK /\ LoopOK /\ CriticOK /\ EndOK
  BY DEF BookInv, TypeOK
<1>u. /\ UNCHANGED ledgerVars => LedgerOK'
      /\ UNCHANGED moneyVars => MoneyOK'
      /\ UNCHANGED treeVars => TreeOK'
      /\ UNCHANGED loopVars => LoopOK'
      /\ UNCHANGED criticVars => CriticOK'
      /\ UNCHANGED <<row, run, preflight>> => LedgerOK'
  BY <1>0 DEF ledgerVars, moneyVars, treeVars, loopVars, criticVars, LedgerOK,
     MoneyOK, TreeOK, LoopOK, CriticOK
<1>1. CASE CellUp
  <2>1. PlaceOK' /\ EndOK'
    BY <1>0, <1>1, ProceedTypes DEF CellUp, EndOK, PlaceOK, Points, TurnPoints,
       HostPoints, Outcomes, EndStates
  <2>2. LedgerOK'
    BY <1>0, <1>1 DEF CellUp, LedgerOK, Proceed
  <2> QED
    BY <1>u, <1>1, <2>1, <2>2 DEF TypeOK, CellUp
<1>2. CASE Baseline
  <2>1. PlaceOK' /\ EndOK'
    BY <1>0, <1>2, ProceedTypes, SettleTypes DEF Baseline, Points, TurnPoints,
       HostPoints, Outcomes, EndStates
  <2>2. LedgerOK'
    BY <1>0, <1>2 DEF Baseline, LedgerOK, LiveStates
  <2> QED
    BY <1>u, <1>2, <2>1, <2>2 DEF TypeOK, Baseline
<1>3. CASE PlanCheckpoint
  <2>1. PlaceOK' /\ EndOK'
    BY <1>0, <1>3, ProceedTypes, SettleTypes DEF PlanCheckpoint, PlanEnds, Points,
       TurnPoints, HostPoints, Outcomes, EndStates
  <2>2. TreeOK'
    BY <1>0, <1>3, WorkTypes DEF PlanCheckpoint
  <2>3. MoneyOK'
    <3>1. PICK f \in BOOLEAN : \E c \in Costs(f) :
             /\ Book(c)
             /\ \/ frame' = frame + c /\ last' = c /\ UNCHANGED spent
                \/ spent' = frame + c /\ frame' = 0 /\ UNCHANGED last
      <4>1. CASE \E c \in Costs(FALSE) :
                   Book(c) /\ frame' = frame + c /\ last' = c /\ UNCHANGED spent
        BY <4>1
      <4>2. CASE \E s \in PlanEnds : \E c \in Costs(PlanFailed(s)) :
                   Book(c) /\ spent' = frame + c /\ frame' = 0 /\ UNCHANGED last
        <5>1. \A s : PlanFailed(s) \in BOOLEAN
          BY DEF PlanFailed
        <5> QED
          BY <4>2, <5>1
      <4> QED
        BY <1>3, <4>1, <4>2 DEF PlanCheckpoint
    <3>2. UNCHANGED <<held, pool>>
      BY <1>3 DEF PlanCheckpoint
    <3> QED
      BY <1>0, <3>1, <3>2, CostsAreNatural DEF MoneyOK, Book
  <2> QED
    BY <1>u, <1>3, <2>1, <2>2, <2>3 DEF TypeOK, PlanCheckpoint
<1>4. CASE Planned
  <2>1. PlaceOK' /\ EndOK'
    BY <1>0, <1>4, ProceedTypes, SettleTypes DEF Planned, Points, TurnPoints,
       HostPoints, Outcomes, EndStates
  <2>2. TreeOK'
    BY <1>0, <1>4 DEF Planned, TreeOK
  <2>3. MoneyOK'
    <3>1. CASE frame >= Budget
      BY <1>0, <1>4, <3>1 DEF Planned, MoneyOK
    <3>2. CASE ~(frame >= Budget)
      <4>1. HeldForSalvage(frame) \in Nat
        BY <1>0, <3>2, HeldTypes, MoneyAssumption DEF MoneyOK
      <4> QED
        BY <1>0, <1>4, <3>2, <4>1 DEF Planned, MoneyOK
    <3> QED
      BY <3>1, <3>2
  <2> QED
    BY <1>u, <1>4, <2>1, <2>2, <2>3 DEF TypeOK, Planned
<1>5. CASE Implement
  <2>1. PlaceOK' /\ EndOK'
    BY <1>0, <1>5, ProceedTypes DEF Implement, Points, TurnPoints, HostPoints
  <2>2. TreeOK'
    BY <1>0, <1>5, WorkTypes, CheckpointTypes DEF Implement, TreeOK
  <2>3. MoneyOK'
    BY <1>0, <1>5, CostsAreNatural, ChargeTypes DEF Implement
  <2>4. LoopOK'
    BY <1>0, <1>5 DEF Implement, LoopOK
  <2> QED
    BY <1>u, <1>5, <2>1, <2>2, <2>3, <2>4 DEF TypeOK, Implement
<1>6. CASE Salvage
  <2>1. PlaceOK' /\ EndOK'
    BY <1>0, <1>6, ProceedTypes DEF Salvage, Points, TurnPoints, HostPoints
  <2>2. TreeOK'
    BY <1>0, <1>6, WorkCheckpointedTypes DEF Salvage
  <2>3. MoneyOK'
    BY <1>0, <1>6, CostsAreNatural DEF Salvage, MoneyOK, Book
  <2> QED
    BY <1>u, <1>6, <2>1, <2>2, <2>3 DEF TypeOK, Salvage
<1>7. CASE Empty
  <2>1. PlaceOK' /\ EndOK'
    BY <1>0, <1>7, SettleTypes DEF Empty, Outcomes, EndStates
  <2> QED
    BY <1>u, <1>7, <2>1 DEF TypeOK, Empty
<1>8. CASE Gate
  <2>1. PlaceOK' /\ EndOK'
    BY <1>0, <1>8, ProceedTypes DEF Gate, EndOK, PlaceOK, LoopEnds, GoTo, Decision,
       Points, TurnPoints, HostPoints, Outcomes, EndStates
  <2>2. LedgerOK'
    BY <1>0, <1>8 DEF Gate, LedgerOK, LiveStates, LoopEnds
  <2>3. TreeOK'
    BY <1>0, <1>8, SuiteTypes DEF Gate, TreeOK
  <2>4. LoopOK'
    BY <1>0, <1>8, CountAssumption DEF Gate, LoopOK, LoopInv
  <2> QED
    BY <1>u, <1>8, <2>1, <2>2, <2>3, <2>4 DEF TypeOK, Gate
<1>9. CASE Repair
  <2>1. PlaceOK' /\ EndOK'
    BY <1>0, <1>9, ProceedTypes DEF Repair, Points, TurnPoints, HostPoints
  <2>2. MoneyOK' /\ TreeOK'
    BY <1>0, <1>9, TurnTypes DEF Repair
  <2> QED
    BY <1>u, <1>9, <2>1, <2>2 DEF TypeOK, Repair
<1>10. CASE Notes
  <2>1. PlaceOK' /\ EndOK'
    BY <1>0, <1>10, ProceedTypes DEF Notes, Points, TurnPoints, HostPoints
  <2>2. MoneyOK' /\ TreeOK'
    <3>1. CASE UNCHANGED <<moneyVars, treeVars>>
      BY <1>u, <3>1
    <3>2. CASE \E failed \in BOOLEAN : \E c \in Costs(failed) : Charge(c) /\ Work
      BY <1>0, <3>2, CostsAreNatural, ChargeTypes, WorkTypes
    <3> QED
      BY <1>10, <3>1, <3>2 DEF Notes
  <2> QED
    BY <1>u, <1>10, <2>1, <2>2 DEF TypeOK, Notes
<1>11. CASE AfterLoop
  <2>1. PlaceOK' /\ EndOK'
    BY <1>0, <1>11, ProceedTypes, SettleTypes DEF AfterLoop, EndOK, Points, TurnPoints,
       HostPoints
  <2>2. LedgerOK'
    BY <1>0, <1>11 DEF AfterLoop, LedgerOK, LiveStates, Settle
  <2> QED
    BY <1>u, <1>11, <2>1, <2>2 DEF TypeOK, AfterLoop
<1>12. CASE GateCell
  <2>1. PlaceOK' /\ EndOK'
    BY <1>0, <1>12, ProceedTypes, SettleTypes DEF GateCell, PatchRefused, Points,
       TurnPoints, HostPoints, Outcomes, EndStates
  <2> QED
    BY <1>u, <1>12, <2>1 DEF TypeOK, GateCell
<1>13. CASE CriticCell
  <2>1. PlaceOK' /\ EndOK'
    BY <1>0, <1>13, ProceedTypes, SettleTypes DEF CriticCell, PatchRefused, Points,
       TurnPoints, HostPoints, Outcomes, EndStates
  <2>2. TreeOK'
    BY <1>0, <1>13 DEF CriticCell, TreeOK
  <2> QED
    BY <1>u, <1>13, <2>1, <2>2 DEF TypeOK, CriticCell
<1>14. CASE ReviewSession
  <2>1. PlaceOK' /\ EndOK'
    BY <1>0, <1>14, ProceedTypes DEF ReviewSession, Points, TurnPoints, HostPoints
  <2>2. MoneyOK'
    <3>1. PICK c \in Costs(FALSE) : Book(c) /\ frame' = frame + c
      BY <1>14 DEF ReviewSession
    <3>2. c \in Nat
      BY <1>0, <3>1, CostsAreNatural
    <3>3. UNCHANGED <<spent, last, held, pool>>
      BY <1>14 DEF ReviewSession
    <3> QED
      BY <1>0, <3>1, <3>2, <3>3 DEF MoneyOK, Book
  <2>3. CriticOK'
    BY <1>0, <1>14 DEF ReviewSession, CriticOK
  <2> QED
    BY <1>u, <1>14, <2>1, <2>2, <2>3 DEF TypeOK, ReviewSession
<1>15. CASE Reviewed
  <2>1. PlaceOK' /\ EndOK'
    BY <1>0, <1>15, ProceedTypes, SettleTypes DEF Reviewed, Points, TurnPoints,
       HostPoints, Outcomes, EndStates
  <2>2. MoneyOK'
    BY <1>0, <1>15 DEF Reviewed, MoneyOK
  <2> QED
    BY <1>u, <1>15, <2>1, <2>2 DEF TypeOK, Reviewed
<1>16. CASE RebutStart
  <2>1. PlaceOK' /\ EndOK'
    BY <1>0, <1>16, ProceedTypes DEF RebutStart, Points, TurnPoints, HostPoints
  <2>2. LedgerOK'
    BY <1>0, <1>16 DEF RebutStart, LedgerOK, LiveStates
  <2>3. MoneyOK'
    BY <1>0, <1>16, MoneyAssumption DEF RebutStart, MoneyOK, PoolRecords
  <2>4. CriticOK'
    BY <1>0, <1>16 DEF RebutStart, CriticOK, TreeOK
  <2> QED
    BY <1>u, <1>16, <2>1, <2>2, <2>3, <2>4 DEF TypeOK, RebutStart
<1>17. CASE Rebuttal
  <2>1. PlaceOK' /\ EndOK'
    BY <1>0, <1>17, ProceedTypes DEF Rebuttal, Points, TurnPoints, HostPoints
  <2>2. TreeOK'
    BY <1>0, <1>17, WorkTypes DEF Rebuttal
  <2>3. MoneyOK'
    <3>1. PICK f \in BOOLEAN : \E c \in Costs(f) :
             /\ Book(c)
             /\ pool' \in {Drawn(c, TRUE), Opened(Drawn(c, FALSE), Extraction)}
      BY <1>17 DEF Rebuttal
    <3>2. PICK c \in Costs(f) :
             /\ Book(c)
             /\ pool' \in {Drawn(c, TRUE), Opened(Drawn(c, FALSE), Extraction)}
      BY <3>1
    <3>3. c \in Nat
      BY <1>0, CostsAreNatural
    <3>4. pool' \in PoolRecords
      BY <1>0, <3>2, <3>3, DrawnIsPool, OpenedIsPool, MoneyAssumption
    <3>5. UNCHANGED <<spent, frame, last, held>>
      BY <1>17 DEF Rebuttal
    <3> QED
      BY <1>0, <3>2, <3>3, <3>4, <3>5 DEF MoneyOK, Book
  <2> QED
    BY <1>u, <1>17, <2>1, <2>2, <2>3 DEF TypeOK, Rebuttal
<1>18. CASE Extract
  <2>1. PlaceOK' /\ EndOK'
    BY <1>0, <1>18, ProceedTypes DEF Extract, Points, TurnPoints, HostPoints
  <2>2. TreeOK'
    BY <1>0, <1>18, WorkTypes DEF Extract
  <2>3. MoneyOK'
    BY <1>0, <1>18, CostsAreNatural, DrawnIsPool DEF Extract, MoneyOK, Book
  <2>4. CriticOK'
    BY <1>0, <1>18 DEF Extract, CriticOK
  <2> QED
    BY <1>u, <1>18, <2>1, <2>2, <2>3, <2>4 DEF TypeOK, Extract
<1>19. CASE RebutMeasure
  <2>1. MoneyOK' /\ PlaceOK' /\ EndOK'
    BY <1>0, <1>19, EndRebutTypes, OnwardTypes DEF RebutMeasure, RebutRest, Points,
       TurnPoints, HostPoints, Outcomes, EndStates
  <2> QED
    BY <1>u, <1>19, <2>1 DEF TypeOK, RebutMeasure
<1>20. CASE RebutGates
  <2>1. MoneyOK' /\ PlaceOK' /\ EndOK'
    BY <1>0, <1>20, EndRebutTypes, OnwardTypes, GatesEndTypes DEF RebutGates, RebutRest,
       Points, TurnPoints, HostPoints, Outcomes, EndStates
  <2>2. TreeOK'
    BY <1>0, <1>20, SuiteTypes DEF RebutGates, TreeOK
  <2>3. CriticOK'
    BY <1>0, <1>20 DEF RebutGates, CriticOK
  <2> QED
    BY <1>u, <1>20, <2>1, <2>2, <2>3 DEF TypeOK, RebutGates
<1>21. CASE RebutRepair
  <2>1. PlaceOK' /\ EndOK'
    BY <1>0, <1>21, ProceedTypes DEF RebutRepair, Points, TurnPoints, HostPoints
  <2>2. MoneyOK' /\ TreeOK'
    BY <1>0, <1>21, TurnTypes DEF RebutRepair
  <2> QED
    BY <1>u, <1>21, <2>1, <2>2 DEF TypeOK, RebutRepair
<1>22. CASE RebutGatesAgain
  <2>1. MoneyOK' /\ PlaceOK' /\ EndOK'
    BY <1>0, <1>22, GatesEndTypes DEF RebutGatesAgain, RebutRest
  <2>2. TreeOK'
    BY <1>0, <1>22, SuiteTypes DEF RebutGatesAgain, TreeOK
  <2> QED
    BY <1>u, <1>22, <2>1, <2>2 DEF TypeOK, RebutGatesAgain
<1>23. CASE VerdictCell
  <2>1. PlaceOK' /\ EndOK'
    BY <1>0, <1>23, EndRebutTypes, ProceedTypes DEF VerdictCell, RebutRest, Points,
       TurnPoints, HostPoints, Outcomes, EndStates
  <2>2. MoneyOK'
    BY <1>0, <1>23, EndRebutTypes, OpenedIsPool, MoneyAssumption DEF VerdictCell,
       RebutRest, MoneyOK, Outcomes, EndStates
  <2>3. TreeOK'
    BY <1>0, <1>23 DEF VerdictCell, TreeOK
  <2> QED
    BY <1>u, <1>23, <2>1, <2>2, <2>3 DEF TypeOK, VerdictCell
<1>24. CASE VerdictSession
  <2>1. PlaceOK' /\ EndOK'
    BY <1>0, <1>24, ProceedTypes DEF VerdictSession, Points, TurnPoints, HostPoints
  <2>2. MoneyOK'
    <3>1. UNCHANGED <<spent, frame, last, held>>
      BY <1>24 DEF VerdictSession
    <3>2. CASE /\ UNCHANGED <<start, booked>>
               /\ pool' = [limit |-> pool.limit, spent |-> pool.spent, cut |-> TRUE]
      <4>1. pool' \in PoolRecords
        BY <1>0, <3>2 DEF MoneyOK, PoolRecords
      <4> QED
        BY <1>0, <3>1, <3>2, <4>1 DEF MoneyOK
    <3>3. CASE \E c \in Costs(FALSE) : \E f \in BOOLEAN : Book(c) /\ pool' = Drawn(c, f)
      <4>1. PICK c \in Costs(FALSE) : \E f \in BOOLEAN : Book(c) /\ pool' = Drawn(c, f)
        BY <3>3
      <4>2. c \in Nat
        BY <1>0, CostsAreNatural
      <4>3. pool' \in PoolRecords
        BY <1>0, <4>1, <4>2, DrawnIsPool
      <4> QED
        BY <1>0, <3>1, <4>1, <4>2, <4>3 DEF MoneyOK, Book
    <3>4. \A how : (how \in {"failed", "unstarted"}) \in BOOLEAN
      OBVIOUS
    <3> QED
      BY <1>24, <3>2, <3>3, <3>4, Zenon DEF VerdictSession
  <2>3. CriticOK'
    <3>1. sessions' \in Nat
      BY <1>0, <1>24 DEF VerdictSession, CriticOK
    <3>2. errored' \in BOOLEAN /\ unstarted' \in BOOLEAN
      BY <1>0, <1>24, Zenon DEF VerdictSession, CriticOK
    <3>3. UNCHANGED <<argued, probeInfra, before>>
      BY <1>24 DEF VerdictSession
    <3> QED
      BY <1>0, <3>1, <3>2, <3>3 DEF CriticOK
  <2> QED
    BY <1>u, <1>24, <2>1, <2>2, <2>3 DEF TypeOK, VerdictSession
<1>25. CASE VerdictsIn
  <2>1. MoneyOK' /\ PlaceOK' /\ EndOK'
    BY <1>0, <1>25, EndRebutTypes DEF VerdictsIn, RebutRest, Outcomes, EndStates
  <2> QED
    BY <1>u, <1>25, <2>1 DEF TypeOK, VerdictsIn
<1>26. CASE WriteRow
  <2>1. PlaceOK' /\ EndOK'
    BY <1>0, <1>26, ProceedTypes DEF WriteRow, Points, TurnPoints, HostPoints
  <2>2. LedgerOK'
    BY <1>0, <1>26 DEF WriteRow, LedgerOK, LoopInv, Outcomes, EndOK
  <2> QED
    BY <1>u, <1>26, <2>1, <2>2 DEF TypeOK, WriteRow
<1>27. CASE FinishRun
  <2>1. PlaceOK' /\ EndOK'
    BY <1>0, <1>27 DEF FinishRun, EndOK, PlaceOK, MoneyOK, Results, GoTo, Points,
       TurnPoints, HostPoints
  <2>2. LedgerOK'
    BY <1>0, <1>27 DEF FinishRun, LedgerOK
  <2> QED
    BY <1>u, <1>27, <2>1, <2>2 DEF TypeOK, FinishRun
<1>28. CASE RateLimited
  <2>1. PlaceOK' /\ EndOK'
    BY <1>0, <1>28 DEF RateLimited, EndOK, PlaceOK, Points, TurnPoints, HostPoints,
       Outcomes, EndStates
  <2>2. TreeOK'
    <3>1. UNCHANGED treeVars \/ Work
      BY <1>28 DEF RateLimited
    <3> QED
      BY <1>0, <1>u, <3>1, WorkTypes
  <2>3. MoneyOK'
    <3>1. PICK c \in Costs(TRUE) : Book(c) /\ spent' = (booked + c) - start
      BY <1>28 DEF RateLimited, ReadBack
    <3>2. c \in Nat
      BY <1>0, CostsAreNatural
    <3>3. spent' \in Nat
      BY <1>0, <3>1, <3>2 DEF TallyInv, MoneyOK, PoolRecords
    <3>4. frame' = 0 /\ pool' \in PoolRecords /\ UNCHANGED <<last, held>>
      BY <1>28, NoPoolIsPool DEF RateLimited
    <3> QED
      BY <1>0, <3>1, <3>2, <3>3, <3>4 DEF MoneyOK, Book
  <2> QED
    BY <1>u, <1>28, <2>1, <2>2, <2>3 DEF TypeOK, RateLimited
<1>29. CASE AbortRun
  <2>1. PlaceOK' /\ EndOK'
    BY <1>0, <1>29, ProceedTypes DEF AbortRun, Points, TurnPoints, HostPoints
  <2>2. LedgerOK'
    BY <1>0, <1>29 DEF AbortRun, LedgerOK
  <2> QED
    BY <1>u, <1>29, <2>1, <2>2 DEF TypeOK, AbortRun
<1>30. CASE Orphan
  <2>1. PlaceOK' /\ EndOK'
    BY <1>0, <1>30 DEF Orphan, EndOK, PlaceOK, Raised, GoTo, Results, Outcomes, Points,
       TurnPoints, HostPoints
  <2>2. LedgerOK'
    BY <1>0, <1>30 DEF Orphan, LedgerOK, EndStates
  <2> QED
    BY <1>u, <1>30, <2>1, <2>2 DEF TypeOK, Orphan
<1>31. CASE Teardown
  <2>1. PlaceOK' /\ EndOK'
    BY <1>0, <1>31, ProceedTypes DEF Teardown, Points, TurnPoints, HostPoints
  <2>2. TreeOK'
    BY <1>0, <1>31 DEF Teardown, TreeOK
  <2> QED
    BY <1>u, <1>31, <2>1, <2>2 DEF TypeOK, Teardown
<1>32. CASE Abort
  <2>1. PlaceOK' /\ EndOK'
    BY <1>0, <1>32 DEF Abort, EndOK, PlaceOK, GoTo, endVars, Points, TurnPoints,
       HostPoints
  <2> QED
    BY <1>u, <1>32, <2>1 DEF TypeOK, Abort
<1>33. CASE HandlerRaises
  <2>1. PlaceOK' /\ EndOK'
    BY <1>0, <1>33 DEF HandlerRaises, EndOK, PlaceOK, Raised, GoTo, Results, Outcomes,
       Points, TurnPoints, HostPoints
  <2> QED
    BY <1>u, <1>33, <2>1 DEF TypeOK, HandlerRaises
<1>34. CASE Finished \/ UNCHANGED vars
  BY <1>0, <1>u, <1>34 DEF Finished, vars, endVars, TypeOK, PlaceOK, EndOK
<1> QED
  BY <1>1, <1>2, <1>3, <1>4, <1>5, <1>6, <1>7, <1>8, <1>9, <1>10, <1>11, <1>12, <1>13,
     <1>14, <1>15, <1>16, <1>17, <1>18, <1>19, <1>20, <1>21, <1>22, <1>23, <1>24, <1>25,
     <1>26, <1>27, <1>28, <1>29, <1>30, <1>31, <1>32, <1>33, <1>34 DEF Next, Progress
-----------------------------------------------------------------------------
(* The repair loop keeps its count, and nothing is settled without an outcome. *)
LEMMA LoopStep == BookInv /\ [Next]_vars => LoopInv'
<1> SUFFICES ASSUME BookInv, [Next]_vars PROVE LoopInv'
  OBVIOUS
<1>0. LoopInv /\ LoopOK /\ EndOK
  BY DEF BookInv, TypeOK
<1>1. CASE CellUp
  BY <1>0, <1>1, CountAssumption DEF LoopInv, CellUp, Proceed, GoTo, endVars, loopVars
<1>2. CASE Baseline
  BY <1>0, <1>2, CountAssumption DEF LoopInv, Baseline, Settle, Proceed, GoTo, endVars,
     loopVars
<1>3. CASE PlanCheckpoint
  BY <1>0, <1>3, CountAssumption DEF LoopInv, PlanCheckpoint, PlanEnds, Settle, Proceed,
     GoTo, endVars, loopVars
<1>4. CASE Planned
  BY <1>0, <1>4, CountAssumption DEF LoopInv, Planned, Settle, Proceed, GoTo, endVars,
     loopVars
<1>5. CASE Implement
  BY <1>0, <1>5, CountAssumption DEF LoopInv, Implement, Proceed, GoTo, endVars,
     loopVars
<1>6. CASE Salvage
  BY <1>0, <1>6, CountAssumption DEF LoopInv, Salvage, Proceed, GoTo, endVars, loopVars
<1>7. CASE Empty
  BY <1>0, <1>7 DEF LoopInv, Empty, Settle, loopVars
<1>8. CASE Gate
  BY <1>0, <1>8, CountAssumption DEF LoopInv, Gate, Decision, LoopEnds, Proceed, GoTo,
     endVars, loopVars, LoopOK
<1>9. CASE Repair
  BY <1>0, <1>9 DEF LoopInv, Repair, Proceed, GoTo, endVars, loopVars
<1>10. CASE Notes
  BY <1>0, <1>10 DEF LoopInv, Notes, Proceed, GoTo, endVars, loopVars
<1>11. CASE AfterLoop
  BY <1>0, <1>11 DEF LoopInv, AfterLoop, Settle, Proceed, GoTo, endVars, loopVars
<1>12. CASE GateCell
  BY <1>0, <1>12 DEF LoopInv, GateCell, PatchRefused, Settle, Proceed, GoTo, endVars,
     loopVars
<1>13. CASE CriticCell
  BY <1>0, <1>13 DEF LoopInv, CriticCell, PatchRefused, Settle, Proceed, GoTo, endVars,
     loopVars
<1>14. CASE ReviewSession
  BY <1>0, <1>14 DEF LoopInv, ReviewSession, Proceed, GoTo, endVars, loopVars
<1>15. CASE Reviewed
  BY <1>0, <1>15 DEF LoopInv, Reviewed, Settle, Proceed, GoTo, endVars, loopVars
<1>16. CASE RebutStart
  BY <1>0, <1>16 DEF LoopInv, RebutStart, Proceed, GoTo, endVars, loopVars
<1>17. CASE Rebuttal
  BY <1>0, <1>17 DEF LoopInv, Rebuttal, Proceed, GoTo, endVars, loopVars
<1>18. CASE Extract
  BY <1>0, <1>18 DEF LoopInv, Extract, Proceed, GoTo, endVars, loopVars
<1>19. CASE RebutMeasure
  BY <1>0, <1>19 DEF LoopInv, RebutMeasure, EndRebut, Onward, Settle, Proceed, GoTo,
     endVars, loopVars
<1>20. CASE RebutGates
  BY <1>0, <1>20 DEF LoopInv, RebutGates, EndRebut, Onward, GatesEnd, Settle, Proceed,
     GoTo, endVars, loopVars
<1>21. CASE RebutRepair
  BY <1>0, <1>21 DEF LoopInv, RebutRepair, Proceed, GoTo, endVars, loopVars
<1>22. CASE RebutGatesAgain
  BY <1>0, <1>22 DEF LoopInv, RebutGatesAgain, EndRebut, Onward, GatesEnd, Settle,
     Proceed, GoTo, endVars, loopVars
<1>23. CASE VerdictCell
  BY <1>0, <1>23 DEF LoopInv, VerdictCell, EndRebut, Settle, Proceed, GoTo, endVars,
     loopVars
<1>24. CASE VerdictSession
  BY <1>0, <1>24 DEF LoopInv, VerdictSession, Proceed, GoTo, endVars, loopVars
<1>25. CASE VerdictsIn
  BY <1>0, <1>25 DEF LoopInv, VerdictsIn, EndRebut, Settle, Proceed, GoTo, endVars,
     loopVars
<1>26. CASE WriteRow
  BY <1>0, <1>26 DEF LoopInv, WriteRow, Proceed, GoTo, endVars, loopVars
<1>27. CASE FinishRun
  BY <1>0, <1>27 DEF LoopInv, FinishRun, GoTo, loopVars
<1>28. CASE RateLimited
  BY <1>0, <1>28 DEF LoopInv, RateLimited, loopVars
<1>29. CASE AbortRun
  BY <1>0, <1>29 DEF LoopInv, AbortRun, Proceed, GoTo, endVars, loopVars
<1>30. CASE Orphan
  BY <1>0, <1>30 DEF LoopInv, Orphan, Raised, GoTo, loopVars
<1>31. CASE Teardown
  BY <1>0, <1>31 DEF LoopInv, Teardown, Proceed, GoTo, endVars, loopVars
<1>32. CASE Abort
  BY <1>0, <1>32 DEF LoopInv, Abort, GoTo, endVars, loopVars
<1>33. CASE HandlerRaises
  BY <1>0, <1>33 DEF LoopInv, HandlerRaises, Raised, GoTo, loopVars
<1>34. CASE Finished \/ UNCHANGED vars
  BY <1>0, <1>34 DEF LoopInv, Finished, vars, loopVars, endVars
<1> QED
  BY <1>1, <1>2, <1>3, <1>4, <1>5, <1>6, <1>7, <1>8, <1>9, <1>10, <1>11, <1>12, <1>13,
     <1>14, <1>15, <1>16, <1>17, <1>18, <1>19, <1>20, <1>21, <1>22, <1>23, <1>24, <1>25,
     <1>26, <1>27, <1>28, <1>29, <1>30, <1>31, <1>32, <1>33, <1>34 DEF Next, Progress
-----------------------------------------------------------------------------
(***************************************************************************)
(* The books.  A turn's cost reaches the rows and exactly one of the tally, *)
(* the frame and the pool; a phase that ends hands on all it holds.         *)
(***************************************************************************)
LEMMA TallyStep == BookInv /\ [Next]_vars => TallyInv'
<1> SUFFICES ASSUME BookInv, [Next]_vars PROVE TallyInv'
  OBVIOUS
<1>0. /\ TallyInv /\ MoneyOK
      /\ start \in Nat /\ booked \in Nat /\ spent \in Nat /\ frame \in Nat
      /\ pool.spent \in Nat /\ pool.limit \in Nat /\ pool \in PoolRecords
  BY DEF BookInv, TypeOK, MoneyOK, PoolRecords
<1>r. Returned => pc \in {"teardown", "done"}
  BY <1>0 DEF TallyInv
<1>1. CASE CellUp
  BY <1>0, <1>r, <1>1 DEF TallyInv, Returned, FramePoints, PoolPoints, CellUp, Proceed,
     GoTo, endVars, moneyVars
<1>2. CASE Baseline
  BY <1>0, <1>r, <1>2 DEF TallyInv, Returned, FramePoints, PoolPoints, Baseline, Settle,
     Proceed, GoTo, endVars, moneyVars
<1>3. CASE PlanCheckpoint
  <2>1. pc \in {"plan", "replan"} /\ UNCHANGED <<start, pool, result>>
    BY <1>3 DEF PlanCheckpoint, Book, Proceed, Settle, endVars
  <2>2. CASE \E c \in Costs(FALSE) :
               /\ Book(c) /\ frame' = frame + c /\ UNCHANGED spent
               /\ pc' \in {"planned", "replan"}
    <3>1. PICK c \in Costs(FALSE) : Book(c) /\ frame' = frame + c /\ UNCHANGED spent
      BY <2>2
    <3>2. c \in Nat
      BY <1>0, CostsAreNatural
    <3> QED
      BY <1>0, <1>r, <2>1, <2>2, <3>1, <3>2
         DEF TallyInv, Returned, FramePoints, PoolPoints, Book
  <2>3. CASE \E s \in PlanEnds : \E c \in Costs(PlanFailed(s)) :
               Book(c) /\ spent' = frame + c /\ frame' = 0 /\ pc' = "settle"
    <3>1. PICK s \in PlanEnds : \E c \in Costs(PlanFailed(s)) :
                 Book(c) /\ spent' = frame + c /\ frame' = 0 /\ pc' = "settle"
      BY <2>3
    <3>2. PICK c \in Costs(PlanFailed(s)) :
                 Book(c) /\ spent' = frame + c /\ frame' = 0 /\ pc' = "settle"
      BY <3>1
    <3>3. c \in Nat
      <4>1. PlanFailed(s) \in BOOLEAN
        BY DEF PlanFailed
      <4> QED
        BY <1>0, <4>1, CostsAreNatural
    <3> QED
      BY <1>0, <1>r, <2>1, <3>2, <3>3
         DEF TallyInv, Returned, FramePoints, PoolPoints, Book
  <2> QED
    BY <1>3, <2>2, <2>3 DEF PlanCheckpoint, Proceed, GoTo, Settle
<1>4. CASE Planned
  BY <1>0, <1>r, <1>4 DEF TallyInv, Returned, FramePoints, PoolPoints, Planned, Settle,
     Proceed, GoTo, endVars, moneyVars
<1>5. CASE Implement
  BY <1>0, <1>r, <1>5, CostsAreNatural DEF TallyInv, Returned, FramePoints, PoolPoints,
     Implement, Proceed, GoTo, endVars, Charge, Book, moneyVars
<1>6. CASE Salvage
  BY <1>0, <1>r, <1>6, CostsAreNatural DEF TallyInv, Returned, FramePoints, PoolPoints,
     Salvage, Proceed, GoTo, endVars, Book, moneyVars
<1>7. CASE Empty
  BY <1>0, <1>r, <1>7 DEF TallyInv, Returned, FramePoints, PoolPoints, Empty, Settle,
     moneyVars
<1>8. CASE Gate
  BY <1>0, <1>r, <1>8 DEF TallyInv, Returned, FramePoints, PoolPoints, Gate, Decision,
     LoopEnds, Proceed, GoTo, endVars, moneyVars
<1>9. CASE Repair
  BY <1>0, <1>r, <1>9, CostsAreNatural DEF TallyInv, Returned, FramePoints, PoolPoints,
     Repair, Proceed, GoTo, endVars, ImplementerTurn, Charge, Book, moneyVars
<1>10. CASE Notes
  BY <1>0, <1>r, <1>10, CostsAreNatural DEF TallyInv, Returned, FramePoints, PoolPoints,
     Notes, Proceed, GoTo, endVars, Charge, Book, moneyVars
<1>11. CASE AfterLoop
  BY <1>0, <1>r, <1>11 DEF TallyInv, Returned, FramePoints, PoolPoints, AfterLoop,
     Settle, Proceed, GoTo, endVars, moneyVars
<1>12. CASE GateCell
  BY <1>0, <1>r, <1>12 DEF TallyInv, Returned, FramePoints, PoolPoints, GateCell,
     PatchRefused, Settle, Proceed, GoTo, endVars, moneyVars
<1>13. CASE CriticCell
  BY <1>0, <1>r, <1>13 DEF TallyInv, Returned, FramePoints, PoolPoints, CriticCell,
     PatchRefused, Settle, Proceed, GoTo, endVars, moneyVars
<1>14. CASE ReviewSession
  <2>1. pc = "review" /\ pc' \in {"review", "reviewed"}
         /\ UNCHANGED <<start, spent, pool, result>>
    BY <1>14 DEF ReviewSession, Book, Proceed, GoTo, endVars
  <2>2. PICK c \in Costs(FALSE) : Book(c) /\ frame' = frame + c
    BY <1>14 DEF ReviewSession
  <2>3. c \in Nat
    BY <1>0, CostsAreNatural
  <2> QED
    BY <1>0, <1>r, <2>1, <2>2, <2>3 DEF TallyInv, Returned, FramePoints, PoolPoints, Book
<1>15. CASE Reviewed
  BY <1>0, <1>r, <1>15 DEF TallyInv, Returned, FramePoints, PoolPoints, Reviewed,
     Settle, Proceed, GoTo, endVars, moneyVars
<1>16. CASE RebutStart
  BY <1>0, <1>r, <1>16 DEF TallyInv, Returned, FramePoints, PoolPoints, RebutStart,
     Proceed, GoTo, endVars, moneyVars
<1>17. CASE Rebuttal
  <2>1. pc = "rebuttal" /\ pc' \in {"rebutMeasure", "extract"}
         /\ UNCHANGED <<start, spent, frame, result>>
    BY <1>17 DEF Rebuttal, Book, Proceed, GoTo, endVars
  <2>2. PICK f \in BOOLEAN : \E c \in Costs(f) :
           Book(c) /\ pool' \in {Drawn(c, TRUE), Opened(Drawn(c, FALSE), Extraction)}
    BY <1>17 DEF Rebuttal
  <2>3. PICK c \in Costs(f) :
           Book(c) /\ pool' \in {Drawn(c, TRUE), Opened(Drawn(c, FALSE), Extraction)}
    BY <2>2
  <2>4. c \in Nat
    BY <1>0, CostsAreNatural
  <2>5. pool'.spent = pool.spent + c
    BY <1>0, <2>3, <2>4, DrawnIsPool, OpenedIsPool, MoneyAssumption
  <2> QED
    BY <1>0, <1>r, <2>1, <2>3, <2>4, <2>5
       DEF TallyInv, Returned, FramePoints, PoolPoints, Book
<1>18. CASE Extract
  BY <1>0, <1>r, <1>18, CostsAreNatural, DrawnIsPool DEF TallyInv, Returned,
     FramePoints, PoolPoints, Extract, Proceed, GoTo, endVars, Book, moneyVars
<1>19. CASE RebutMeasure
  BY <1>0, <1>r, <1>19, NoPoolIsPool DEF TallyInv, Returned, FramePoints, PoolPoints,
     RebutMeasure, EndRebut, Onward, Settle, Proceed, GoTo, endVars, moneyVars
<1>20. CASE RebutGates
  <2>1. pc = "rebutGates" /\ UNCHANGED <<start, booked, frame, result>>
    BY <1>20 DEF RebutGates, EndRebut, Onward, GatesEnd, Settle, Proceed, endVars
  <2>2. \/ /\ pc' \in {"rebutRepair", "verdictCell"}
            /\ UNCHANGED <<spent, pool>>
         \/ /\ pc' = "settle"
            /\ spent' = spent + pool.spent
            /\ pool' = NoPool
    BY <1>20 DEF RebutGates, EndRebut, Onward, GatesEnd, Settle, Proceed, GoTo
  <2> QED
    BY <1>0, <1>r, <2>1, <2>2, NoPoolIsPool DEF TallyInv, Returned, FramePoints, PoolPoints
<1>21. CASE RebutRepair
  BY <1>0, <1>r, <1>21, CostsAreNatural DEF TallyInv, Returned, FramePoints, PoolPoints,
     RebutRepair, Proceed, GoTo, endVars, ImplementerTurn, Charge, Book, moneyVars
<1>22. CASE RebutGatesAgain
  BY <1>0, <1>r, <1>22, NoPoolIsPool DEF TallyInv, Returned, FramePoints, PoolPoints,
     RebutGatesAgain, EndRebut, Onward, GatesEnd, Settle, Proceed, GoTo, endVars,
     moneyVars
<1>23. CASE VerdictCell
  <2>1. pc = "verdictCell" /\ UNCHANGED <<start, booked, frame, result>>
    BY <1>23 DEF VerdictCell, EndRebut, Settle, Proceed, endVars
  <2>2. CASE pc' = "verdict" /\ pool' = Opened(pool, Verdict) /\ UNCHANGED spent
    BY <1>0, <1>r, <2>1, <2>2, OpenedIsPool, MoneyAssumption
       DEF TallyInv, Returned, FramePoints, PoolPoints
  <2>3. CASE pc' = "settle" /\ pool' = NoPool /\ spent' = spent + pool.spent
    BY <1>0, <1>r, <2>1, <2>3, NoPoolIsPool
       DEF TallyInv, Returned, FramePoints, PoolPoints
  <2> QED
    BY <1>23, <2>2, <2>3 DEF VerdictCell, EndRebut, Settle, Proceed, GoTo
<1>24. CASE VerdictSession
  <2>1. pc = "verdict" /\ pc' \in {"verdict", "verdictsIn"}
         /\ UNCHANGED <<spent, frame, result>>
    BY <1>24 DEF VerdictSession, Proceed, GoTo, endVars
  <2>2. CASE pool'.spent = pool.spent /\ UNCHANGED <<start, booked>>
    BY <1>0, <1>r, <2>1, <2>2 DEF TallyInv, Returned, FramePoints, PoolPoints
  <2>3. CASE \E c \in Costs(FALSE) : \E f \in BOOLEAN : Book(c) /\ pool' = Drawn(c, f)
    <3>1. PICK c \in Costs(FALSE) : \E f \in BOOLEAN : Book(c) /\ pool' = Drawn(c, f)
      BY <2>3
    <3>2. c \in Nat
      BY <1>0, CostsAreNatural
    <3>3. pool'.spent = pool.spent + c
      BY <1>0, <3>1, <3>2, DrawnIsPool
    <3> QED
      BY <1>0, <1>r, <2>1, <3>1, <3>2, <3>3
         DEF TallyInv, Returned, FramePoints, PoolPoints, Book
  <2>4. \A how : (how \in {"failed", "unstarted"}) \in BOOLEAN
    OBVIOUS
  <2>5. \/ \E c \in Costs(FALSE) : \E f \in BOOLEAN : Book(c) /\ pool' = Drawn(c, f)
        \/ /\ pool' = [limit |-> pool.limit, spent |-> pool.spent, cut |-> TRUE]
           /\ UNCHANGED <<start, booked>>
    BY <1>24, <2>4, Zenon DEF VerdictSession
  <2>6. CASE /\ pool' = [limit |-> pool.limit, spent |-> pool.spent, cut |-> TRUE]
             /\ UNCHANGED <<start, booked>>
    <3>1. pool'.spent = pool.spent
      BY <2>6
    <3> QED
      BY <2>2, <2>6, <3>1
  <2> QED
    BY <2>3, <2>5, <2>6
<1>25. CASE VerdictsIn
  BY <1>0, <1>r, <1>25, NoPoolIsPool DEF TallyInv, Returned, FramePoints, PoolPoints,
     VerdictsIn, EndRebut, Settle, Proceed, GoTo, endVars, moneyVars
<1>26. CASE WriteRow
  BY <1>0, <1>r, <1>26 DEF TallyInv, Returned, FramePoints, PoolPoints, WriteRow,
     Proceed, GoTo, endVars, moneyVars
<1>27. CASE FinishRun
  BY <1>0, <1>r, <1>27 DEF TallyInv, Returned, FramePoints, PoolPoints, FinishRun, GoTo,
     moneyVars
<1>28. CASE RateLimited
  <2>1. pc \in TurnPoints /\ pc' = "settle" /\ UNCHANGED <<start, result>>
         /\ frame' = 0 /\ pool' = NoPool
    BY <1>28 DEF RateLimited, Book
  <2>2. PICK c \in Costs(TRUE) : Book(c) /\ spent' = (booked + c) - start
    BY <1>28 DEF RateLimited, ReadBack
  <2>3. c \in Nat
    BY <1>0, CostsAreNatural
  <2> QED
    BY <1>0, <1>r, <2>1, <2>2, <2>3, NoPoolIsPool
       DEF TallyInv, Returned, FramePoints, PoolPoints, Book, TurnPoints
<1>29. CASE AbortRun
  BY <1>0, <1>r, <1>29 DEF TallyInv, Returned, FramePoints, PoolPoints, AbortRun,
     Proceed, GoTo, endVars, moneyVars
<1>30. CASE Orphan
  BY <1>0, <1>r, <1>30 DEF TallyInv, Returned, FramePoints, PoolPoints, Orphan, Raised,
     GoTo, moneyVars
<1>31. CASE Teardown
  BY <1>0, <1>r, <1>31 DEF TallyInv, Returned, FramePoints, PoolPoints, Teardown,
     Proceed, GoTo, endVars, moneyVars
<1>32. CASE Abort
  BY <1>0, <1>r, <1>32 DEF TallyInv, Returned, FramePoints, PoolPoints, Abort, GoTo,
     endVars, moneyVars, TurnPoints, HostPoints
<1>33. CASE HandlerRaises
  BY <1>0, <1>r, <1>33 DEF TallyInv, Returned, FramePoints, PoolPoints, HandlerRaises,
     Raised, GoTo, moneyVars
<1>34. CASE Finished \/ UNCHANGED vars
  BY <1>0, <1>34 DEF TallyInv, Returned, Finished, vars, moneyVars, endVars
<1> QED
  BY <1>1, <1>2, <1>3, <1>4, <1>5, <1>6, <1>7, <1>8, <1>9, <1>10, <1>11, <1>12, <1>13,
     <1>14, <1>15, <1>16, <1>17, <1>18, <1>19, <1>20, <1>21, <1>22, <1>23, <1>24, <1>25,
     <1>26, <1>27, <1>28, <1>29, <1>30, <1>31, <1>32, <1>33, <1>34 DEF Next, Progress
-----------------------------------------------------------------------------
(* A cell that starts has booked what its row had booked before it. *)
LEMMA InitBooks == Init => BookInv
<1> SUFFICES ASSUME Init PROVE BookInv
  OBVIOUS
<1>1. PlaceOK /\ LedgerOK /\ LoopOK /\ CriticOK
  <2>1. PlaceOK
    BY DEF Init, PlaceOK, Points, HostPoints
  <2>2. LedgerOK
    BY DEF Init, LedgerOK, LiveStates, EndStates
  <2>3. LoopOK
    <3>1. suites = 0 /\ previous = "none"
      BY DEF Init
    <3>2. cutOff \in BOOLEAN
      BY DEF Init
    <3>3. 0 \in 0 .. MaxAttempts
      BY CountAssumption
    <3> QED
      BY <3>1, <3>2, <3>3 DEF LoopOK
  <2>4. CriticOK
    BY Zenon DEF Init, CriticOK
  <2> QED
    BY <2>1, <2>2, <2>3, <2>4
<1>2. MoneyOK /\ TreeOK
  <2>1. start \in Nat /\ booked \in Nat
    BY MoneyAssumption DEF Init
  <2>2. spent = 0 /\ frame = 0 /\ last = 0 /\ held = 0 /\ pool = NoPool
    BY DEF Init
  <2>3. TreeOK
    BY DEF Init, TreeOK
  <2> QED
    BY <2>1, <2>2, <2>3, NoPoolIsPool DEF MoneyOK
<1>3. EndOK
  BY DEF Init, EndOK, NoResult, Results, Outcomes
<1>4. LoopInv
  BY DEF Init, LoopInv
<1>5. TallyInv
  BY <1>2, NoPoolIsPool DEF Init, TallyInv, Returned, NoResult, PoolPoints, MoneyOK
<1> QED
  BY <1>1, <1>2, <1>3, <1>4, <1>5 DEF BookInv, TypeOK

(* The strengthening is inductive, so it holds in every reachable state. *)
LEMMA BooksAlways == Safety => []BookInv
<1>1. BookInv /\ [Next]_vars => BookInv'
  BY TypeStep, LoopStep, TallyStep DEF BookInv
<1> QED
  BY <1>1, InitBooks, PTL DEF Safety

(* Every variable keeps its type, and the repair loop its bound: no path of *)
(* `_drive_cell`, `repair_loop` included, runs more than max_attempts suites *)
(* in the loop, whatever the budget, the gates and the agent do.            *)
THEOREM TypeCorrect == Safety => []TypeOK
<1>1. BookInv => TypeOK
  BY DEF BookInv
<1> QED
  BY <1>1, BooksAlways, PTL

(* What a cell reports it spent is what its own attempt rows add up to: for *)
(* every budget, pool, reserve, number of lenses and of attempts, through   *)
(* the plan's re-prompt, REVIEW's frame, REBUT's pools and the read-back of *)
(* a closed window, on a fresh row or a resumed one.                        *)
THEOREM SpendIsReported == Safety => []ReportedSpend
<1>1. BookInv => ReportedSpend
  BY DEF BookInv, TallyInv, ReportedSpend
<1> QED
  BY <1>1, BooksAlways, PTL
-----------------------------------------------------------------------------
(***************************************************************************)
(* What a cell hands on and what it leaves behind, for every value of the  *)
(* constants: READY_FOR_REVIEW names the head that was judged, a cut never *)
(* discards work, and the row and the run settle in order.  Each rests on  *)
(* what holds at the points before, so the three are one induction.        *)
(***************************************************************************)

(* Up to the loop's end nothing is decided; from there to REBUT the loop's  *)
(* verdict stands.                                                          *)
UndecidedPoints ==
    {"cellUp", "baseline", "plan", "replan", "planned", "implement", "salvage", "empty",
     "gate", "repair"}

ReviewPoints == {"gateCell", "criticCell", "review", "reviewed", "rebutStart"}

RebutPoints ==
    {"rebuttal", "extract", "rebutMeasure", "rebutGates", "rebutRepair", "rebutGatesAgain",
     "verdictCell", "verdict", "verdictsIn"}

Settling == pc \in {"settle", "finish"}

(* What a settled READY_FOR_REVIEW rests on. *)
Judged == judged = head /\ (row = "REBUTTING" => green = head /\ ~dirty)

(* The critics' diff is HEAD's wherever it is read, and the verdicts' HEAD  *)
(* is green besides.                                                        *)
JudgedInv ==
    /\ pc \in {"review", "reviewed", "rebutStart", "verdict", "verdictsIn"} => judged = head
    /\ pc \in {"verdictCell", "verdict", "verdictsIn"} => green = head /\ ~dirty
    /\ (Settling /\ outcome = "READY_FOR_REVIEW") => Judged
    /\ ReadyIsJudged

(* Wherever a cut is about to be answered ORPHANED the host has committed. *)
CutInv ==
    /\ (pc = "empty" /\ cutOff) => ~dirty \/ refused
    /\ (Settling /\ outcome = "ORPHANED") => ~dirty \/ refused
    /\ pc \in {"notes", "afterLoop"} => outcome # "ORPHANED"
    /\ CutWorkIsKept

(* The row's own progress, and the order of the last writes. *)
RowAgrees ==
    Returned => /\ run = "COMPLETE"
                /\ IF result.state = "READY_FOR_REVIEW"
                   THEN row \in {"REVIEWING", "REBUTTING"}
                   ELSE row = result.state

RowInv ==
    /\ pc \in UndecidedPoints => outcome = "none"
    /\ pc \in ReviewPoints => row = "REVIEWING" /\ outcome = "READY_FOR_REVIEW"
    /\ pc \in RebutPoints => row = "REBUTTING"
    /\ (Settling /\ outcome = "READY_FOR_REVIEW") => row \in {"REVIEWING", "REBUTTING"}
    /\ pc = "finish" => row = outcome \/ outcome = "READY_FOR_REVIEW"
    /\ pc = "orphan" => run = "ABORTED"
    /\ RowAgrees

ControlInv == JudgedInv /\ CutInv /\ RowInv
-----------------------------------------------------------------------------
(* What is handed on is what was judged. *)
LEMMA JudgedStep == BookInv /\ ControlInv /\ [Next]_vars => JudgedInv'
<1> SUFFICES ASSUME BookInv, ControlInv, [Next]_vars PROVE JudgedInv'
  OBVIOUS
<1>0. /\ JudgedInv /\ CutInv /\ RowInv /\ TreeOK /\ EndOK /\ LedgerOK
      /\ Returned => pc \in {"teardown", "done"}
  BY DEF BookInv, ControlInv, TypeOK, TallyInv
<1>1. CASE CellUp
  BY <1>0, <1>1 DEF JudgedInv, ReadyIsJudged, Returned, Judged, Settling, RowInv,
     ReviewPoints, RebutPoints, CellUp, Proceed, GoTo, moneyVars, treeVars,
     loopVars, criticVars, endVars, ledgerVars
<1>2. CASE Baseline
  BY <1>0, <1>2 DEF JudgedInv, ReadyIsJudged, Returned, Judged, Settling, RowInv,
     ReviewPoints, RebutPoints, Baseline, Settle, Proceed, GoTo, moneyVars,
     treeVars, loopVars, criticVars, endVars, ledgerVars
<1>3. CASE PlanCheckpoint
  BY <1>0, <1>3 DEF JudgedInv, ReadyIsJudged, Returned, Judged, Settling, RowInv,
     ReviewPoints, RebutPoints, PlanCheckpoint, PlanEnds, Settle, Proceed, GoTo,
     moneyVars, treeVars, loopVars, criticVars, endVars, ledgerVars
<1>4. CASE Planned
  BY <1>0, <1>4 DEF JudgedInv, ReadyIsJudged, Returned, Judged, Settling, RowInv,
     ReviewPoints, RebutPoints, Planned, Settle, Proceed, GoTo, moneyVars, treeVars,
     loopVars, criticVars, endVars, ledgerVars
<1>5. CASE Implement
  BY <1>0, <1>5 DEF JudgedInv, ReadyIsJudged, Returned, Judged, Settling, RowInv,
     ReviewPoints, RebutPoints, Implement, Proceed, GoTo, Work, Checkpoint,
     moneyVars, treeVars, loopVars, criticVars, endVars, ledgerVars
<1>6. CASE Salvage
  BY <1>0, <1>6 DEF JudgedInv, ReadyIsJudged, Returned, Judged, Settling, RowInv,
     ReviewPoints, RebutPoints, Salvage, Proceed, GoTo, WorkCheckpointed,
     Checkpoint, moneyVars, treeVars, loopVars, criticVars, endVars, ledgerVars
<1>7. CASE Empty
  BY <1>0, <1>7 DEF JudgedInv, ReadyIsJudged, Returned, Judged, Settling, RowInv,
     ReviewPoints, RebutPoints, Empty, Settle, moneyVars, treeVars, loopVars,
     criticVars, endVars, ledgerVars
<1>8. CASE Gate
  BY <1>0, <1>8 DEF JudgedInv, ReadyIsJudged, Returned, Judged, Settling, RowInv,
     ReviewPoints, RebutPoints, Gate, Decision, LoopEnds, Proceed, GoTo, SuiteFinds,
     moneyVars, treeVars, loopVars, criticVars, endVars, ledgerVars
<1>9. CASE Repair
  BY <1>0, <1>9 DEF JudgedInv, ReadyIsJudged, Returned, Judged, Settling, RowInv,
     ReviewPoints, RebutPoints, Repair, Proceed, GoTo, moneyVars, treeVars,
     loopVars, criticVars, endVars, ledgerVars
<1>10. CASE Notes
  BY <1>0, <1>10 DEF JudgedInv, ReadyIsJudged, Returned, Judged, Settling, RowInv,
     ReviewPoints, RebutPoints, Notes, Proceed, GoTo, moneyVars, treeVars, loopVars,
     criticVars, endVars, ledgerVars
<1>11. CASE AfterLoop
  BY <1>0, <1>11 DEF JudgedInv, ReadyIsJudged, Returned, Judged, Settling, RowInv,
     ReviewPoints, RebutPoints, AfterLoop, Settle, Proceed, GoTo, moneyVars,
     treeVars, loopVars, criticVars, endVars, ledgerVars
<1>12. CASE GateCell
  BY <1>0, <1>12 DEF JudgedInv, ReadyIsJudged, Returned, Judged, Settling, RowInv,
     ReviewPoints, RebutPoints, GateCell, PatchRefused, Settle, Proceed, GoTo,
     moneyVars, treeVars, loopVars, criticVars, endVars, ledgerVars
<1>13. CASE CriticCell
  BY <1>0, <1>13 DEF JudgedInv, ReadyIsJudged, Returned, Judged, Settling, RowInv,
     ReviewPoints, RebutPoints, CriticCell, PatchRefused, Settle, Proceed, GoTo,
     moneyVars, treeVars, loopVars, criticVars, endVars, ledgerVars
<1>14. CASE ReviewSession
  BY <1>0, <1>14 DEF JudgedInv, ReadyIsJudged, Returned, Judged, Settling, RowInv,
     ReviewPoints, RebutPoints, ReviewSession, Proceed, GoTo, moneyVars, treeVars,
     loopVars, criticVars, endVars, ledgerVars
<1>15. CASE Reviewed
  BY <1>0, <1>15 DEF JudgedInv, ReadyIsJudged, Returned, Judged, Settling, RowInv,
     ReviewPoints, RebutPoints, Reviewed, Settle, Proceed, GoTo, moneyVars,
     treeVars, loopVars, criticVars, endVars, ledgerVars
<1>16. CASE RebutStart
  BY <1>0, <1>16 DEF JudgedInv, ReadyIsJudged, Returned, Judged, Settling, RowInv,
     ReviewPoints, RebutPoints, RebutStart, Proceed, GoTo, moneyVars, treeVars,
     loopVars, criticVars, endVars, ledgerVars
<1>17. CASE Rebuttal
  BY <1>0, <1>17 DEF JudgedInv, ReadyIsJudged, Returned, Judged, Settling, RowInv,
     ReviewPoints, RebutPoints, Rebuttal, Proceed, GoTo, moneyVars, treeVars,
     loopVars, criticVars, endVars, ledgerVars
<1>18. CASE Extract
  BY <1>0, <1>18 DEF JudgedInv, ReadyIsJudged, Returned, Judged, Settling, RowInv,
     ReviewPoints, RebutPoints, Extract, Proceed, GoTo, moneyVars, treeVars,
     loopVars, criticVars, endVars, ledgerVars
<1>19. CASE RebutMeasure
  BY <1>0, <1>19 DEF JudgedInv, ReadyIsJudged, Returned, Judged, Settling, RowInv,
     ReviewPoints, RebutPoints, RebutMeasure, EndRebut, Onward, Settle, Proceed,
     GoTo, moneyVars, treeVars, loopVars, criticVars, endVars, ledgerVars
<1>20. CASE RebutGates
  BY <1>0, <1>20 DEF JudgedInv, ReadyIsJudged, Returned, Judged, Settling, RowInv,
     ReviewPoints, RebutPoints, RebutGates, EndRebut, Onward, GatesEnd, Settle,
     Proceed, GoTo, SuiteFinds, moneyVars, treeVars, loopVars, criticVars, endVars,
     ledgerVars
<1>21. CASE RebutRepair
  BY <1>0, <1>21 DEF JudgedInv, ReadyIsJudged, Returned, Judged, Settling, RowInv,
     ReviewPoints, RebutPoints, RebutRepair, Proceed, GoTo, moneyVars, treeVars,
     loopVars, criticVars, endVars, ledgerVars
<1>22. CASE RebutGatesAgain
  BY <1>0, <1>22 DEF JudgedInv, ReadyIsJudged, Returned, Judged, Settling, RowInv,
     ReviewPoints, RebutPoints, RebutGatesAgain, EndRebut, Onward, GatesEnd, Settle,
     Proceed, GoTo, SuiteFinds, moneyVars, treeVars, loopVars, criticVars, endVars,
     ledgerVars
<1>23. CASE VerdictCell
  BY <1>0, <1>23 DEF JudgedInv, ReadyIsJudged, Returned, Judged, Settling, RowInv,
     ReviewPoints, RebutPoints, VerdictCell, EndRebut, Settle, Proceed, GoTo,
     moneyVars, treeVars, loopVars, criticVars, endVars, ledgerVars
<1>24. CASE VerdictSession
  BY <1>0, <1>24 DEF JudgedInv, ReadyIsJudged, Returned, Judged, Settling, RowInv,
     ReviewPoints, RebutPoints, VerdictSession, Proceed, GoTo, moneyVars, treeVars,
     loopVars, criticVars, endVars, ledgerVars
<1>25. CASE VerdictsIn
  BY <1>0, <1>25 DEF JudgedInv, ReadyIsJudged, Returned, Judged, Settling, RowInv,
     ReviewPoints, RebutPoints, VerdictsIn, EndRebut, Settle, Proceed, GoTo,
     moneyVars, treeVars, loopVars, criticVars, endVars, ledgerVars
<1>26. CASE WriteRow
  BY <1>0, <1>26 DEF JudgedInv, ReadyIsJudged, Returned, Judged, Settling, RowInv,
     ReviewPoints, RebutPoints, WriteRow, Proceed, GoTo, moneyVars, treeVars,
     loopVars, criticVars, endVars, ledgerVars
<1>27. CASE FinishRun
  BY <1>0, <1>27 DEF JudgedInv, ReadyIsJudged, Returned, Judged, Settling, RowInv,
     ReviewPoints, RebutPoints, FinishRun, GoTo, moneyVars, treeVars, loopVars,
     criticVars, endVars, ledgerVars
<1>28. CASE RateLimited
  <2>1. /\ pc' = "settle" /\ outcome' = "RATE_LIMITED" /\ UNCHANGED result
        /\ pc \in TurnPoints
    BY <1>28 DEF RateLimited
  <2>2. ~Returned /\ ~Returned'
    BY <1>0, <2>1 DEF TurnPoints, Returned
  <2> QED
    BY <2>1, <2>2 DEF JudgedInv, ReadyIsJudged, Settling
<1>29. CASE AbortRun
  BY <1>0, <1>29 DEF JudgedInv, ReadyIsJudged, Returned, Judged, Settling, RowInv,
     ReviewPoints, RebutPoints, AbortRun, Proceed, GoTo, moneyVars, treeVars,
     loopVars, criticVars, endVars, ledgerVars
<1>30. CASE Orphan
  BY <1>0, <1>30 DEF JudgedInv, ReadyIsJudged, Returned, Judged, Settling, RowInv,
     ReviewPoints, RebutPoints, Orphan, Raised, GoTo, moneyVars, treeVars, loopVars,
     criticVars, endVars, ledgerVars
<1>31. CASE Teardown
  BY <1>0, <1>31 DEF JudgedInv, ReadyIsJudged, Returned, Judged, Settling, RowInv,
     ReviewPoints, RebutPoints, Teardown, Proceed, GoTo, moneyVars, treeVars,
     loopVars, criticVars, endVars, ledgerVars
<1>32. CASE Abort
  BY <1>0, <1>32 DEF JudgedInv, ReadyIsJudged, Returned, Judged, Settling, RowInv,
     ReviewPoints, RebutPoints, Abort, GoTo, moneyVars, treeVars, loopVars,
     criticVars, endVars, ledgerVars
<1>33. CASE HandlerRaises
  BY <1>0, <1>33 DEF JudgedInv, ReadyIsJudged, Returned, Judged, Settling, RowInv,
     ReviewPoints, RebutPoints, HandlerRaises, Raised, GoTo, moneyVars, treeVars,
     loopVars, criticVars, endVars, ledgerVars
<1>34. CASE Finished \/ UNCHANGED vars
  BY <1>0, <1>34 DEF JudgedInv, ReadyIsJudged, Returned, Judged, Settling, RowInv,
     ReviewPoints, RebutPoints, Finished, vars, moneyVars, treeVars, loopVars,
     criticVars, endVars, ledgerVars
<1> QED
  BY <1>1, <1>2, <1>3, <1>4, <1>5, <1>6, <1>7, <1>8, <1>9, <1>10, <1>11, <1>12,
     <1>13, <1>14, <1>15, <1>16, <1>17, <1>18, <1>19, <1>20, <1>21, <1>22, <1>23,
     <1>24, <1>25, <1>26, <1>27, <1>28, <1>29, <1>30, <1>31, <1>32, <1>33, <1>34 DEF
     Next, Progress
(* A cut is answered over a committed worktree. *)
LEMMA CutStep == BookInv /\ ControlInv /\ [Next]_vars => CutInv'
<1> SUFFICES ASSUME BookInv, ControlInv, [Next]_vars PROVE CutInv'
  OBVIOUS
<1>0. /\ JudgedInv /\ CutInv /\ RowInv /\ TreeOK /\ EndOK /\ LedgerOK
      /\ Returned => pc \in {"teardown", "done"}
  BY DEF BookInv, ControlInv, TypeOK, TallyInv
<1>1. CASE CellUp
  BY <1>0, <1>1 DEF CutInv, CutWorkIsKept, Returned, Settling, CellUp, Proceed,
     GoTo, moneyVars, treeVars, loopVars, criticVars, endVars, ledgerVars
<1>2. CASE Baseline
  BY <1>0, <1>2 DEF CutInv, CutWorkIsKept, Returned, Settling, Baseline, Settle,
     Proceed, GoTo, moneyVars, treeVars, loopVars, criticVars, endVars, ledgerVars
<1>3. CASE PlanCheckpoint
  BY <1>0, <1>3 DEF CutInv, CutWorkIsKept, Returned, Settling, PlanCheckpoint,
     PlanEnds, Settle, Proceed, GoTo, moneyVars, treeVars, loopVars, criticVars,
     endVars, ledgerVars
<1>4. CASE Planned
  BY <1>0, <1>4 DEF CutInv, CutWorkIsKept, Returned, Settling, Planned, Settle,
     Proceed, GoTo, moneyVars, treeVars, loopVars, criticVars, endVars, ledgerVars
<1>5. CASE Implement
  <2>1. /\ pc = "implement" /\ pc' \in {"gate", "empty", "salvage"}
        /\ UNCHANGED <<outcome, result>>
    BY <1>5 DEF Implement, Proceed, GoTo, endVars
  <2>2. (pc' = "empty" /\ cutOff') => ~dirty' \/ refused'
    <3>1. PICK failed \in BOOLEAN, cut \in BOOLEAN :
                /\ cutOff' = cut
                /\ \/ Proceed("gate") \/ ~cut \/ Proceed("salvage")
                   \/ Checkpoint(head)
      BY <1>5 DEF Implement
    <3>2. CASE Checkpoint(head)
      BY <3>2 DEF Checkpoint
    <3>3. CASE ~cut
      BY <3>1, <3>3
    <3>4. CASE Proceed("gate") \/ Proceed("salvage")
      BY <3>4 DEF Proceed, GoTo
    <3> QED
      BY <3>1, <3>2, <3>3, <3>4
  <2> QED
    BY <1>0, <2>1, <2>2 DEF CutInv, CutWorkIsKept, Returned, Settling
<1>6. CASE Salvage
  BY <1>0, <1>6 DEF CutInv, CutWorkIsKept, Returned, Settling, Salvage, Proceed,
     GoTo, WorkCheckpointed, Checkpoint, moneyVars, treeVars, loopVars, criticVars,
     endVars, ledgerVars
<1>7. CASE Empty
  BY <1>0, <1>7 DEF CutInv, CutWorkIsKept, Returned, Settling, Empty, Settle,
     moneyVars, treeVars, loopVars, criticVars, endVars, ledgerVars
<1>8. CASE Gate
  BY <1>0, <1>8 DEF CutInv, CutWorkIsKept, Returned, Settling, Gate, Decision,
     LoopEnds, Proceed, GoTo, SuiteFinds, moneyVars, treeVars, loopVars, criticVars,
     endVars, ledgerVars
<1>9. CASE Repair
  BY <1>0, <1>9 DEF CutInv, CutWorkIsKept, Returned, Settling, Repair, Proceed,
     GoTo, moneyVars, treeVars, loopVars, criticVars, endVars, ledgerVars
<1>10. CASE Notes
  BY <1>0, <1>10 DEF CutInv, CutWorkIsKept, Returned, Settling, Notes, Proceed,
     GoTo, moneyVars, treeVars, loopVars, criticVars, endVars, ledgerVars
<1>11. CASE AfterLoop
  BY <1>0, <1>11 DEF CutInv, CutWorkIsKept, Returned, Settling, AfterLoop, Settle,
     Proceed, GoTo, moneyVars, treeVars, loopVars, criticVars, endVars, ledgerVars
<1>12. CASE GateCell
  BY <1>0, <1>12 DEF CutInv, CutWorkIsKept, Returned, Settling, GateCell,
     PatchRefused, Settle, Proceed, GoTo, moneyVars, treeVars, loopVars, criticVars,
     endVars, ledgerVars
<1>13. CASE CriticCell
  BY <1>0, <1>13 DEF CutInv, CutWorkIsKept, Returned, Settling, CriticCell,
     PatchRefused, Settle, Proceed, GoTo, moneyVars, treeVars, loopVars, criticVars,
     endVars, ledgerVars
<1>14. CASE ReviewSession
  BY <1>0, <1>14 DEF CutInv, CutWorkIsKept, Returned, Settling, ReviewSession,
     Proceed, GoTo, moneyVars, treeVars, loopVars, criticVars, endVars, ledgerVars
<1>15. CASE Reviewed
  BY <1>0, <1>15 DEF CutInv, CutWorkIsKept, Returned, Settling, Reviewed, Settle,
     Proceed, GoTo, moneyVars, treeVars, loopVars, criticVars, endVars, ledgerVars
<1>16. CASE RebutStart
  BY <1>0, <1>16 DEF CutInv, CutWorkIsKept, Returned, Settling, RebutStart, Proceed,
     GoTo, moneyVars, treeVars, loopVars, criticVars, endVars, ledgerVars
<1>17. CASE Rebuttal
  BY <1>0, <1>17 DEF CutInv, CutWorkIsKept, Returned, Settling, Rebuttal, Proceed,
     GoTo, moneyVars, treeVars, loopVars, criticVars, endVars, ledgerVars
<1>18. CASE Extract
  BY <1>0, <1>18 DEF CutInv, CutWorkIsKept, Returned, Settling, Extract, Proceed,
     GoTo, moneyVars, treeVars, loopVars, criticVars, endVars, ledgerVars
<1>19. CASE RebutMeasure
  BY <1>0, <1>19 DEF CutInv, CutWorkIsKept, Returned, Settling, RebutMeasure,
     EndRebut, Onward, Settle, Proceed, GoTo, moneyVars, treeVars, loopVars,
     criticVars, endVars, ledgerVars
<1>20. CASE RebutGates
  BY <1>0, <1>20 DEF CutInv, CutWorkIsKept, Returned, Settling, RebutGates,
     EndRebut, Onward, GatesEnd, Settle, Proceed, GoTo, SuiteFinds, moneyVars,
     treeVars, loopVars, criticVars, endVars, ledgerVars
<1>21. CASE RebutRepair
  BY <1>0, <1>21 DEF CutInv, CutWorkIsKept, Returned, Settling, RebutRepair,
     Proceed, GoTo, moneyVars, treeVars, loopVars, criticVars, endVars, ledgerVars
<1>22. CASE RebutGatesAgain
  BY <1>0, <1>22 DEF CutInv, CutWorkIsKept, Returned, Settling, RebutGatesAgain,
     EndRebut, Onward, GatesEnd, Settle, Proceed, GoTo, SuiteFinds, moneyVars,
     treeVars, loopVars, criticVars, endVars, ledgerVars
<1>23. CASE VerdictCell
  BY <1>0, <1>23 DEF CutInv, CutWorkIsKept, Returned, Settling, VerdictCell,
     EndRebut, Settle, Proceed, GoTo, moneyVars, treeVars, loopVars, criticVars,
     endVars, ledgerVars
<1>24. CASE VerdictSession
  BY <1>0, <1>24 DEF CutInv, CutWorkIsKept, Returned, Settling, VerdictSession,
     Proceed, GoTo, moneyVars, treeVars, loopVars, criticVars, endVars, ledgerVars
<1>25. CASE VerdictsIn
  BY <1>0, <1>25 DEF CutInv, CutWorkIsKept, Returned, Settling, VerdictsIn,
     EndRebut, Settle, Proceed, GoTo, moneyVars, treeVars, loopVars, criticVars,
     endVars, ledgerVars
<1>26. CASE WriteRow
  BY <1>0, <1>26 DEF CutInv, CutWorkIsKept, Returned, Settling, WriteRow, Proceed,
     GoTo, moneyVars, treeVars, loopVars, criticVars, endVars, ledgerVars
<1>27. CASE FinishRun
  BY <1>0, <1>27 DEF CutInv, CutWorkIsKept, Returned, Settling, FinishRun, GoTo,
     moneyVars, treeVars, loopVars, criticVars, endVars, ledgerVars
<1>28. CASE RateLimited
  <2>1. /\ pc' = "settle" /\ outcome' = "RATE_LIMITED" /\ UNCHANGED result
        /\ pc \in TurnPoints
    BY <1>28 DEF RateLimited
  <2>2. ~Returned /\ ~Returned'
    BY <1>0, <2>1 DEF TurnPoints, Returned
  <2> QED
    BY <2>1, <2>2 DEF CutInv, CutWorkIsKept, Settling
<1>29. CASE AbortRun
  BY <1>0, <1>29 DEF CutInv, CutWorkIsKept, Returned, Settling, AbortRun, Proceed,
     GoTo, moneyVars, treeVars, loopVars, criticVars, endVars, ledgerVars
<1>30. CASE Orphan
  BY <1>0, <1>30 DEF CutInv, CutWorkIsKept, Returned, Settling, Orphan, Raised,
     GoTo, moneyVars, treeVars, loopVars, criticVars, endVars, ledgerVars
<1>31. CASE Teardown
  BY <1>0, <1>31 DEF CutInv, CutWorkIsKept, Returned, Settling, Teardown, Proceed,
     GoTo, moneyVars, treeVars, loopVars, criticVars, endVars, ledgerVars
<1>32. CASE Abort
  BY <1>0, <1>32 DEF CutInv, CutWorkIsKept, Returned, Settling, Abort, GoTo,
     moneyVars, treeVars, loopVars, criticVars, endVars, ledgerVars
<1>33. CASE HandlerRaises
  BY <1>0, <1>33 DEF CutInv, CutWorkIsKept, Returned, Settling, HandlerRaises,
     Raised, GoTo, moneyVars, treeVars, loopVars, criticVars, endVars, ledgerVars
<1>34. CASE Finished \/ UNCHANGED vars
  BY <1>0, <1>34 DEF CutInv, CutWorkIsKept, Returned, Settling, Finished, vars,
     moneyVars, treeVars, loopVars, criticVars, endVars, ledgerVars
<1> QED
  BY <1>1, <1>2, <1>3, <1>4, <1>5, <1>6, <1>7, <1>8, <1>9, <1>10, <1>11, <1>12,
     <1>13, <1>14, <1>15, <1>16, <1>17, <1>18, <1>19, <1>20, <1>21, <1>22, <1>23,
     <1>24, <1>25, <1>26, <1>27, <1>28, <1>29, <1>30, <1>31, <1>32, <1>33, <1>34 DEF
     Next, Progress
(* The row follows the session. *)
LEMMA RowStep == BookInv /\ ControlInv /\ [Next]_vars => RowInv'
<1> SUFFICES ASSUME BookInv, ControlInv, [Next]_vars PROVE RowInv'
  OBVIOUS
<1>0. /\ JudgedInv /\ CutInv /\ RowInv /\ TreeOK /\ EndOK /\ LedgerOK
      /\ Returned => pc \in {"teardown", "done"}
  BY DEF BookInv, ControlInv, TypeOK, TallyInv
<1>1. CASE CellUp
  BY <1>0, <1>1 DEF RowInv, RowAgrees, Returned, Settling, UndecidedPoints,
     ReviewPoints, RebutPoints, CellUp, Proceed, GoTo, moneyVars, treeVars,
     loopVars, criticVars, endVars, ledgerVars
<1>2. CASE Baseline
  BY <1>0, <1>2 DEF RowInv, RowAgrees, Returned, Settling, UndecidedPoints,
     ReviewPoints, RebutPoints, Baseline, Settle, Proceed, GoTo, moneyVars,
     treeVars, loopVars, criticVars, endVars, ledgerVars
<1>3. CASE PlanCheckpoint
  BY <1>0, <1>3 DEF RowInv, RowAgrees, Returned, Settling, UndecidedPoints,
     ReviewPoints, RebutPoints, PlanCheckpoint, PlanEnds, Settle, Proceed, GoTo,
     moneyVars, treeVars, loopVars, criticVars, endVars, ledgerVars
<1>4. CASE Planned
  BY <1>0, <1>4 DEF RowInv, RowAgrees, Returned, Settling, UndecidedPoints,
     ReviewPoints, RebutPoints, Planned, Settle, Proceed, GoTo, moneyVars, treeVars,
     loopVars, criticVars, endVars, ledgerVars
<1>5. CASE Implement
  BY <1>0, <1>5 DEF RowInv, RowAgrees, Returned, Settling, UndecidedPoints,
     ReviewPoints, RebutPoints, Implement, Proceed, GoTo, Work, Checkpoint,
     moneyVars, treeVars, loopVars, criticVars, endVars, ledgerVars
<1>6. CASE Salvage
  BY <1>0, <1>6 DEF RowInv, RowAgrees, Returned, Settling, UndecidedPoints,
     ReviewPoints, RebutPoints, Salvage, Proceed, GoTo, WorkCheckpointed,
     Checkpoint, moneyVars, treeVars, loopVars, criticVars, endVars, ledgerVars
<1>7. CASE Empty
  BY <1>0, <1>7 DEF RowInv, RowAgrees, Returned, Settling, UndecidedPoints,
     ReviewPoints, RebutPoints, Empty, Settle, moneyVars, treeVars, loopVars,
     criticVars, endVars, ledgerVars
<1>8. CASE Gate
  BY <1>0, <1>8 DEF RowInv, RowAgrees, Returned, Settling, UndecidedPoints,
     ReviewPoints, RebutPoints, Gate, Decision, LoopEnds, Proceed, GoTo, SuiteFinds,
     moneyVars, treeVars, loopVars, criticVars, endVars, ledgerVars
<1>9. CASE Repair
  BY <1>0, <1>9 DEF RowInv, RowAgrees, Returned, Settling, UndecidedPoints,
     ReviewPoints, RebutPoints, Repair, Proceed, GoTo, moneyVars, treeVars,
     loopVars, criticVars, endVars, ledgerVars
<1>10. CASE Notes
  BY <1>0, <1>10 DEF RowInv, RowAgrees, Returned, Settling, UndecidedPoints,
     ReviewPoints, RebutPoints, Notes, Proceed, GoTo, moneyVars, treeVars, loopVars,
     criticVars, endVars, ledgerVars
<1>11. CASE AfterLoop
  BY <1>0, <1>11 DEF RowInv, RowAgrees, Returned, Settling, UndecidedPoints,
     ReviewPoints, RebutPoints, AfterLoop, Settle, Proceed, GoTo, moneyVars,
     treeVars, loopVars, criticVars, endVars, ledgerVars
<1>12. CASE GateCell
  BY <1>0, <1>12 DEF RowInv, RowAgrees, Returned, Settling, UndecidedPoints,
     ReviewPoints, RebutPoints, GateCell, PatchRefused, Settle, Proceed, GoTo,
     moneyVars, treeVars, loopVars, criticVars, endVars, ledgerVars
<1>13. CASE CriticCell
  BY <1>0, <1>13 DEF RowInv, RowAgrees, Returned, Settling, UndecidedPoints,
     ReviewPoints, RebutPoints, CriticCell, PatchRefused, Settle, Proceed, GoTo,
     moneyVars, treeVars, loopVars, criticVars, endVars, ledgerVars
<1>14. CASE ReviewSession
  BY <1>0, <1>14 DEF RowInv, RowAgrees, Returned, Settling, UndecidedPoints,
     ReviewPoints, RebutPoints, ReviewSession, Proceed, GoTo, moneyVars, treeVars,
     loopVars, criticVars, endVars, ledgerVars
<1>15. CASE Reviewed
  BY <1>0, <1>15 DEF RowInv, RowAgrees, Returned, Settling, UndecidedPoints,
     ReviewPoints, RebutPoints, Reviewed, Settle, Proceed, GoTo, moneyVars,
     treeVars, loopVars, criticVars, endVars, ledgerVars
<1>16. CASE RebutStart
  BY <1>0, <1>16 DEF RowInv, RowAgrees, Returned, Settling, UndecidedPoints,
     ReviewPoints, RebutPoints, RebutStart, Proceed, GoTo, moneyVars, treeVars,
     loopVars, criticVars, endVars, ledgerVars
<1>17. CASE Rebuttal
  BY <1>0, <1>17 DEF RowInv, RowAgrees, Returned, Settling, UndecidedPoints,
     ReviewPoints, RebutPoints, Rebuttal, Proceed, GoTo, moneyVars, treeVars,
     loopVars, criticVars, endVars, ledgerVars
<1>18. CASE Extract
  BY <1>0, <1>18 DEF RowInv, RowAgrees, Returned, Settling, UndecidedPoints,
     ReviewPoints, RebutPoints, Extract, Proceed, GoTo, moneyVars, treeVars,
     loopVars, criticVars, endVars, ledgerVars
<1>19. CASE RebutMeasure
  BY <1>0, <1>19 DEF RowInv, RowAgrees, Returned, Settling, UndecidedPoints,
     ReviewPoints, RebutPoints, RebutMeasure, EndRebut, Onward, Settle, Proceed,
     GoTo, moneyVars, treeVars, loopVars, criticVars, endVars, ledgerVars
<1>20. CASE RebutGates
  BY <1>0, <1>20 DEF RowInv, RowAgrees, Returned, Settling, UndecidedPoints,
     ReviewPoints, RebutPoints, RebutGates, EndRebut, Onward, GatesEnd, Settle,
     Proceed, GoTo, SuiteFinds, moneyVars, treeVars, loopVars, criticVars, endVars,
     ledgerVars
<1>21. CASE RebutRepair
  BY <1>0, <1>21 DEF RowInv, RowAgrees, Returned, Settling, UndecidedPoints,
     ReviewPoints, RebutPoints, RebutRepair, Proceed, GoTo, moneyVars, treeVars,
     loopVars, criticVars, endVars, ledgerVars
<1>22. CASE RebutGatesAgain
  BY <1>0, <1>22 DEF RowInv, RowAgrees, Returned, Settling, UndecidedPoints,
     ReviewPoints, RebutPoints, RebutGatesAgain, EndRebut, Onward, GatesEnd, Settle,
     Proceed, GoTo, SuiteFinds, moneyVars, treeVars, loopVars, criticVars, endVars,
     ledgerVars
<1>23. CASE VerdictCell
  BY <1>0, <1>23 DEF RowInv, RowAgrees, Returned, Settling, UndecidedPoints,
     ReviewPoints, RebutPoints, VerdictCell, EndRebut, Settle, Proceed, GoTo,
     moneyVars, treeVars, loopVars, criticVars, endVars, ledgerVars
<1>24. CASE VerdictSession
  BY <1>0, <1>24 DEF RowInv, RowAgrees, Returned, Settling, UndecidedPoints,
     ReviewPoints, RebutPoints, VerdictSession, Proceed, GoTo, moneyVars, treeVars,
     loopVars, criticVars, endVars, ledgerVars
<1>25. CASE VerdictsIn
  BY <1>0, <1>25 DEF RowInv, RowAgrees, Returned, Settling, UndecidedPoints,
     ReviewPoints, RebutPoints, VerdictsIn, EndRebut, Settle, Proceed, GoTo,
     moneyVars, treeVars, loopVars, criticVars, endVars, ledgerVars
<1>26. CASE WriteRow
  BY <1>0, <1>26 DEF RowInv, RowAgrees, Returned, Settling, UndecidedPoints,
     ReviewPoints, RebutPoints, WriteRow, Proceed, GoTo, moneyVars, treeVars,
     loopVars, criticVars, endVars, ledgerVars
<1>27. CASE FinishRun
  BY <1>0, <1>27 DEF RowInv, RowAgrees, Returned, Settling, UndecidedPoints,
     ReviewPoints, RebutPoints, FinishRun, GoTo, moneyVars, treeVars, loopVars,
     criticVars, endVars, ledgerVars
<1>28. CASE RateLimited
  BY <1>0, <1>28 DEF RowInv, RowAgrees, Returned, Settling, UndecidedPoints,
     ReviewPoints, RebutPoints, RateLimited, Work, moneyVars, treeVars, loopVars,
     criticVars, endVars, ledgerVars
<1>29. CASE AbortRun
  BY <1>0, <1>29 DEF RowInv, RowAgrees, Returned, Settling, UndecidedPoints,
     ReviewPoints, RebutPoints, AbortRun, Proceed, GoTo, moneyVars, treeVars,
     loopVars, criticVars, endVars, ledgerVars
<1>30. CASE Orphan
  BY <1>0, <1>30 DEF RowInv, RowAgrees, Returned, Settling, UndecidedPoints,
     ReviewPoints, RebutPoints, Orphan, Raised, GoTo, moneyVars, treeVars, loopVars,
     criticVars, endVars, ledgerVars
<1>31. CASE Teardown
  BY <1>0, <1>31 DEF RowInv, RowAgrees, Returned, Settling, UndecidedPoints,
     ReviewPoints, RebutPoints, Teardown, Proceed, GoTo, moneyVars, treeVars,
     loopVars, criticVars, endVars, ledgerVars
<1>32. CASE Abort
  BY <1>0, <1>32 DEF RowInv, RowAgrees, Returned, Settling, UndecidedPoints,
     ReviewPoints, RebutPoints, Abort, GoTo, moneyVars, treeVars, loopVars,
     criticVars, endVars, ledgerVars
<1>33. CASE HandlerRaises
  BY <1>0, <1>33 DEF RowInv, RowAgrees, Returned, Settling, UndecidedPoints,
     ReviewPoints, RebutPoints, HandlerRaises, Raised, GoTo, moneyVars, treeVars,
     loopVars, criticVars, endVars, ledgerVars
<1>34. CASE Finished \/ UNCHANGED vars
  BY <1>0, <1>34 DEF RowInv, RowAgrees, Returned, Settling, UndecidedPoints,
     ReviewPoints, RebutPoints, Finished, vars, moneyVars, treeVars, loopVars,
     criticVars, endVars, ledgerVars
<1> QED
  BY <1>1, <1>2, <1>3, <1>4, <1>5, <1>6, <1>7, <1>8, <1>9, <1>10, <1>11, <1>12,
     <1>13, <1>14, <1>15, <1>16, <1>17, <1>18, <1>19, <1>20, <1>21, <1>22, <1>23,
     <1>24, <1>25, <1>26, <1>27, <1>28, <1>29, <1>30, <1>31, <1>32, <1>33, <1>34 DEF
     Next, Progress
-----------------------------------------------------------------------------
(* A cell that starts has judged nothing and answered nothing. *)
LEMMA InitControl == Init => ControlInv
<1>1. Init => /\ pc = "cellUp" /\ ~Returned /\ outcome = "none"
  BY DEF Init, Returned, NoResult
<1> QED
  BY <1>1 DEF ControlInv, JudgedInv, ReadyIsJudged, CutInv, CutWorkIsKept, RowInv,
     RowAgrees, UndecidedPoints, ReviewPoints, RebutPoints, Settling

(* The strengthening holds in every reachable state, with the books it uses. *)
LEMMA ControlAlways == Safety => [](BookInv /\ ControlInv)
<1>1. Init => BookInv /\ ControlInv
  BY InitBooks, InitControl
<1>2. BookInv /\ ControlInv /\ [Next]_vars => (BookInv /\ ControlInv)'
  BY TypeStep, LoopStep, TallyStep, JudgedStep, CutStep, RowStep DEF BookInv, ControlInv
<1> QED
  BY <1>1, <1>2, PTL DEF Safety

(* What a cell hands on as READY_FOR_REVIEW is the head its critics last    *)
(* read, and the head its exported patch ends in; after a rebuttal it is    *)
(* also the head its last suite found green, with nothing uncommitted: for  *)
(* any number of lenses, probes, repairs and verdict sessions, however the  *)
(* agent commits and whatever it leaves in the worktree.                    *)
THEOREM HandsOnWhatWasJudged == Safety => []ReadyIsJudged
<1>1. ControlInv => ReadyIsJudged
  BY DEF ControlInv, JudgedInv
<1> QED
  BY <1>1, ControlAlways, PTL

(* A cell answered ORPHANED because a bound cut its turn holds no work the  *)
(* host could have committed, whichever bound it was and whether a salvage  *)
(* turn ran.                                                                *)
THEOREM CutsKeepTheWork == Safety => []CutWorkIsKept
<1>1. ControlInv => CutWorkIsKept
  BY DEF ControlInv, CutInv
<1> QED
  BY <1>1, ControlAlways, PTL
(* The two orders of SettlesInOrder, as what one step may do. *)
SettlesNext ==
    /\ (row = outcome /\ row' # row) => row' = "ORPHANED" /\ run' = "ABORTED"
    /\ (run # "COMPLETE" /\ run' = "COMPLETE")
          => row = outcome \/ outcome = "READY_FOR_REVIEW"

(* Only eight steps write a row or a run. *)
LEMMA RowWriters ==
    ASSUME [Next]_vars,
           ~Baseline, ~Gate, ~AfterLoop, ~RebutStart, ~WriteRow, ~FinishRun, ~AbortRun,
           ~Orphan
    PROVE  UNCHANGED <<row, run>>
<1>1. CASE CellUp \/ PlanCheckpoint \/ Planned \/ Implement \/ Salvage \/ Empty
  BY <1>1 DEF CellUp, PlanCheckpoint, Planned, Implement, Salvage, Empty, ledgerVars
<1>2. CASE Repair \/ Notes \/ GateCell \/ CriticCell \/ ReviewSession \/ Reviewed
  BY <1>2 DEF Repair, Notes, GateCell, CriticCell, ReviewSession, Reviewed, ledgerVars
<1>3. CASE Rebuttal \/ Extract \/ RebutMeasure \/ RebutGates \/ RebutRepair
  BY <1>3 DEF Rebuttal, Extract, RebutMeasure, RebutGates, RebutRepair, ledgerVars
<1>4. CASE RebutGatesAgain \/ VerdictCell \/ VerdictSession \/ VerdictsIn
  BY <1>4 DEF RebutGatesAgain, VerdictCell, VerdictSession, VerdictsIn, ledgerVars
<1>5. CASE RateLimited \/ Teardown \/ Abort \/ HandlerRaises \/ Finished \/ UNCHANGED vars
  BY <1>5 DEF RateLimited, Teardown, Abort, HandlerRaises, Finished, vars, ledgerVars
<1> QED
  BY <1>1, <1>2, <1>3, <1>4, <1>5 DEF Next, Progress

(* Each of the eight keeps both orders: before the loop's end no outcome is *)
(* decided, in REVIEW it is one no row takes, and a row is orphaned only    *)
(* under a run that already reads ABORTED.                                  *)
LEMMA SettleStep == BookInv /\ ControlInv /\ [Next]_vars => SettlesNext
<1> SUFFICES ASSUME BookInv, ControlInv, [Next]_vars PROVE SettlesNext
  OBVIOUS
<1>0. RowInv /\ row \in LiveStates \union EndStates
  BY DEF BookInv, ControlInv, TypeOK, LedgerOK
<1>1. row # "none" /\ row # "READY_FOR_REVIEW"
  BY <1>0 DEF LiveStates, EndStates
<1>2. CASE Baseline
  BY <1>0, <1>1, <1>2 DEF SettlesNext, RowInv, UndecidedPoints, Baseline
<1>3. CASE Gate
  BY <1>0, <1>1, <1>3 DEF SettlesNext, RowInv, UndecidedPoints, Gate
<1>4. CASE AfterLoop
  BY <1>0, <1>1, <1>4 DEF SettlesNext, AfterLoop
<1>5. CASE RebutStart
  BY <1>0, <1>1, <1>5 DEF SettlesNext, RowInv, ReviewPoints, RebutStart
<1>6. CASE WriteRow
  BY <1>0, <1>1, <1>6 DEF SettlesNext, WriteRow
<1>7. CASE FinishRun
  BY <1>0, <1>1, <1>7 DEF SettlesNext, RowInv, FinishRun
<1>8. CASE AbortRun
  BY <1>0, <1>8 DEF SettlesNext, AbortRun
<1>9. CASE Orphan
  BY <1>0, <1>9 DEF SettlesNext, RowInv, Orphan
<1> QED
  BY <1>2, <1>3, <1>4, <1>5, <1>6, <1>7, <1>8, <1>9, RowWriters DEF SettlesNext

(* The row and the run settle in order on every path of `_drive_cell`: the  *)
(* answer, the row and the run agree when it returns; a settled row is      *)
(* overwritten only by ORPHANED and only under an ABORTED run; and no kill  *)
(* between the two writes leaves a finished run over a live row.            *)
THEOREM WritesInOrder == Safety => SettlesInOrder
<1>1. ControlInv => RowAgrees
  BY DEF ControlInv, RowInv
<1>2. BookInv /\ ControlInv /\ [Next]_vars => [SettlesNext]_vars
  BY SettleStep
<1> QED
  BY <1>1, <1>2, ControlAlways, PTL DEF SettlesInOrder, SettlesNext, RowAgrees, Safety
-----------------------------------------------------------------------------
(***************************************************************************)
(* How far a cell's spend can go, for every value of the constants: the    *)
(* ceiling on the whole of it, and the reserves REBUT's later stages find  *)
(* whatever the earlier ones cost.  Both need what each point of the       *)
(* session may already have spent, which is CeilingInv.                    *)
(***************************************************************************)

(* One review session, and the sessions that have run. *)
SessionCap == Larger(Budget, ReviewFloor) + Overshoot

(* A task's own turns up to REVIEW, and with REVIEW. *)
WorkCeiling == Budget + TurnCeiling
ReadCeiling == WorkCeiling + ReviewCeiling

BeforeReview ==
    {"cellUp", "baseline", "plan", "replan", "planned", "implement", "salvage", "empty",
     "gate", "repair", "notes", "afterLoop", "gateCell", "criticCell"}

RebutMiddle ==
    {"rebutMeasure", "rebutGates", "rebutRepair", "rebutGatesAgain", "verdictCell"}

(* Before REVIEW: a plan's frame, and a tally under the budget wherever a   *)
(* turn may still be bought.                                                *)
WorkInv ==
    /\ last <= TurnCeiling
    /\ held <= Budget
    /\ pc = "replan" => frame <= TurnCeiling
    /\ pc = "planned" => frame <= 2 * TurnCeiling
    /\ pc \in {"implement", "salvage", "repair"} => spent < Budget
    /\ pc \in {"empty", "gate", "notes", "afterLoop", "gateCell", "criticCell", "review",
               "reviewed"} => spent <= WorkCeiling

(* REVIEW: every session within its cap. *)
ReviewInv ==
    /\ pc \in BeforeReview => sessions = 0
    /\ pc = "review" => sessions < Lenses + ProbeSessions /\ frame <= sessions * SessionCap
    /\ pc = "reviewed" => frame <= ReviewCeiling

(* REBUT: the pool each stage opens, and what has been drawn from it. *)
PoolInv ==
    /\ pc \in {"rebutStart", "rebuttal", "extract", "verdict", "verdictsIn"}
              \union RebutMiddle => spent <= ReadCeiling
    /\ pc = "rebuttal" => pool.spent = 0 /\ pool.limit = RebutCap
    /\ pc = "extract" => /\ pool.spent <= RebutCap + Overshoot
                         /\ pool.limit <= RebutCap + Overshoot + Extraction
    /\ pc \in RebutMiddle => pool.spent <= AnswerCeiling /\ pool.limit <= AnswerCeiling
    /\ pc \in {"verdict", "verdictsIn"} => /\ pool.spent <= AnswerCeiling + Verdict + Overshoot
                                           /\ pool.limit <= AnswerCeiling + Verdict
    /\ pc = "rebutRepair" => spent + pool.spent < Budget

CeilingInv == WorkInv /\ ReviewInv /\ PoolInv /\ SpendCeiling /\ StageFunded
-----------------------------------------------------------------------------
(* The ceilings are natural numbers, and each stands above those before it. *)
LEMMA CeilingsAreNatural ==
    /\ SessionCap \in Nat /\ TurnCeiling \in Nat /\ WorkCeiling \in Nat
    /\ ReviewCeiling \in Nat /\ ReadCeiling \in Nat
    /\ AnswerCeiling \in Nat /\ RebutCeiling \in Nat
    /\ TurnCeiling = Budget + Overshoot /\ Budget \in Nat /\ Overshoot \in Nat
    /\ WorkCeiling = Budget + TurnCeiling
    /\ ReadCeiling = WorkCeiling + ReviewCeiling
    /\ ReviewCeiling = (Lenses + ProbeSessions) * SessionCap
    /\ RebutCeiling = AnswerCeiling + Verdict + Overshoot
<1>1. SessionCap \in Nat /\ TurnCeiling \in Nat /\ Budget \in Nat /\ Overshoot \in Nat
  BY MoneyAssumption DEF SessionCap, Larger, TurnCeiling
<1>2. ReviewCeiling = (Lenses + ProbeSessions) * SessionCap
  BY DEF ReviewCeiling, SessionCap
<1>3. ReviewCeiling \in Nat
  BY <1>1, <1>2, CountAssumption
<1>4. AnswerCeiling \in Nat
  BY MoneyAssumption DEF AnswerCeiling, Larger
<1> QED
  BY <1>1, <1>2, <1>3, <1>4, MoneyAssumption DEF WorkCeiling, ReadCeiling, RebutCeiling,
     TurnCeiling

(* What the rebuttal and its extraction may cost covers each way to fail. *)
LEMMA AnswerCovers ==
    /\ AnswerCeiling >= Budget + Overshoot
    /\ AnswerCeiling >= RebutCap + Overshoot
    /\ AnswerCeiling >= RebutCap + Extraction + 2 * Overshoot
    /\ AnswerCeiling >= 2 * RebutCap + 2 * Overshoot
  BY MoneyAssumption DEF AnswerCeiling, Larger

(* One more session moves the bound on REVIEW's frame by one session's cap. *)
LEMMA OneMoreSession ==
    ASSUME NEW k \in Nat, NEW n \in Nat, NEW cap \in Nat, k < n
    PROVE  /\ (k + 1) * cap = k * cap + cap
           /\ (k + 1) * cap <= n * cap
           /\ k * cap \in Nat
<1>1. (k + 1) * cap = k * cap + cap /\ k * cap \in Nat
  OBVIOUS
<1>2. PICK d \in Nat : n = (k + 1) + d
  <2>1. n - (k + 1) \in Nat /\ n = (k + 1) + (n - (k + 1))
    OBVIOUS
  <2> QED
    BY <2>1
<1>3. n * cap = (k + 1) * cap + d * cap
  BY <1>2
<1>4. d * cap \in Nat
  OBVIOUS
<1> QED
  BY <1>1, <1>3, <1>4
-----------------------------------------------------------------------------
(* What one turn can be charged, at each point where one runs: the cap it   *)
(* is given and one overshoot, or the figure carried into it.               *)
LEMMA TurnCharges ==
    ASSUME MoneyOK, TallyInv, WorkInv, PoolInv, NEW f \in BOOLEAN, NEW c \in Costs(f)
    PROVE  /\ c \in Nat
           /\ pc \in {"plan", "replan"} => c <= TurnCeiling
           /\ pc \in {"implement", "salvage", "repair"} => spent + c <= WorkCeiling
           /\ (pc = "notes" /\ ~OverBudget) => spent + c <= WorkCeiling
           /\ pc = "review" => c <= SessionCap
           /\ pc = "rebuttal" => c <= Larger(RebutCap, Budget) + Overshoot
           /\ (pc = "rebuttal" /\ ~f) => c <= RebutCap + Overshoot
           /\ pc = "extract" => pool.spent + c <= AnswerCeiling
           /\ pc = "rebutRepair" => spent + c <= WorkCeiling
           /\ pc = "verdict" => pool.spent + c <= pool.limit + Overshoot
<1>0. /\ c \in Nat /\ spent \in Nat /\ frame \in Nat /\ last \in Nat /\ held \in Nat
      /\ pool.spent \in Nat /\ pool.limit \in Nat
      /\ last <= TurnCeiling /\ held <= Budget
  BY CostsAreNatural DEF MoneyOK, PoolRecords, WorkInv
<1>1. \/ c \in 0 .. (TurnCap + Overshoot)
      \/ f /\ c \in Carried
  BY DEF Costs
<1>2. CASE pc \in {"plan", "replan"}
  <2>1. TurnCap = Budget
    BY <1>2 DEF TurnCap
  <2>2. Carried \subseteq {frame} /\ (pc = "plan" => Carried = {})
    BY <1>2 DEF Carried
  <2> QED
    BY <1>0, <1>1, <1>2, <2>1, <2>2, CeilingsAreNatural DEF WorkInv
<1>3. CASE pc \in {"implement", "salvage", "repair", "notes"}
  <2>1. TurnCap \in {(Budget - spent) - held, held, Budget}
    BY <1>3 DEF TurnCap
  <2>2. c <= TurnCeiling
    <3>1. Carried \subseteq 0 .. last
      BY <1>0, <1>3 DEF Carried
    <3> QED
      BY <1>0, <1>1, <2>1, <3>1, CeilingsAreNatural
  <2> QED
    BY <1>0, <1>3, <2>2, CeilingsAreNatural, MoneyAssumption DEF WorkInv, OverBudget
<1>4. CASE pc = "review"
  <2>1. TurnCap = CriticBudget /\ Carried = {}
    BY <1>4 DEF TurnCap, Carried
  <2>2. CriticBudget <= Larger(Budget, ReviewFloor) /\ CriticBudget \in Int
    BY <1>0, MoneyAssumption DEF CriticBudget, Larger
  <2>3. Larger(Budget, ReviewFloor) \in Int
    BY MoneyAssumption DEF Larger
  <2> QED
    BY <1>0, <1>1, <1>4, <2>1, <2>2, <2>3, MoneyAssumption DEF SessionCap
<1>5. CASE pc = "rebuttal"
  <2>1. TurnCap = RebutCap /\ Carried = {last}
    BY <1>5, MoneyAssumption DEF TurnCap, Carried, PoolRemaining, PoolInv
  <2> QED
    BY <1>0, <1>1, <1>5, <2>1, CeilingsAreNatural, MoneyAssumption DEF Larger
<1>6. CASE pc = "extract"
  <2>1. TurnCap = pool.limit - pool.spent /\ Carried = {pool.spent}
    BY <1>6 DEF TurnCap, Carried, PoolRemaining
  <2>2. /\ pool.spent <= RebutCap + Overshoot
        /\ pool.limit <= RebutCap + Overshoot + Extraction
    BY <1>6 DEF PoolInv
  <2> QED
    BY <1>0, <1>1, <1>6, <2>1, <2>2, AnswerCovers, CeilingsAreNatural, MoneyAssumption
<1>7. CASE pc = "rebutRepair"
  <2>1. TurnCap = Budget - (spent + pool.spent) /\ Carried = {last}
    BY <1>7 DEF TurnCap, Carried
  <2>2. spent + pool.spent < Budget
    BY <1>7 DEF PoolInv
  <2> QED
    BY <1>0, <1>1, <1>7, <2>1, <2>2, CeilingsAreNatural
<1>8. CASE pc = "verdict"
  <2>1. TurnCap = pool.limit - pool.spent /\ Carried = {}
    BY <1>8 DEF TurnCap, Carried, PoolRemaining
  <2> QED
    BY <1>0, <1>1, <1>8, <2>1, MoneyAssumption
<1> QED
  BY <1>0, <1>2, <1>3, <1>4, <1>5, <1>6, <1>7, <1>8
-----------------------------------------------------------------------------
(* A turn of the implementer's is charged one ceiling at most. *)
LEMMA TurnIsCapped ==
    ASSUME MoneyOK, WorkInv, PoolInv, NEW f \in BOOLEAN, NEW c \in Costs(f),
           pc \in {"implement", "salvage", "repair", "notes", "rebutRepair"}
    PROVE  c <= TurnCeiling
<1>1. /\ c \in Nat /\ spent \in Nat /\ last \in Nat /\ held \in Nat /\ pool.spent \in Nat
      /\ last <= TurnCeiling /\ held <= Budget
  BY CostsAreNatural DEF MoneyOK, PoolRecords, WorkInv
<1>2. TurnCap \in {(Budget - spent) - held, held, Budget, Budget - (spent + pool.spent)}
  BY DEF TurnCap
<1>3. Carried \subseteq 0 .. last
  BY <1>1 DEF Carried
<1> QED
  BY <1>1, <1>2, <1>3, CeilingsAreNatural DEF Costs

(* A turn before REVIEW is bought under the budget, and costs one cap more at most. *)
LEMMA WorkStep == BookInv /\ CeilingInv /\ [Next]_vars => WorkInv'
<1> SUFFICES ASSUME BookInv, CeilingInv, [Next]_vars PROVE WorkInv'
  OBVIOUS
<1>0. /\ WorkInv /\ ReviewInv /\ PoolInv /\ SpendCeiling /\ StageFunded
      /\ TallyInv /\ MoneyOK /\ CriticOK
      /\ spent \in Nat /\ frame \in Nat /\ last \in Nat /\ held \in Nat
      /\ pool.spent \in Nat /\ pool.limit \in Nat /\ sessions \in Nat
  BY DEF BookInv, CeilingInv, TypeOK, MoneyOK, PoolRecords, CriticOK
<1>1. CASE CellUp
  BY <1>0, <1>1, CeilingsAreNatural DEF WorkInv, FramePoints, CellUp, Proceed, GoTo,
     moneyVars, treeVars, loopVars, criticVars, endVars
<1>2. CASE Baseline
  BY <1>0, <1>2, CeilingsAreNatural DEF WorkInv, FramePoints, Baseline, Settle,
     Proceed, GoTo, moneyVars, treeVars, loopVars, criticVars, endVars
<1>3. CASE PlanCheckpoint
  <2>1. /\ pc \in {"plan", "replan"} /\ pc' \in {"planned", "replan", "settle"}
        /\ UNCHANGED held /\ (pc' = "replan" => pc = "plan")
    BY <1>3 DEF PlanCheckpoint, Proceed, Settle, GoTo
  <2>2. frame <= TurnCeiling
    BY <1>0, <2>1, CeilingsAreNatural DEF WorkInv, TallyInv, FramePoints
  <2>3. CASE \E c \in Costs(FALSE) : frame' = frame + c /\ last' = c
    <3>1. PICK c \in Costs(FALSE) : frame' = frame + c /\ last' = c
      BY <2>3
    <3>2. c \in Nat /\ c <= TurnCeiling
      BY <1>0, <2>1, TurnCharges
    <3>3. pc = "plan" => frame = 0
      BY <1>0 DEF TallyInv, FramePoints
    <3> QED
      BY <1>0, <2>1, <2>2, <3>1, <3>2, <3>3, CeilingsAreNatural DEF WorkInv
  <2>4. CASE UNCHANGED last /\ pc' = "settle"
    BY <1>0, <2>1, <2>4 DEF WorkInv
  <2> QED
    BY <1>3, <2>3, <2>4 DEF PlanCheckpoint, Settle
<1>4. CASE Planned
  <2>1. pc = "planned" /\ frame <= 2 * TurnCeiling /\ spent' = frame /\ UNCHANGED last
    BY <1>0, <1>4 DEF WorkInv, Planned
  <2>2. CASE frame >= Budget
    BY <1>0, <1>4, <2>1, <2>2 DEF WorkInv, Planned, Settle
  <2>3. CASE ~(frame >= Budget)
    <3>1. pc' = "implement" /\ held' = HeldForSalvage(frame)
      BY <1>4, <2>3 DEF Planned, Proceed, GoTo
    <3>2. frame < Budget /\ HeldForSalvage(frame) <= Budget
      BY <1>0, <2>3, MoneyAssumption DEF HeldForSalvage, Smaller
    <3> QED
      BY <1>0, <2>1, <3>1, <3>2 DEF WorkInv
  <2> QED
    BY <2>2, <2>3
<1>5. CASE Implement
  <2>1. PICK failed \in BOOLEAN, cut \in BOOLEAN :
           \E c \in Costs(failed) :
              /\ Charge(c)
              /\ \/ Proceed("gate") \/ Proceed("empty")
                 \/ spent + c < Budget /\ Proceed("salvage")
                 \/ Proceed(IF head' > planned THEN "gate" ELSE "empty")
    BY <1>5 DEF Implement
  <2>2. PICK c \in Costs(failed) :
              /\ Charge(c)
              /\ pc' \in {"gate", "empty", "salvage"}
              /\ pc' = "salvage" => spent + c < Budget
    BY <2>1 DEF Proceed, GoTo
  <2>3. pc = "implement" /\ spent' = spent + c /\ last' = c /\ UNCHANGED held
    BY <1>5, <2>2 DEF Implement, Charge
  <2>4. c \in Nat /\ spent + c <= WorkCeiling /\ c <= TurnCeiling
    BY <1>0, <2>2, <2>3, TurnCharges, TurnIsCapped
  <2> QED
    BY <1>0, <2>2, <2>3, <2>4 DEF WorkInv
<1>6. CASE Salvage
  BY <1>0, <1>6, CeilingsAreNatural, TurnCharges DEF WorkInv, FramePoints, Salvage,
     Proceed, GoTo, Book, moneyVars, treeVars, loopVars, criticVars, endVars
<1>7. CASE Empty
  BY <1>0, <1>7, CeilingsAreNatural DEF WorkInv, FramePoints, Empty, Settle,
     moneyVars, treeVars, loopVars, criticVars, endVars
<1>8. CASE Gate
  <2>1. pc = "gate" /\ pc' \in {"repair", "notes"} /\ (pc' = "repair" => spent < Budget)
        /\ UNCHANGED <<last, held, spent>>
    <3>1. pc = "gate" /\ UNCHANGED <<last, held, spent>>
      BY <1>8 DEF Gate, moneyVars
    <3>2. (pc' = "repair" /\ ~OverBudget) \/ pc' = "notes"
      BY <1>8 DEF Gate, Proceed, LoopEnds, GoTo
    <3> QED
      BY <1>0, <3>1, <3>2, MoneyAssumption DEF OverBudget
  <2> QED
    BY <1>0, <2>1 DEF WorkInv
<1>9. CASE Repair
  <2>1. pc = "repair" /\ pc' = "gate"
    BY <1>9 DEF Repair, Proceed, GoTo
  <2>2. PICK failed \in BOOLEAN : \E c \in Costs(failed) : Charge(c)
    BY <1>9 DEF Repair, ImplementerTurn
  <2>3. PICK c \in Costs(failed) : Charge(c)
    BY <2>2
  <2>4. c \in Nat /\ spent + c <= WorkCeiling /\ c <= TurnCeiling
    BY <1>0, <2>1, TurnCharges, TurnIsCapped
  <2> QED
    BY <1>0, <2>1, <2>3, <2>4 DEF WorkInv, Charge
<1>10. CASE Notes
  <2>1. pc = "notes" /\ pc' = "afterLoop"
    BY <1>10 DEF Notes, Proceed, GoTo
  <2>2. CASE UNCHANGED moneyVars
    BY <1>0, <2>1, <2>2 DEF WorkInv, moneyVars
  <2>3. CASE ~OverBudget /\ \E failed \in BOOLEAN : \E c \in Costs(failed) : Charge(c)
    <3>1. PICK failed \in BOOLEAN : \E c \in Costs(failed) : Charge(c)
      BY <2>3
    <3>2. PICK c \in Costs(failed) : Charge(c)
      BY <3>1
    <3>3. c \in Nat /\ spent + c <= WorkCeiling /\ c <= TurnCeiling
      BY <1>0, <2>1, <2>3, TurnCharges, TurnIsCapped
    <3> QED
      BY <1>0, <2>1, <3>2, <3>3 DEF WorkInv, Charge
  <2> QED
    BY <1>10, <2>2, <2>3 DEF Notes
<1>11. CASE AfterLoop
  BY <1>0, <1>11, CeilingsAreNatural DEF WorkInv, FramePoints, AfterLoop, Settle,
     Proceed, GoTo, moneyVars, treeVars, loopVars, criticVars, endVars
<1>12. CASE GateCell
  BY <1>0, <1>12, CeilingsAreNatural DEF WorkInv, FramePoints, GateCell,
     PatchRefused, Settle, Proceed, GoTo, moneyVars, treeVars, loopVars, criticVars,
     endVars
<1>13. CASE CriticCell
  BY <1>0, <1>13, CeilingsAreNatural DEF WorkInv, FramePoints, CriticCell,
     PatchRefused, Settle, Proceed, GoTo, moneyVars, treeVars, loopVars, criticVars,
     endVars
<1>14. CASE ReviewSession
  BY <1>0, <1>14, CeilingsAreNatural, TurnCharges DEF WorkInv, FramePoints,
     ReviewSession, Proceed, GoTo, Book, moneyVars, treeVars, loopVars, criticVars,
     endVars
<1>15. CASE Reviewed
  BY <1>0, <1>15, CeilingsAreNatural DEF WorkInv, FramePoints, Reviewed, Settle,
     Proceed, GoTo, moneyVars, treeVars, loopVars, criticVars, endVars
<1>16. CASE RebutStart
  BY <1>0, <1>16, CeilingsAreNatural DEF WorkInv, FramePoints, RebutStart, Proceed,
     GoTo, moneyVars, treeVars, loopVars, criticVars, endVars
<1>17. CASE Rebuttal
  BY <1>0, <1>17, CeilingsAreNatural, TurnCharges DEF WorkInv, FramePoints,
     Rebuttal, Proceed, GoTo, Book, moneyVars, treeVars, loopVars, criticVars,
     endVars
<1>18. CASE Extract
  BY <1>0, <1>18, CeilingsAreNatural, TurnCharges DEF WorkInv, FramePoints, Extract,
     Proceed, GoTo, Book, moneyVars, treeVars, loopVars, criticVars, endVars
<1>19. CASE RebutMeasure
  BY <1>0, <1>19, CeilingsAreNatural DEF WorkInv, FramePoints, RebutMeasure,
     EndRebut, Onward, Settle, Proceed, GoTo, moneyVars, treeVars, loopVars,
     criticVars, endVars
<1>20. CASE RebutGates
  BY <1>0, <1>20, CeilingsAreNatural DEF WorkInv, FramePoints, RebutGates, EndRebut,
     Onward, GatesEnd, Settle, Proceed, GoTo, moneyVars, treeVars, loopVars,
     criticVars, endVars
<1>21. CASE RebutRepair
  <2>1. pc = "rebutRepair" /\ pc' = "rebutGatesAgain"
    BY <1>21 DEF RebutRepair, Proceed, GoTo
  <2>2. PICK failed \in BOOLEAN : \E c \in Costs(failed) : Charge(c)
    BY <1>21 DEF RebutRepair, ImplementerTurn
  <2>3. PICK c \in Costs(failed) : Charge(c)
    BY <2>2
  <2>4. c \in Nat /\ spent + c <= WorkCeiling /\ c <= TurnCeiling
    BY <1>0, <2>1, TurnCharges, TurnIsCapped
  <2> QED
    BY <1>0, <2>1, <2>3, <2>4 DEF WorkInv, Charge
<1>22. CASE RebutGatesAgain
  BY <1>0, <1>22, CeilingsAreNatural DEF WorkInv, FramePoints, RebutGatesAgain,
     EndRebut, Onward, GatesEnd, Settle, Proceed, GoTo, moneyVars, treeVars,
     loopVars, criticVars, endVars
<1>23. CASE VerdictCell
  BY <1>0, <1>23, CeilingsAreNatural DEF WorkInv, FramePoints, VerdictCell,
     EndRebut, Settle, Proceed, GoTo, moneyVars, treeVars, loopVars, criticVars,
     endVars
<1>24. CASE VerdictSession
  BY <1>0, <1>24, CeilingsAreNatural, TurnCharges DEF WorkInv, FramePoints,
     VerdictSession, Proceed, GoTo, Book, moneyVars, treeVars, loopVars, criticVars,
     endVars
<1>25. CASE VerdictsIn
  BY <1>0, <1>25, CeilingsAreNatural DEF WorkInv, FramePoints, VerdictsIn, EndRebut,
     Settle, Proceed, GoTo, moneyVars, treeVars, loopVars, criticVars, endVars
<1>26. CASE WriteRow
  BY <1>0, <1>26, CeilingsAreNatural DEF WorkInv, FramePoints, WriteRow, Proceed,
     GoTo, moneyVars, treeVars, loopVars, criticVars, endVars
<1>27. CASE FinishRun
  BY <1>0, <1>27, CeilingsAreNatural DEF WorkInv, FramePoints, FinishRun, GoTo,
     moneyVars, treeVars, loopVars, criticVars, endVars
<1>28. CASE RateLimited
  BY <1>0, <1>28, CeilingsAreNatural, TurnCharges DEF WorkInv, FramePoints,
     RateLimited, Book, moneyVars, treeVars, loopVars, criticVars, endVars
<1>29. CASE AbortRun
  BY <1>0, <1>29, CeilingsAreNatural DEF WorkInv, FramePoints, AbortRun, Proceed,
     GoTo, moneyVars, treeVars, loopVars, criticVars, endVars
<1>30. CASE Orphan
  BY <1>0, <1>30, CeilingsAreNatural DEF WorkInv, FramePoints, Orphan, Raised, GoTo,
     moneyVars, treeVars, loopVars, criticVars, endVars
<1>31. CASE Teardown
  BY <1>0, <1>31, CeilingsAreNatural DEF WorkInv, FramePoints, Teardown, Proceed,
     GoTo, moneyVars, treeVars, loopVars, criticVars, endVars
<1>32. CASE Abort
  BY <1>0, <1>32, CeilingsAreNatural DEF WorkInv, FramePoints, Abort, GoTo,
     moneyVars, treeVars, loopVars, criticVars, endVars
<1>33. CASE HandlerRaises
  BY <1>0, <1>33, CeilingsAreNatural DEF WorkInv, FramePoints, HandlerRaises,
     Raised, GoTo, moneyVars, treeVars, loopVars, criticVars, endVars
<1>34. CASE Finished \/ UNCHANGED vars
  BY <1>0, <1>34 DEF WorkInv, FramePoints, Finished, vars, moneyVars, treeVars,
     loopVars, criticVars, endVars
<1> QED
  BY <1>1, <1>2, <1>3, <1>4, <1>5, <1>6, <1>7, <1>8, <1>9, <1>10, <1>11, <1>12,
     <1>13, <1>14, <1>15, <1>16, <1>17, <1>18, <1>19, <1>20, <1>21, <1>22, <1>23,
     <1>24, <1>25, <1>26, <1>27, <1>28, <1>29, <1>30, <1>31, <1>32, <1>33, <1>34 DEF
     Next, Progress
(* REVIEW counts its sessions, and its frame holds a cap for each. *)
LEMMA ReviewStep == BookInv /\ CeilingInv /\ [Next]_vars => ReviewInv'
<1> SUFFICES ASSUME BookInv, CeilingInv, [Next]_vars PROVE ReviewInv'
  OBVIOUS
<1>0. /\ WorkInv /\ ReviewInv /\ PoolInv /\ SpendCeiling /\ StageFunded
      /\ TallyInv /\ MoneyOK /\ CriticOK
      /\ spent \in Nat /\ frame \in Nat /\ last \in Nat /\ held \in Nat
      /\ pool.spent \in Nat /\ pool.limit \in Nat /\ sessions \in Nat
  BY DEF BookInv, CeilingInv, TypeOK, MoneyOK, PoolRecords, CriticOK
<1>1. CASE CellUp
  BY <1>0, <1>1, CeilingsAreNatural DEF ReviewInv, BeforeReview, FramePoints,
     CellUp, Proceed, GoTo, moneyVars, treeVars, loopVars, criticVars, endVars
<1>2. CASE Baseline
  BY <1>0, <1>2, CeilingsAreNatural DEF ReviewInv, BeforeReview, FramePoints,
     Baseline, Settle, Proceed, GoTo, moneyVars, treeVars, loopVars, criticVars,
     endVars
<1>3. CASE PlanCheckpoint
  BY <1>0, <1>3, CeilingsAreNatural, TurnCharges DEF ReviewInv, BeforeReview,
     FramePoints, PlanCheckpoint, PlanEnds, Settle, Proceed, GoTo, Book, moneyVars,
     treeVars, loopVars, criticVars, endVars
<1>4. CASE Planned
  BY <1>0, <1>4, CeilingsAreNatural DEF ReviewInv, BeforeReview, FramePoints,
     Planned, Settle, Proceed, GoTo, moneyVars, treeVars, loopVars, criticVars,
     endVars
<1>5. CASE Implement
  BY <1>0, <1>5, CeilingsAreNatural, TurnCharges DEF ReviewInv, BeforeReview,
     FramePoints, Implement, Proceed, GoTo, Charge, Book, moneyVars, treeVars,
     loopVars, criticVars, endVars
<1>6. CASE Salvage
  BY <1>0, <1>6, CeilingsAreNatural, TurnCharges DEF ReviewInv, BeforeReview,
     FramePoints, Salvage, Proceed, GoTo, Book, moneyVars, treeVars, loopVars,
     criticVars, endVars
<1>7. CASE Empty
  BY <1>0, <1>7, CeilingsAreNatural DEF ReviewInv, BeforeReview, FramePoints, Empty,
     Settle, moneyVars, treeVars, loopVars, criticVars, endVars
<1>8. CASE Gate
  BY <1>0, <1>8, CeilingsAreNatural DEF ReviewInv, BeforeReview, FramePoints, Gate,
     Decision, LoopEnds, Proceed, GoTo, moneyVars, treeVars, loopVars, criticVars,
     endVars
<1>9. CASE Repair
  BY <1>0, <1>9, CeilingsAreNatural, TurnCharges DEF ReviewInv, BeforeReview,
     FramePoints, Repair, Proceed, GoTo, ImplementerTurn, Charge, Book, moneyVars,
     treeVars, loopVars, criticVars, endVars
<1>10. CASE Notes
  BY <1>0, <1>10, CeilingsAreNatural, TurnCharges DEF ReviewInv, BeforeReview,
     FramePoints, Notes, Proceed, GoTo, Charge, Book, moneyVars, treeVars, loopVars,
     criticVars, endVars
<1>11. CASE AfterLoop
  BY <1>0, <1>11, CeilingsAreNatural DEF ReviewInv, BeforeReview, FramePoints,
     AfterLoop, Settle, Proceed, GoTo, moneyVars, treeVars, loopVars, criticVars,
     endVars
<1>12. CASE GateCell
  BY <1>0, <1>12, CeilingsAreNatural DEF ReviewInv, BeforeReview, FramePoints,
     GateCell, PatchRefused, Settle, Proceed, GoTo, moneyVars, treeVars, loopVars,
     criticVars, endVars
<1>13. CASE CriticCell
  <2>1. pc = "criticCell" /\ pc' \in {"review", "settle"} /\ UNCHANGED <<frame, sessions>>
    BY <1>13 DEF CriticCell, PatchRefused, Settle, Proceed, GoTo, moneyVars, criticVars
  <2>2. frame = 0 /\ sessions = 0
    BY <1>0, <2>1 DEF TallyInv, FramePoints, ReviewInv, BeforeReview
  <2> QED
    BY <2>1, <2>2, CeilingsAreNatural, CountAssumption DEF ReviewInv, BeforeReview
<1>14. CASE ReviewSession
  <2>1. pc = "review" /\ sessions' = sessions + 1
        /\ pc' = IF sessions + 1 = Lenses + ProbeSessions THEN "reviewed" ELSE "review"
    BY <1>14 DEF ReviewSession, Proceed, GoTo
  <2>2. PICK c \in Costs(FALSE) : frame' = frame + c
    BY <1>14 DEF ReviewSession
  <2>3. c \in Nat /\ c <= SessionCap
    BY <1>0, <2>1, TurnCharges
  <2>4. sessions < Lenses + ProbeSessions /\ frame <= sessions * SessionCap
    BY <1>0, <2>1 DEF ReviewInv
  <2>5. Lenses + ProbeSessions \in Nat /\ SessionCap \in Nat
    BY CeilingsAreNatural, CountAssumption
  <2>6. /\ (sessions + 1) * SessionCap = sessions * SessionCap + SessionCap
        /\ sessions * SessionCap \in Nat
    BY <1>0, <2>4, <2>5, OneMoreSession
  <2>7. frame' <= (sessions + 1) * SessionCap
    BY <1>0, <2>2, <2>3, <2>4, <2>5, <2>6
  <2>8. CASE sessions + 1 = Lenses + ProbeSessions
    BY <2>1, <2>7, <2>8, CeilingsAreNatural DEF ReviewInv, BeforeReview
  <2>9. CASE sessions + 1 # Lenses + ProbeSessions
    BY <1>0, <2>1, <2>4, <2>5, <2>7, <2>9 DEF ReviewInv, BeforeReview
  <2> QED
    BY <2>8, <2>9
<1>15. CASE Reviewed
  BY <1>0, <1>15, CeilingsAreNatural DEF ReviewInv, BeforeReview, FramePoints,
     Reviewed, Settle, Proceed, GoTo, moneyVars, treeVars, loopVars, criticVars,
     endVars
<1>16. CASE RebutStart
  BY <1>0, <1>16, CeilingsAreNatural DEF ReviewInv, BeforeReview, FramePoints,
     RebutStart, Proceed, GoTo, moneyVars, treeVars, loopVars, criticVars, endVars
<1>17. CASE Rebuttal
  BY <1>0, <1>17, CeilingsAreNatural, TurnCharges DEF ReviewInv, BeforeReview,
     FramePoints, Rebuttal, Proceed, GoTo, Book, moneyVars, treeVars, loopVars,
     criticVars, endVars
<1>18. CASE Extract
  BY <1>0, <1>18, CeilingsAreNatural, TurnCharges DEF ReviewInv, BeforeReview,
     FramePoints, Extract, Proceed, GoTo, Book, moneyVars, treeVars, loopVars,
     criticVars, endVars
<1>19. CASE RebutMeasure
  BY <1>0, <1>19, CeilingsAreNatural DEF ReviewInv, BeforeReview, FramePoints,
     RebutMeasure, EndRebut, Onward, Settle, Proceed, GoTo, moneyVars, treeVars,
     loopVars, criticVars, endVars
<1>20. CASE RebutGates
  BY <1>0, <1>20, CeilingsAreNatural DEF ReviewInv, BeforeReview, FramePoints,
     RebutGates, EndRebut, Onward, GatesEnd, Settle, Proceed, GoTo, moneyVars,
     treeVars, loopVars, criticVars, endVars
<1>21. CASE RebutRepair
  BY <1>0, <1>21, CeilingsAreNatural, TurnCharges DEF ReviewInv, BeforeReview,
     FramePoints, RebutRepair, Proceed, GoTo, ImplementerTurn, Charge, Book,
     moneyVars, treeVars, loopVars, criticVars, endVars
<1>22. CASE RebutGatesAgain
  BY <1>0, <1>22, CeilingsAreNatural DEF ReviewInv, BeforeReview, FramePoints,
     RebutGatesAgain, EndRebut, Onward, GatesEnd, Settle, Proceed, GoTo, moneyVars,
     treeVars, loopVars, criticVars, endVars
<1>23. CASE VerdictCell
  BY <1>0, <1>23, CeilingsAreNatural DEF ReviewInv, BeforeReview, FramePoints,
     VerdictCell, EndRebut, Settle, Proceed, GoTo, moneyVars, treeVars, loopVars,
     criticVars, endVars
<1>24. CASE VerdictSession
  BY <1>0, <1>24, CeilingsAreNatural, TurnCharges DEF ReviewInv, BeforeReview,
     FramePoints, VerdictSession, Proceed, GoTo, Book, moneyVars, treeVars,
     loopVars, criticVars, endVars
<1>25. CASE VerdictsIn
  BY <1>0, <1>25, CeilingsAreNatural DEF ReviewInv, BeforeReview, FramePoints,
     VerdictsIn, EndRebut, Settle, Proceed, GoTo, moneyVars, treeVars, loopVars,
     criticVars, endVars
<1>26. CASE WriteRow
  BY <1>0, <1>26, CeilingsAreNatural DEF ReviewInv, BeforeReview, FramePoints,
     WriteRow, Proceed, GoTo, moneyVars, treeVars, loopVars, criticVars, endVars
<1>27. CASE FinishRun
  BY <1>0, <1>27, CeilingsAreNatural DEF ReviewInv, BeforeReview, FramePoints,
     FinishRun, GoTo, moneyVars, treeVars, loopVars, criticVars, endVars
<1>28. CASE RateLimited
  BY <1>0, <1>28, CeilingsAreNatural, TurnCharges DEF ReviewInv, BeforeReview,
     FramePoints, RateLimited, Book, moneyVars, treeVars, loopVars, criticVars,
     endVars
<1>29. CASE AbortRun
  BY <1>0, <1>29, CeilingsAreNatural DEF ReviewInv, BeforeReview, FramePoints,
     AbortRun, Proceed, GoTo, moneyVars, treeVars, loopVars, criticVars, endVars
<1>30. CASE Orphan
  BY <1>0, <1>30, CeilingsAreNatural DEF ReviewInv, BeforeReview, FramePoints,
     Orphan, Raised, GoTo, moneyVars, treeVars, loopVars, criticVars, endVars
<1>31. CASE Teardown
  BY <1>0, <1>31, CeilingsAreNatural DEF ReviewInv, BeforeReview, FramePoints,
     Teardown, Proceed, GoTo, moneyVars, treeVars, loopVars, criticVars, endVars
<1>32. CASE Abort
  BY <1>0, <1>32, CeilingsAreNatural DEF ReviewInv, BeforeReview, FramePoints,
     Abort, GoTo, moneyVars, treeVars, loopVars, criticVars, endVars
<1>33. CASE HandlerRaises
  BY <1>0, <1>33, CeilingsAreNatural DEF ReviewInv, BeforeReview, FramePoints,
     HandlerRaises, Raised, GoTo, moneyVars, treeVars, loopVars, criticVars, endVars
<1>34. CASE Finished \/ UNCHANGED vars
  BY <1>0, <1>34 DEF ReviewInv, BeforeReview, FramePoints, Finished, vars,
     moneyVars, treeVars, loopVars, criticVars, endVars
<1> QED
  BY <1>1, <1>2, <1>3, <1>4, <1>5, <1>6, <1>7, <1>8, <1>9, <1>10, <1>11, <1>12,
     <1>13, <1>14, <1>15, <1>16, <1>17, <1>18, <1>19, <1>20, <1>21, <1>22, <1>23,
     <1>24, <1>25, <1>26, <1>27, <1>28, <1>29, <1>30, <1>31, <1>32, <1>33, <1>34 DEF
     Next, Progress
(* Each REBUT stage's pool is what the stages before it left room for. *)
LEMMA PoolStep == BookInv /\ CeilingInv /\ [Next]_vars => PoolInv'
<1> SUFFICES ASSUME BookInv, CeilingInv, [Next]_vars PROVE PoolInv'
  OBVIOUS
<1>0. /\ WorkInv /\ ReviewInv /\ PoolInv /\ SpendCeiling /\ StageFunded
      /\ TallyInv /\ MoneyOK /\ CriticOK
      /\ spent \in Nat /\ frame \in Nat /\ last \in Nat /\ held \in Nat
      /\ pool.spent \in Nat /\ pool.limit \in Nat /\ sessions \in Nat
  BY DEF BookInv, CeilingInv, TypeOK, MoneyOK, PoolRecords, CriticOK
<1>1. CASE CellUp
  BY <1>0, <1>1, CeilingsAreNatural, AnswerCovers, MoneyAssumption DEF PoolInv,
     RebutMiddle, PoolPoints, CellUp, Proceed, GoTo, moneyVars, treeVars, loopVars,
     criticVars, endVars
<1>2. CASE Baseline
  BY <1>0, <1>2, CeilingsAreNatural, AnswerCovers, MoneyAssumption DEF PoolInv,
     RebutMiddle, PoolPoints, Baseline, Settle, Proceed, GoTo, moneyVars, treeVars,
     loopVars, criticVars, endVars
<1>3. CASE PlanCheckpoint
  BY <1>0, <1>3, CeilingsAreNatural, AnswerCovers, MoneyAssumption, TurnCharges DEF
     PoolInv, RebutMiddle, PoolPoints, PlanCheckpoint, PlanEnds, Settle, Proceed,
     GoTo, Book, moneyVars, treeVars, loopVars, criticVars, endVars
<1>4. CASE Planned
  BY <1>0, <1>4, CeilingsAreNatural, AnswerCovers, MoneyAssumption DEF PoolInv,
     RebutMiddle, PoolPoints, Planned, Settle, Proceed, GoTo, moneyVars, treeVars,
     loopVars, criticVars, endVars
<1>5. CASE Implement
  BY <1>0, <1>5, CeilingsAreNatural, AnswerCovers, MoneyAssumption, TurnCharges DEF
     PoolInv, RebutMiddle, PoolPoints, Implement, Proceed, GoTo, Charge, Book,
     moneyVars, treeVars, loopVars, criticVars, endVars
<1>6. CASE Salvage
  BY <1>0, <1>6, CeilingsAreNatural, AnswerCovers, MoneyAssumption, TurnCharges DEF
     PoolInv, RebutMiddle, PoolPoints, Salvage, Proceed, GoTo, Book, moneyVars,
     treeVars, loopVars, criticVars, endVars
<1>7. CASE Empty
  BY <1>0, <1>7, CeilingsAreNatural, AnswerCovers, MoneyAssumption DEF PoolInv,
     RebutMiddle, PoolPoints, Empty, Settle, moneyVars, treeVars, loopVars,
     criticVars, endVars
<1>8. CASE Gate
  BY <1>0, <1>8, CeilingsAreNatural, AnswerCovers, MoneyAssumption DEF PoolInv,
     RebutMiddle, PoolPoints, Gate, Decision, LoopEnds, Proceed, GoTo, moneyVars,
     treeVars, loopVars, criticVars, endVars
<1>9. CASE Repair
  BY <1>0, <1>9, CeilingsAreNatural, AnswerCovers, MoneyAssumption, TurnCharges DEF
     PoolInv, RebutMiddle, PoolPoints, Repair, Proceed, GoTo, ImplementerTurn,
     Charge, Book, moneyVars, treeVars, loopVars, criticVars, endVars
<1>10. CASE Notes
  BY <1>0, <1>10, CeilingsAreNatural, AnswerCovers, MoneyAssumption, TurnCharges DEF
     PoolInv, RebutMiddle, PoolPoints, Notes, Proceed, GoTo, Charge, Book,
     moneyVars, treeVars, loopVars, criticVars, endVars
<1>11. CASE AfterLoop
  BY <1>0, <1>11, CeilingsAreNatural, AnswerCovers, MoneyAssumption DEF PoolInv,
     RebutMiddle, PoolPoints, AfterLoop, Settle, Proceed, GoTo, moneyVars, treeVars,
     loopVars, criticVars, endVars
<1>12. CASE GateCell
  BY <1>0, <1>12, CeilingsAreNatural, AnswerCovers, MoneyAssumption DEF PoolInv,
     RebutMiddle, PoolPoints, GateCell, PatchRefused, Settle, Proceed, GoTo,
     moneyVars, treeVars, loopVars, criticVars, endVars
<1>13. CASE CriticCell
  BY <1>0, <1>13, CeilingsAreNatural, AnswerCovers, MoneyAssumption DEF PoolInv,
     RebutMiddle, PoolPoints, CriticCell, PatchRefused, Settle, Proceed, GoTo,
     moneyVars, treeVars, loopVars, criticVars, endVars
<1>14. CASE ReviewSession
  BY <1>0, <1>14, CeilingsAreNatural, AnswerCovers, MoneyAssumption, TurnCharges DEF
     PoolInv, RebutMiddle, PoolPoints, ReviewSession, Proceed, GoTo, Book,
     moneyVars, treeVars, loopVars, criticVars, endVars
<1>15. CASE Reviewed
  <2>1. /\ pc = "reviewed" /\ spent' = spent + frame /\ UNCHANGED pool
        /\ pc' \in {"rebutStart", "settle"}
    BY <1>15 DEF Reviewed, Settle, Proceed, GoTo
  <2>2. spent <= WorkCeiling /\ frame <= ReviewCeiling
    BY <1>0, <2>1 DEF WorkInv, ReviewInv
  <2> QED
    BY <1>0, <2>1, <2>2, CeilingsAreNatural DEF PoolInv, RebutMiddle
<1>16. CASE RebutStart
  BY <1>0, <1>16, CeilingsAreNatural, AnswerCovers, MoneyAssumption DEF PoolInv,
     RebutMiddle, PoolPoints, RebutStart, Proceed, GoTo, moneyVars, treeVars,
     loopVars, criticVars, endVars
<1>17. CASE Rebuttal
  <2>1. /\ pc = "rebuttal" /\ UNCHANGED spent
        /\ pool.spent = 0 /\ pool.limit = RebutCap /\ spent <= ReadCeiling
    BY <1>0, <1>17 DEF Rebuttal, PoolInv
  <2>2. PICK f \in BOOLEAN : \E c \in Costs(f) :
           \/ f /\ pool' = Drawn(c, TRUE) /\ pc' = "rebutMeasure"
           \/ ~f /\ pool' = Opened(Drawn(c, FALSE), Extraction) /\ pc' = "extract"
    BY <1>17 DEF Rebuttal, Proceed, GoTo
  <2>3. PICK c \in Costs(f) :
           \/ f /\ pool' = Drawn(c, TRUE) /\ pc' = "rebutMeasure"
           \/ ~f /\ pool' = Opened(Drawn(c, FALSE), Extraction) /\ pc' = "extract"
    BY <2>2
  <2>4. /\ c \in Nat /\ c <= Larger(RebutCap, Budget) + Overshoot
        /\ ~f => c <= RebutCap + Overshoot
    BY <1>0, <2>1, TurnCharges
  <2>5. /\ Drawn(c, TRUE).spent = c /\ Drawn(c, TRUE).limit = RebutCap
        /\ Drawn(c, FALSE).spent = c /\ Drawn(c, FALSE).limit = RebutCap
    BY <2>1, <2>4 DEF Drawn
  <2>6. CASE pool' = Drawn(c, TRUE) /\ pc' = "rebutMeasure"
    <3>1. pool'.spent = c /\ pool'.limit = RebutCap
      BY <2>5, <2>6
    <3>2. c <= AnswerCeiling /\ RebutCap <= AnswerCeiling
      <4>1. AnswerCeiling \in Nat /\ Overshoot \in Nat /\ Budget \in Nat /\ RebutCap \in Nat
        BY CeilingsAreNatural, MoneyAssumption
      <4> QED
        BY <2>4, <4>1, AnswerCovers DEF Larger
    <3> QED
      BY <2>1, <2>6, <3>1, <3>2 DEF PoolInv, RebutMiddle
  <2>7. CASE ~f /\ pool' = Opened(Drawn(c, FALSE), Extraction) /\ pc' = "extract"
    <3>1. /\ pool'.spent = c
          /\ pool'.limit = Larger(RebutCap, c) + Extraction
      BY <2>5, <2>7 DEF Opened
    <3>2. c <= RebutCap + Overshoot
      BY <2>4, <2>7, Zenon
    <3>3. Larger(RebutCap, c) <= RebutCap + Overshoot /\ Larger(RebutCap, c) \in Nat
      BY <2>4, <3>2, MoneyAssumption DEF Larger
    <3>4. pool'.limit <= RebutCap + Overshoot + Extraction
      BY <3>1, <3>3, MoneyAssumption
    <3> QED
      BY <2>1, <2>7, <3>1, <3>2, <3>4 DEF PoolInv, RebutMiddle
  <2> QED
    BY <2>3, <2>6, <2>7
<1>18. CASE Extract
  <2>1. /\ pc = "extract" /\ pc' = "rebutMeasure" /\ UNCHANGED spent
        /\ pool.limit <= RebutCap + Overshoot + Extraction /\ spent <= ReadCeiling
    BY <1>0, <1>18 DEF Extract, PoolInv, Proceed, GoTo
  <2>2. PICK f \in BOOLEAN : \E c \in Costs(f) : pool' = Drawn(c, f)
    BY <1>18 DEF Extract
  <2>3. PICK c \in Costs(f) : pool' = Drawn(c, f)
    BY <2>2
  <2>4. c \in Nat /\ pool.spent + c <= AnswerCeiling
    BY <1>0, <2>1, TurnCharges
  <2>5. pool'.spent = pool.spent + c /\ pool'.limit = pool.limit
    BY <2>3 DEF Drawn
  <2> QED
    BY <1>0, <2>1, <2>4, <2>5, CeilingsAreNatural, AnswerCovers, MoneyAssumption
       DEF PoolInv, RebutMiddle
<1>19. CASE RebutMeasure
  BY <1>0, <1>19, CeilingsAreNatural, AnswerCovers, MoneyAssumption DEF PoolInv,
     RebutMiddle, PoolPoints, RebutMeasure, EndRebut, Onward, Settle, Proceed, GoTo,
     moneyVars, treeVars, loopVars, criticVars, endVars
<1>20. CASE RebutGates
  BY <1>0, <1>20, CeilingsAreNatural, AnswerCovers, MoneyAssumption DEF PoolInv,
     RebutMiddle, PoolPoints, RebutGates, EndRebut, Onward, GatesEnd, Settle,
     Proceed, GoTo, moneyVars, treeVars, loopVars, criticVars, endVars
<1>21. CASE RebutRepair
  BY <1>0, <1>21, CeilingsAreNatural, AnswerCovers, MoneyAssumption, TurnCharges DEF
     PoolInv, RebutMiddle, PoolPoints, RebutRepair, Proceed, GoTo, ImplementerTurn,
     Charge, Book, moneyVars, treeVars, loopVars, criticVars, endVars
<1>22. CASE RebutGatesAgain
  BY <1>0, <1>22, CeilingsAreNatural, AnswerCovers, MoneyAssumption DEF PoolInv,
     RebutMiddle, PoolPoints, RebutGatesAgain, EndRebut, Onward, GatesEnd, Settle,
     Proceed, GoTo, moneyVars, treeVars, loopVars, criticVars, endVars
<1>23. CASE VerdictCell
  <2>1. pc = "verdictCell" /\ spent <= ReadCeiling /\ pool.spent <= AnswerCeiling
        /\ pool.limit <= AnswerCeiling
    BY <1>0, <1>23 DEF VerdictCell, PoolInv, RebutMiddle
  <2>2. CASE pc' = "settle"
    BY <2>2 DEF PoolInv, RebutMiddle
  <2>3. CASE pc' = "verdict" /\ pool' = Opened(pool, Verdict) /\ UNCHANGED spent
    <3>1. pool'.spent = pool.spent /\ pool'.limit = Larger(pool.limit, pool.spent) + Verdict
      BY <2>3 DEF Opened
    <3> QED
      BY <1>0, <2>1, <2>3, <3>1, CeilingsAreNatural, MoneyAssumption
         DEF PoolInv, RebutMiddle, Larger
  <2> QED
    BY <1>23, <2>2, <2>3 DEF VerdictCell, EndRebut, Settle, Proceed, GoTo
<1>24. CASE VerdictSession
  <2>1. /\ pc = "verdict" /\ pc' \in {"verdict", "verdictsIn"} /\ UNCHANGED spent
        /\ spent <= ReadCeiling
        /\ pool.limit <= AnswerCeiling + Verdict
        /\ pool.spent <= AnswerCeiling + Verdict + Overshoot
    BY <1>0, <1>24 DEF VerdictSession, PoolInv, Proceed, GoTo
  <2>2. CASE pool'.spent = pool.spent /\ pool'.limit = pool.limit
    BY <2>1, <2>2 DEF PoolInv, RebutMiddle
  <2>3. CASE \E c \in Costs(FALSE), how \in {"verdicts", "unusable", "failed", "unstarted"} :
                pool' = Drawn(c, how \in {"failed", "unstarted"})
    <3>1. PICK c \in Costs(FALSE), how \in {"verdicts", "unusable", "failed", "unstarted"} :
                pool' = Drawn(c, how \in {"failed", "unstarted"})
      BY <2>3
    <3>2. c \in Nat /\ pool.spent + c <= pool.limit + Overshoot
      BY <1>0, <2>1, TurnCharges
    <3>3. pool'.spent = pool.spent + c /\ pool'.limit = pool.limit
      BY <3>1 DEF Drawn
    <3> QED
      BY <1>0, <2>1, <3>2, <3>3, CeilingsAreNatural, MoneyAssumption
         DEF PoolInv, RebutMiddle
  <2>4. \/ pool' = [limit |-> pool.limit, spent |-> pool.spent, cut |-> TRUE]
        \/ \E c \in Costs(FALSE), how \in {"verdicts", "unusable", "failed", "unstarted"} :
                pool' = Drawn(c, how \in {"failed", "unstarted"})
    BY <1>24, Zenon DEF VerdictSession
  <2>5. CASE pool' = [limit |-> pool.limit, spent |-> pool.spent, cut |-> TRUE]
    <3>1. pool'.spent = pool.spent /\ pool'.limit = pool.limit
      BY <2>5
    <3> QED
      BY <2>2, <3>1
  <2> QED
    BY <2>3, <2>4, <2>5
<1>25. CASE VerdictsIn
  BY <1>0, <1>25, CeilingsAreNatural, AnswerCovers, MoneyAssumption DEF PoolInv,
     RebutMiddle, PoolPoints, VerdictsIn, EndRebut, Settle, Proceed, GoTo,
     moneyVars, treeVars, loopVars, criticVars, endVars
<1>26. CASE WriteRow
  BY <1>0, <1>26, CeilingsAreNatural, AnswerCovers, MoneyAssumption DEF PoolInv,
     RebutMiddle, PoolPoints, WriteRow, Proceed, GoTo, moneyVars, treeVars,
     loopVars, criticVars, endVars
<1>27. CASE FinishRun
  BY <1>0, <1>27, CeilingsAreNatural, AnswerCovers, MoneyAssumption DEF PoolInv,
     RebutMiddle, PoolPoints, FinishRun, GoTo, moneyVars, treeVars, loopVars,
     criticVars, endVars
<1>28. CASE RateLimited
  BY <1>0, <1>28, CeilingsAreNatural, AnswerCovers, MoneyAssumption, TurnCharges DEF
     PoolInv, RebutMiddle, PoolPoints, RateLimited, Book, moneyVars, treeVars,
     loopVars, criticVars, endVars
<1>29. CASE AbortRun
  BY <1>0, <1>29, CeilingsAreNatural, AnswerCovers, MoneyAssumption DEF PoolInv,
     RebutMiddle, PoolPoints, AbortRun, Proceed, GoTo, moneyVars, treeVars,
     loopVars, criticVars, endVars
<1>30. CASE Orphan
  BY <1>0, <1>30, CeilingsAreNatural, AnswerCovers, MoneyAssumption DEF PoolInv,
     RebutMiddle, PoolPoints, Orphan, Raised, GoTo, moneyVars, treeVars, loopVars,
     criticVars, endVars
<1>31. CASE Teardown
  BY <1>0, <1>31, CeilingsAreNatural, AnswerCovers, MoneyAssumption DEF PoolInv,
     RebutMiddle, PoolPoints, Teardown, Proceed, GoTo, moneyVars, treeVars,
     loopVars, criticVars, endVars
<1>32. CASE Abort
  BY <1>0, <1>32, CeilingsAreNatural, AnswerCovers, MoneyAssumption DEF PoolInv,
     RebutMiddle, PoolPoints, Abort, GoTo, moneyVars, treeVars, loopVars,
     criticVars, endVars
<1>33. CASE HandlerRaises
  BY <1>0, <1>33, CeilingsAreNatural, AnswerCovers, MoneyAssumption DEF PoolInv,
     RebutMiddle, PoolPoints, HandlerRaises, Raised, GoTo, moneyVars, treeVars,
     loopVars, criticVars, endVars
<1>34. CASE Finished \/ UNCHANGED vars
  BY <1>0, <1>34 DEF PoolInv, RebutMiddle, PoolPoints, Finished, vars, moneyVars,
     treeVars, loopVars, criticVars, endVars
<1> QED
  BY <1>1, <1>2, <1>3, <1>4, <1>5, <1>6, <1>7, <1>8, <1>9, <1>10, <1>11, <1>12,
     <1>13, <1>14, <1>15, <1>16, <1>17, <1>18, <1>19, <1>20, <1>21, <1>22, <1>23,
     <1>24, <1>25, <1>26, <1>27, <1>28, <1>29, <1>30, <1>31, <1>32, <1>33, <1>34 DEF
     Next, Progress
-----------------------------------------------------------------------------
(* Two steps reach a stage with a reserve of its own, and a third stays.    *)
LEMMA StagesReached ==
    ASSUME [Next]_vars, pc' \in {"extract", "verdict"},
           ~Rebuttal, ~VerdictCell, ~VerdictSession
    PROVE  UNCHANGED vars
<1>1. CASE CellUp \/ Baseline \/ PlanCheckpoint \/ Planned \/ Implement \/ Salvage
  BY <1>1 DEF CellUp, Baseline, PlanCheckpoint, Planned, Implement, Salvage, Settle, Proceed,
     GoTo
<1>2. CASE Empty \/ Gate \/ Repair \/ Notes \/ AfterLoop \/ GateCell
  BY <1>2 DEF Empty, Gate, LoopEnds, Repair, Notes, AfterLoop, GateCell, PatchRefused,
     Settle, Proceed, GoTo
<1>3. CASE CriticCell \/ ReviewSession \/ Reviewed \/ RebutStart \/ Extract \/ RebutRepair
  BY <1>3 DEF CriticCell, PatchRefused, ReviewSession, Reviewed, RebutStart, Extract,
     RebutRepair, Settle, Proceed, GoTo
<1>4. CASE RebutMeasure \/ RebutGates \/ RebutGatesAgain \/ VerdictsIn
  BY <1>4 DEF RebutMeasure, RebutGates, RebutGatesAgain, GatesEnd, VerdictsIn, EndRebut,
     Onward, Settle, Proceed, GoTo
<1>5. CASE WriteRow \/ FinishRun \/ RateLimited \/ AbortRun \/ Orphan \/ Teardown
  BY <1>5 DEF WriteRow, FinishRun, RateLimited, AbortRun, Orphan, Teardown, Proceed, GoTo
<1>6. CASE Abort \/ HandlerRaises \/ Finished \/ UNCHANGED vars
  BY <1>6 DEF Abort, HandlerRaises, Finished, GoTo
<1> QED
  BY <1>1, <1>2, <1>3, <1>4, <1>5, <1>6 DEF Next, Progress

(* Each opens its pool over what was drawn, and not over what was granted. *)
LEMMA FundedStep == BookInv /\ CeilingInv /\ [Next]_vars => StageFunded'
<1> SUFFICES ASSUME BookInv, CeilingInv, [Next]_vars PROVE StageFunded'
  OBVIOUS
<1>0. /\ StageFunded /\ MoneyOK /\ pool \in PoolRecords
      /\ pool.spent \in Nat /\ pool.limit \in Nat /\ sessions \in Nat
      /\ Extraction \in Nat /\ Verdict \in Nat
  BY MoneyAssumption DEF BookInv, CeilingInv, TypeOK, MoneyOK, PoolRecords, CriticOK
<1>1. ASSUME NEW p \in PoolRecords, NEW r \in Nat
      PROVE  Opened(p, r).limit - Opened(p, r).spent >= r
  BY <1>1 DEF Opened, Larger, PoolRecords
<1>2. CASE Rebuttal
  <2>1. pc' \in {"rebutMeasure", "extract"}
    BY <1>2 DEF Rebuttal, Proceed, GoTo
  <2>2. CASE pc' = "extract"
    <3>1. PICK f \in BOOLEAN : \E c \in Costs(f) :
             pool' = Opened(Drawn(c, FALSE), Extraction)
      BY <1>2, <2>2 DEF Rebuttal, Proceed, GoTo
    <3>2. PICK c \in Costs(f) : pool' = Opened(Drawn(c, FALSE), Extraction)
      BY <3>1
    <3>3. Drawn(c, FALSE) \in PoolRecords
      BY <1>0, CostsAreNatural, DrawnIsPool
    <3> QED
      BY <1>0, <1>1, <2>2, <3>2, <3>3 DEF StageFunded, PoolRemaining
  <2> QED
    BY <2>1, <2>2 DEF StageFunded
<1>3. CASE VerdictCell
  <2>1. CASE pc' = "settle"
    BY <2>1 DEF StageFunded
  <2>2. CASE pc' = "verdict" /\ pool' = Opened(pool, Verdict)
    BY <1>0, <1>1, <2>2 DEF StageFunded, PoolRemaining
  <2> QED
    BY <1>3, <2>1, <2>2 DEF VerdictCell, EndRebut, Settle, Proceed, GoTo
<1>4. CASE VerdictSession
  <2>1. sessions' = sessions + 1 /\ pc' \in {"verdict", "verdictsIn"}
    BY <1>4 DEF VerdictSession, Proceed, GoTo
  <2> QED
    BY <1>0, <2>1 DEF StageFunded
<1>5. CASE UNCHANGED vars
  BY <1>0, <1>5 DEF StageFunded, PoolRemaining, vars, moneyVars, criticVars
<1> QED
  BY <1>2, <1>3, <1>4, <1>5, StagesReached DEF StageFunded
-----------------------------------------------------------------------------
(* Only a turn adds to the attempt rows. *)
LEMMA TurnsAlonePay ==
    ASSUME [Next]_vars,
           ~PlanCheckpoint, ~Implement, ~Salvage, ~Repair, ~Notes, ~ReviewSession,
           ~Rebuttal, ~Extract, ~RebutRepair, ~VerdictSession, ~RateLimited
    PROVE  UNCHANGED <<start, booked>>
<1>1. CASE CellUp \/ Baseline \/ Planned \/ Empty \/ Gate \/ AfterLoop
  BY <1>1 DEF CellUp, Baseline, Planned, Empty, Gate, AfterLoop, moneyVars
<1>2. CASE GateCell \/ CriticCell \/ Reviewed \/ RebutStart
  BY <1>2 DEF GateCell, CriticCell, Reviewed, RebutStart, moneyVars
<1>3. CASE RebutMeasure \/ RebutGates \/ RebutGatesAgain \/ VerdictCell \/ VerdictsIn
  BY <1>3 DEF RebutMeasure, RebutGates, RebutGatesAgain, VerdictCell, VerdictsIn, moneyVars
<1>4. CASE WriteRow \/ FinishRun \/ AbortRun \/ Orphan \/ Teardown \/ Abort
  BY <1>4 DEF WriteRow, FinishRun, AbortRun, Orphan, Teardown, Abort, moneyVars
<1>5. CASE HandlerRaises \/ Finished \/ UNCHANGED vars
  BY <1>5 DEF HandlerRaises, Finished, vars, moneyVars
<1> QED
  BY <1>1, <1>2, <1>3, <1>4, <1>5 DEF Next, Progress

(* Every charge is one turn's, at a point whose tally, frame and pool leave *)
(* room for it.  The notes turn and a verdict have a guard of their own.    *)
LEMMA RoomForTheTurn ==
    ASSUME BookInv, CeilingInv, pc \in TurnPoints,
           pc = "notes" => ~OverBudget,
           NEW f \in BOOLEAN, NEW c \in Costs(f)
    PROVE  c \in Nat /\ booked - start + c <= Budget + TurnCeiling + ReviewCeiling + RebutCeiling
<1>0. /\ WorkInv /\ ReviewInv /\ PoolInv /\ TallyInv /\ MoneyOK
      /\ start \in Nat /\ booked \in Nat /\ spent \in Nat /\ frame \in Nat
      /\ pool.spent \in Nat /\ pool.limit \in Nat /\ sessions \in Nat
      /\ c \in Nat /\ booked - start = spent + frame + pool.spent
  <2>1. /\ WorkInv /\ ReviewInv /\ PoolInv /\ TallyInv /\ MoneyOK
        /\ start \in Nat /\ booked \in Nat /\ spent \in Nat /\ frame \in Nat
        /\ pool.spent \in Nat /\ pool.limit \in Nat /\ sessions \in Nat
    BY DEF BookInv, CeilingInv, TypeOK, MoneyOK, PoolRecords, CriticOK
  <2>2. booked = start + spent + frame + pool.spent
    BY <2>1 DEF TallyInv
  <2> QED
    BY <2>1, <2>2, CostsAreNatural
<1>n. /\ TurnCeiling \in Nat /\ WorkCeiling \in Nat /\ ReviewCeiling \in Nat
      /\ ReadCeiling \in Nat /\ AnswerCeiling \in Nat /\ RebutCeiling \in Nat
      /\ WorkCeiling = Budget + TurnCeiling /\ ReadCeiling = WorkCeiling + ReviewCeiling
      /\ RebutCeiling = AnswerCeiling + Verdict + Overshoot
      /\ Budget \in Nat /\ Overshoot \in Nat /\ Verdict \in Nat
      /\ TurnCeiling = Budget + Overshoot
      /\ AnswerCeiling >= Budget + Overshoot
  BY CeilingsAreNatural, AnswerCovers, MoneyAssumption
<1>1. CASE pc \in {"plan", "replan"}
  <2>1. c <= TurnCeiling /\ frame <= TurnCeiling /\ spent = 0 /\ pool.spent = 0
    BY <1>0, <1>n, <1>1, TurnCharges DEF WorkInv, TallyInv, FramePoints, PoolPoints
  <2> QED
    BY <1>0, <1>n, <2>1
<1>2. CASE pc \in {"implement", "salvage", "repair", "notes"}
  <2>1. spent + c <= WorkCeiling /\ frame = 0 /\ pool.spent = 0
    BY <1>0, <1>2, TurnCharges DEF TallyInv, FramePoints, PoolPoints
  <2> QED
    BY <1>0, <1>n, <2>1
<1>3. CASE pc = "review"
  <2>1. c <= SessionCap /\ spent <= WorkCeiling /\ pool.spent = 0
    BY <1>0, <1>3, TurnCharges DEF WorkInv, TallyInv, PoolPoints
  <2>2. frame + c <= ReviewCeiling
    <3>1. sessions < Lenses + ProbeSessions /\ frame <= sessions * SessionCap
      BY <1>0, <1>3 DEF ReviewInv
    <3>2. Lenses + ProbeSessions \in Nat /\ SessionCap \in Nat
      BY CeilingsAreNatural, CountAssumption
    <3>3. /\ sessions * SessionCap + SessionCap <= (Lenses + ProbeSessions) * SessionCap
          /\ sessions * SessionCap \in Nat
      BY <1>0, <3>1, <3>2, OneMoreSession
    <3>4. ReviewCeiling = (Lenses + ProbeSessions) * SessionCap
      BY CeilingsAreNatural
    <3>5. sessions * SessionCap + SessionCap <= ReviewCeiling
      BY <3>3, <3>4
    <3> QED
      BY <1>0, <1>n, <2>1, <3>1, <3>2, <3>3, <3>5
  <2> QED
    BY <1>0, <1>n, <2>1, <2>2
<1>4. CASE pc \in {"rebuttal", "extract"}
  <2>1. spent <= ReadCeiling /\ frame = 0 /\ pool.spent + c <= AnswerCeiling
    <3>1. spent <= ReadCeiling /\ frame = 0
      BY <1>0, <1>4 DEF PoolInv, TallyInv, FramePoints
    <3>2. CASE pc = "extract"
      BY <1>0, <3>1, <3>2, TurnCharges
    <3>3. CASE pc = "rebuttal"
      <4>1. pool.spent = 0 /\ c <= Larger(RebutCap, Budget) + Overshoot
        BY <1>0, <3>3, TurnCharges DEF PoolInv
      <4>2. Larger(RebutCap, Budget) + Overshoot <= AnswerCeiling
            /\ Larger(RebutCap, Budget) \in Nat
        BY MoneyAssumption, AnswerCovers DEF Larger
      <4> QED
        BY <1>0, <1>n, <3>1, <4>1, <4>2
    <3> QED
      BY <1>4, <3>2, <3>3
  <2> QED
    BY <1>0, <1>n, <2>1
<1>5. CASE pc = "rebutRepair"
  <2>1. spent + c <= WorkCeiling /\ frame = 0 /\ pool.spent <= AnswerCeiling
    BY <1>0, <1>5, TurnCharges DEF PoolInv, RebutMiddle, TallyInv, FramePoints
  <2> QED
    BY <1>0, <1>n, <2>1
<1>6. CASE pc = "verdict"
  <2>1. /\ pool.spent + c <= pool.limit + Overshoot /\ frame = 0
        /\ pool.limit <= AnswerCeiling + Verdict /\ spent <= ReadCeiling
    BY <1>0, <1>6, TurnCharges DEF PoolInv, TallyInv, FramePoints
  <2> QED
    BY <1>0, <1>n, <2>1
<1> QED
  BY <1>1, <1>2, <1>3, <1>4, <1>5, <1>6 DEF TurnPoints

(* So no step takes a cell past its ceiling. *)
LEMMA CeilingStep == BookInv /\ CeilingInv /\ [Next]_vars => SpendCeiling'
<1> SUFFICES ASSUME BookInv, CeilingInv, [Next]_vars PROVE SpendCeiling'
  OBVIOUS
<1>0. /\ SpendCeiling /\ start \in Nat /\ booked \in Nat
      /\ TurnCeiling \in Nat /\ ReviewCeiling \in Nat /\ RebutCeiling \in Nat
  BY CeilingsAreNatural DEF BookInv, CeilingInv, TypeOK, MoneyOK
<1> DEFINE Pays == /\ pc \in TurnPoints
                   /\ pc = "notes" => ~OverBudget
                   /\ \E f \in BOOLEAN : \E c \in Costs(f) : Book(c)
<1>1. Pays => SpendCeiling'
  <2> SUFFICES ASSUME Pays PROVE SpendCeiling'
    OBVIOUS
  <2>1. PICK f \in BOOLEAN : \E c \in Costs(f) : Book(c)
    OBVIOUS
  <2>2. PICK c \in Costs(f) : Book(c)
    BY <2>1
  <2>3. c \in Nat /\ booked - start + c <= Budget + TurnCeiling + ReviewCeiling + RebutCeiling
    BY RoomForTheTurn
  <2>4. booked' = booked + c /\ start' = start
    BY <2>2 DEF Book
  <2> QED
    BY <1>0, <2>3, <2>4, MoneyAssumption DEF SpendCeiling, TurnCeiling, ReviewCeiling,
       RebutCeiling, AnswerCeiling
<1>2. UNCHANGED <<start, booked>> => SpendCeiling'
  BY <1>0 DEF SpendCeiling, TurnCeiling, ReviewCeiling, RebutCeiling, AnswerCeiling
<1>3. CASE PlanCheckpoint
  <2>1. \A s : PlanFailed(s) \in BOOLEAN
    BY DEF PlanFailed
  <2> QED
    BY <1>1, <1>3, <2>1 DEF PlanCheckpoint, TurnPoints
<1>4. CASE Implement \/ Salvage \/ Repair \/ RebutRepair
  BY <1>1, <1>4 DEF Implement, Salvage, Repair, RebutRepair, ImplementerTurn, Charge,
     TurnPoints
<1>5. CASE Notes
  BY <1>1, <1>2, <1>5 DEF Notes, Charge, TurnPoints, moneyVars
<1>6. CASE ReviewSession \/ Rebuttal \/ Extract
  BY <1>1, <1>6 DEF ReviewSession, Rebuttal, Extract, TurnPoints
<1>7. CASE VerdictSession
  BY <1>1, <1>2, <1>7, Zenon DEF VerdictSession, TurnPoints
<1>8. CASE RateLimited
  BY <1>1, <1>8 DEF RateLimited
<1> HIDE DEF Pays
<1> QED
  BY <1>2, <1>3, <1>4, <1>5, <1>6, <1>7, <1>8, TurnsAlonePay
-----------------------------------------------------------------------------
(* A cell that starts has spent nothing of its own. *)
LEMMA InitCeiling == Init => CeilingInv
<1> SUFFICES ASSUME Init PROVE CeilingInv
  OBVIOUS
<1>1. /\ pc = "cellUp" /\ last = 0 /\ held = 0 /\ sessions = 0 /\ booked = start
      /\ start \in Nat
  BY MoneyAssumption DEF Init
<1>2. WorkInv /\ ReviewInv /\ PoolInv /\ StageFunded
  BY <1>1, CeilingsAreNatural DEF WorkInv, ReviewInv, PoolInv, RebutMiddle, StageFunded
<1>3. SpendCeiling
  BY <1>1, CeilingsAreNatural DEF SpendCeiling
<1> QED
  BY <1>2, <1>3 DEF CeilingInv

(* The ceilings hold at every point of every cell. *)
LEMMA CeilingsAlways == Safety => [](BookInv /\ CeilingInv)
<1>1. Init => BookInv /\ CeilingInv
  BY InitBooks, InitCeiling
<1>2. BookInv /\ CeilingInv /\ [Next]_vars => (BookInv /\ CeilingInv)'
  BY TypeStep, LoopStep, TallyStep, WorkStep, ReviewStep, PoolStep, CeilingStep, FundedStep
     DEF BookInv, CeilingInv
<1> QED
  BY <1>1, <1>2, PTL DEF Safety

(* A cell is never charged more than its budget, one turn past it, one      *)
(* capped session for each lens and probe, and REBUT's pools with their     *)
(* overshoots: whatever the turns cost, fail at, or report no cost for, and *)
(* for every budget, reserve, number of lenses, probes and attempts.        *)
THEOREM SpendIsBounded == Safety => []SpendCeiling
<1>1. CeilingInv => SpendCeiling
  BY DEF CeilingInv
<1> QED
  BY <1>1, CeilingsAlways, PTL

(* REBUT's extraction and its first verdict session find their own reserve  *)
(* in the pool however far the stages before them ran over.                 *)
THEOREM StagesAreFunded == Safety => []StageFunded
<1>1. CeilingInv => StageFunded
  BY DEF CeilingInv
<1> QED
  BY <1>1, CeilingsAlways, PTL
=============================================================================
