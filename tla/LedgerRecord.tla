---------------------------- MODULE LedgerRecord ----------------------------
(***************************************************************************)
(* One task in the two places that hold it: its rows in the SQLite ledger  *)
(* and its facts on a git ref, in the mirror and at the origin.  A write   *)
(* is applied and committed to the ledger, then appended to the mirror's   *)
(* ref, one fact at a time; the ref is pushed when the task ends and when  *)
(* the command does; `saffron fold` rebuilds the rows from the mirror's    *)
(* ref and `saffron migrate` tops the ref up from the rows.                *)
(*                                                                         *)
(* A fact is its kind and the one thing the fold tells apart of it: the    *)
(* state it sets, or the number it is filed under.  Attempts are those of  *)
(* one phase.                                                              *)
(***************************************************************************)
EXTENDS Naturals, Sequences, FiniteSets, SequencesExt

CONSTANTS
    Procs,      \* commands that may write the task, each with a Ledger of its own
    States,     \* task states a write may set
    MaxWrites,  \* writes to the task
    Mishaps     \* what may go wrong, of the names below

ASSUME MishapsAssumption ==
    /\ MaxWrites \in Nat
    /\ Mishaps \subseteq {"crash", "appendFails", "pushFails", "mirrorLost", "ledgerLost",
                          "elsewhere"}

Fact(kind, n) == [kind |-> kind, n |-> n]

(* What the ledger holds of the task.  `read` says why a fold kept no row.  *)
NoRow == [made |-> FALSE, state |-> "", opened |-> {}, closed |-> {}, findings |-> 0,
          rebutted |-> {}, texts |-> {}, pushed |-> 0, read |-> "ok"]

Placed(row, f) ==
    CASE f.kind = "created"  -> ~row.made
      [] f.kind = "closed"   -> row.made /\ f.n \in row.opened
      [] f.kind = "finding"  -> row.made /\ f.n = row.findings + 1
      [] f.kind = "rebuttal" -> row.made /\ f.n \in 1 .. row.findings
      [] f.kind = "text"     -> row.made /\ f.n \notin row.texts
      [] OTHER               -> row.made

(* Ledger._apply, the one way a fact becomes rows, live or in a fold. *)
Apply(row, f) ==
    IF row.read # "ok" THEN row
    ELSE IF ~Placed(row, f)
         THEN [row EXCEPT !.read =
                 IF row.made /\ f.kind \in {"finding", "rebuttal"} THEN "unplaced" ELSE "gap"]
         ELSE CASE f.kind = "created"  -> [row EXCEPT !.made = TRUE, !.state = "QUEUED"]
                [] f.kind = "state"    -> [row EXCEPT !.state = f.n]
                [] f.kind = "opened"   -> [row EXCEPT !.opened = @ \union {f.n}]
                [] f.kind = "closed"   -> [row EXCEPT !.closed = @ \union {f.n}]
                [] f.kind = "finding"  -> [row EXCEPT !.findings = f.n]
                [] f.kind = "rebuttal" -> [row EXCEPT !.rebutted = @ \union {f.n}]
                [] f.kind = "text"     -> [row EXCEPT !.texts = @ \union {f.n}]
                [] f.kind = "push"     -> [row EXCEPT !.pushed = f.n]

(* The facts applied to a row, in order. *)
After(row, facts) ==
    LET rowAfter[i \in 0 .. Len(facts)] ==
            IF i = 0 THEN row ELSE Apply(rowAfter[i - 1], facts[i])
    IN  rowAfter[Len(facts)]

Folded(facts) == After(NoRow, facts)

VARIABLES
    rows,     \* the task in the ledger
    mirror,   \* the facts of the mirror's ref, <<>> when it has none
    origin,   \* those of the origin's
    pending,  \* of each command: facts committed as rows and not yet appended
    up,       \* commands running
    kept,     \* commands whose kept set holds the task's key
    cell,     \* of each command: its open attempt, 0 for none, and the findings it recorded
    writes,   \* writes made, bounded by MaxWrites
    diverged, \* rows and ref have been parted by something that went wrong
    refused,  \* a push was refused since the last fact was appended
    verdict   \* of the latest migrate, until something moves: none, migrated, refused

NoCell == [attempt |-> 0, findings |-> {}]

vars == <<rows, mirror, origin, pending, up, kept, cell, writes, diverged, refused,
          verdict>>

TypeOK ==
    /\ rows.read = "ok" /\ rows.made \in BOOLEAN
    /\ rows.closed \subseteq rows.opened /\ rows.rebutted \subseteq 1 .. rows.findings
    /\ up \subseteq Procs /\ kept \subseteq up
    /\ \A p \in Procs : pending[p] # <<>> => p \in up
    /\ \A p \in Procs : cell[p] # NoCell => p \in up
    /\ writes \in 0 .. MaxWrites
    /\ diverged \in BOOLEAN /\ refused \in BOOLEAN
    /\ verdict \in {"none", "migrated", "refused"}

Init ==
    /\ rows = NoRow /\ mirror = <<>> /\ origin = <<>>
    /\ pending = [p \in Procs |-> <<>>]
    /\ up = {} /\ kept = {} /\ cell = [p \in Procs |-> NoCell]
    /\ writes = 0 /\ diverged = FALSE /\ refused = FALSE /\ verdict = "none"
-----------------------------------------------------------------------------
(* Writes: apply, commit, then append. *)

Free(p) == p \in up /\ pending[p] = <<>>

Commit(p, facts) ==
    /\ writes < MaxWrites
    /\ writes' = writes + 1
    /\ rows' = After(rows, facts)
    /\ pending' = [pending EXCEPT ![p] = facts]
    /\ verdict' = "none"
    /\ UNCHANGED <<mirror, origin, up, kept, diverged, refused>>

CreateTask(p) ==
    /\ Free(p) /\ ~rows.made /\ mirror = <<>> /\ writes = 0
    /\ Commit(p, <<Fact("created", 0)>>)
    /\ UNCHANGED cell

SetTaskState(p) ==
    /\ Free(p) /\ rows.made
    /\ \E s \in States : Commit(p, <<Fact("state", s)>>)
    /\ UNCHANGED cell

(* Variant: numbered one more than the attempts there are. *)
OpenAttempt_Counted(p) ==
    /\ Free(p) /\ rows.made /\ cell[p].attempt = 0
    /\ LET n == 1 + Cardinality(rows.opened) IN
         /\ Commit(p, <<Fact("opened", n)>>)
         /\ cell' = [cell EXCEPT ![p].attempt = n]

OpenAttempt(p) ==
    /\ Free(p) /\ rows.made /\ cell[p].attempt = 0
    /\ LET n == 1 + Max(rows.opened \union {0}) IN
         /\ Commit(p, <<Fact("opened", n)>>)
         /\ cell' = [cell EXCEPT ![p].attempt = n]

CloseAttempt(p) ==
    /\ Free(p) /\ cell[p].attempt # 0
    /\ Commit(p, <<Fact("closed", cell[p].attempt)>>)
    /\ cell' = [cell EXCEPT ![p].attempt = 0]

(* Every finding's row in one commit, then a fact for each. *)
RecordFindings(p) ==
    /\ Free(p) /\ rows.made
    /\ \E k \in 1 .. 2 :
          /\ Commit(p, [i \in 1 .. k |-> Fact("finding", rows.findings + i)])
          /\ cell' = [cell EXCEPT ![p].findings = rows.findings + 1 .. rows.findings + k]

(* REBUT answers the findings its own cell's review recorded. *)
RecordRebuttal(p) ==
    /\ Free(p)
    /\ \E i \in cell[p].findings \ rows.rebutted : Commit(p, <<Fact("rebuttal", i)>>)
    /\ UNCHANGED cell

(* Numbered one more than the rows; the insert itself refuses a number that  *)
(* is taken, and then nothing is written.                                   *)
NextText(row) == 1 + Cardinality(row.texts)

RecordSpecText(p) ==
    /\ Free(p) /\ rows.made /\ NextText(rows) \notin rows.texts
    /\ Commit(p, <<Fact("text", NextText(rows))>>)
    /\ UNCHANGED cell

RecordPush(p) ==
    /\ Free(p) /\ rows.made
    /\ Commit(p, <<Fact("push", rows.pushed + 1)>>)
    /\ UNCHANGED cell
-----------------------------------------------------------------------------
(* The record. *)

(* Variant: a later fact starts a ref the mirror lacks. *)
Recovered_StartsAnew(f) == {mirror}

(* What RefsRecord.append finds the ref to hold, fetching a ref the mirror   *)
(* lacks from the origin; none where it raises.                             *)
Recovered(f) ==
    IF mirror # <<>> \/ f.kind = "created" THEN {mirror}
    ELSE IF origin # <<>> THEN {origin} ELSE {}

(* Variant: an append does not keep the key. *)
AppendFact_NotKept(p) ==
    /\ pending[p] # <<>>
    /\ \E ref \in Recovered(Head(pending[p])) :
          mirror' = Append(ref, Head(pending[p]))
    /\ pending' = [pending EXCEPT ![p] = Tail(@)]
    /\ refused' = FALSE
    /\ UNCHANGED <<rows, origin, up, kept, cell, writes, diverged, verdict>>

AppendFact(p) ==
    /\ pending[p] # <<>>
    /\ \E ref \in Recovered(Head(pending[p])) :
          mirror' = Append(ref, Head(pending[p]))
    /\ pending' = [pending EXCEPT ![p] = Tail(@)]
    /\ kept' = kept \union {p}
    /\ refused' = FALSE
    /\ UNCHANGED <<rows, origin, up, cell, writes, diverged, verdict>>

(* An append that raises: git failed, another writer won the update-ref, or  *)
(* there is no ref to append to.  What its write had left is not appended.   *)
AppendRaises(p) ==
    /\ pending[p] # <<>>
    /\ "appendFails" \in Mishaps \/ Recovered(Head(pending[p])) = {}
    /\ pending' = [pending EXCEPT ![p] = <<>>]
    /\ cell' = [cell EXCEPT ![p] = NoCell]
    /\ diverged' = TRUE
    /\ UNCHANGED <<rows, mirror, origin, up, kept, writes, refused, verdict>>

(* Variant: the push carries --force. *)
Pushed_Forced ==
    /\ origin' = IF mirror = <<>> THEN origin ELSE mirror
    /\ refused' = FALSE

(* A push of the ref, with no force: a fast-forward, or refused as stale.    *)
Pushed ==
    \/ /\ mirror # <<>> /\ IsPrefix(origin, mirror)
       /\ origin' = mirror
       /\ UNCHANGED refused
    \/ /\ mirror = <<>> \/ ~IsPrefix(origin, mirror) \/ "pushFails" \in Mishaps
       /\ refused' = TRUE
       /\ UNCHANGED origin

(* Ledger.push_record, as run_task ends: the key is dropped first. *)
PushRecord(p) ==
    /\ Free(p) /\ rows.made
    /\ kept' = kept \ {p}
    /\ Pushed
    /\ UNCHANGED <<rows, mirror, pending, up, cell, writes, diverged, verdict>>
-----------------------------------------------------------------------------
(* Commands. *)

Start(p) ==
    /\ p \notin up /\ writes < MaxWrites
    /\ up' = up \union {p}
    /\ UNCHANGED <<rows, mirror, origin, pending, kept, cell, writes, diverged, refused,
                   verdict>>

(* main's finally: push_unpushed, then the ledger is closed. *)
Exit(p) ==
    /\ Free(p)
    /\ up' = up \ {p} /\ kept' = kept \ {p}
    /\ cell' = [cell EXCEPT ![p] = NoCell]
    /\ IF p \in kept THEN Pushed ELSE UNCHANGED <<origin, refused>>
    /\ UNCHANGED <<rows, mirror, pending, writes, diverged, verdict>>

Crash(p) ==
    /\ "crash" \in Mishaps /\ p \in up
    /\ up' = up \ {p} /\ kept' = kept \ {p}
    /\ cell' = [cell EXCEPT ![p] = NoCell]
    /\ diverged' = (diverged \/ pending[p] # <<>>)
    /\ refused' = TRUE
    /\ pending' = [pending EXCEPT ![p] = <<>>]
    /\ UNCHANGED <<rows, mirror, origin, writes, verdict>>

(* Variant: the mirror's own fetch prunes what the checkout does not have.   *)
EnsureMirror_PrunesRecord ==
    /\ up # {}
    /\ mirror' = <<>>
    /\ UNCHANGED <<rows, origin, pending, up, kept, cell, writes, diverged, refused,
                   verdict>>

(* ensure_mirror fetches and prunes every ref of the checkout's but the     *)
(* record's own.                                                            *)
EnsureMirror ==
    /\ up # {}
    /\ UNCHANGED vars

(* Between commands, the mirror is deleted and cloned again from a checkout *)
(* without the ref.                                                         *)
LoseMirror ==
    /\ "mirrorLost" \in Mishaps /\ up = {} /\ mirror # <<>>
    /\ mirror' = <<>>
    /\ diverged' = (diverged \/ mirror # origin)
    /\ verdict' = "none"
    /\ UNCHANGED <<rows, origin, pending, up, kept, cell, writes, refused>>

(* Another host, whose own mirror has the ref, appends and pushes, once. *)
Elsewhere ==
    /\ "elsewhere" \in Mishaps /\ origin # <<>>
    /\ \A i \in 1 .. Len(origin) : origin[i].kind = "state" => origin[i].n # "elsewhere"
    /\ origin' = Append(origin, Fact("state", "elsewhere"))
    /\ diverged' = TRUE
    /\ verdict' = "none"
    /\ UNCHANGED <<rows, mirror, pending, up, kept, cell, writes, refused>>

(* The ledger is gone and `saffron fold` rebuilds it from the mirror.  A     *)
(* task it cannot read is left with no row.                                 *)
LoseLedgerAndFold ==
    /\ "ledgerLost" \in Mishaps /\ up = {} /\ rows.made /\ mirror # <<>>
    /\ LET row == Folded(mirror) IN
         /\ rows' = IF row.read = "ok" /\ row.made THEN row ELSE NoRow
         /\ diverged' = ~(row.read = "ok" /\ row.made)
    /\ verdict' = "none"
    /\ UNCHANGED <<mirror, origin, pending, up, kept, cell, writes, refused>>
-----------------------------------------------------------------------------
(* migrate_and_push. *)

(* The facts of a row's attempts that are not `had`, and so of its findings  *)
(* and its texts, in the order of their numbers.                            *)
Due(kind, n, S, had) == IF n \in S /\ Fact(kind, n) \notin had THEN <<Fact(kind, n)>> ELSE <<>>

Attempts(row, had) ==
    FlattenSeq([n \in 1 .. Max(row.opened \union {0}) |->
                  Due("opened", n, row.opened, had) \o Due("closed", n, row.closed, had)])

Findings(row, had) ==
    FlattenSeq([n \in 1 .. row.findings |->
                  Due("finding", n, 1 .. row.findings, had) \o Due("rebuttal", n, row.rebutted, had)])

Texts(row, had) ==
    FlattenSeq([n \in 1 .. Max(row.texts \union {0}) |-> Due("text", n, row.texts, had)])

(* The facts a live run of this task would have written, as _facts_for_task  *)
(* reads them off its rows.                                                 *)
FactsFor(row) ==
    <<Fact("created", 0)>> \o Attempts(row, {}) \o Findings(row, {})
      \o (IF row.pushed # 0 THEN <<Fact("push", row.pushed)>> ELSE <<>>)
      \o <<Fact("state", row.state)>> \o Texts(row, {})

Compared == {"opened", "closed", "finding", "rebuttal", "text"}

OfKind(facts, k) ==
    LET upTo[i \in 0 .. Len(facts)] ==
            IF i = 0 THEN <<>>
            ELSE upTo[i - 1] \o (IF facts[i].kind = k THEN <<facts[i]>> ELSE <<>>)
    IN  upTo[Len(facts)]

RecordState(facts) ==
    LET set == OfKind(facts, "state") IN IF set = <<>> THEN "QUEUED" ELSE Last(set).n

(* Variant: the kinds agree when the counts fit. *)
Agrees_ByCount(held, truth) ==
    /\ \E i \in 1 .. Len(held) : held[i].kind = "created"
    /\ \A k \in Compared : Len(OfKind(held, k)) <= Len(OfKind(truth, k))

Agrees(held, truth) ==
    /\ \E i \in 1 .. Len(held) : held[i].kind = "created"
    /\ \A k \in Compared : IsPrefix(OfKind(held, k), OfKind(truth, k))

(* _top_up: what a ref that agrees is owed. *)
TopUp(held, row) ==
    LET had  == Range(held)
        owed == Attempts(row, had) \o Findings(row, had) \o Texts(row, had)
    IN  owed \o (IF RecordState(held \o owed) # row.state THEN <<Fact("state", row.state)>> ELSE <<>>)

(* The ref migrate leaves: fetched over the mirror's own, or pruned where the *)
(* origin has none, then topped up.  A ref a live write started is never a   *)
(* prefix of what the rows give, its creation being dated to the microsecond.*)
Migrated(row) ==
    IF origin = <<>> THEN FactsFor(row)
    ELSE IF Agrees(origin, FactsFor(row)) THEN origin \o TopUp(origin, row) ELSE origin

Migrate ==
    /\ up = {} /\ rows.made
    /\ LET truth == FactsFor(rows) IN
         /\ mirror' = Migrated(rows)
         /\ \/ /\ origin = <<>> \/ Agrees(origin, truth)
               /\ origin' = mirror' /\ verdict' = "migrated"
               /\ UNCHANGED refused
            \/ /\ origin = <<>> \/ Agrees(origin, truth)
               /\ "pushFails" \in Mishaps
               /\ refused' = TRUE /\ verdict' = "none"
               /\ UNCHANGED origin
            \/ /\ origin # <<>> /\ ~Agrees(origin, truth)
               /\ verdict' = "refused"
               /\ UNCHANGED <<origin, refused>>
    /\ diverged' = (diverged \/ mirror # origin)
    /\ UNCHANGED <<rows, pending, up, kept, cell, writes>>

Write(p) ==
    \/ CreateTask(p) \/ SetTaskState(p) \/ OpenAttempt(p) \/ CloseAttempt(p)
    \/ RecordFindings(p) \/ RecordRebuttal(p) \/ RecordSpecText(p) \/ RecordPush(p)

Next ==
    \/ \E p \in Procs :
          \/ Write(p)
          \/ AppendFact(p) \/ AppendRaises(p) \/ PushRecord(p)
          \/ Start(p) \/ Exit(p) \/ Crash(p)
    \/ EnsureMirror \/ LoseMirror \/ Elsewhere \/ LoseLedgerAndFold \/ Migrate

Spec == Init /\ [][Next]_vars
-----------------------------------------------------------------------------
(* Properties. *)

Idle == \A p \in Procs : pending[p] = <<>>

Whole == rows.made => Folded(mirror) = rows

(* While nothing has gone wrong between a ledger and its record, what is    *)
(* committed is what the ref and the facts on their way to it fold to.      *)
NothingLostRebuilds == (Idle /\ ~diverged /\ mirror # <<>>) => Whole

(* A ref is a history: it opens on its task's creation, so the fold can read *)
(* it even where the mirror lost it and a later fact brought it back; a      *)
(* number names one attempt, finding or text for good, rows lost and rebuilt *)
(* in between; and the origin's ref is never rewound, no command's push      *)
(* taking back a fact, another host's included.                             *)
RefIsAHistory ==
    /\ [](mirror # <<>> => Head(mirror).kind = "created")
    /\ [](origin # <<>> => Head(origin).kind = "created")
    /\ [](\A i, j \in 1 .. Len(mirror) :
             (i # j /\ mirror[i].kind = mirror[j].kind /\ mirror[i].n = mirror[j].n)
                 => mirror[i].kind \in {"state", "push"})
    /\ [][IsPrefix(origin, origin')]_vars

(* Once no command runs, the origin holds every fact the mirror does, unless *)
(* a push was refused or a command was killed since the last one.           *)
ExitLeavesNothingUnpushed == (up = {} /\ ~refused) => IsPrefix(mirror, origin)

(* What migrate calls migrated folds to the rows it migrated, the pushed     *)
(* head apart.                                                              *)
MigratedIsWholeButForThePush ==
    verdict = "migrated" =>
        Folded(mirror) = [rows EXCEPT !.pushed = Folded(mirror).pushed]
=============================================================================
