------------------------------ MODULE EndReview ------------------------------
(***************************************************************************)
(* The tail of a stack night, over branches that others push to while it   *)
(* runs: the end review of each layer at its branch's head, the decision   *)
(* on every finding, the follow-up specs drafted from what qualifies, and  *)
(* the finishing layer.                                                    *)
(*                                                                         *)
(* A commit is the set of changes it contains, itself among them, so that  *)
(* one is an ancestor of another when it is a subset of it, and a range is *)
(* a difference.  Branch 0 is the stack base's, branch i the i-th layer's. *)
(***************************************************************************)
EXTENDS SpecReview, SequencesExt, FiniteSetsExt

CONSTANTS
    Cases,      \* what a behaviour may be about
    MaxMoves    \* how often the branches move

ASSUME EndReviewAssumption ==
    /\ MaxMoves \in Nat
    /\ \A c \in Cases : /\ c.size \in Nat \ {0} /\ c.reserve \in Nat /\ c.sessions \in Nat
                        /\ c.base \in BOOLEAN /\ c.faults \in BOOLEAN /\ IsFiniteSet(c.finds)

VARIABLES
    case,    \* the size of the order, what its lenses find, what may go wrong
    remote,  \* the branches' heads, {} for one that is gone, and the default's
    rows,    \* the ledger's layers, and its qualifications
    night,   \* the process: where it is, what it fetched, resolved and keeps
    said,    \* what the join and each layer's lenses read, and reported
    tail     \* what became of the findings, and the finishing layer

vars == <<case, remote, rows, night, said, tail>>

Main(i) == <<"main", i>>
Own(l)  == <<"own", l>>    \* the change PACKAGE pushed for layer l
Redo(l) == <<"redo", l>>   \* the same, its commit rewritten
Push(l) == <<"push", l>>   \* a later push to its branch

Gone     == {}
Nothing  == [base |-> {}, head |-> {}]
Branches == 0 .. case.size + 1
Layers   == DOMAIN rows.layers
LayerBudget == 2           \* two lenses; the join is one
Reading == {"join", "joinUnder", "joinRead", "layer", "layerUnder", "layerRead"}

TypeOK ==
    /\ night.pc \in Reading \union {"build", "qualify", "groups", "draft", "run", "json", "commit",
                                    "check", "push", "open", "link", "done"}
    /\ \A b \in Branches : remote.head[b] # Gone => Main(0) \in remote.head[b]
    /\ \A l \in Layers : Own(l) \in rows.layers[l].pushed
    /\ remote.moves <= MaxMoves
    /\ \A q \in rows.quals : q.layer \in Layers

Init ==
    /\ case \in Cases
    /\ remote = [main |-> {Main(0)}, moves |-> 0,
                 head |-> [b \in Branches |-> IF b = 0 /\ case.base THEN {Main(0), Own(0)} ELSE Gone]]
    /\ rows = [layers |-> <<>>, quals |-> {}]
    /\ night = [pc |-> "build", at |-> 1, left |-> case.reserve, fetched |-> [b \in Branches |-> Gone],
                main |-> Gone, fields |-> [b \in Branches |-> Nothing], raised |-> FALSE,
                ranges |-> {}, groups |-> <<>>, group |-> {}, writes |-> case.sessions,
                sentBack |-> FALSE, halted |-> FALSE]
    /\ said = [join |-> [ran |-> FALSE, base |-> {}, head |-> {}, found |-> {}],
               layer |-> [b \in Branches |-> [read |-> Nothing, found |-> {}]]]
    /\ tail = [kept |-> FALSE, pooled |-> <<>>, minted |-> {}, bare |-> {}, filed |-> FALSE,
               atop |-> {}, pushed |-> FALSE, opened |-> FALSE, linked |-> FALSE]
-----------------------------------------------------------------------------
(* Others move the branches, whenever they like. *)

Moves(kind) ==
    /\ kind \in case.moves /\ remote.moves < MaxMoves /\ night.pc # "done"
    /\ UNCHANGED <<case, rows, night, said, tail>>

MovesHead(b, head) == remote' = [remote EXCEPT !.head[b] = head, !.moves = @ + 1]
Live(b) == remote.head[b] # Gone

Pushes(b) == Moves("push") /\ Live(b) /\ MovesHead(b, remote.head[b] \union {Push(b)})

(* Once for each branch, a bound: a rewrite is a commit like no other. *)
Redoes(b) ==
    /\ Moves("redo") /\ Live(b) /\ b > 0 /\ Redo(b) \notin remote.head[b]
    /\ MovesHead(b, (remote.head[b] \ {Own(b)}) \union {Redo(b)})

(* The predecessor's head, or the default branch's, is merged into it. *)
Restacks(b) ==
    /\ Moves("restack") /\ b > 0 /\ Live(b) /\ Live(b - 1)
    /\ MovesHead(b, remote.head[b] \union remote.head[b - 1])

CatchesUp(b) == Moves("main") /\ b <= 1 /\ Live(b) /\ MovesHead(b, remote.head[b] \union remote.main)

MainMoves ==
    /\ Moves("main") /\ Main(1) \notin remote.main
    /\ remote' = [remote EXCEPT !.main = @ \union {Main(1)}, !.moves = @ + 1]

Merges(b) ==
    /\ Moves("merge") /\ b <= 1 /\ Live(b)
    /\ remote' = [remote EXCEPT !.main = @ \union remote.head[b], !.moves = @ + 1]

Deletes(b) == Moves("delete") /\ Live(b) /\ MovesHead(b, Gone)

Outside == \/ MainMoves
           \/ \E b \in Branches : Pushes(b) \/ Redoes(b) \/ Restacks(b) \/ CatchesUp(b)
                                  \/ Merges(b) \/ Deletes(b)
-----------------------------------------------------------------------------
(* The layers: each cut over its predecessor's branch as it is then.       *)

Top == Len(rows.layers)
Predecessor(l) == IF l = 1 /\ ~case.base THEN -1 ELSE l - 1

Layer(l, generation) ==
    LET under == IF Predecessor(l) = -1 THEN {Main(0)} ELSE remote.head[l - 1]
    IN  /\ under # Gone
        /\ rows' = [rows EXCEPT !.layers = Append(@,
               [pushed |-> under \union {Own(l)}, over |-> Predecessor(l), gen |-> generation,
                overHead |-> IF l > 1 THEN rows.layers[l - 1].pushed
                             ELSE IF case.base THEN {Main(0), Own(0)} ELSE {}])]
        /\ remote' = [remote EXCEPT !.head[l] = under \union {Own(l)}]

(* The join is for two layers or more, and one lens' share. *)
StartsReview(l) == IF l > 1 /\ case.reserve >= 1 THEN [night EXCEPT !.pc = "join", !.at = 1]
                   ELSE [night EXCEPT !.pc = "layer", !.at = l]

BuildLayer ==
    /\ night.pc = "build" /\ Layer(night.at, 0)
    /\ night' = IF night.at < case.size THEN [night EXCEPT !.at = @ + 1] ELSE StartsReview(night.at)
    /\ UNCHANGED <<case, said, tail>>

(* A predecessor's branch is gone, and the order ends there. *)
BuildEnds ==
    /\ night.pc = "build" /\ night.at > 1 /\ ~Live(night.at - 1)
    /\ night' = StartsReview(night.at - 1)
    /\ UNCHANGED <<case, remote, rows, said, tail>>
-----------------------------------------------------------------------------
(* branch_heads: one layer's range, read at its branch's current head.     *)

(* Variant: each read fetches the head anew. *)
Fetches_Fresh(b) == {remote.head[b]} \union (IF case.faults THEN {Gone} ELSE {})

(* A fetched head is kept for the whole review, a failed fetch is not. *)
Fetches(b) == IF night.fetched[b] # Gone THEN {night.fetched[b]}
              ELSE {remote.head[b]} \union (IF case.faults THEN {Gone} ELSE {})

MainFetches == IF night.main # Gone THEN {night.main}
               ELSE {remote.main} \union (IF case.faults THEN {Gone} ELSE {})

OwnParent(l) == rows.layers[l].pushed \ {Own(l)}

(* Variant: the bottom layer is read from the merge base. *)
LayerCandidates_Merged(l, head, under) ==
    IF rows.layers[l].over = -1 THEN <<head \intersect under>>
    ELSE <<IF under # Gone THEN under ELSE OwnParent(l), rows.layers[l].overHead>>

(* The predecessor's head as it is, else the layer's own parent, and what  *)
(* the row recorded of it; at the bottom, the merge base with the default  *)
(* branch, unless the layer's own commit is in it.                         *)
LayerCandidates(l, head, under) ==
    LET mergeBase == head \intersect under
    IN  IF rows.layers[l].over = -1
        THEN IF /\ mergeBase # {} /\ OwnParent(l) \subseteq mergeBase
                /\ ~(rows.layers[l].pushed \subseteq mergeBase)
             THEN <<mergeBase>> ELSE <<OwnParent(l)>>
        ELSE <<IF under # Gone THEN under ELSE OwnParent(l), rows.layers[l].overHead>>

Contained(candidates, head) == {i \in DOMAIN candidates : candidates[i] \subseteq head}

At == night.at
AfterJoin == [night EXCEPT !.pc = "layer", !.at = Top]

(* The join lens reads the layers from the bottom; what raises on the way  *)
(* is its error, at no cost.                                               *)
JoinFails ==
    /\ night' = AfterJoin
    /\ said' = [said EXCEPT !.join.ran = TRUE]

(* The layer's own branch. *)
JoinFetch ==
    /\ night.pc = "join"
    /\ \E head \in Fetches(At) :
         IF head = Gone THEN JoinFails
         ELSE night' = [night EXCEPT !.fetched[At] = head, !.pc = "joinUnder"] /\ UNCHANGED said
    /\ UNCHANGED <<case, remote, rows, tail>>

(* What it is read over: a range is chosen, and kept for the layer. *)
Under(l) == IF rows.layers[l].over = -1 THEN MainFetches ELSE Fetches(l - 1)

Kept(l, under) == IF rows.layers[l].over = -1 THEN [night EXCEPT !.main = under]
                  ELSE [night EXCEPT !.fetched[l - 1] = under]

Resolves(l, under) ==
    IF rows.layers[l].over = -1 /\ under = Gone THEN {}
    ELSE Contained(LayerCandidates(l, night.fetched[l], under), night.fetched[l])

Base(l, under) == LayerCandidates(l, night.fetched[l], under)[Min(Resolves(l, under))]

Resolved(l, under) ==
    [Kept(l, under) EXCEPT !.fields[l] = [base |-> Base(l, under), head |-> night.fetched[l]]]

JoinUnder ==
    /\ night.pc = "joinUnder"
    /\ \E under \in Under(At) :
         IF Resolves(At, under) = {}
         THEN /\ night' = [Kept(At, under) EXCEPT !.pc = "layer", !.at = Top]
              /\ said' = [said EXCEPT !.join.ran = TRUE]
         ELSE /\ night' = [Resolved(At, under) EXCEPT !.pc = IF At < Top THEN "join" ELSE "joinRead",
                                                      !.at = IF At < Top THEN At + 1 ELSE At]
              /\ UNCHANGED said
    /\ UNCHANGED <<case, remote, rows, tail>>

(* The findings a range shows: those at a change in it. *)
Shows(range, f) == f.at \in range.head \ range.base

JoinRange == [base |-> night.fields[1].base, head |-> night.fields[Top].head]

JoinRead ==
    /\ night.pc = "joinRead"
    /\ \E errs \in BOOLEAN :
         said' = [said EXCEPT !.join = [ran |-> TRUE, base |-> JoinRange.base, head |-> JoinRange.head,
                    found |-> IF errs THEN {}
                              ELSE {f \in case.finds : f.lens = "join" /\ Shows(JoinRange, f)}]]
    /\ night' = [AfterJoin EXCEPT !.left = @ - 1]
    /\ UNCHANGED <<case, remote, rows, tail>>

(* The diff, the prompt or the cell raises: an error at no cost. *)
JoinRaises == night.pc = "joinRead" /\ case.faults /\ JoinFails /\ UNCHANGED <<case, remote, rows, tail>>
-----------------------------------------------------------------------------
(* Each layer from the top, while what is left covers both its lenses.     *)

Below == IF At > 1 THEN [night EXCEPT !.pc = "layer", !.at = At - 1]
         ELSE [night EXCEPT !.pc = "qualify"]

NotReached ==
    /\ night.pc = "layer" /\ night.left < LayerBudget
    /\ night' = [night EXCEPT !.pc = "qualify"]
    /\ UNCHANGED <<case, remote, rows, said, tail>>

(* A layer that cannot be resolved is an error of both lenses. *)
LayerFetch ==
    /\ night.pc = "layer" /\ night.left >= LayerBudget
    /\ \E head \in Fetches(At) :
         night' = IF head = Gone THEN Below
                  ELSE [night EXCEPT !.fetched[At] = head, !.pc = "layerUnder"]
    /\ UNCHANGED <<case, remote, rows, said, tail>>

LayerUnder ==
    /\ night.pc = "layerUnder"
    /\ \E under \in Under(At) :
         night' = IF Resolves(At, under) # {} THEN [Resolved(At, under) EXCEPT !.pc = "layerRead"]
                  ELSE LET kept == Kept(At, under)
                       IN  [Below EXCEPT !.fetched = kept.fetched, !.main = kept.main]
    /\ UNCHANGED <<case, remote, rows, said, tail>>

(* Each lens in a session of its own, whether or not the one before it     *)
(* failed.                                                                 *)
LayerRead ==
    /\ night.pc = "layerRead"
    /\ \E clean \in SUBSET {"spec", "standards"} :
         said' = [said EXCEPT !.layer[At] =
             [read |-> night.fields[At],
              found |-> {f \in case.finds : f.lens \in clean /\ f.layer = At
                                             /\ Shows(night.fields[At], f)}]]
    /\ night' = [Below EXCEPT !.left = @ - LayerBudget]
    /\ UNCHANGED <<case, remote, rows, tail>>

(* Its cell does not come up, and both lenses are errors at no cost. *)
LayerRaises ==
    /\ night.pc = "layerRead" /\ case.faults
    /\ night' = Below
    /\ UNCHANGED <<case, remote, rows, said, tail>>

(* A raise hands on a review of errors: no finding, and no head. *)
EndReviewRaises ==
    /\ night.pc \in Reading /\ case.faults
    /\ night' = [night EXCEPT !.pc = "qualify", !.raised = TRUE,
                              !.fields = [b \in Branches |-> Nothing]]
    /\ said' = [join |-> [said.join EXCEPT !.ran = FALSE, !.found = {}],
                layer |-> [b \in Branches |-> [said.layer[b] EXCEPT !.found = {}]]]
    /\ UNCHANGED <<case, remote, rows, tail>>
-----------------------------------------------------------------------------
(* qualify: range by range, every finding is anchored, probed and decided. *)

Packaged(l) == [base |-> OwnParent(l), head |-> rows.layers[l].pushed]
Graded(l)   == IF night.fields[l] # Nothing THEN night.fields[l] ELSE Packaged(l)

Concerns(l) == {f \in case.finds : f.layer = l /\ f.lens \in {"correctness", "adequacy"}}

(* The join's over the whole stack, then each layer's, and its own REVIEW  *)
(* concerns over what it was packaged at.                                  *)
Range1(kind, l, found, base, head) ==
    [kind |-> kind, layer |-> l, found |-> found, base |-> base, head |-> head]

(* Variant: every finding is decided over what was packaged. *)
RangesOf_Packaged(l) ==
    {Range1("end", l, said.layer[l].found, Packaged(l).base, Packaged(l).head),
     Range1("cell", l, Concerns(l), Packaged(l).base, Packaged(l).head)}

RangesOf(l) ==
    {Range1("end", l, said.layer[l].found, Graded(l).base, Graded(l).head),
     Range1("cell", l, Concerns(l), Packaged(l).base, Packaged(l).head)}

Ranges ==
    LET join == Range1("join", Top, said.join.found, Graded(1).base, Graded(Top).head)
    IN  {r \in (IF said.join.ran THEN {join} ELSE {}) \union UNION {RangesOf(l) : l \in Layers} :
            r.found # {}}

(* The join's, then each layer's from the top, its concerns last. *)
Before(r, s) == \/ r.kind = "join"
                \/ s.kind # "join" /\ r.layer > s.layer
                \/ r.layer = s.layer /\ r.kind = "end" /\ s.kind = "cell"

(* A concern whose line a later push to its branch changed is not proved.  *)
Stale(r, f) ==
    r.kind = "cell" /\ f.edited /\ Graded(r.layer).head # r.head

Decide(r, f, verdict) ==
    IF ~Shows(r, f) THEN "unanchored"
    ELSE IF ~f.probe
    THEN IF f.lens = "adequacy" THEN "unverified"
         ELSE IF f.severity = "note" THEN "note"
         ELSE IF Stale(r, f) THEN "unverified" ELSE "qualified"
    ELSE IF verdict = "killed" THEN "killed"
    ELSE IF verdict = "survived" /\ ~Stale(r, f) THEN "qualified" ELSE "unverified"

StartsQualifying ==
    /\ night.pc = "qualify" /\ Ranges # {}
    /\ night' = [night EXCEPT !.pc = "groups", !.ranges = Ranges]
    /\ UNCHANGED <<case, remote, rows, said, tail>>

QualifiesNothing ==
    /\ night.pc = "qualify" /\ Ranges = {}
    /\ night' = [night EXCEPT !.pc = "json"] /\ tail' = [tail EXCEPT !.kept = TRUE]
    /\ UNCHANGED <<case, remote, rows, said>>

(* One group for each layer and file, in the order first met. *)
Key(q) == <<q.layer, q.finding.file>>

Orders(S) == Bijection(1 .. Cardinality(S), S)

Grouped(groups, decided) ==
    LET keys == {Key(q) : q \in {d \in decided : d.outcome = "qualified"}} \ ToSet(groups)
    IN  {groups \o more : more \in Orders(keys)}

Decided(r, verdict) ==
    {[layer |-> r.layer, finding |-> f, outcome |-> Decide(r, f, verdict)] : f \in r.found}

QualifyRange(verdict) ==
    /\ night.pc = "groups"
    /\ \E r \in night.ranges :
         /\ \A s \in night.ranges \ {r} : Before(r, s)
         /\ rows' = [rows EXCEPT !.quals = @ \union Decided(r, verdict)]
         /\ \E groups \in Grouped(night.groups, Decided(r, verdict)) :
              night' = [night EXCEPT !.ranges = @ \ {r}, !.groups = groups]
    /\ UNCHANGED <<case, remote, said, tail>>

(* A read the mirror cannot answer: the ranges before it keep their rows,  *)
(* and no group is written.                                                *)
QualifyRaises ==
    /\ night.pc = "groups" /\ night.ranges # {} /\ case.faults
    /\ night' = [night EXCEPT !.pc = "json", !.groups = <<>>]
    /\ UNCHANGED <<case, remote, rows, said, tail>>

Qualified ==
    /\ night.pc = "groups" /\ night.ranges = {} /\ ~tail.kept
    /\ tail' = [tail EXCEPT !.kept = TRUE]
    /\ UNCHANGED <<case, remote, rows, night, said>>
-----------------------------------------------------------------------------
(* write_follow_ups: one draft for each group, sent back once at most.     *)

FoundIn(key) == {q.finding : q \in {d \in rows.quals : d.outcome = "qualified" /\ Key(d) = key}}
Group == Head(night.groups)

Pooled(key, found) == [tail EXCEPT !.pooled = Append(@, [key |-> key, found |-> found])]
NextGroup == [night EXCEPT !.pc = "groups", !.groups = Tail(@), !.group = {}, !.sentBack = FALSE]
Writing(pc) == night.pc = pc /\ tail.kept /\ night.groups # <<>> /\ UNCHANGED <<case, remote, rows, said>>

(* The account's limit was met, the sub-cap is spent, or no test path      *)
(* changed.                                                                *)
PoolsGroup ==
    /\ Writing("groups")
    /\ night.halted \/ night.writes = 0 \/ ~case.tests
    /\ tail' = Pooled(Group, FoundIn(Group)) /\ night' = NextGroup

(* The findings whose probe no longer matches at the top are pooled, and   *)
(* the writer is given the others.                                         *)
TakesGroup(dropped) ==
    /\ Writing("groups") /\ ~night.halted /\ night.writes > 0 /\ case.tests
    /\ dropped \subseteq {f \in FoundIn(Group) : f.probe}
    /\ tail' = IF dropped = {} THEN tail ELSE Pooled(Group, dropped)
    /\ night' = IF dropped = FoundIn(Group) THEN NextGroup
                ELSE [night EXCEPT !.pc = "draft", !.group = FoundIn(Group) \ dropped]

Pools    == tail' = Pooled(Group, night.group) /\ night' = [NextGroup EXCEPT !.writes = night.writes - 1]
Unwrites == tail' = Pooled(Group, night.group) /\ night' = NextGroup

(* The adapter raises: no session, and nothing charged. *)
WriteRaises == Writing("draft") /\ case.faults /\ Unwrites

Writes(turns) == Writing("draft") /\ turns \in case.writings
Drafts(turns) == Writes(turns) /\ ~WriterSession(turns).limited /\ ~WriterSession(turns).error

WriterErrs(turns) == Writes(turns) /\ WriterSession(turns).error /\ Pools

WriterWaits(turns) ==
    /\ Writes(turns) /\ WriterSession(turns).limited
    /\ tail' = Pooled(Group, night.group)
    /\ night' = [NextGroup EXCEPT !.halted = TRUE, !.writes = @ - 1]

(* The draft does not parse, or the finishing suite is red on it: back to  *)
(* the writer, once, and while the sub-cap covers it.                      *)
SendsBack(turns) ==
    /\ Drafts(turns)
    /\ IF night.sentBack \/ night.writes = 1 THEN Pools
       ELSE night' = [night EXCEPT !.writes = @ - 1, !.sentBack = TRUE] /\ UNCHANGED tail

(* It asks for what a follow-up may not. *)
Refuses(turns) == Drafts(turns) /\ Pools

JudgeRaises(turns) ==
    /\ Drafts(turns) /\ case.faults
    /\ tail' = Pooled(Group, night.group)
    /\ night' = [NextGroup EXCEPT !.halted = TRUE, !.writes = @ - 1]

(* A task of its own, and then its text. *)
Mints(turns) ==
    /\ Drafts(turns)
    /\ tail' = [tail EXCEPT !.minted = @ \union {Group}]
    /\ night' = [NextGroup EXCEPT !.writes = @ - 1]

(* A raise out of it: every finding of a group without its text, and not   *)
(* yet pooled, is pooled.                                                  *)
PooledAlready(pooled) == UNION {p.found : p \in ToSet(pooled)}

(* Variant: every finding of a group left over is pooled. *)
Rest_Groups(key) == FoundIn(key)

Rest(key) == FoundIn(key) \ PooledAlready(tail.pooled)

PoolRest ==
    {tail.pooled \o [i \in DOMAIN left |-> [key |-> left[i], found |-> Rest(left[i])]] :
        left \in Orders({k \in ToSet(night.groups) : Rest(k) # {}})}

FollowUpsRaise(minted) ==
    /\ \/ Writing("groups") /\ ~minted
       \/ Writing("draft")
    /\ case.faults
    /\ \E pooled \in PoolRest :
         tail' = [tail EXCEPT !.pooled = pooled, !.bare = IF minted THEN @ \union {Group} ELSE @]
    /\ night' = [night EXCEPT !.pc = "json", !.groups = <<>>]

(* One of them may run, and become a layer over the top. *)
WritingEnds ==
    /\ night.pc = "groups" /\ night.groups = <<>> /\ night.ranges = {} /\ tail.kept
    /\ night' = [night EXCEPT !.pc = IF tail.minted # {} THEN "run" ELSE "json"]
    /\ UNCHANGED <<case, remote, rows, said, tail>>

FollowUpRuns ==
    /\ night.pc = "run" /\ Layer(Top + 1, 1)
    /\ night' = [night EXCEPT !.pc = "json"]
    /\ UNCHANGED <<case, said, tail>>

FollowUpUnrun ==
    /\ night.pc = "run" /\ night' = [night EXCEPT !.pc = "json"]
    /\ UNCHANGED <<case, remote, rows, said, tail>>
-----------------------------------------------------------------------------
(* The finish: what it says of every finding, and the finishing layer.     *)

(* Either part may raise, and the other still runs. *)
WriteFindings ==
    /\ night.pc = "json"
    /\ \E written \in (IF case.faults THEN BOOLEAN ELSE {TRUE}) : tail' = [tail EXCEPT !.filed = written]
    /\ night' = [night EXCEPT !.pc = "commit"]
    /\ UNCHANGED <<case, remote, rows, said>>

(* What findings.json makes of a qualified row. *)
Entry(q) == IF \E p \in ToSet(tail.pooled) : p.key = Key(q) /\ q.finding \in p.found
            THEN "pooled" ELSE "follow_up"

GradedHead(l) == Graded(l).head
(* Variant: the finishing commit sits on the head packaged. *)
FinishOver_Packaged == rows.layers[Top].pushed

FinishOver == GradedHead(Top)

CommitFinish ==
    /\ night.pc = "commit"
    /\ tail' = [tail EXCEPT !.atop = FinishOver]
    /\ night' = [night EXCEPT !.pc = "check", !.at = 1]
    /\ UNCHANGED <<case, remote, rows, said>>

(* The tree is unchanged, or a spec's path or text is refused. *)
FinishesNothing ==
    /\ night.pc = "commit" /\ night' = [night EXCEPT !.pc = "done"]
    /\ UNCHANGED <<case, remote, rows, said, tail>>

(* The finishing suite is red on it, or does not finish. *)
SuiteRefuses ==
    /\ night.pc = "check" /\ night.at = 1 /\ night' = [night EXCEPT !.pc = "done"]
    /\ UNCHANGED <<case, remote, rows, said, tail>>

(* A pull request follows its base to the default branch when that goes. *)
Targets(l) == IF Predecessor(l) = -1 \/ Live(l - 1) THEN Predecessor(l) ELSE -1

Stands(l) == remote.head[l] = GradedHead(l)

(* Each layer's branch, then each one's target, from the bottom. *)
ChecksHead ==
    /\ night.pc = "check" /\ night.at <= Top
    /\ night' = IF Stands(night.at) THEN [night EXCEPT !.at = @ + 1] ELSE [night EXCEPT !.pc = "done"]
    /\ UNCHANGED <<case, remote, rows, said, tail>>

ChecksTargets ==
    /\ night.pc = "check" /\ night.at = Top + 1
    /\ \E read \in (IF case.faults THEN BOOLEAN ELSE {TRUE}) :
         night' = [night EXCEPT !.pc = IF read /\ \A l \in Layers : Targets(l) = rows.layers[l].over
                                       THEN "push" ELSE "done"]
    /\ UNCHANGED <<case, remote, rows, said, tail>>

(* Its branch must not be there yet. *)
PushFinish ==
    /\ night.pc = "push"
    /\ \/ tail' = [tail EXCEPT !.pushed = TRUE] /\ night' = [night EXCEPT !.pc = "open"]
       \/ case.faults /\ night' = [night EXCEPT !.pc = "done"] /\ UNCHANGED tail
    /\ UNCHANGED <<case, remote, rows, said>>

(* Its draft pull request. *)
OpenFinish ==
    /\ night.pc = "open"
    /\ \/ tail' = [tail EXCEPT !.opened = TRUE] /\ night' = [night EXCEPT !.pc = "link"]
       \/ case.faults /\ night' = [night EXCEPT !.pc = "done"] /\ UNCHANGED tail
    /\ UNCHANGED <<case, remote, rows, said>>

(* The stack is linked, unless its bottom is stacked on a pull request     *)
(* this batch did not open, or gh fails.                                   *)
LinkStack ==
    /\ night.pc = "link"
    /\ \E linked \in {x \in BOOLEAN : x => rows.layers[1].over = -1} :
         tail' = [tail EXCEPT !.linked = linked]
    /\ night' = [night EXCEPT !.pc = "done"]
    /\ UNCHANGED <<case, remote, rows, said>>
-----------------------------------------------------------------------------
Review == \/ BuildLayer \/ BuildEnds
          \/ JoinFetch \/ JoinUnder \/ JoinRead \/ JoinRaises
          \/ NotReached \/ LayerFetch \/ LayerUnder \/ LayerRead \/ LayerRaises \/ EndReviewRaises

Qualify == \/ StartsQualifying \/ QualifiesNothing \/ QualifyRaises \/ Qualified
           \/ \E verdict \in {"survived", "killed", "unproven"} : QualifyRange(verdict)

Write == \/ PoolsGroup \/ WriteRaises \/ WritingEnds \/ FollowUpRuns \/ FollowUpUnrun
         \/ \E dropped \in SUBSET {f \in case.finds : f.probe} : TakesGroup(dropped)
         \/ \E turns \in case.writings :
              \/ WriterErrs(turns) \/ WriterWaits(turns) \/ SendsBack(turns)
              \/ Refuses(turns) \/ JudgeRaises(turns) \/ Mints(turns)
         \/ \E minted \in BOOLEAN : FollowUpsRaise(minted)

Finish == \/ WriteFindings \/ CommitFinish \/ FinishesNothing
          \/ SuiteRefuses \/ ChecksHead \/ ChecksTargets \/ PushFinish \/ OpenFinish \/ LinkStack

Next == Outside \/ Review \/ Qualify \/ Write \/ Finish

Spec == Init /\ [][Next]_vars
-----------------------------------------------------------------------------
(* Properties. *)

(* A layer's lenses read that layer's own change, whatever was pushed,     *)
(* merged or deleted around it, and no other layer's change, but one that  *)
(* the base has rewritten (end_review._layer_candidates).  The bottom      *)
(* layer's range misses it where that was merged into what it is read      *)
(* over: rewritten, into the default branch, or into the stack base's.     *)
RangeIsItsOwn ==
    \A l \in Branches :
        LET read == said.layer[l].read
        IN  read # Nothing =>
              /\ \/ {Own(l), Redo(l)} \intersect (read.head \ read.base) # {}
                 \/ l = 1 /\ \/ Redo(1) \in night.main
                             \/ {Own(1), Redo(1)} \intersect night.fetched[0] # {}
              /\ \A j \in Layers \ {l} : Own(j) \in read.head \ read.base => Redo(j) \in read.base

(* One head is one layer's throughout, though its branch goes on moving: a *)
(* lens' findings are decided over the very range it read, so none of them *)
(* fails to anchor; and the finishing commit is pushed over what the top   *)
(* layer's lenses read and over nothing of others but what its own         *)
(* follow-up added.  The join's base may differ where a failed fetch of    *)
(* the stack base's branch is made good after it (_recording_resolve).     *)
OneHeadThroughout ==
    /\ \A r \in night.ranges :
          /\ r.kind = "end" => [base |-> r.base, head |-> r.head] = said.layer[r.layer].read
          /\ r.kind = "join" => r.head = said.join.head
          /\ r.kind = "join" /\ r.base # said.join.base => case.base /\ case.faults
    /\ \A q \in rows.quals : q.outcome = "unanchored" =>
          \/ q.finding.lens \in {"correctness", "adequacy"}
          \/ q.finding.lens = "join" /\ case.base /\ case.faults
    /\ tail.pushed => LET l == Max({i \in Layers : rows.layers[i].gen = 0})
                          h == said.layer[l].read.head
                      IN  h # {} => tail.atop \ {Own(l + 1)} = h

(* Every qualified finding is accounted for once the writing is over, and  *)
(* once: it is pooled for the backlog or has a follow-up with its text,    *)
(* also when a draft was sent back, a limit halted the rest or a raise cut *)
(* it short; and findings.json says which.                                 *)
FindingIsFollowedOrPooled ==
    tail.kept /\ night.pc \in {"run", "json", "commit", "check", "push", "open", "link", "done"} =>
        \A q \in {d \in rows.quals : d.outcome = "qualified"} :
            LET pools == {i \in DOMAIN tail.pooled : tail.pooled[i].key = Key(q)
                                                     /\ q.finding \in tail.pooled[i].found}
            IN  /\ Cardinality(pools) <= 1
                /\ Entry(q) = "follow_up" <=> pools = {}
                /\ pools = {} => Key(q) \in tail.minted
=============================================================================
