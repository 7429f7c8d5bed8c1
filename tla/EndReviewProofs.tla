-------------------------- MODULE EndReviewProofs --------------------------
(***************************************************************************)
(* Proofs about EndReview, for every order, every set of findings and any  *)
(* number of moves of the branches: what a layer's lenses read is its own  *)
(* change, what a lens read is what its findings are decided over and what *)
(* the finish is pushed over, and no qualified finding is lost between the *)
(* groups, the drafts and the backlog.                                     *)
(*                                                                         *)
(* A branch's head only moves on, in an order of its own: it grows, is     *)
(* rewritten once, and goes for good.  So a head found again is a head     *)
(* that never moved, which is what the finish's check rests on.            *)
(***************************************************************************)
EXTENDS EndReview, FiniteSetTheorems, SequenceTheorems, TLAPS

Change  == {"main", "own", "redo", "push"} \X Int
Commit  == SUBSET Change
Span    == [base : Commit, head : Commit]
Files   == {f.file : f \in case.finds}
KeySet  == Branches \X Files

Joining  == {"join", "joinUnder", "joinRead"}
Walking  == {"layer", "layerUnder", "layerRead"}
Ending   == {"json", "commit", "check", "push", "open", "link", "done"}
Phases   == {"build", "qualify", "groups", "draft", "run"} \union Joining \union Walking \union Ending

RemoteType == remote \in [main : Commit, moves : Nat, head : [Branches -> Commit]]
RowsType ==
    /\ rows = [layers |-> rows.layers, quals |-> rows.quals]
    /\ rows.layers \in Seq([pushed : Commit, over : Int, gen : {0, 1}, overHead : Commit])
    /\ \A q \in rows.quals : q.layer \in Branches /\ q.finding \in case.finds
NightType ==
    night \in [pc : Phases, at : Int, left : Int, fetched : [Branches -> Commit], main : Commit,
               fields : [Branches -> Span], raised : BOOLEAN,
               ranges : SUBSET [kind : {"join", "end", "cell"}, layer : Branches, found : SUBSET case.finds,
                                base : Commit, head : Commit],
               groups : Seq(KeySet), group : SUBSET case.finds, writes : Int, sentBack : BOOLEAN,
               halted : BOOLEAN]
SaidType ==
    said \in [join : [ran : BOOLEAN, base : Commit, head : Commit, found : SUBSET case.finds],
              layer : [Branches -> [read : Span, found : SUBSET case.finds]]]
TailType ==
    tail \in [kept : BOOLEAN, pooled : Seq([key : KeySet, found : SUBSET case.finds]), minted : SUBSET KeySet,
              bare : SUBSET KeySet, filed : BOOLEAN, atop : Commit, pushed : BOOLEAN,
              opened : BOOLEAN, linked : BOOLEAN]

(* Where the process is, and what that says of the layers. *)
Before1 == {"build", "qualify", "groups", "draft", "run"} \union Joining \union Walking
Control ==
    /\ case \in Cases
    /\ night.pc = "build" => night.at = Top + 1 /\ night.at <= case.size
    /\ night.pc # "build" => Top >= 1
    /\ Top <= case.size + 1
    /\ night.pc \in Before1 => Top <= case.size /\ \A i \in Layers : rows.layers[i].gen = 0
    /\ \A i \in Layers : rows.layers[i].gen = 1 => i = Top /\ i > 1
    /\ \A i \in Layers : rows.layers[i].gen = 0 => i <= case.size
    /\ \A i \in Layers : rows.layers[i].over = Predecessor(i)
    /\ night.pc \in Joining \union Walking => night.at \in 1 .. Top
    /\ night.pc = "check" => night.at \in 1 .. Top + 1

Typed == RemoteType /\ RowsType /\ NightType /\ SaidType /\ TailType /\ Control
-----------------------------------------------------------------------------
(* Which changes a head may have, and must have. *)
Of(j) == {Own(j), Redo(j), Push(j)}

Content(b, s) ==
    /\ \A j \in Branches : j > 1 /\ j > b => Of(j) \intersect s = {}
    /\ \A j \in Branches : 1 <= j /\ j <= b => {Own(j), Redo(j)} \intersect s # {}

Unbuilt(s) == \A j \in Branches : j > Top => Of(j) \intersect s = {}

(* One of a branch's heads is a later one than the other. *)
Later(b, x, y) ==
    \/ y = Gone
    \/ /\ x \ {Own(b)} \subseteq y
       /\ Redo(b) \in x \/ Redo(b) \notin y => x \subseteq y

Heads ==
    /\ \A j \in Branches : j > 1 => Of(j) \intersect remote.main = {}
    /\ Unbuilt(remote.main)
    /\ \A b \in Branches : b > Top => remote.head[b] = Gone
    /\ \A b \in Branches : remote.head[b] # Gone => Content(b, remote.head[b]) /\ Unbuilt(remote.head[b])

Packages ==
    /\ \A i \in Layers : /\ Own(i) \in rows.layers[i].pushed
                         /\ Redo(i) \notin rows.layers[i].pushed
                         /\ Content(i, rows.layers[i].pushed)
                         /\ Later(i, rows.layers[i].pushed, remote.head[i])
                         /\ i > 1 => rows.layers[i].overHead = rows.layers[i - 1].pushed
    /\ 1 \in Layers /\ ~case.base => rows.layers[1].pushed = {Main(0), Own(1)}
    /\ 1 \in Layers /\ case.base => rows.layers[1].overHead = {Main(0), Own(0)}

Fetched ==
    /\ \A j \in Branches : j > 1 => Of(j) \intersect night.main = {}
    /\ \A b \in Branches : night.fetched[b] # Gone =>
          /\ b <= Top
          /\ Content(b, night.fetched[b])
          /\ b \in Layers => /\ Later(b, rows.layers[b].pushed, night.fetched[b])
                             /\ Later(b, night.fetched[b], remote.head[b])

(* What the follow-up's layer was cut over. *)
FollowUpOver ==
    \A i \in Layers : rows.layers[i].gen = 1 =>
        LET under == rows.layers[i].pushed \ {Own(i)}
        IN  /\ under # Gone
            /\ Later(i - 1, rows.layers[i - 1].pushed, under)
            /\ Later(i - 1, under, remote.head[i - 1])
            /\ night.fetched[i - 1] # Gone => Later(i - 1, night.fetched[i - 1], under)

History == Heads /\ Packages /\ Fetched /\ FollowUpOver
-----------------------------------------------------------------------------
(* What a layer may be read over. *)
IsBase(l, base) ==
    \/ base = OwnParent(l)
    \/ /\ rows.layers[l].over = -1 /\ night.main # Gone
       /\ base = night.fetched[l] \intersect night.main
       /\ OwnParent(l) \subseteq base /\ ~(rows.layers[l].pushed \subseteq base)
    \/ /\ rows.layers[l].over # -1
       /\ \/ base = rows.layers[l].overHead
          \/ night.fetched[l - 1] # Gone /\ base = night.fetched[l - 1]

Reads(l, range) ==
    /\ l \in Layers /\ rows.layers[l].gen = 0
    /\ night.fetched[l] # Gone /\ range.head = night.fetched[l]
    /\ range.base \subseteq range.head /\ IsBase(l, range.base)

(* The bottom layer's base, unless a failed fetch comes to be made good. *)
Bottom == IF case.base THEN night.fetched[0] ELSE night.main

BottomIs(base) ==
    ~(case.base /\ case.faults) =>
        /\ base = Base(1, Bottom) /\ Resolves(1, Bottom) # {}
        /\ night.main # Gone \/ case.base
        /\ case.base /\ night.fetched[0] = Gone => remote.head[0] = Gone

Resolutions ==
    /\ \A l \in Branches : night.fields[l] # Nothing => Reads(l, night.fields[l])
    /\ night.fields[1] # Nothing => BottomIs(night.fields[1].base)
    /\ night.pc = "joinUnder" \/ night.pc = "layerUnder" => night.fetched[At] # Gone
    /\ night.pc = "layerRead" => night.fields[At] # Nothing
    /\ night.pc \in Joining => \A i \in 1 .. At - 1 : night.fields[i] # Nothing
    /\ night.pc = "joinRead" => night.fields[At] # Nothing /\ At = Top

Readings ==
    /\ night.pc \in {"build"} \union Joining => ~said.join.ran /\ said.join.found = {}
    /\ night.pc \in {"build"} \union Joining =>
          \A l \in Branches : said.layer[l].read = Nothing /\ said.layer[l].found = {}
    /\ \A l \in Branches :
          LET s == said.layer[l]
          IN  /\ s.read # Nothing => Reads(l, s.read)
              /\ s.read # Nothing /\ night.pc \in Walking => l > At
              /\ s.found # {} => s.read # Nothing /\ night.fields[l] = s.read
              /\ \A f \in s.found : f.lens \in {"spec", "standards"} /\ f.layer = l /\ Shows(s.read, f)
    /\ \A f \in said.join.found : f.lens = "join" /\ Shows(said.join, f)
    /\ said.join.found # {} /\ night.pc \in Before1 =>
          /\ night.fields[1] # Nothing /\ night.fields[Top] # Nothing
          /\ said.join.head = night.fetched[Top] /\ BottomIs(said.join.base)
-----------------------------------------------------------------------------
RangeIs(r) ==
    /\ r.kind = "end" =>
          /\ [base |-> r.base, head |-> r.head] = said.layer[r.layer].read
          /\ \A f \in r.found : f.lens \in {"spec", "standards"} /\ f.layer = r.layer /\ Shows(r, f)
    /\ r.kind = "cell" => \A f \in r.found : f.lens \in {"correctness", "adequacy"} /\ f.layer = r.layer
    /\ r.kind = "join" =>
          /\ \A f \in r.found : f.lens = "join" /\ Shows(said.join, f)
          /\ r.head = said.join.head
          /\ r.base # said.join.base => case.base /\ case.faults
          /\ night.pc \in {"groups", "draft"} => r.layer = Top

LayerOf(f) == IF f.lens = "join" THEN Top ELSE f.layer

Deciding ==
    /\ night.pc \in {"build", "qualify"} \union Joining \union Walking => night.ranges = {} /\ rows.quals = {}
    /\ night.pc = "run" => night.ranges = {}
    /\ \A r \in night.ranges : RangeIs(r)
    /\ \A q \in rows.quals : q.outcome = "unanchored" =>
          \/ q.finding.lens \in {"correctness", "adequacy"}
          \/ q.finding.lens = "join" /\ case.base /\ case.faults
    /\ night.pc \in {"groups", "draft"} => \A q \in rows.quals : q.layer = LayerOf(q.finding)
-----------------------------------------------------------------------------
(* Where a qualified finding is: waiting in a group, with the writer, in   *)
(* the backlog, or in a follow-up with its text.                           *)
Qualifieds == {q \in rows.quals : q.outcome = "qualified"}

Waiting == IF night.pc = "groups" THEN ToSet(night.groups) ELSE ToSet(Tail(night.groups))

IsPooled(q) == \E i \in DOMAIN tail.pooled : tail.pooled[i].key = Key(q) /\ q.finding \in tail.pooled[i].found

Accounts ==
    /\ tail.kept => night.ranges = {} /\ night.pc \in {"groups", "draft", "run"} \union Ending
    /\ ~tail.kept => tail.pooled = <<>> /\ tail.minted = {}
    /\ night.pc \in {"draft", "run"} => tail.kept
    /\ night.pc = "draft" => night.groups # <<>> /\ night.group \subseteq FoundIn(Group)
    /\ night.pc \in {"build", "qualify"} \union Joining \union Walking => night.groups = <<>>
    /\ \A i, j \in DOMAIN night.groups : i # j => night.groups[i] # night.groups[j]
    /\ night.pc = "groups" /\ ~tail.kept => \A q \in Qualifieds : Key(q) \in ToSet(night.groups)
    /\ \A i \in DOMAIN tail.pooled : tail.pooled[i].found \subseteq FoundIn(tail.pooled[i].key)
    /\ \A i, j \in DOMAIN tail.pooled :
          i # j /\ tail.pooled[i].key = tail.pooled[j].key
             => tail.pooled[i].found \intersect tail.pooled[j].found = {}
    /\ night.pc \in {"groups", "draft"} => \A i \in DOMAIN tail.pooled :
          /\ tail.pooled[i].key \notin Waiting
          /\ night.pc = "draft" /\ tail.pooled[i].key = Group => tail.pooled[i].found \intersect night.group = {}
    /\ tail.kept => \A q \in Qualifieds :
          \/ night.pc \in {"groups", "draft"} /\ Key(q) \in Waiting
          \/ night.pc = "draft" /\ Key(q) = Group /\ q.finding \in night.group
          \/ IsPooled(q) \/ Key(q) \in tail.minted
-----------------------------------------------------------------------------
(* What the finish's check has seen of a layer. *)
Agreed(i) ==
    /\ said.layer[i].read # Nothing => said.layer[i].read.head = GradedHead(i)
    /\ i + 1 \in Layers /\ rows.layers[i + 1].gen = 1 => rows.layers[i + 1].pushed \ {Own(i + 1)} = GradedHead(i)

Finishing ==
    /\ tail.pushed => night.pc \in {"open", "link", "done"}
    /\ night.pc \in {"check", "push", "open", "link"} \/ tail.pushed => tail.atop = GradedHead(Top)
    /\ night.pc = "check" => \A i \in Layers : i < At => Agreed(i)
    /\ night.pc \in {"push", "open", "link"} \/ tail.pushed => \A i \in Layers : Agreed(i)

Inv == Typed /\ History /\ Resolutions /\ Readings /\ Deciding /\ Accounts /\ Finishing
-----------------------------------------------------------------------------
(* Types. *)

LEMMA CaseIs ==
    ASSUME NEW c \in Cases
    PROVE  /\ c.size \in Nat \ {0} /\ c.reserve \in Nat /\ c.sessions \in Nat
           /\ c.base \in BOOLEAN /\ c.faults \in BOOLEAN /\ IsFiniteSet(c.finds)
  BY EndReviewAssumption

LEMMA TypedAtFirst == Init => Typed
<1> SUFFICES ASSUME Init PROVE Typed
  OBVIOUS
<1>1. case \in Cases /\ case.size \in Nat \ {0} /\ case.reserve \in Nat /\ case.sessions \in Nat
      /\ case.base \in BOOLEAN
  BY CaseIs DEF Init
<1>2. Main(0) \in Change /\ Own(0) \in Change
  BY DEF Main, Own, Change
<1>3. 0 \in Branches
  BY <1>1 DEF Branches
<1>4. RemoteType
  BY <1>2 DEF Init, RemoteType, Commit, Gone
<1>5. RowsType
  BY DEF Init, RowsType
<1>6. NightType
  <2>1. Nothing \in Span /\ Gone \in Commit
    BY DEF Nothing, Span, Commit, Gone
  <2>2. <<>> \in Seq(KeySet)
    OBVIOUS
  <2> QED
    BY <1>1, <2>1, <2>2 DEF Init, NightType, Phases
<1>7. SaidType
  BY DEF Init, SaidType, Span, Commit, Nothing
<1>8. TailType
  <2>1. <<>> \in Seq([key : KeySet, found : SUBSET case.finds])
    OBVIOUS
  <2> QED
    BY <2>1 DEF Init, TailType, Commit
<1>9. Control
  BY <1>1 DEF Init, Control, Top, Layers, Before1, Joining, Walking
<1> QED
  BY <1>4, <1>5, <1>6, <1>7, <1>8, <1>9 DEF Typed
(* What the typed state gives the provers over and over. *)
LEMMA Basics ==
    ASSUME Typed
    PROVE  /\ case \in Cases /\ case.size \in Nat \ {0} /\ case.base \in BOOLEAN /\ case.faults \in BOOLEAN
           /\ Branches = 0 .. case.size + 1 /\ Top \in Nat /\ Layers = 1 .. Top /\ Layers \subseteq Branches
           /\ remote.main \in Commit /\ remote.moves \in Nat
           /\ remote.head \in [Branches -> Commit]
           /\ rows.layers \in Seq([pushed : Commit, over : Int, gen : {0, 1}, overHead : Commit])
           /\ \A i \in Layers : rows.layers[i] \in [pushed : Commit, over : Int, gen : {0, 1}, overHead : Commit]
           /\ night.at \in Int /\ night.pc \in Phases /\ night.main \in Commit
           /\ night.fetched \in [Branches -> Commit] /\ night.fields \in [Branches -> Span]
<1>1. case \in Cases /\ Top <= case.size + 1
  BY DEF Typed, Control
<1>2. case.size \in Nat \ {0} /\ case.base \in BOOLEAN /\ case.faults \in BOOLEAN
  BY <1>1, CaseIs
<1>3. rows.layers \in Seq([pushed : Commit, over : Int, gen : {0, 1}, overHead : Commit])
  BY DEF Typed, RowsType
<1>4. Top \in Nat /\ Layers = 1 .. Top
  BY <1>3 DEF Top, Layers
<1>5. Layers \subseteq Branches
  BY <1>1, <1>2, <1>4 DEF Branches
<1>6. ASSUME NEW i \in Layers
      PROVE  rows.layers[i] \in [pushed : Commit, over : Int, gen : {0, 1}, overHead : Commit]
  <2>1. i \in 1 .. Len(rows.layers)
    BY <1>4 DEF Top
  <2> QED
    BY <1>3, <2>1, ElementOfSeq
<1>7. night.at \in Int /\ night.pc \in Phases /\ night.main \in Commit
      /\ night.fetched \in [Branches -> Commit] /\ night.fields \in [Branches -> Span]
  BY DEF Typed, NightType
<1> QED
  BY <1>1, <1>2, <1>3, <1>4, <1>5, <1>6, <1>7 DEF Typed, RemoteType, Branches

LEMMA ChangesAre ==
    ASSUME NEW j \in Int
    PROVE  /\ Main(j) \in Change /\ Own(j) \in Change /\ Redo(j) \in Change /\ Push(j) \in Change
           /\ {Main(j)} \in Commit
  BY DEF Main, Own, Redo, Push, Change, Commit

LEMMA CommitsAre ==
    /\ Gone \in Commit /\ Nothing \in Span
    /\ \A s, t \in Commit : s \union t \in Commit /\ s \intersect t \in Commit /\ s \ t \in Commit
    /\ \A s \in Commit : \A c \in Change : s \union {c} \in Commit /\ s \ {c} \in Commit
  BY DEF Gone, Nothing, Span, Commit

(* Others' moves touch the branches' heads and nothing else. *)
LEMMA OutsideIs ==
    ASSUME Typed, Outside
    PROVE  RemoteType' /\ UNCHANGED <<case, rows, night, said, tail>>
<1>1. /\ remote \in [main : Commit, moves : Nat, head : [Branches -> Commit]]
      /\ remote.head \in [Branches -> Commit] /\ remote.main \in Commit /\ remote.moves \in Nat
      /\ Branches \subseteq Int /\ \A b \in Branches : b > 0 => b - 1 \in Branches
  BY Basics DEF Typed, RemoteType
<1>2. UNCHANGED <<case, rows, night, said, tail>>
  BY DEF Outside, MainMoves, Pushes, Redoes, Restacks, CatchesUp, Merges, Deletes, Moves
<1>3. ASSUME NEW b \in Branches, NEW h \in Commit, MovesHead(b, h)
      PROVE  remote' \in [main : Commit, moves : Nat, head : [Branches -> Commit]]
  <2>1. remote = [main |-> remote.main, moves |-> remote.moves, head |-> remote.head]
    BY <1>1
  <2>2. remote' = [main |-> remote.main, moves |-> remote.moves + 1, head |-> [remote.head EXCEPT ![b] = h]]
    BY <1>3, <2>1 DEF MovesHead
  <2>3. [remote.head EXCEPT ![b] = h] \in [Branches -> Commit]
    BY <1>1
  <2> QED
    BY <1>1, <2>2, <2>3
<1>4. ASSUME NEW main \in Commit, remote' = [remote EXCEPT !.main = main, !.moves = @ + 1]
      PROVE  remote' \in [main : Commit, moves : Nat, head : [Branches -> Commit]]
  <2>1. remote = [main |-> remote.main, moves |-> remote.moves, head |-> remote.head]
    BY <1>1
  <2>2. remote' = [main |-> main, moves |-> remote.moves + 1, head |-> remote.head]
    BY <1>4, <2>1
  <2> QED
    BY <1>1, <2>2
<1>5. ASSUME MainMoves
      PROVE  remote' \in [main : Commit, moves : Nat, head : [Branches -> Commit]]
  <2>1. remote.main \union {Main(1)} \in Commit
    <3>1. Main(1) \in Change
      BY DEF Main, Change
    <3> QED
      BY <1>1, <3>1, CommitsAre
  <2> QED
    BY <1>4, <1>5, <2>1 DEF MainMoves
<1>6. ASSUME NEW b \in Branches, Pushes(b) \/ Redoes(b) \/ Restacks(b) \/ CatchesUp(b) \/ Merges(b) \/ Deletes(b)
      PROVE  remote' \in [main : Commit, moves : Nat, head : [Branches -> Commit]]
  <2>1. b \in Int /\ remote.head[b] \in Commit /\ remote.head[b] \union remote.main \in Commit
        /\ remote.main \union remote.head[b] \in Commit
    BY <1>1, CommitsAre
  <2>2. Own(b) \in Change /\ Redo(b) \in Change /\ Push(b) \in Change
    BY <2>1, ChangesAre
  <2>3. CASE Pushes(b)
    <3>1. remote.head[b] \union {Push(b)} \in Commit
      BY <2>1, <2>2, CommitsAre
    <3> QED
      BY <1>3, <2>3, <3>1 DEF Pushes
  <2>4. CASE Redoes(b)
    <3>1. (remote.head[b] \ {Own(b)}) \union {Redo(b)} \in Commit
      BY <2>1, <2>2, CommitsAre
    <3> QED
      BY <1>3, <2>4, <3>1 DEF Redoes
  <2>5. CASE Restacks(b)
    <3>1. b - 1 \in Branches
      BY <1>1, <2>5 DEF Restacks
    <3>2. remote.head[b] \union remote.head[b - 1] \in Commit
      BY <1>1, <2>1, <3>1, CommitsAre
    <3> QED
      BY <1>3, <2>5, <3>2 DEF Restacks
  <2>6. CASE CatchesUp(b)
    BY <1>3, <2>1, <2>6 DEF CatchesUp
  <2>7. CASE Merges(b)
    BY <1>4, <2>1, <2>7 DEF Merges
  <2>8. CASE Deletes(b)
    BY <1>3, <2>8, CommitsAre DEF Deletes
  <2> QED
    BY <1>6, <2>3, <2>4, <2>5, <2>6, <2>7, <2>8
<1>7. remote' \in [main : Commit, moves : Nat, head : [Branches -> Commit]]
  BY <1>5, <1>6 DEF Outside
<1> QED
  BY <1>2, <1>7 DEF RemoteType, Branches
(* A step of the review: what it leaves of the process, the tail of which  *)
(* it does not touch.                                                      *)
Reviewed(pc, at, left, fetched, main, fields) ==
    [night EXCEPT !.pc = pc, !.at = at, !.left = left, !.fetched = fetched, !.main = main, !.fields = fields]

LEMMA ReviewedTypes ==
    ASSUME Typed, UNCHANGED case, NEW p \in Phases, NEW a \in Int, NEW l \in Int, NEW h \in [Branches -> Commit],
           NEW m \in Commit, NEW f \in [Branches -> Span], night' = Reviewed(p, a, l, h, m, f)
    PROVE  NightType'
<1>1. Branches' = Branches /\ KeySet' = KeySet /\ case' = case
  BY DEF Branches, KeySet, Files
<1> QED
  BY <1>1 DEF Typed, NightType, Reviewed

Says1(join, layer) == [said EXCEPT !.join = join, !.layer = layer]

LEMMA SaysBoth ==
    ASSUME Typed,
           NEW j \in [ran : BOOLEAN, base : Commit, head : Commit, found : SUBSET case.finds],
           NEW l \in [Branches -> [read : Span, found : SUBSET case.finds]]
    PROVE  Says1(j, l) = [join |-> j, layer |-> l]
<1> DEFINE s == Says1(j, l)
<1>1. /\ s \in [join : [ran : BOOLEAN, base : Commit, head : Commit, found : SUBSET case.finds],
                layer : [Branches -> [read : Span, found : SUBSET case.finds]]]
      /\ s.join = j /\ s.layer = l
  BY DEF Typed, SaidType, Says1
<1> HIDE DEF s
<1>2. s = [join |-> s.join, layer |-> s.layer]
  BY <1>1
<1>3. s = [join |-> j, layer |-> l]
  BY <1>1, <1>2
<1> QED
  BY <1>3 DEF s

LEMMA SaidTypes ==
    ASSUME Typed, UNCHANGED case,
           NEW j \in [ran : BOOLEAN, base : Commit, head : Commit, found : SUBSET case.finds],
           NEW l \in [Branches -> [read : Span, found : SUBSET case.finds]],
           said' = Says1(j, l)
    PROVE  SaidType'
  BY DEF Typed, SaidType, Branches, Says1

-----------------------------------------------------------------------------
(* What each step of the review does. *)

LEMMA StartsReviewIs ==
    ASSUME Typed, NEW l \in Int
    PROVE  \/ l > 1 /\ StartsReview(l) = Reviewed("join", 1, night.left, night.fetched, night.main, night.fields)
           \/ StartsReview(l) = Reviewed("layer", l, night.left, night.fetched, night.main, night.fields)
  BY DEF Typed, NightType, StartsReview, Reviewed

LEMMA FetchesAre ==
    ASSUME Typed, NEW b \in Branches, NEW h \in Fetches(b)
    PROVE  /\ h \in Commit
           /\ h = Gone \/ h = IF night.fetched[b] # Gone THEN night.fetched[b] ELSE remote.head[b]
           /\ night.fetched[b] # Gone => h = night.fetched[b]
           /\ ~case.faults /\ h = Gone => remote.head[b] = Gone
  BY Basics, CommitsAre DEF Fetches

LEMMA MainFetchesAre ==
    ASSUME Typed, NEW h \in MainFetches
    PROVE  /\ h \in Commit
           /\ h = Gone \/ h = IF night.main # Gone THEN night.main ELSE remote.main
           /\ night.main # Gone => h = night.main
  BY Basics, CommitsAre DEF MainFetches

LEMMA JoinFailsIs ==
    ASSUME Typed, JoinFails
    PROVE  /\ night' = Reviewed("layer", Top, night.left, night.fetched, night.main, night.fields)
           /\ said' = Says1([said.join EXCEPT !.ran = TRUE], said.layer)
<1>1. [night EXCEPT !.pc = "layer", !.at = Top]
         = Reviewed("layer", Top, night.left, night.fetched, night.main, night.fields)
  BY DEF Typed, NightType, Reviewed
<1>2. [said EXCEPT !.join.ran = TRUE] = Says1([said.join EXCEPT !.ran = TRUE], said.layer)
  BY DEF Typed, SaidType, Says1
<1> QED
  BY <1>1, <1>2 DEF JoinFails, AfterJoin

LEMMA JoinFetchIs ==
    ASSUME Typed, JoinFetch
    PROVE  /\ night.pc = "join" /\ UNCHANGED <<case, remote, rows, tail>>
           /\ \E head \in Fetches(At) :
                 \/ /\ night' = Reviewed("layer", Top, night.left, night.fetched, night.main, night.fields)
                    /\ said' = Says1([said.join EXCEPT !.ran = TRUE], said.layer)
                 \/ /\ head # Gone /\ said' = said
                    /\ night' = Reviewed("joinUnder", At, night.left, [night.fetched EXCEPT ![At] = head],
                                         night.main, night.fields)
<1>1. night.pc = "join" /\ UNCHANGED <<case, remote, rows, tail>>
  BY DEF JoinFetch
<1>2. PICK head \in Fetches(At) :
         IF head = Gone THEN JoinFails
         ELSE night' = [night EXCEPT !.fetched[At] = head, !.pc = "joinUnder"] /\ UNCHANGED said
  BY DEF JoinFetch
<1>3. CASE head = Gone
  BY <1>1, <1>2, <1>3, JoinFailsIs
<1>4. CASE head # Gone
  <2>1. [night EXCEPT !.fetched[At] = head, !.pc = "joinUnder"]
           = Reviewed("joinUnder", At, night.left, [night.fetched EXCEPT ![At] = head], night.main, night.fields)
    BY DEF Typed, NightType, Reviewed, At
  <2> QED
    BY <1>1, <1>2, <1>4, <2>1
<1> QED
  BY <1>3, <1>4

(* What is kept of a range's fetch. *)
FetchedUnder(l, under, h, m) ==
    /\ rows.layers[l].over = -1 => h = night.fetched /\ m = under /\ under \in MainFetches
    /\ rows.layers[l].over # -1 => /\ h = [night.fetched EXCEPT ![l - 1] = under] /\ m = night.main
                                  /\ l - 1 \in Branches /\ under \in Fetches(l - 1)

LEMMA KeptIs ==
    ASSUME Typed, NEW l \in Layers, NEW under \in Under(l)
    PROVE  \E h \in [Branches -> Commit], m \in Commit :
              /\ Kept(l, under) = Reviewed(night.pc, night.at, night.left, h, m, night.fields)
              /\ FetchedUnder(l, under, h, m)
<1>1. CASE rows.layers[l].over = -1
  <2>1. under \in MainFetches /\ under \in Commit
    BY <1>1, MainFetchesAre DEF Under
  <2>2. Kept(l, under) = Reviewed(night.pc, night.at, night.left, night.fetched, under, night.fields)
    BY <1>1 DEF Typed, NightType, Kept, Reviewed
  <2> QED
    BY <1>1, <2>1, <2>2, Basics DEF FetchedUnder
<1>2. CASE rows.layers[l].over # -1
  <2>1. l - 1 \in Branches
    BY Basics
  <2>2. under \in Fetches(l - 1) /\ under \in Commit
    BY <1>2, <2>1, FetchesAre DEF Under
  <2>3. [night.fetched EXCEPT ![l - 1] = under] \in [Branches -> Commit]
    BY <2>2, Basics
  <2>4. Kept(l, under) = Reviewed(night.pc, night.at, night.left, [night.fetched EXCEPT ![l - 1] = under],
                                  night.main, night.fields)
    BY <1>2 DEF Typed, NightType, Kept, Reviewed
  <2> QED
    BY <1>2, <2>1, <2>2, <2>3, <2>4, Basics DEF FetchedUnder
<1> QED
  BY <1>1, <1>2
LEMMA MinOfTwo ==
    ASSUME NEW S, S \subseteq {1, 2}, S # {}
    PROVE  Min(S) \in S
<1>1. \E x \in S : \A y \in S : x <= y
  <2>1. CASE 1 \in S
    BY <2>1
  <2>2. CASE 1 \notin S
    <3>1. S = {2}
      BY <2>2
    <3> QED
      BY <3>1
  <2> QED
    BY <2>1, <2>2
<1> QED
  BY <1>1 DEF Min

LEMMA UnderIs ==
    ASSUME Typed, NEW l \in Layers, NEW under \in Under(l)
    PROVE  under \in Commit
<1>1. l - 1 \in Branches
  BY Basics
<1> QED
  BY <1>1, FetchesAre, MainFetchesAre DEF Under

LEMMA BaseIs ==
    ASSUME Typed, NEW l \in Layers, NEW under \in Commit, Resolves(l, under) # {}
    PROVE  /\ Base(l, under) \in Commit /\ Base(l, under) \subseteq night.fetched[l]
           /\ \/ Base(l, under) = OwnParent(l)
              \/ /\ rows.layers[l].over = -1 /\ under # Gone
                 /\ Base(l, under) = night.fetched[l] \intersect under
                 /\ OwnParent(l) \subseteq Base(l, under) /\ ~(rows.layers[l].pushed \subseteq Base(l, under))
              \/ /\ rows.layers[l].over # -1
                 /\ \/ Base(l, under) = rows.layers[l].overHead
                    \/ under # Gone /\ Base(l, under) = under
           /\ rows.layers[l].over = -1 => under # Gone
<1> DEFINE head == night.fetched[l]
           cands == LayerCandidates(l, head, under)
<1>1. head \in Commit /\ rows.layers[l].pushed \in Commit /\ rows.layers[l].overHead \in Commit
      /\ Own(l) \in Change
  <2>1. l \in Int /\ l \in Branches
    BY Basics
  <2>2. Own(l) \in Change
    BY <2>1, ChangesAre
  <2>3. rows.layers[l] \in [pushed : Commit, over : Int, gen : {0, 1}, overHead : Commit]
    BY Basics
  <2>4. head \in Commit
    BY <2>1, Basics
  <2> QED
    BY <2>2, <2>3, <2>4
<1>2. OwnParent(l) \in Commit /\ head \intersect under \in Commit
  BY <1>1, CommitsAre DEF OwnParent
<1>3. ~(rows.layers[l].over = -1 /\ under = Gone) /\ Resolves(l, under) = Contained(cands, head)
  BY DEF Resolves
<1>4. CASE rows.layers[l].over = -1
  <2>1. \/ cands = <<OwnParent(l)>>
        \/ /\ cands = <<head \intersect under>> /\ OwnParent(l) \subseteq head \intersect under
           /\ ~(rows.layers[l].pushed \subseteq head \intersect under)
    BY <1>4 DEF LayerCandidates
  <2>2. Contained(cands, head) \subseteq {1}
    BY <2>1 DEF Contained
  <2>3. Min(Resolves(l, under)) = 1 /\ cands[1] \subseteq head
    <3>1. Resolves(l, under) = {1} /\ cands[1] \subseteq head
      BY <1>3, <2>2 DEF Contained
    <3> QED
      BY <3>1, MinOfTwo
  <2>4. Base(l, under) = cands[1]
    BY <2>3 DEF Base
  <2> QED
    BY <1>2, <1>3, <1>4, <2>1, <2>3, <2>4
<1>5. CASE rows.layers[l].over # -1
  <2>1. cands = <<IF under # Gone THEN under ELSE OwnParent(l), rows.layers[l].overHead>>
    BY <1>5 DEF LayerCandidates
  <2>2. Contained(cands, head) \subseteq {1, 2}
    BY <2>1 DEF Contained
  <2>3. Min(Resolves(l, under)) \in Contained(cands, head)
    BY <1>3, <2>2, MinOfTwo
  <2>4. PICK i \in {1, 2} : Base(l, under) = cands[i] /\ cands[i] \subseteq head
    BY <2>2, <2>3 DEF Base, Contained
  <2> QED
    BY <1>1, <1>2, <1>5, <2>1, <2>4
<1> QED
  BY <1>4, <1>5

(* A layer is resolved: its range is kept. *)
LEMMA ResolvedIs ==
    ASSUME Typed, NEW l \in Layers, NEW under \in Under(l), Resolves(l, under) # {}
    PROVE  \E h \in [Branches -> Commit], m \in Commit :
              /\ Resolved(l, under) = Reviewed(night.pc, night.at, night.left, h, m,
                     [night.fields EXCEPT ![l] = [base |-> Base(l, under), head |-> night.fetched[l]]])
              /\ FetchedUnder(l, under, h, m)
<1>1. PICK h \in [Branches -> Commit], m \in Commit :
              /\ Kept(l, under) = Reviewed(night.pc, night.at, night.left, h, m, night.fields)
              /\ FetchedUnder(l, under, h, m)
  BY KeptIs
<1> DEFINE r == [base |-> Base(l, under), head |-> night.fetched[l]]
<1>2. Resolved(l, under) = [Kept(l, under) EXCEPT !.fields[l] = r]
  BY DEF Resolved
<1> HIDE DEF r
<1>3. Resolved(l, under) = Reviewed(night.pc, night.at, night.left, h, m, [night.fields EXCEPT ![l] = r])
  BY <1>1, <1>2 DEF Typed, NightType, Reviewed
<1> QED
  BY <1>1, <1>3 DEF r
(* What has been fetched stays as it is. *)
LEMMA CachesStay ==
    ASSUME Typed, NEW l \in Layers, NEW under, NEW h, NEW m, FetchedUnder(l, under, h, m)
    PROVE  /\ \A b \in Branches : night.fetched[b] # Gone => h[b] = night.fetched[b]
           /\ night.main # Gone => m = night.main
           /\ \A b \in Branches : h[b] = night.fetched[b] \/ h[b] = Gone \/ h[b] = remote.head[b]
           /\ m = night.main \/ m = Gone \/ m = remote.main
<1>1. CASE rows.layers[l].over = -1
  BY <1>1, MainFetchesAre DEF FetchedUnder
<1>2. CASE rows.layers[l].over # -1
  <2>1. /\ h = [night.fetched EXCEPT ![l - 1] = under] /\ m = night.main
        /\ l - 1 \in Branches /\ under \in Fetches(l - 1)
    BY <1>2 DEF FetchedUnder
  <2>2. /\ under = Gone \/ under = IF night.fetched[l - 1] # Gone THEN night.fetched[l - 1] ELSE remote.head[l - 1]
        /\ night.fetched[l - 1] # Gone => under = night.fetched[l - 1]
    BY <2>1, FetchesAre
  <2>3. night.fetched \in [Branches -> Commit]
    BY Basics
  <2> QED
    BY <2>1, <2>2, <2>3
<1> QED
  BY <1>1, <1>2

(* What a layer is read over is fetched and kept, and its range with it,   *)
(* if there is one.                                                        *)
UnderStep(l, found, fields) ==
    \E under \in Under(l), h \in [Branches -> Commit], m \in Commit :
        /\ FetchedUnder(l, under, h, m)
        /\ found <=> Resolves(l, under) # {}
        /\ fields = IF found THEN [night.fields EXCEPT ![l] = [base |-> Base(l, under), head |-> night.fetched[l]]]
                    ELSE night.fields
        /\ night' = Reviewed(night'.pc, night'.at, night.left, h, m, fields)

LEMMA RangeIsSpan ==
    ASSUME Typed, NEW l \in Layers, NEW under \in Under(l), Resolves(l, under) # {}
    PROVE  [night.fields EXCEPT ![l] = [base |-> Base(l, under), head |-> night.fetched[l]]] \in [Branches -> Span]
<1>1. [base |-> Base(l, under), head |-> night.fetched[l]] \in Span
  <2>1. Base(l, under) \in Commit /\ l \in Branches
    BY UnderIs, BaseIs, Basics
  <2> QED
    BY <2>1, Basics DEF Span
<1> QED
  BY <1>1, Basics

LEMMA JoinUnderIs ==
    ASSUME Typed, JoinUnder
    PROVE  /\ night.pc = "joinUnder" /\ At \in Layers /\ UNCHANGED <<case, remote, rows, tail>>
           /\ \E found \in BOOLEAN, fields \in [Branches -> Span] :
                 /\ UnderStep(At, found, fields)
                 /\ ~found => night'.pc = "layer" /\ night'.at = Top /\ said' = Says1([said.join EXCEPT !.ran = TRUE], said.layer)
                 /\ found => /\ night'.pc = IF At < Top THEN "join" ELSE "joinRead"
                             /\ night'.at = IF At < Top THEN At + 1 ELSE At
                             /\ said' = said
<1>1. night.pc = "joinUnder" /\ UNCHANGED <<case, remote, rows, tail>>
  BY DEF JoinUnder
<1>2. At \in Layers
  BY <1>1, Basics DEF Typed, Control, At, Joining
<1>3. PICK under \in Under(At) :
         IF Resolves(At, under) = {}
         THEN /\ night' = [Kept(At, under) EXCEPT !.pc = "layer", !.at = Top]
              /\ said' = [said EXCEPT !.join.ran = TRUE]
         ELSE /\ night' = [Resolved(At, under) EXCEPT !.pc = IF At < Top THEN "join" ELSE "joinRead",
                                                      !.at = IF At < Top THEN At + 1 ELSE At]
              /\ UNCHANGED said
  BY DEF JoinUnder
<1>4. CASE Resolves(At, under) = {}
  <2>1. PICK h \in [Branches -> Commit], m \in Commit :
           /\ Kept(At, under) = Reviewed(night.pc, night.at, night.left, h, m, night.fields)
           /\ FetchedUnder(At, under, h, m)
    BY <1>2, KeptIs
  <2>2. night' = Reviewed("layer", Top, night.left, h, m, night.fields)
    BY ZenonT(60), <1>3, <1>4, <2>1 DEF Typed, NightType, Reviewed
  <2>3. night'.pc = "layer" /\ night'.at = Top
    BY <2>2 DEF Typed, NightType, Reviewed
  <2>4. said' = Says1([said.join EXCEPT !.ran = TRUE], said.layer)
    BY <1>3, <1>4 DEF Typed, SaidType, Says1
  <2>5. UnderStep(At, FALSE, night.fields)
    BY <1>4, <2>1, <2>2, <2>3 DEF UnderStep
  <2> QED
    BY <1>1, <1>2, <2>3, <2>4, <2>5, Basics
<1>5. CASE Resolves(At, under) # {}
  <2> DEFINE p == IF At < Top THEN "join" ELSE "joinRead"
             a == IF At < Top THEN At + 1 ELSE At
             r == [base |-> Base(At, under), head |-> night.fetched[At]]
  <2>1. PICK h \in [Branches -> Commit], m \in Commit :
           /\ Resolved(At, under) = Reviewed(night.pc, night.at, night.left, h, m, [night.fields EXCEPT ![At] = r])
           /\ FetchedUnder(At, under, h, m)
    BY <1>2, <1>5, ResolvedIs
  <2>2. night' = [Resolved(At, under) EXCEPT !.pc = p, !.at = a] /\ said' = said
    BY <1>3, <1>5
  <2> HIDE DEF r, p, a
  <2>3. night' = Reviewed(p, a, night.left, h, m, [night.fields EXCEPT ![At] = r])
    BY <2>1, <2>2 DEF Typed, NightType, Reviewed
  <2>4. night'.pc = p /\ night'.at = a
    BY <2>3 DEF Typed, NightType, Reviewed
  <2>5. UnderStep(At, TRUE, [night.fields EXCEPT ![At] = r])
    BY <1>5, <2>1, <2>3, <2>4 DEF UnderStep, r
  <2>6. [night.fields EXCEPT ![At] = r] \in [Branches -> Span]
    BY <1>2, <1>5, RangeIsSpan DEF r
  <2> QED
    BY <1>1, <1>2, <2>2, <2>4, <2>5, <2>6 DEF p, a
<1> QED
  BY <1>4, <1>5

LEMMA BelowIs ==
    ASSUME Typed
    PROVE  Below = Reviewed(IF At > 1 THEN "layer" ELSE "qualify", IF At > 1 THEN At - 1 ELSE At, night.left,
                            night.fetched, night.main, night.fields)
  BY DEF Typed, NightType, Reviewed, Below, At

LEMMA LayerUnderIs ==
    ASSUME Typed, LayerUnder
    PROVE  /\ night.pc = "layerUnder" /\ At \in Layers /\ UNCHANGED <<case, remote, rows, said, tail>>
           /\ \E found \in BOOLEAN, fields \in [Branches -> Span] :
                 /\ UnderStep(At, found, fields)
                 /\ ~found => /\ night'.pc = IF At > 1 THEN "layer" ELSE "qualify"
                              /\ night'.at = IF At > 1 THEN At - 1 ELSE At
                 /\ found => night'.pc = "layerRead" /\ night'.at = At
<1>1. night.pc = "layerUnder" /\ UNCHANGED <<case, remote, rows, said, tail>>
  BY DEF LayerUnder
<1>2. At \in Layers
  BY <1>1, Basics DEF Typed, Control, At, Walking
<1>3. PICK under \in Under(At) :
         night' = IF Resolves(At, under) # {} THEN [Resolved(At, under) EXCEPT !.pc = "layerRead"]
                  ELSE LET kept == Kept(At, under)
                       IN  [Below EXCEPT !.fetched = kept.fetched, !.main = kept.main]
  BY DEF LayerUnder
<1>4. CASE Resolves(At, under) = {}
  <2> DEFINE p == IF At > 1 THEN "layer" ELSE "qualify"
             a == IF At > 1 THEN At - 1 ELSE At
  <2>1. PICK h \in [Branches -> Commit], m \in Commit :
           /\ Kept(At, under) = Reviewed(night.pc, night.at, night.left, h, m, night.fields)
           /\ FetchedUnder(At, under, h, m)
    BY <1>2, KeptIs
  <2>2. Kept(At, under).fetched = h /\ Kept(At, under).main = m
    BY <2>1 DEF Typed, NightType, Reviewed
  <2>3. night' = [Below EXCEPT !.fetched = h, !.main = m]
    BY <1>3, <1>4, <2>2
  <2>4. Below = Reviewed(p, a, night.left, night.fetched, night.main, night.fields)
    BY BelowIs
  <2> HIDE DEF p, a
  <2>5. night' = Reviewed(p, a, night.left, h, m, night.fields)
    BY <2>3, <2>4 DEF Typed, NightType, Reviewed
  <2>6. night'.pc = p /\ night'.at = a
    BY <2>5 DEF Typed, NightType, Reviewed
  <2>7. UnderStep(At, FALSE, night.fields)
    BY <1>4, <2>1, <2>5, <2>6 DEF UnderStep
  <2> QED
    BY <1>1, <1>2, <2>6, <2>7, Basics DEF p, a
<1>5. CASE Resolves(At, under) # {}
  <2> DEFINE r == [base |-> Base(At, under), head |-> night.fetched[At]]
  <2>1. PICK h \in [Branches -> Commit], m \in Commit :
           /\ Resolved(At, under) = Reviewed(night.pc, night.at, night.left, h, m, [night.fields EXCEPT ![At] = r])
           /\ FetchedUnder(At, under, h, m)
    BY <1>2, <1>5, ResolvedIs
  <2>2. night' = [Resolved(At, under) EXCEPT !.pc = "layerRead"]
    BY <1>3, <1>5
  <2> HIDE DEF r
  <2>3. night' = Reviewed("layerRead", At, night.left, h, m, [night.fields EXCEPT ![At] = r])
    BY <2>1, <2>2 DEF Typed, NightType, Reviewed, At
  <2>4. night'.pc = "layerRead" /\ night'.at = At
    BY <2>3 DEF Typed, NightType, Reviewed
  <2>5. UnderStep(At, TRUE, [night.fields EXCEPT ![At] = r])
    BY <1>5, <2>1, <2>3, <2>4 DEF UnderStep, r
  <2>6. [night.fields EXCEPT ![At] = r] \in [Branches -> Span]
    BY <1>2, <1>5, RangeIsSpan DEF r
  <2> QED
    BY <1>1, <1>2, <2>4, <2>5, <2>6
<1> QED
  BY <1>4, <1>5
LEMMA JoinReadIs ==
    ASSUME Typed, JoinRead
    PROVE  /\ night.pc = "joinRead" /\ UNCHANGED <<case, remote, rows, tail>>
           /\ night' = Reviewed("layer", Top, night.left - 1, night.fetched, night.main, night.fields)
           /\ \E found \in SUBSET case.finds :
                 /\ \A f \in found : f.lens = "join" /\ Shows(JoinRange, f)
                 /\ said' = Says1([ran |-> TRUE, base |-> JoinRange.base, head |-> JoinRange.head, found |-> found],
                                  said.layer)
<1>1. night.pc = "joinRead" /\ UNCHANGED <<case, remote, rows, tail>>
  BY DEF JoinRead
<1>2. night' = Reviewed("layer", Top, night.left - 1, night.fetched, night.main, night.fields)
  BY DEF JoinRead, AfterJoin, Typed, NightType, Reviewed
<1> DEFINE F == {f \in case.finds : f.lens = "join" /\ Shows(JoinRange, f)}
<1>3. PICK errs \in BOOLEAN :
         said' = [said EXCEPT !.join = [ran |-> TRUE, base |-> JoinRange.base, head |-> JoinRange.head,
                                        found |-> IF errs THEN {} ELSE F]]
  BY DEF JoinRead
<1> DEFINE found == IF errs THEN {} ELSE F
<1>4. found \in SUBSET case.finds /\ \A f \in found : f.lens = "join" /\ Shows(JoinRange, f)
  OBVIOUS
<1> HIDE DEF found, F
<1>5. said' = Says1([ran |-> TRUE, base |-> JoinRange.base, head |-> JoinRange.head, found |-> found], said.layer)
  BY <1>3 DEF Typed, SaidType, Says1, found
<1> QED
  BY <1>1, <1>2, <1>4, <1>5

LEMMA JoinRaisesIs ==
    ASSUME Typed, JoinRaises
    PROVE  /\ night.pc = "joinRead" /\ UNCHANGED <<case, remote, rows, tail>>
           /\ night' = Reviewed("layer", Top, night.left, night.fetched, night.main, night.fields)
           /\ said' = Says1([said.join EXCEPT !.ran = TRUE], said.layer)
  BY JoinFailsIs DEF JoinRaises

LEMMA NotReachedIs ==
    ASSUME Typed, NotReached
    PROVE  /\ night.pc = "layer" /\ UNCHANGED <<case, remote, rows, said, tail>>
           /\ night' = Reviewed("qualify", At, night.left, night.fetched, night.main, night.fields)
  BY DEF NotReached, Typed, NightType, Reviewed, At

LEMMA LayerFetchIs ==
    ASSUME Typed, LayerFetch
    PROVE  /\ night.pc = "layer" /\ UNCHANGED <<case, remote, rows, said, tail>>
           /\ \/ night' = Reviewed(IF At > 1 THEN "layer" ELSE "qualify", IF At > 1 THEN At - 1 ELSE At, night.left,
                                   night.fetched, night.main, night.fields)
              \/ \E head \in Fetches(At) :
                    /\ head # Gone
                    /\ night' = Reviewed("layerUnder", At, night.left, [night.fetched EXCEPT ![At] = head],
                                         night.main, night.fields)
<1>1. night.pc = "layer" /\ UNCHANGED <<case, remote, rows, said, tail>>
  BY DEF LayerFetch
<1>2. PICK head \in Fetches(At) :
         night' = IF head = Gone THEN Below ELSE [night EXCEPT !.fetched[At] = head, !.pc = "layerUnder"]
  BY DEF LayerFetch
<1>3. CASE head = Gone
  BY <1>1, <1>2, <1>3, BelowIs
<1>4. CASE head # Gone
  <2>1. [night EXCEPT !.fetched[At] = head, !.pc = "layerUnder"]
           = Reviewed("layerUnder", At, night.left, [night.fetched EXCEPT ![At] = head], night.main, night.fields)
    BY DEF Typed, NightType, Reviewed, At
  <2> QED
    BY <1>1, <1>2, <1>4, <2>1
<1> QED
  BY <1>3, <1>4

LEMMA LayerReadIs ==
    ASSUME Typed, LayerRead
    PROVE  /\ night.pc = "layerRead" /\ UNCHANGED <<case, remote, rows, tail>>
           /\ night' = Reviewed(IF At > 1 THEN "layer" ELSE "qualify", IF At > 1 THEN At - 1 ELSE At,
                                night.left - LayerBudget, night.fetched, night.main, night.fields)
           /\ \E found \in SUBSET case.finds :
                 /\ \A f \in found : f.lens \in {"spec", "standards"} /\ f.layer = At /\ Shows(night.fields[At], f)
                 /\ said' = Says1(said.join, [said.layer EXCEPT ![At] = [read |-> night.fields[At], found |-> found]])
<1>1. night.pc = "layerRead" /\ UNCHANGED <<case, remote, rows, tail>>
  BY DEF LayerRead
<1>2. night' = Reviewed(IF At > 1 THEN "layer" ELSE "qualify", IF At > 1 THEN At - 1 ELSE At,
                        night.left - LayerBudget, night.fetched, night.main, night.fields)
  <2>1. night' = [Below EXCEPT !.left = @ - LayerBudget]
    BY DEF LayerRead
  <2>2. Below.left = night.left
    BY BelowIs DEF Typed, NightType, Reviewed
  <2>3. night' = [Below EXCEPT !.left = night.left - LayerBudget]
    BY <2>1, <2>2
  <2> DEFINE p == IF At > 1 THEN "layer" ELSE "qualify"
             a == IF At > 1 THEN At - 1 ELSE At
  <2>4. Below = Reviewed(p, a, night.left, night.fetched, night.main, night.fields)
    BY BelowIs
  <2> HIDE DEF p, a
  <2>5. night' = Reviewed(p, a, night.left - LayerBudget, night.fetched, night.main, night.fields)
    BY <2>3, <2>4 DEF Typed, NightType, Reviewed
  <2> QED
    BY <2>5 DEF p, a
<1>3. PICK clean \in SUBSET {"spec", "standards"} :
         said' = [said EXCEPT !.layer[At] =
             [read |-> night.fields[At],
              found |-> {f \in case.finds : f.lens \in clean /\ f.layer = At /\ Shows(night.fields[At], f)}]]
  BY DEF LayerRead
<1> DEFINE found == {f \in case.finds : f.lens \in clean /\ f.layer = At /\ Shows(night.fields[At], f)}
<1>4. found \in SUBSET case.finds
      /\ \A f \in found : f.lens \in {"spec", "standards"} /\ f.layer = At /\ Shows(night.fields[At], f)
  OBVIOUS
<1> HIDE DEF found
<1>5. said' = Says1(said.join, [said.layer EXCEPT ![At] = [read |-> night.fields[At], found |-> found]])
  BY <1>3 DEF Typed, SaidType, Says1, found
<1> QED
  BY <1>1, <1>2, <1>4, <1>5

LEMMA LayerRaisesIs ==
    ASSUME Typed, LayerRaises
    PROVE  /\ night.pc = "layerRead" /\ UNCHANGED <<case, remote, rows, said, tail>>
           /\ night' = Reviewed(IF At > 1 THEN "layer" ELSE "qualify", IF At > 1 THEN At - 1 ELSE At, night.left,
                                night.fetched, night.main, night.fields)
  BY BelowIs DEF LayerRaises
LEMMA EndReviewRaisesIs ==
    ASSUME Typed, EndReviewRaises
    PROVE  /\ night.pc \in Joining \union Walking /\ UNCHANGED <<case, remote, rows, tail>>
           /\ night' = [night EXCEPT !.pc = "qualify", !.raised = TRUE, !.fields = [b \in Branches |-> Nothing]]
           /\ said' = Says1([said.join EXCEPT !.ran = FALSE, !.found = {}],
                            [b \in Branches |-> [said.layer[b] EXCEPT !.found = {}]])
<1>1. night.pc \in Joining \union Walking /\ UNCHANGED <<case, remote, rows, tail>>
      /\ night' = [night EXCEPT !.pc = "qualify", !.raised = TRUE, !.fields = [b \in Branches |-> Nothing]]
  BY DEF EndReviewRaises, Reading, Joining, Walking
<1> DEFINE j == [said.join EXCEPT !.ran = FALSE, !.found = {}]
           l == [b \in Branches |-> [said.layer[b] EXCEPT !.found = {}]]
<1>2. said' = [join |-> j, layer |-> l]
  BY DEF EndReviewRaises
<1>3. /\ j \in [ran : BOOLEAN, base : Commit, head : Commit, found : SUBSET case.finds]
      /\ l \in [Branches -> [read : Span, found : SUBSET case.finds]]
  BY DEF Typed, SaidType
<1>4. said' = Says1(j, l)
  BY <1>2, <1>3, SaysBoth
<1> QED
  BY <1>1, <1>4

(* A layer is cut over its predecessor's branch. *)
LEMMA LayerIs ==
    ASSUME Typed, NEW g \in {0, 1}, Top + 1 \in Branches, Layer(Top + 1, g), UNCHANGED case
    PROVE  LET l == Top + 1
               under == IF Predecessor(l) = -1 THEN {Main(0)} ELSE remote.head[l - 1]
           IN  /\ under \in Commit /\ under # Gone
               /\ remote' = [remote EXCEPT !.head = [remote.head EXCEPT ![l] = under \union {Own(l)}]]
               /\ Top' = l /\ Layers' = 1 .. l
               /\ rows'.quals = rows.quals /\ RowsType' /\ RemoteType'
               /\ \A i \in Layers : rows'.layers[i] = rows.layers[i]
               /\ rows'.layers[l] = [pushed |-> under \union {Own(l)}, over |-> Predecessor(l), gen |-> g,
                       overHead |-> IF l > 1 THEN rows.layers[l - 1].pushed
                                    ELSE IF case.base THEN {Main(0), Own(0)} ELSE {}]
<1> DEFINE l == Top + 1
           under == IF Predecessor(l) = -1 THEN {Main(0)} ELSE remote.head[l - 1]
           row == [pushed |-> under \union {Own(l)}, over |-> Predecessor(l), gen |-> g,
                   overHead |-> IF l > 1 THEN rows.layers[l - 1].pushed
                                ELSE IF case.base THEN {Main(0), Own(0)} ELSE {}]
<1>1. Top \in Nat /\ l \in Nat \ {0} /\ Layers = 1 .. Top /\ l - 1 \in Branches
  BY Basics
<1>2. under # Gone /\ rows' = [rows EXCEPT !.layers = Append(rows.layers, row)]
      /\ remote' = [remote EXCEPT !.head[l] = under \union {Own(l)}]
  BY DEF Layer
<1>3. {Main(0)} \in Commit /\ {Main(0), Own(0)} \in Commit /\ {} \in Commit /\ Own(l) \in Change
  BY <1>1 DEF Main, Own, Change, Commit
<1>4. under \in Commit /\ under \union {Own(l)} \in Commit
  <2>1. remote.head[l - 1] \in Commit
    BY <1>1, Basics
  <2>2. under \in Commit
    BY <2>1, <1>3
  <2> QED
    BY <2>2, <1>3, CommitsAre
<1>5. row \in [pushed : Commit, over : Int, gen : {0, 1}, overHead : Commit]
  <2>1. Predecessor(l) \in Int
    BY <1>1 DEF Predecessor
  <2>2. l > 1 => rows.layers[l - 1].pushed \in Commit
    <3>1. l > 1 => l - 1 \in Layers
      BY <1>1
    <3> QED
      BY <3>1, Basics
  <2> QED
    BY <1>3, <1>4, <2>1, <2>2
<1> HIDE DEF row, under
<1>6. rows.layers \in Seq([pushed : Commit, over : Int, gen : {0, 1}, overHead : Commit])
  BY Basics
<1>7. rows'.layers = Append(rows.layers, row) /\ rows'.quals = rows.quals
      /\ rows' = [layers |-> rows'.layers, quals |-> rows'.quals]
  BY <1>2 DEF Typed, RowsType
<1>8. /\ rows'.layers \in Seq([pushed : Commit, over : Int, gen : {0, 1}, overHead : Commit])
      /\ Len(rows'.layers) = l /\ rows'.layers[l] = row
      /\ \A i \in 1 .. Top : rows'.layers[i] = rows.layers[i]
  BY <1>5, <1>6, <1>7 DEF Top
<1>9. Top' = l /\ Layers' = 1 .. l
  BY <1>8 DEF Top, Layers
<1>10. RowsType'
  BY <1>7, <1>8 DEF Typed, RowsType, Branches
<1>11. remote' = [remote EXCEPT !.head = [remote.head EXCEPT ![l] = under \union {Own(l)}]]
  BY <1>2 DEF Typed, RemoteType
<1>12. RemoteType'
  BY <1>4, <1>11 DEF Typed, RemoteType, Branches
<1> QED
  BY <1>1, <1>2, <1>4, <1>7, <1>8, <1>9, <1>10, <1>11, <1>12 DEF row, under

LEMMA BuildLayerIs ==
    ASSUME Typed, BuildLayer
    PROVE  /\ night.pc = "build" /\ At = Top + 1 /\ At \in Branches /\ At <= case.size
           /\ Layer(At, 0) /\ UNCHANGED <<case, said, tail>>
           /\ \E p \in {"build", "join", "layer"}, a \in Int :
                 /\ night' = Reviewed(p, a, night.left, night.fetched, night.main, night.fields)
                 /\ p = "build" => a = At + 1 /\ At < case.size
                 /\ p = "join" => a = 1
                 /\ p = "layer" => a = At
<1>1. night.pc = "build" /\ Layer(At, 0) /\ UNCHANGED <<case, said, tail>> /\ At \in Int
      /\ night' = IF At < case.size THEN [night EXCEPT !.at = At + 1] ELSE StartsReview(At)
  BY Basics DEF BuildLayer, At
<1>2. At = Top + 1 /\ At <= case.size
  BY <1>1 DEF Typed, Control, At
<1>3. At \in Branches
  BY <1>2, Basics
<1>4. [night EXCEPT !.at = At + 1] = Reviewed("build", At + 1, night.left, night.fetched, night.main, night.fields)
  BY <1>1 DEF Typed, NightType, Reviewed
<1>5. CASE At < case.size
  BY <1>1, <1>2, <1>3, <1>4, <1>5
<1>6. CASE ~(At < case.size)
  BY <1>1, <1>2, <1>3, <1>6, StartsReviewIs
<1> QED
  BY <1>5, <1>6

LEMMA BuildEndsIs ==
    ASSUME Typed, BuildEnds
    PROVE  /\ night.pc = "build" /\ Top >= 1 /\ UNCHANGED <<case, remote, rows, said, tail>>
           /\ \E p \in {"join", "layer"}, a \in {1, Top} :
                 night' = Reviewed(p, a, night.left, night.fetched, night.main, night.fields)
<1>1. night.pc = "build" /\ At > 1 /\ UNCHANGED <<case, remote, rows, said, tail>> /\ night' = StartsReview(At - 1)
      /\ At \in Int
  BY Basics DEF BuildEnds, At
<1>2. At - 1 = Top /\ Top >= 1
  BY <1>1, Basics DEF Typed, Control, At
<1> QED
  BY <1>1, <1>2, StartsReviewIs
LEMMA TypesStay ==
    ASSUME Typed, UNCHANGED case
    PROVE  /\ UNCHANGED remote => RemoteType'
           /\ UNCHANGED rows => RowsType'
           /\ UNCHANGED night => NightType'
           /\ UNCHANGED said => SaidType'
           /\ UNCHANGED tail => TailType'
<1>1. Branches' = Branches /\ KeySet' = KeySet
  BY DEF Branches, KeySet, Files
<1> QED
  BY <1>1 DEF Typed, RemoteType, RowsType, NightType, SaidType, TailType

(* A step of the review that goes on, once the layers are built. *)
LEMMA ReviewedTyped ==
    ASSUME Typed, night.pc \in Joining \union Walking, UNCHANGED <<case, remote, rows, tail>>,
           NEW p \in Joining \union Walking \union {"qualify"}, NEW a \in Int,
           p \in Joining \union Walking => a \in 1 .. Top,
           NEW l \in Int, NEW h \in [Branches -> Commit], NEW m \in Commit, NEW f \in [Branches -> Span],
           night' = Reviewed(p, a, l, h, m, f),
           SaidType'
    PROVE  Typed'
<1>1. p \in Phases
  BY DEF Phases
<1>2. NightType'
  BY <1>1, ReviewedTypes
<1>3. night'.pc = p /\ night'.at = a
  BY DEF Typed, NightType, Reviewed
<1>4. Control'
  BY <1>3 DEF Typed, Control, Top, Layers, Before1, Joining, Walking, Predecessor
<1> QED
  BY <1>2, <1>4, TypesStay DEF Typed

LEMMA RanTypes ==
    ASSUME Typed, UNCHANGED case, said' = Says1([said.join EXCEPT !.ran = TRUE], said.layer)
    PROVE  SaidType'
  BY SaidTypes DEF Typed, SaidType

LEMMA UnderTyped ==
    ASSUME Typed, night.pc \in Joining \union Walking, UNCHANGED <<case, remote, rows, tail>>,
           NEW l, NEW found \in BOOLEAN, NEW f \in [Branches -> Span], UnderStep(l, found, f),
           night'.pc \in Joining \union Walking \union {"qualify"}, night'.at \in Int,
           night'.pc \in Joining \union Walking => night'.at \in 1 .. Top, SaidType'
    PROVE  Typed'
<1>1. PICK h \in [Branches -> Commit], m \in Commit :
         night' = Reviewed(night'.pc, night'.at, night.left, h, m, f)
  BY DEF UnderStep
<1>2. night.left \in Int
  BY DEF Typed, NightType
<1> QED
  BY <1>1, <1>2, ReviewedTyped

(* A step down to the next layer. *)
LEMMA BelowTyped ==
    ASSUME Typed, night.pc \in Walking, UNCHANGED <<case, remote, rows, tail>>, NEW l \in Int,
           night' = Reviewed(IF At > 1 THEN "layer" ELSE "qualify", IF At > 1 THEN At - 1 ELSE At, l,
                             night.fetched, night.main, night.fields),
           SaidType'
    PROVE  Typed'
<1> DEFINE p == IF At > 1 THEN "layer" ELSE "qualify"
           a == IF At > 1 THEN At - 1 ELSE At
<1>1. At \in 1 .. Top /\ Top \in Nat
  BY Basics DEF Typed, Control, At
<1>2. p \in Joining \union Walking \union {"qualify"} /\ a \in Int /\ a \in 1 .. Top
  BY <1>1 DEF Walking
<1>3. night.fetched \in [Branches -> Commit] /\ night.main \in Commit /\ night.fields \in [Branches -> Span]
  BY Basics
<1> HIDE DEF p, a
<1>4. night' = Reviewed(p, a, l, night.fetched, night.main, night.fields)
  BY DEF p, a
<1> QED
  BY <1>2, <1>3, <1>4, ReviewedTyped

LEMMA ReviewTyped ==
    ASSUME Typed, Review
    PROVE  Typed'
<1>0. /\ night.left \in Int /\ night.left - 1 \in Int /\ night.left - LayerBudget \in Int /\ At \in Int /\ Top \in Nat
      /\ night.fetched \in [Branches -> Commit] /\ night.main \in Commit /\ night.fields \in [Branches -> Span]
      /\ At = night.at /\ case.size \in Nat \ {0} /\ Layers = 1 .. Top
      /\ Layers \subseteq Branches /\ Branches = 0 .. case.size + 1
  BY Basics DEF Typed, NightType, LayerBudget, At
<1>1. ASSUME night.pc \in Joining \union Walking
      PROVE  At \in 1 .. Top /\ 1 \in 1 .. Top /\ Top \in 1 .. Top
             /\ (At > 1 => At - 1 \in 1 .. Top) /\ At \in Branches
  BY <1>1, <1>0 DEF Typed, Control
<1>2. CASE BuildLayer
  <2>1. PICK p \in {"build", "join", "layer"}, a \in Int :
           /\ night' = Reviewed(p, a, night.left, night.fetched, night.main, night.fields)
           /\ p = "build" => a = At + 1 /\ At < case.size
           /\ p = "join" => a = 1
           /\ p = "layer" => a = At
    BY <1>2, BuildLayerIs
  <2>2. night.pc = "build" /\ At = Top + 1 /\ At \in Branches /\ At <= case.size /\ Layer(Top + 1, 0)
        /\ UNCHANGED <<case, said, tail>>
    BY <1>2, BuildLayerIs
  <2>3. /\ Top' = Top + 1 /\ Layers' = 1 .. Top + 1 /\ RowsType' /\ RemoteType'
        /\ \A i \in Layers : rows'.layers[i] = rows.layers[i]
        /\ rows'.layers[Top + 1].over = Predecessor(Top + 1) /\ rows'.layers[Top + 1].gen = 0
    BY <2>2, LayerIs
  <2>4. NightType'
    BY <1>0, <2>1, <2>2, ReviewedTypes DEF Phases, Joining, Walking
  <2>5. night'.pc = p /\ night'.at = a
    BY <2>1 DEF Typed, NightType, Reviewed
  <2>6. Control'
    <3>1. night.pc \in Before1
      BY <2>2 DEF Before1
    <3>2. \A i \in Layers : rows.layers[i].gen = 0 /\ rows.layers[i].over = Predecessor(i)
      BY <3>1 DEF Typed, Control
    <3>3. \A i \in Layers' : rows'.layers[i].gen = 0 /\ rows'.layers[i].over = Predecessor(i)
      BY <3>2, <2>3, <1>0
    <3>4. \A i \in Layers' : Predecessor(i)' = Predecessor(i)
      BY <2>2 DEF Predecessor
    <3>5. case' \in Cases /\ case' = case
      BY <2>2, Basics
    <3> QED
      BY <1>0, <2>1, <2>2, <2>3, <2>5, <3>3, <3>4, <3>5 DEF Control, Before1, Joining, Walking
  <2> QED
    BY <2>2, <2>3, <2>4, <2>6, TypesStay DEF Typed
<1>3. CASE BuildEnds
  <2>1. PICK p \in {"join", "layer"}, a \in {1, Top} :
           night' = Reviewed(p, a, night.left, night.fetched, night.main, night.fields)
    BY <1>3, BuildEndsIs
  <2>2. night.pc = "build" /\ Top >= 1 /\ UNCHANGED <<case, remote, rows, said, tail>>
    BY <1>3, BuildEndsIs
  <2>3. NightType'
    BY <1>0, <2>1, <2>2, ReviewedTypes DEF Phases, Joining, Walking
  <2>4. night'.pc = p /\ night'.at = a
    BY <2>1 DEF Typed, NightType, Reviewed
  <2>5. Control'
    <3>1. Top' = Top /\ Layers' = Layers /\ rows' = rows /\ case' = case /\ \A i : Predecessor(i)' = Predecessor(i)
      BY <2>2 DEF Top, Layers, Predecessor
    <3>2. /\ case \in Cases /\ Top <= case.size /\ \A i \in Layers : rows.layers[i].gen = 0
          /\ \A i \in Layers : rows.layers[i].over = Predecessor(i)
      BY <2>2 DEF Typed, Control, Before1
    <3>3. a \in 1 .. Top /\ p # "build" /\ p # "check"
      BY <1>0, <2>1, <2>2
    <3> QED
      BY <1>0, <2>2, <2>4, <3>1, <3>2, <3>3 DEF Control
  <2> QED
    BY <2>2, <2>3, <2>5, TypesStay DEF Typed
<1>4. CASE JoinFetch
  <2>1. night.pc \in Joining \union Walking /\ UNCHANGED <<case, remote, rows, tail>>
    BY <1>4, JoinFetchIs DEF Joining
  <2>2. PICK head \in Fetches(At) :
                 \/ /\ night' = Reviewed("layer", Top, night.left, night.fetched, night.main, night.fields)
                    /\ said' = Says1([said.join EXCEPT !.ran = TRUE], said.layer)
                 \/ /\ head # Gone /\ said' = said
                    /\ night' = Reviewed("joinUnder", At, night.left, [night.fetched EXCEPT ![At] = head],
                                         night.main, night.fields)
    BY <1>4, JoinFetchIs
  <2>3. [night.fetched EXCEPT ![At] = head] \in [Branches -> Commit]
    BY <1>0, <1>1, <2>1, FetchesAre
  <2>4. SaidType'
    BY <2>1, <2>2, RanTypes, TypesStay
  <2> QED
    <3>1. CASE night' = Reviewed("layer", Top, night.left, night.fetched, night.main, night.fields)
      BY SMTT(30), <1>0, <1>1, <2>1, <2>4, <3>1, ReviewedTyped DEF Joining, Walking
    <3>2. CASE night' = Reviewed("joinUnder", At, night.left, [night.fetched EXCEPT ![At] = head],
                                 night.main, night.fields)
      BY <1>0, <1>1, <2>1, <2>3, <2>4, <3>2, ReviewedTyped DEF Joining, Walking
    <3> QED
      BY <2>2, <3>1, <3>2
<1>5. CASE JoinUnder
  <2>1. night.pc \in Joining \union Walking /\ UNCHANGED <<case, remote, rows, tail>>
    BY <1>5, JoinUnderIs DEF Joining
  <2>2. PICK found \in BOOLEAN, f \in [Branches -> Span] :
                 /\ UnderStep(At, found, f)
                 /\ ~found => night'.pc = "layer" /\ night'.at = Top /\ said' = Says1([said.join EXCEPT !.ran = TRUE], said.layer)
                 /\ found => /\ night'.pc = IF At < Top THEN "join" ELSE "joinRead"
                             /\ night'.at = IF At < Top THEN At + 1 ELSE At
                             /\ said' = said
    BY <1>5, JoinUnderIs
  <2>3. SaidType'
    BY <2>1, <2>2, RanTypes, TypesStay
  <2>4. night'.pc \in Joining \union Walking /\ night'.at \in 1 .. Top
    BY <1>0, <1>1, <2>1, <2>2 DEF Joining, Walking
  <2> QED
    BY <2>1, <2>2, <2>3, <2>4, UnderTyped
<1>6. CASE JoinRead
  <2>1. night.pc \in Joining \union Walking /\ UNCHANGED <<case, remote, rows, tail>>
        /\ night' = Reviewed("layer", Top, night.left - 1, night.fetched, night.main, night.fields)
    BY <1>6, JoinReadIs DEF Joining
  <2>2. PICK found \in SUBSET case.finds :
           said' = Says1([ran |-> TRUE, base |-> JoinRange.base, head |-> JoinRange.head, found |-> found], said.layer)
    BY <1>6, JoinReadIs
  <2>3. JoinRange.base \in Commit /\ JoinRange.head \in Commit
    <3>1. night.fields[1] \in Span /\ night.fields[Top] \in Span
      BY <1>0, <1>1, <2>1
    <3> QED
      BY <3>1 DEF JoinRange, Span
  <2>4. SaidType'
    BY <2>1, <2>2, <2>3, SaidTypes DEF Typed, SaidType
  <2> QED
    BY <1>0, <1>1, <2>1, <2>4, ReviewedTyped DEF Joining, Walking
<1>7. CASE JoinRaises
  <2>1. night.pc \in Joining \union Walking /\ UNCHANGED <<case, remote, rows, tail>>
        /\ night' = Reviewed("layer", Top, night.left, night.fetched, night.main, night.fields)
        /\ said' = Says1([said.join EXCEPT !.ran = TRUE], said.layer)
    BY <1>7, JoinRaisesIs DEF Joining
  <2>2. SaidType'
    BY <2>1, RanTypes
  <2>3. night' = Reviewed("layer", Top, night.left, night.fetched, night.main, night.fields)
        /\ night.pc \in Joining \union Walking /\ UNCHANGED <<case, remote, rows, tail>>
    BY <2>1
  <2>4. "layer" \in Joining \union Walking \union {"qualify"} /\ Top \in Int /\ Top \in 1 .. Top
    BY <1>0, <1>1, <2>1 DEF Walking
  <2> QED
    BY <1>0, <2>2, <2>3, <2>4, ReviewedTyped
<1>8. CASE NotReached
  <2>1. night.pc \in Joining \union Walking /\ UNCHANGED <<case, remote, rows, said, tail>>
        /\ night' = Reviewed("qualify", At, night.left, night.fetched, night.main, night.fields)
    BY <1>8, NotReachedIs DEF Walking
  <2>2. SaidType'
    BY <2>1, TypesStay
  <2> QED
    BY <1>0, <2>1, <2>2, ReviewedTyped DEF Joining, Walking
<1>9. CASE LayerFetch
  <2>1. night.pc \in Joining \union Walking /\ UNCHANGED <<case, remote, rows, said, tail>>
    BY <1>9, LayerFetchIs DEF Walking
  <2>0. night.pc \in Walking
    BY <1>9, LayerFetchIs DEF Walking
  <2>2. SaidType'
    BY <2>1, TypesStay
  <2>3. CASE night' = Reviewed(IF At > 1 THEN "layer" ELSE "qualify", IF At > 1 THEN At - 1 ELSE At, night.left,
                               night.fetched, night.main, night.fields)
    BY <1>0, <2>0, <2>1, <2>2, <2>3, BelowTyped
  <2>4. ASSUME NEW head \in Fetches(At),
               night' = Reviewed("layerUnder", At, night.left, [night.fetched EXCEPT ![At] = head],
                                 night.main, night.fields)
        PROVE  Typed'
    <3>1. [night.fetched EXCEPT ![At] = head] \in [Branches -> Commit]
      BY <1>0, <1>1, <2>1, FetchesAre
    <3> QED
      BY <1>0, <1>1, <2>1, <2>2, <2>4, <3>1, ReviewedTyped DEF Joining, Walking
  <2> QED
    BY <1>9, <2>3, <2>4, LayerFetchIs
<1>10. CASE LayerUnder
  <2>1. night.pc \in Joining \union Walking /\ UNCHANGED <<case, remote, rows, said, tail>>
    BY <1>10, LayerUnderIs DEF Walking
  <2>2. PICK found \in BOOLEAN, f \in [Branches -> Span] :
                 /\ UnderStep(At, found, f)
                 /\ ~found => /\ night'.pc = IF At > 1 THEN "layer" ELSE "qualify"
                              /\ night'.at = IF At > 1 THEN At - 1 ELSE At
                 /\ found => night'.pc = "layerRead" /\ night'.at = At
    BY <1>10, LayerUnderIs
  <2>3. SaidType'
    BY <2>1, TypesStay
  <2>4. night'.pc \in Joining \union Walking \union {"qualify"} /\ night'.at \in 1 .. Top
    BY <1>0, <1>1, <2>1, <2>2 DEF Joining, Walking
  <2> QED
    BY <2>1, <2>2, <2>3, <2>4, UnderTyped
<1>11. CASE LayerRead
  <2>1. night.pc \in Walking /\ UNCHANGED <<case, remote, rows, tail>>
        /\ night' = Reviewed(IF At > 1 THEN "layer" ELSE "qualify", IF At > 1 THEN At - 1 ELSE At,
                             night.left - LayerBudget, night.fetched, night.main, night.fields)
    BY <1>11, LayerReadIs DEF Walking
  <2>2. PICK found \in SUBSET case.finds :
           said' = Says1(said.join, [said.layer EXCEPT ![At] = [read |-> night.fields[At], found |-> found]])
    BY <1>11, LayerReadIs
  <2>3. night.fields[At] \in Span
    BY <1>0, <1>1, <2>1
  <2>4. SaidType'
    BY <2>1, <2>2, <2>3, SaidTypes DEF Typed, SaidType
  <2> QED
    BY <1>0, <2>1, <2>4, BelowTyped
<1>12. CASE LayerRaises
  <2>1. night.pc \in Walking /\ UNCHANGED <<case, remote, rows, said, tail>>
        /\ night' = Reviewed(IF At > 1 THEN "layer" ELSE "qualify", IF At > 1 THEN At - 1 ELSE At, night.left,
                             night.fetched, night.main, night.fields)
    BY <1>12, LayerRaisesIs DEF Walking
  <2>2. SaidType'
    BY <2>1, TypesStay
  <2> QED
    BY <1>0, <2>1, <2>2, BelowTyped
<1>13. CASE EndReviewRaises
  <2>1. /\ night.pc \in Joining \union Walking /\ UNCHANGED <<case, remote, rows, tail>>
        /\ night' = [night EXCEPT !.pc = "qualify", !.raised = TRUE, !.fields = [b \in Branches |-> Nothing]]
        /\ said' = Says1([said.join EXCEPT !.ran = FALSE, !.found = {}],
                         [b \in Branches |-> [said.layer[b] EXCEPT !.found = {}]])
    BY <1>13, EndReviewRaisesIs
  <2>2. NightType'
    <3>1. [b \in Branches |-> Nothing] \in [Branches -> Span] /\ "qualify" \in Phases
      BY CommitsAre DEF Phases
    <3>2. Branches' = Branches /\ KeySet' = KeySet /\ case' = case
      BY <2>1 DEF Branches, KeySet, Files
    <3> QED
      BY <2>1, <3>1, <3>2 DEF Typed, NightType
  <2>3. SaidType'
    <3>1. [said.join EXCEPT !.ran = FALSE, !.found = {}]
             \in [ran : BOOLEAN, base : Commit, head : Commit, found : SUBSET case.finds]
      BY DEF Typed, SaidType
    <3>2. [b \in Branches |-> [said.layer[b] EXCEPT !.found = {}]] \in [Branches -> [read : Span, found : SUBSET case.finds]]
      BY DEF Typed, SaidType
    <3> QED
      BY <2>1, <3>1, <3>2, SaidTypes
  <2>4. night'.pc = "qualify" /\ night.at = night'.at
    BY <2>1 DEF Typed, NightType
  <2>5. Control'
    BY <2>1, <2>4 DEF Typed, Control, Top, Layers, Before1, Joining, Walking, Predecessor
  <2> QED
    BY <2>1, <2>2, <2>3, <2>5, TypesStay DEF Typed
<1> QED
  BY <1>2, <1>3, <1>4, <1>5, <1>6, <1>7, <1>8, <1>9, <1>10, <1>11, <1>12, <1>13 DEF Review
-----------------------------------------------------------------------------
(* The steps after the review. *)

Tailed(pc, ranges, groups) == [night EXCEPT !.pc = pc, !.ranges = ranges, !.groups = groups]

RangeType == [kind : {"join", "end", "cell"}, layer : Branches, found : SUBSET case.finds,
              base : Commit, head : Commit]

LEMMA TailedTypes ==
    ASSUME Typed, UNCHANGED case, NEW p \in Phases, NEW r \in SUBSET RangeType, NEW g \in Seq(KeySet),
           night' = Tailed(p, r, g)
    PROVE  NightType'
<1>1. Branches' = Branches /\ KeySet' = KeySet /\ case' = case
  BY DEF Branches, KeySet, Files
<1> QED
  BY <1>1 DEF Typed, NightType, Tailed, RangeType

(* A step that leaves the layers as they are, and goes where nothing is    *)
(* asked of the place in the stack.                                        *)
LEMMA ControlStays ==
    ASSUME Typed, UNCHANGED case, rows'.layers = rows.layers, night.pc # "build",
           night'.pc \notin {"build", "check"} \union Joining \union Walking,
           night'.pc \in Before1 => night.pc \in Before1
    PROVE  Control'
<1>1. Top' = Top /\ Layers' = Layers /\ case' = case /\ \A i \in Int : Predecessor(i)' = Predecessor(i)
  BY DEF Top, Layers, Predecessor
<1>2. Layers \subseteq Int
  BY Basics
<1> QED
  BY <1>1, <1>2 DEF Typed, Control

LEMMA GradedIs ==
    ASSUME Typed, NEW l \in Layers
    PROVE  /\ Graded(l) \in Span /\ Packaged(l) \in Span
           /\ Packaged(l) = [base |-> OwnParent(l), head |-> rows.layers[l].pushed]
           /\ Graded(l) = IF night.fields[l] # Nothing THEN night.fields[l] ELSE Packaged(l)
<1>1. rows.layers[l].pushed \in Commit /\ Own(l) \in Change /\ night.fields[l] \in Span
  <2>1. l \in Int /\ l \in Branches
    BY Basics
  <2>2. Own(l) \in Change
    BY <2>1, ChangesAre
  <2> QED
    BY <2>1, <2>2, Basics
<1>2. OwnParent(l) \in Commit
  BY <1>1, CommitsAre DEF OwnParent
<1> QED
  BY <1>1, <1>2 DEF Graded, Packaged, Span

LEMMA RangesAre ==
    ASSUME Typed, Top >= 1, NEW r \in Ranges
    PROVE  /\ r \in RangeType /\ r.layer \in Layers /\ r.found # {}
           /\ \/ r.kind = "join" /\ said.join.ran
                 /\ r = Range1("join", Top, said.join.found, Graded(1).base, Graded(Top).head)
              \/ r.kind = "end"
                 /\ r = Range1("end", r.layer, said.layer[r.layer].found, Graded(r.layer).base, Graded(r.layer).head)
              \/ r.kind = "cell"
                 /\ r = Range1("cell", r.layer, Concerns(r.layer), Packaged(r.layer).base, Packaged(r.layer).head)
<1>1. r.found # {}
  BY DEF Ranges
<1>2. 1 \in Layers /\ Top \in Layers /\ Layers \subseteq Branches
  BY Basics
<1>3. CASE r = Range1("join", Top, said.join.found, Graded(1).base, Graded(Top).head) /\ said.join.ran
  <2>1. Graded(1).base \in Commit /\ Graded(Top).head \in Commit /\ said.join.found \in SUBSET case.finds
    BY <1>2, GradedIs DEF Span, Typed, SaidType
  <2> QED
    BY <1>1, <1>2, <1>3, <2>1 DEF Range1, RangeType
<1>4. ASSUME NEW l \in Layers, r \in RangesOf(l)
      PROVE  \/ /\ r.kind = "end" /\ r.layer = l
                /\ r = Range1("end", l, said.layer[l].found, Graded(l).base, Graded(l).head)
             \/ /\ r.kind = "cell" /\ r.layer = l
                /\ r = Range1("cell", l, Concerns(l), Packaged(l).base, Packaged(l).head)
  BY <1>4 DEF RangesOf, Range1
<1>5. ASSUME NEW l \in Layers, r \in RangesOf(l) PROVE r \in RangeType
  <2>1. Graded(l).base \in Commit /\ Graded(l).head \in Commit /\ Packaged(l).base \in Commit /\ Packaged(l).head \in Commit
    BY <1>5, GradedIs DEF Span
  <2>2. said.layer[l].found \in SUBSET case.finds /\ Concerns(l) \in SUBSET case.finds /\ l \in Branches
    BY <1>2, <1>5 DEF Typed, SaidType, Concerns
  <2> QED
    BY <1>4, <1>5, <2>1, <2>2 DEF Range1, RangeType
<1>6. CASE \E l \in Layers : r \in RangesOf(l)
  BY <1>1, <1>4, <1>5, <1>6
<1>7. r \in (IF said.join.ran THEN {Range1("join", Top, said.join.found, Graded(1).base, Graded(Top).head)} ELSE {})
            \union UNION {RangesOf(l) : l \in Layers}
  BY DEF Ranges
<1> QED
  BY <1>3, <1>6, <1>7

LEMMA StartsQualifyingIs ==
    ASSUME Typed, StartsQualifying
    PROVE  /\ night.pc = "qualify" /\ UNCHANGED <<case, remote, rows, said, tail>>
           /\ night' = Tailed("groups", Ranges, night.groups) /\ Top >= 1
           /\ Typed'
<1>1. night.pc = "qualify" /\ UNCHANGED <<case, remote, rows, said, tail>> /\ Top >= 1
  BY DEF StartsQualifying, Typed, Control
<1>2. night' = Tailed("groups", Ranges, night.groups)
  BY DEF StartsQualifying, Typed, NightType, Tailed
<1>3. Ranges \in SUBSET RangeType /\ night.groups \in Seq(KeySet) /\ "groups" \in Phases
  BY <1>1, RangesAre DEF Typed, NightType, Phases
<1>4. NightType'
  BY <1>1, <1>2, <1>3, TailedTypes
<1>5. night'.pc = "groups"
  BY <1>2 DEF Typed, NightType, Tailed
<1>6. Control'
  BY <1>1, <1>5, ControlStays DEF Before1, Joining, Walking
<1> QED
  BY <1>1, <1>2, <1>4, <1>6, TypesStay DEF Typed

(* Any order of a finite set is a sequence of each of its elements once.   *)
LEMMA OrdersAre ==
    ASSUME NEW S, IsFiniteSet(S), NEW order \in Orders(S)
    PROVE  /\ order \in Seq(S) /\ DOMAIN order = 1 .. Len(order) /\ ToSet(order) = S
           /\ \A i, j \in DOMAIN order : i # j => order[i] # order[j]
<1>1. Cardinality(S) \in Nat
  BY FS_CardinalityType
<1>2. /\ order \in [1 .. Cardinality(S) -> S] /\ \A k \in S : \E i \in 1 .. Cardinality(S) : order[i] = k
      /\ \A i, j \in 1 .. Cardinality(S) : order[i] = order[j] => i = j
  BY DEF Orders, Bijection, Injection, Surjection, IsInjective
<1>3. order \in Seq(S) /\ DOMAIN order = 1 .. Cardinality(S) /\ Len(order) = Cardinality(S)
  BY <1>1, <1>2, SeqDef
<1> QED
  BY <1>2, <1>3 DEF ToSet

LEMMA JoinedIs ==
    ASSUME NEW K, NEW s \in Seq(K), NEW t \in Seq(K)
    PROVE  /\ s \o t \in Seq(K) /\ ToSet(s \o t) = ToSet(s) \union ToSet(t)
           /\ DOMAIN (s \o t) = 1 .. Len(s) + Len(t)
           /\ \A i \in 1 .. Len(s) + Len(t) : (s \o t)[i] = IF i <= Len(s) THEN s[i] ELSE t[i - Len(s)]
<1>1. s \o t \in Seq(K) /\ Len(s \o t) = Len(s) + Len(t) /\ Len(s) \in Nat /\ Len(t) \in Nat
  OBVIOUS
<1>2. \A i \in 1 .. Len(s) + Len(t) : (s \o t)[i] = IF i <= Len(s) THEN s[i] ELSE t[i - Len(s)]
  OBVIOUS
<1>3. DOMAIN (s \o t) = 1 .. Len(s) + Len(t) /\ DOMAIN s = 1 .. Len(s) /\ DOMAIN t = 1 .. Len(t)
  BY <1>1
<1>4. \A x \in ToSet(s) \union ToSet(t) : x \in ToSet(s \o t)
  <2>1. ASSUME NEW i \in DOMAIN s PROVE s[i] \in ToSet(s \o t)
    BY <1>1, <1>2, <1>3 DEF ToSet
  <2>2. ASSUME NEW i \in DOMAIN t PROVE t[i] \in ToSet(s \o t)
    <3>1. Len(s) + i \in DOMAIN (s \o t) /\ (s \o t)[Len(s) + i] = t[i]
      BY <1>1, <1>2, <1>3
    <3> QED
      BY <3>1 DEF ToSet
  <2> QED
    BY <2>1, <2>2 DEF ToSet
<1>5. \A x \in ToSet(s \o t) : x \in ToSet(s) \union ToSet(t)
  BY <1>1, <1>2, <1>3 DEF ToSet
<1> QED
  BY <1>1, <1>2, <1>3, <1>4, <1>5

(* One more group for each key of the qualified, none twice. *)
LEMMA GroupedIs ==
    ASSUME NEW K, NEW gs \in Seq(K), NEW decided, \A d \in decided : Key(d) \in K, IsFiniteSet(decided),
           NEW groups \in Grouped(gs, decided),
           \A i, j \in DOMAIN gs : i # j => gs[i] # gs[j]
    PROVE  /\ groups \in Seq(K)
           /\ ToSet(groups) = ToSet(gs) \union {Key(q) : q \in {d \in decided : d.outcome = "qualified"}}
           /\ \A i, j \in DOMAIN groups : i # j => groups[i] # groups[j]
<1> DEFINE all == {Key(q) : q \in {d \in decided : d.outcome = "qualified"}}
           keys == all \ ToSet(gs)
<1>1. PICK more \in Orders(keys) : groups = gs \o more
  BY DEF Grouped
<1>2. IsFiniteSet(keys) /\ keys \subseteq K
  <2>1. IsFiniteSet({d \in decided : d.outcome = "qualified"})
    BY FS_Subset
  <2>2. IsFiniteSet(all)
    <3> DEFINE Q == {d \in decided : d.outcome = "qualified"}
               f == [q \in Q |-> Key(q)]
    <3>1. f \in Surjection(Q, all)
      BY DEF Surjection
    <3> QED
      BY <2>1, <3>1, FS_Surjection
  <2> QED
    BY <2>2, FS_Subset
<1>3. /\ more \in Seq(keys) /\ DOMAIN more = 1 .. Len(more) /\ ToSet(more) = keys
      /\ \A i, j \in DOMAIN more : i # j => more[i] # more[j]
  BY <1>2, OrdersAre
<1>4. more \in Seq(K)
  BY <1>2, <1>3
<1>5. /\ groups \in Seq(K) /\ ToSet(groups) = ToSet(gs) \union ToSet(more)
      /\ DOMAIN groups = 1 .. Len(gs) + Len(more)
      /\ \A i \in 1 .. Len(gs) + Len(more) : groups[i] = IF i <= Len(gs) THEN gs[i] ELSE more[i - Len(gs)]
  BY <1>1, <1>4, JoinedIs
<1>6. ASSUME NEW i \in DOMAIN groups, NEW j \in DOMAIN groups, i # j PROVE groups[i] # groups[j]
  <2>1. Len(gs) \in Nat /\ Len(more) \in Nat /\ DOMAIN gs = 1 .. Len(gs)
    BY <1>4
  <2>2. CASE i <= Len(gs) /\ j <= Len(gs)
    BY <1>5, <1>6, <2>1, <2>2
  <2>3. CASE i > Len(gs) /\ j > Len(gs)
    <3>1. i - Len(gs) \in DOMAIN more /\ j - Len(gs) \in DOMAIN more /\ i - Len(gs) # j - Len(gs)
      BY <1>3, <1>5, <1>6, <2>1, <2>3
    <3>2. groups[i] = more[i - Len(gs)] /\ groups[j] = more[j - Len(gs)]
      BY <1>5, <2>1, <2>3
    <3> QED
      BY <1>3, <3>1, <3>2
  <2>4. ASSUME NEW a \in DOMAIN groups, NEW b \in DOMAIN groups, a <= Len(gs), b > Len(gs)
        PROVE  groups[a] # groups[b]
    <3>1. a \in DOMAIN gs /\ b - Len(gs) \in DOMAIN more
      BY <1>3, <1>5, <2>1, <2>4
    <3>2. groups[a] \in ToSet(gs) /\ groups[b] \in ToSet(more)
      BY <1>5, <2>4, <3>1 DEF ToSet
    <3> QED
      BY <1>3, <3>2
  <2> QED
    BY <1>5, <1>6, <2>1, <2>2, <2>3, <2>4
<1> QED
  BY <1>3, <1>5, <1>6
(* What is decided of a range. *)
LEMMA DecidedIs ==
    ASSUME Typed, Deciding, night.pc = "groups", NEW r \in night.ranges, NEW verdict
    PROVE  /\ IsFiniteSet(Decided(r, verdict))
           /\ \A d \in Decided(r, verdict) :
                 /\ d.layer = r.layer /\ d.finding \in r.found /\ d.outcome = Decide(r, d.finding, verdict)
                 /\ d.layer \in Branches /\ d.finding \in case.finds /\ Key(d) \in KeySet
<1>1. r.layer \in Branches /\ r.found \subseteq case.finds
  BY DEF Typed, NightType
<1>2. IsFiniteSet(r.found)
  <2>1. IsFiniteSet(case.finds)
    BY Basics, CaseIs
  <2> QED
    BY <1>1, <2>1, FS_Subset
<1>3. IsFiniteSet(Decided(r, verdict))
  <2> DEFINE f == [x \in r.found |-> [layer |-> r.layer, finding |-> x, outcome |-> Decide(r, x, verdict)]]
  <2>1. f \in Surjection(r.found, Decided(r, verdict))
    BY DEF Surjection, Decided
  <2> QED
    BY <1>2, <2>1, FS_Surjection
<1>4. ASSUME NEW d \in Decided(r, verdict)
      PROVE  /\ d.layer = r.layer /\ d.finding \in r.found /\ d.outcome = Decide(r, d.finding, verdict)
             /\ d.layer \in Branches /\ d.finding \in case.finds /\ Key(d) \in KeySet
  <2>1. PICK x \in r.found : d = [layer |-> r.layer, finding |-> x, outcome |-> Decide(r, x, verdict)]
    BY DEF Decided
  <2>2. d.layer = r.layer /\ d.finding = x /\ d.outcome = Decide(r, x, verdict)
    BY <2>1
  <2> QED
    BY <1>1, <2>2 DEF Key, KeySet, Files
<1> QED
  BY <1>3, <1>4

LEMMA QualifyRangeIs ==
    ASSUME Typed, Deciding, Accounts, NEW verdict, QualifyRange(verdict)
    PROVE  /\ night.pc = "groups" /\ UNCHANGED <<case, remote, said, tail>> /\ rows'.layers = rows.layers
           /\ Typed'
           /\ \E r \in night.ranges : \E groups \in Grouped(night.groups, Decided(r, verdict)) :
                 /\ rows'.quals = rows.quals \union Decided(r, verdict)
                 /\ night' = Tailed("groups", night.ranges \ {r}, groups)
                 /\ ToSet(groups) = ToSet(night.groups)
                       \union {Key(q) : q \in {d \in Decided(r, verdict) : d.outcome = "qualified"}}
                 /\ \A i, j \in DOMAIN groups : i # j => groups[i] # groups[j]
<1>1. night.pc = "groups" /\ UNCHANGED <<case, remote, said, tail>>
  BY DEF QualifyRange
<1>2. PICK r \in night.ranges :
         /\ rows' = [rows EXCEPT !.quals = rows.quals \union Decided(r, verdict)]
         /\ \E groups \in Grouped(night.groups, Decided(r, verdict)) :
              night' = [night EXCEPT !.ranges = night.ranges \ {r}, !.groups = groups]
  BY DEF QualifyRange
<1>3. PICK groups \in Grouped(night.groups, Decided(r, verdict)) :
         night' = [night EXCEPT !.ranges = night.ranges \ {r}, !.groups = groups]
  BY <1>2
<1>4. rows'.layers = rows.layers /\ rows'.quals = rows.quals \union Decided(r, verdict)
      /\ rows' = [layers |-> rows'.layers, quals |-> rows'.quals]
  <2>1. rows = [layers |-> rows.layers, quals |-> rows.quals]
    BY DEF Typed, RowsType
  <2> QED
    BY <1>2, <2>1
<1>5. night' = Tailed("groups", night.ranges \ {r}, groups)
  BY <1>1, <1>3 DEF Typed, NightType, Tailed
<1>6. /\ groups \in Seq(KeySet)
      /\ ToSet(groups) = ToSet(night.groups)
            \union {Key(q) : q \in {d \in Decided(r, verdict) : d.outcome = "qualified"}}
      /\ \A i, j \in DOMAIN groups : i # j => groups[i] # groups[j]
  <2>1. night.groups \in Seq(KeySet) /\ \A i, j \in DOMAIN night.groups : i # j => night.groups[i] # night.groups[j]
    BY DEF Typed, NightType, Accounts
  <2>2. IsFiniteSet(Decided(r, verdict)) /\ \A d \in Decided(r, verdict) : Key(d) \in KeySet
    BY <1>1, DecidedIs
  <2> QED
    BY <2>1, <2>2, GroupedIs
<1>7. NightType'
  <2>1. night.ranges \ {r} \in SUBSET RangeType /\ "groups" \in Phases
    BY DEF Typed, NightType, RangeType, Phases
  <2> QED
    BY <1>1, <1>5, <1>6, <2>1, TailedTypes
<1>8. RowsType'
  <2>1. \A q \in rows'.quals : q.layer \in Branches /\ q.finding \in case.finds
    BY <1>1, <1>4, DecidedIs DEF Typed, RowsType
  <2> QED
    BY <1>1, <1>4, <2>1 DEF Typed, RowsType, Branches
<1>9. night'.pc = "groups"
  BY <1>5 DEF Typed, NightType, Tailed
<1>10. Control'
  BY <1>1, <1>4, <1>9, ControlStays DEF Before1, Joining, Walking
<1> QED
  BY <1>1, <1>4, <1>5, <1>6, <1>7, <1>8, <1>10, TypesStay DEF Typed

LEMMA QualifyRaisesIs ==
    ASSUME Typed, QualifyRaises
    PROVE  /\ night.pc = "groups" /\ night.ranges # {} /\ UNCHANGED <<case, remote, rows, said, tail>>
           /\ night' = Tailed("json", night.ranges, <<>>) /\ Typed'
<1>1. night.pc = "groups" /\ night.ranges # {} /\ UNCHANGED <<case, remote, rows, said, tail>>
  BY DEF QualifyRaises
<1>2. night' = Tailed("json", night.ranges, <<>>)
  BY DEF QualifyRaises, Typed, NightType, Tailed
<1>3. night.ranges \in SUBSET RangeType /\ <<>> \in Seq(KeySet) /\ "json" \in Phases
  BY DEF Typed, NightType, RangeType, Phases, Ending
<1>4. NightType'
  BY <1>1, <1>2, <1>3, TailedTypes
<1>5. night'.pc = "json"
  BY <1>2 DEF Typed, NightType, Tailed
<1>6. Control'
  BY <1>1, <1>5, ControlStays DEF Before1, Joining, Walking
<1> QED
  BY <1>1, <1>2, <1>4, <1>6, TypesStay DEF Typed

LEMMA QualifiesNothingIs ==
    ASSUME Typed, QualifiesNothing
    PROVE  /\ night.pc = "qualify" /\ Ranges = {} /\ UNCHANGED <<case, remote, rows, said>>
           /\ night' = Tailed("json", night.ranges, night.groups) /\ tail' = [tail EXCEPT !.kept = TRUE] /\ Typed'
<1>1. night.pc = "qualify" /\ Ranges = {} /\ UNCHANGED <<case, remote, rows, said>> /\ tail' = [tail EXCEPT !.kept = TRUE]
  BY DEF QualifiesNothing
<1>2. night' = Tailed("json", night.ranges, night.groups)
  BY DEF QualifiesNothing, Typed, NightType, Tailed
<1>3. night.ranges \in SUBSET RangeType /\ night.groups \in Seq(KeySet) /\ "json" \in Phases
  BY DEF Typed, NightType, RangeType, Phases, Ending
<1>4. NightType'
  BY <1>1, <1>2, <1>3, TailedTypes
<1>5. night'.pc = "json"
  BY <1>2 DEF Typed, NightType, Tailed
<1>6. Control'
  BY <1>1, <1>5, ControlStays DEF Before1, Joining, Walking
<1>7. TailType'
  BY <1>1 DEF Typed, TailType, Branches, KeySet, Files
<1> QED
  BY <1>1, <1>2, <1>4, <1>6, <1>7, TypesStay DEF Typed

LEMMA QualifiedIs ==
    ASSUME Typed, Qualified
    PROVE  /\ night.pc = "groups" /\ night.ranges = {} /\ ~tail.kept /\ UNCHANGED <<case, remote, rows, night, said>>
           /\ tail' = [tail EXCEPT !.kept = TRUE] /\ Typed'
<1>1. night.pc = "groups" /\ night.ranges = {} /\ ~tail.kept /\ UNCHANGED <<case, remote, rows, night, said>>
      /\ tail' = [tail EXCEPT !.kept = TRUE]
  BY DEF Qualified
<1>2. TailType'
  BY <1>1 DEF Typed, TailType, Branches, KeySet, Files
<1>3. Control'
  BY <1>1, ControlStays DEF Before1, Joining, Walking
<1> QED
  BY <1>1, <1>2, <1>3, TypesStay DEF Typed
-----------------------------------------------------------------------------
(* What a step of the writing leaves: where it is, the groups and the      *)
(* findings given to the writer; the backlog and the follow-ups.           *)

WroteTo(pc, groups, group) ==
    /\ NightType' /\ night'.pc = pc /\ night'.groups = groups /\ night'.group = group
    /\ night'.at = night.at /\ night'.ranges = night.ranges
    /\ night'.fetched = night.fetched /\ night'.main = night.main /\ night'.fields = night.fields

Told(pooled, minted) ==
    /\ TailType' /\ tail'.pooled = pooled /\ tail'.minted = minted
    /\ tail'.kept = tail.kept /\ tail'.pushed = tail.pushed /\ tail'.atop = tail.atop

Item(key, found) == [key |-> key, found |-> found]

LEMMA WroteIs ==
    ASSUME Typed, UNCHANGED case, NEW p \in Phases, NEW g \in Seq(KeySet), NEW grp \in SUBSET case.finds,
           NEW w \in Int, NEW s \in BOOLEAN, NEW h \in BOOLEAN,
           night' = [night EXCEPT !.pc = p, !.groups = g, !.group = grp, !.writes = w, !.sentBack = s, !.halted = h]
    PROVE  WroteTo(p, g, grp)
<1>1. Branches' = Branches /\ KeySet' = KeySet /\ case' = case
  BY DEF Branches, KeySet, Files
<1> QED
  BY <1>1 DEF Typed, NightType, WroteTo

LEMMA ToldIs ==
    ASSUME Typed, UNCHANGED case, NEW p \in Seq([key : KeySet, found : SUBSET case.finds]), NEW m \in SUBSET KeySet,
           NEW b \in SUBSET KeySet, tail' = [tail EXCEPT !.pooled = p, !.minted = m, !.bare = b]
    PROVE  Told(p, m)
<1>1. Branches' = Branches /\ KeySet' = KeySet /\ case' = case
  BY DEF Branches, KeySet, Files
<1> QED
  BY <1>1 DEF Typed, TailType, Told

LEMMA FoundInIs ==
    ASSUME Typed, NEW k
    PROVE  FoundIn(k) \in SUBSET case.finds
  BY DEF FoundIn, Typed, RowsType

LEMMA GroupIs ==
    ASSUME Typed, night.groups # <<>>
    PROVE  /\ night.groups \in Seq(KeySet) /\ Group \in KeySet /\ Tail(night.groups) \in Seq(KeySet)
           /\ Len(night.groups) >= 1 /\ Group = night.groups[1]
           /\ Len(Tail(night.groups)) = Len(night.groups) - 1
           /\ \A i \in 1 .. Len(night.groups) - 1 : Tail(night.groups)[i] = night.groups[i + 1]
           /\ ToSet(night.groups) = {Group} \union ToSet(Tail(night.groups))
<1>1. night.groups \in Seq(KeySet)
  BY DEF Typed, NightType
<1>2. Len(night.groups) >= 1 /\ Group = night.groups[1] /\ Group \in KeySet
  BY <1>1 DEF Group
<1>3. /\ Tail(night.groups) \in Seq(KeySet) /\ Len(Tail(night.groups)) = Len(night.groups) - 1
      /\ \A i \in 1 .. Len(night.groups) - 1 : Tail(night.groups)[i] = night.groups[i + 1]
  BY <1>1
<1>4. DOMAIN night.groups = 1 .. Len(night.groups) /\ DOMAIN Tail(night.groups) = 1 .. Len(night.groups) - 1
  BY <1>1, <1>3
<1>5. ToSet(night.groups) = {Group} \union ToSet(Tail(night.groups))
  <2>1. ASSUME NEW x \in ToSet(night.groups) PROVE x = Group \/ x \in ToSet(Tail(night.groups))
    <3>1. PICK i \in 1 .. Len(night.groups) : x = night.groups[i]
      BY <1>4 DEF ToSet
    <3>2. CASE i = 1
      BY <1>2, <3>1, <3>2
    <3>3. CASE i # 1
      <4>1. i - 1 \in 1 .. Len(night.groups) - 1 /\ Tail(night.groups)[i - 1] = x
        BY <1>1, <1>3, <3>1, <3>3
      <4> QED
        BY <1>4, <4>1 DEF ToSet
    <3> QED
      BY <3>2, <3>3
  <2>2. ASSUME NEW x \in ToSet(Tail(night.groups)) PROVE x \in ToSet(night.groups)
    <3>1. PICK i \in 1 .. Len(night.groups) - 1 : x = Tail(night.groups)[i]
      BY <1>4 DEF ToSet
    <3>2. i + 1 \in 1 .. Len(night.groups) /\ x = night.groups[i + 1]
      BY <1>1, <1>3, <3>1
    <3> QED
      BY <1>4, <3>2 DEF ToSet
  <2>3. Group \in ToSet(night.groups)
    BY <1>2, <1>4 DEF ToSet
  <2> QED
    BY <2>1, <2>2, <2>3
<1> QED
  BY <1>1, <1>2, <1>3, <1>5

LEMMA PooledIs ==
    ASSUME Typed, UNCHANGED case, NEW k \in KeySet, NEW found \in SUBSET case.finds,
           tail' = Pooled(k, found)
    PROVE  Told(Append(tail.pooled, Item(k, found)), tail.minted)
<1>1. tail' = [tail EXCEPT !.pooled = Append(tail.pooled, Item(k, found)), !.minted = tail.minted, !.bare = tail.bare]
  BY DEF Typed, TailType, Pooled, Item
<1>2. /\ Append(tail.pooled, Item(k, found)) \in Seq([key : KeySet, found : SUBSET case.finds])
      /\ tail.minted \in SUBSET KeySet /\ tail.bare \in SUBSET KeySet
  BY DEF Typed, TailType, Item
<1> QED
  BY <1>1, <1>2, ToldIs
(* The group is through, and these of its findings are in the backlog. *)
Onward(found) ==
    /\ WroteTo("groups", Tail(night.groups), {})
    /\ Told(Append(tail.pooled, Item(Group, found)), tail.minted)

LEMMA NextGroupIs ==
    ASSUME Typed, UNCHANGED case, night.groups # <<>>, NEW w \in Int, NEW h \in BOOLEAN,
           night' = [NextGroup EXCEPT !.writes = w, !.halted = h]
    PROVE  WroteTo("groups", Tail(night.groups), {})
<1>1. night' = [night EXCEPT !.pc = "groups", !.groups = Tail(night.groups), !.group = {},
                             !.writes = w, !.sentBack = FALSE, !.halted = h]
  BY DEF Typed, NightType, NextGroup
<1>2. "groups" \in Phases /\ Tail(night.groups) \in Seq(KeySet) /\ {} \in SUBSET case.finds /\ FALSE \in BOOLEAN
  BY GroupIs DEF Phases
<1> QED
  BY <1>1, <1>2, WroteIs

LEMMA PassesOn ==
    ASSUME Typed, UNCHANGED case, night.groups # <<>>,
           \/ night' = NextGroup
           \/ night' = [NextGroup EXCEPT !.writes = night.writes - 1]
           \/ night' = [NextGroup EXCEPT !.halted = TRUE, !.writes = @ - 1]
    PROVE  WroteTo("groups", Tail(night.groups), {})
<1>1. night.writes \in Int /\ night.writes - 1 \in Int /\ night.halted \in BOOLEAN /\ TRUE \in BOOLEAN
  BY DEF Typed, NightType
<1>2. CASE night' = NextGroup
  <2>1. night' = [NextGroup EXCEPT !.writes = night.writes, !.halted = night.halted]
    BY <1>2 DEF Typed, NightType, NextGroup
  <2> QED
    BY <1>1, <2>1, NextGroupIs
<1>3. CASE night' = [NextGroup EXCEPT !.writes = night.writes - 1]
  <2>1. night' = [NextGroup EXCEPT !.writes = night.writes - 1, !.halted = night.halted]
    BY <1>3 DEF Typed, NightType, NextGroup
  <2> QED
    BY <1>1, <2>1, NextGroupIs
<1>4. CASE night' = [NextGroup EXCEPT !.halted = TRUE, !.writes = @ - 1]
  <2>1. night' = [NextGroup EXCEPT !.writes = night.writes - 1, !.halted = TRUE]
    BY <1>4 DEF Typed, NightType, NextGroup
  <2> QED
    BY <1>1, <2>1, NextGroupIs
<1> QED
  BY <1>2, <1>3, <1>4

LEMMA PoolsGroupIs ==
    ASSUME Typed, PoolsGroup
    PROVE  /\ night.pc = "groups" /\ tail.kept /\ night.groups # <<>> /\ UNCHANGED <<case, remote, rows, said>>
           /\ Onward(FoundIn(Group))
<1>1. /\ night.pc = "groups" /\ tail.kept /\ night.groups # <<>> /\ UNCHANGED <<case, remote, rows, said>>
      /\ tail' = Pooled(Group, FoundIn(Group)) /\ night' = NextGroup
  BY DEF PoolsGroup, Writing
<1>2. Group \in KeySet /\ FoundIn(Group) \in SUBSET case.finds
  BY <1>1, GroupIs, FoundInIs
<1> QED
  BY <1>1, <1>2, PassesOn, PooledIs DEF Onward

LEMMA TakesGroupIs ==
    ASSUME Typed, NEW dropped, TakesGroup(dropped)
    PROVE  /\ night.pc = "groups" /\ tail.kept /\ night.groups # <<>> /\ UNCHANGED <<case, remote, rows, said>>
           /\ dropped \subseteq FoundIn(Group)
           /\ IF dropped = {} THEN UNCHANGED tail
              ELSE Told(Append(tail.pooled, Item(Group, dropped)), tail.minted)
           /\ IF dropped = FoundIn(Group) THEN WroteTo("groups", Tail(night.groups), {})
              ELSE WroteTo("draft", night.groups, FoundIn(Group) \ dropped)
<1>1. /\ night.pc = "groups" /\ tail.kept /\ night.groups # <<>> /\ UNCHANGED <<case, remote, rows, said>>
      /\ dropped \subseteq FoundIn(Group)
      /\ tail' = IF dropped = {} THEN tail ELSE Pooled(Group, dropped)
      /\ night' = IF dropped = FoundIn(Group) THEN NextGroup
                  ELSE [night EXCEPT !.pc = "draft", !.group = FoundIn(Group) \ dropped]
  BY DEF TakesGroup, Writing
<1>2. Group \in KeySet /\ FoundIn(Group) \in SUBSET case.finds /\ dropped \in SUBSET case.finds
      /\ FoundIn(Group) \ dropped \in SUBSET case.finds
  BY <1>1, GroupIs, FoundInIs
<1>3. dropped # {} => Told(Append(tail.pooled, Item(Group, dropped)), tail.minted)
  BY <1>1, <1>2, PooledIs
<1>4. dropped # FoundIn(Group) => WroteTo("draft", night.groups, FoundIn(Group) \ dropped)
  <2>1. SUFFICES ASSUME dropped # FoundIn(Group) PROVE WroteTo("draft", night.groups, FoundIn(Group) \ dropped)
    OBVIOUS
  <2>2. night' = [night EXCEPT !.pc = "draft", !.groups = night.groups, !.group = FoundIn(Group) \ dropped,
                               !.writes = night.writes, !.sentBack = night.sentBack, !.halted = night.halted]
    BY <1>1, <2>1 DEF Typed, NightType
  <2>3. /\ night.groups \in Seq(KeySet) /\ night.writes \in Int /\ night.sentBack \in BOOLEAN
        /\ night.halted \in BOOLEAN /\ "draft" \in Phases
    BY DEF Typed, NightType, Phases
  <2> QED
    BY <1>1, <1>2, <2>2, <2>3, WroteIs
<1>5. dropped = FoundIn(Group) => WroteTo("groups", Tail(night.groups), {})
  BY <1>1, PassesOn
<1> QED
  BY <1>1, <1>3, <1>4, <1>5

(* What the writer's session comes to. *)
DraftIs(turns) ==
    \/ WriterErrs(turns) \/ WriterWaits(turns) \/ SendsBack(turns) \/ Refuses(turns) \/ JudgeRaises(turns)
    \/ Mints(turns)

LEMMA SessionIs ==
    ASSUME Typed, NEW turns, WriteRaises \/ DraftIs(turns)
    PROVE  /\ night.pc = "draft" /\ tail.kept /\ night.groups # <<>> /\ UNCHANGED <<case, remote, rows, said>>
           /\ \/ Onward(night.group)
              \/ WroteTo("draft", night.groups, night.group) /\ UNCHANGED tail
              \/ WroteTo("groups", Tail(night.groups), {}) /\ Told(tail.pooled, tail.minted \union {Group})
<1>1. night.pc = "draft" /\ tail.kept /\ night.groups # <<>> /\ UNCHANGED <<case, remote, rows, said>>
  BY DEF DraftIs, WriteRaises, WriterErrs, WriterWaits, SendsBack, Refuses, JudgeRaises, Mints, Drafts, Writes, Writing
<1>2. Group \in KeySet /\ night.group \in SUBSET case.finds
  BY <1>1, GroupIs DEF Typed, NightType
<1>3. tail' = Pooled(Group, night.group)
         => Told(Append(tail.pooled, Item(Group, night.group)), tail.minted)
  BY <1>1, <1>2, PooledIs
<1>4. CASE WriteRaises
  BY <1>1, <1>3, <1>4, PassesOn DEF WriteRaises, Unwrites, Onward
<1>5. CASE WriterErrs(turns)
  BY <1>1, <1>3, <1>5, PassesOn DEF WriterErrs, Pools, Onward
<1>6. CASE WriterWaits(turns)
  BY <1>1, <1>3, <1>6, PassesOn DEF WriterWaits, Onward
<1>7. CASE SendsBack(turns)
  <2>1. CASE Pools
    BY <1>1, <1>3, <2>1, PassesOn DEF Pools, Onward
  <2>2. CASE night' = [night EXCEPT !.writes = @ - 1, !.sentBack = TRUE] /\ UNCHANGED tail
    <3>1. night' = [night EXCEPT !.pc = "draft", !.groups = night.groups, !.group = night.group,
                                 !.writes = night.writes - 1, !.sentBack = TRUE, !.halted = night.halted]
      BY <1>1, <2>2 DEF Typed, NightType
    <3>2. night.groups \in Seq(KeySet) /\ night.writes - 1 \in Int /\ night.halted \in BOOLEAN /\ "draft" \in Phases
      BY DEF Typed, NightType, Phases
    <3>3. WroteTo("draft", night.groups, night.group)
      BY <1>1, <1>2, <3>1, <3>2, WroteIs
    <3> QED
      BY <1>1, <2>2, <3>3
  <2> QED
    BY <1>1, <1>7, <2>1, <2>2 DEF SendsBack
<1>8. CASE Refuses(turns)
  BY <1>1, <1>3, <1>8, PassesOn DEF Refuses, Pools, Onward
<1>9. CASE JudgeRaises(turns)
  BY <1>1, <1>3, <1>9, PassesOn DEF JudgeRaises, Onward
<1>10. CASE Mints(turns)
  <2>1. tail' = [tail EXCEPT !.pooled = tail.pooled, !.minted = tail.minted \union {Group}, !.bare = tail.bare]
    BY <1>10 DEF Mints, Typed, TailType
  <2>2. /\ tail.pooled \in Seq([key : KeySet, found : SUBSET case.finds])
        /\ tail.minted \union {Group} \in SUBSET KeySet /\ tail.bare \in SUBSET KeySet
    BY <1>2 DEF Typed, TailType
  <2>3. Told(tail.pooled, tail.minted \union {Group})
    BY <1>1, <2>1, <2>2, ToldIs
  <2>4. night' = [NextGroup EXCEPT !.writes = night.writes - 1]
    BY <1>10 DEF Mints, Typed, NightType, NextGroup
  <2> QED
    BY <1>1, <2>3, <2>4, PassesOn
<1> QED
  BY <1>1, <1>4, <1>5, <1>6, <1>7, <1>8, <1>9, <1>10 DEF DraftIs

Unpooled == {k \in ToSet(night.groups) : Rest(k) # {}}

LEMMA FollowUpsRaiseIs ==
    ASSUME Typed, NEW minted, FollowUpsRaise(minted)
    PROVE  /\ night.pc \in {"groups", "draft"} /\ tail.kept /\ night.groups # <<>>
           /\ UNCHANGED <<case, remote, rows, said>>
           /\ WroteTo("json", <<>>, night.group)
           /\ \E left \in Seq(Unpooled) :
                 /\ ToSet(left) = Unpooled /\ \A i, j \in DOMAIN left : i # j => left[i] # left[j]
                 /\ [i \in DOMAIN left |-> Item(left[i], Rest(left[i]))] \in Seq([key : KeySet, found : SUBSET case.finds])
                 /\ Told(tail.pooled \o [i \in DOMAIN left |-> Item(left[i], Rest(left[i]))], tail.minted)
<1>1. /\ night.pc \in {"groups", "draft"} /\ tail.kept /\ night.groups # <<>>
      /\ UNCHANGED <<case, remote, rows, said>>
      /\ night' = [night EXCEPT !.pc = "json", !.groups = <<>>]
  BY DEF FollowUpsRaise, Writing
<1>2. PICK left \in Orders(Unpooled) :
         tail' = [tail EXCEPT !.pooled = tail.pooled \o [i \in DOMAIN left |-> [key |-> left[i], found |-> Rest(left[i])]],
                              !.bare = IF minted THEN tail.bare \union {Group} ELSE tail.bare]
  <2>1. PICK pooled \in PoolRest :
           tail' = [tail EXCEPT !.pooled = pooled, !.bare = IF minted THEN tail.bare \union {Group} ELSE tail.bare]
    BY DEF FollowUpsRaise
  <2>2. PICK left \in Orders(Unpooled) :
           pooled = tail.pooled \o [i \in DOMAIN left |-> [key |-> left[i], found |-> Rest(left[i])]]
    BY DEF PoolRest, Unpooled
  <2> QED
    BY <2>1, <2>2
<1>3. WroteTo("json", <<>>, night.group)
  <2>1. night' = [night EXCEPT !.pc = "json", !.groups = <<>>, !.group = night.group, !.writes = night.writes,
                               !.sentBack = night.sentBack, !.halted = night.halted]
    BY <1>1 DEF Typed, NightType
  <2>2. /\ night.group \in SUBSET case.finds /\ night.writes \in Int /\ night.sentBack \in BOOLEAN
        /\ night.halted \in BOOLEAN /\ "json" \in Phases /\ <<>> \in Seq(KeySet)
    BY DEF Typed, NightType, Phases, Ending
  <2> QED
    BY <1>1, <2>1, <2>2, WroteIs
<1>4. IsFiniteSet(Unpooled) /\ Unpooled \subseteq KeySet
  <2>1. night.groups \in Seq(KeySet) /\ DOMAIN night.groups = 1 .. Len(night.groups) /\ Len(night.groups) \in Nat
    BY DEF Typed, NightType
  <2>2. IsFiniteSet(DOMAIN night.groups)
    BY <2>1, FS_Interval
  <2>3. night.groups \in Surjection(DOMAIN night.groups, ToSet(night.groups))
    BY <2>1 DEF Surjection, ToSet
  <2>4. IsFiniteSet(ToSet(night.groups))
    BY <2>2, <2>3, FS_Surjection
  <2>5. ToSet(night.groups) \subseteq KeySet
    BY <2>1 DEF ToSet
  <2> QED
    BY <2>4, <2>5, FS_Subset DEF Unpooled
<1>5. /\ left \in Seq(Unpooled) /\ DOMAIN left = 1 .. Len(left) /\ ToSet(left) = Unpooled
      /\ \A i, j \in DOMAIN left : i # j => left[i] # left[j]
  BY <1>4, OrdersAre
<1> DEFINE more == [i \in DOMAIN left |-> Item(left[i], Rest(left[i]))]
<1>6. more \in Seq([key : KeySet, found : SUBSET case.finds])
  <2>1. \A i \in 1 .. Len(left) : left[i] \in KeySet
    BY <1>4, <1>5
  <2>2. \A k \in KeySet : Item(k, Rest(k)) \in [key : KeySet, found : SUBSET case.finds]
    BY FoundInIs DEF Rest, Item
  <2>3. \A i \in 1 .. Len(left) : Item(left[i], Rest(left[i])) \in [key : KeySet, found : SUBSET case.finds]
    BY <2>1, <2>2
  <2>4. more \in [1 .. Len(left) -> [key : KeySet, found : SUBSET case.finds]] /\ Len(left) \in Nat
    BY <1>5, <2>3
  <2> QED
    BY <2>4, SeqDef
<1>7. Told(tail.pooled \o more, tail.minted)
  <2>1. tail.pooled \o more \in Seq([key : KeySet, found : SUBSET case.finds])
    <3> HIDE DEF more
    <3>1. tail.pooled \in Seq([key : KeySet, found : SUBSET case.finds])
      BY DEF Typed, TailType
    <3> QED
      BY <1>6, <3>1
  <2> DEFINE bare == IF minted THEN tail.bare \union {Group} ELSE tail.bare
  <2>2. bare \in SUBSET KeySet /\ tail.minted \in SUBSET KeySet
    BY <1>1, GroupIs DEF Typed, TailType
  <2>3. more = [i \in DOMAIN left |-> [key |-> left[i], found |-> Rest(left[i])]]
    BY DEF Item
  <2>4. tail' = [tail EXCEPT !.pooled = tail.pooled \o more, !.minted = tail.minted, !.bare = bare]
    <3> HIDE DEF more
    <3> QED
      BY <1>2, <2>3 DEF Typed, TailType
  <2> HIDE DEF more, bare
  <2> QED
    BY <1>1, <2>1, <2>2, <2>4, ToldIs
<1> QED
  BY <1>1, <1>3, <1>5, <1>6, <1>7
-----------------------------------------------------------------------------
(* A step that leaves what was read, and what was built, as it is. *)

Building == {"build"} \union Joining \union Walking

Steady ==
    /\ UNCHANGED <<case, remote, said>> /\ rows'.layers = rows.layers
    /\ night'.fetched = night.fetched /\ night'.main = night.main /\ night'.fields = night.fields
    /\ night.pc \notin Building /\ night'.pc \notin Building
    /\ night'.pc \in Before1 => night.pc \in Before1

LEMMA WroteTyped ==
    ASSUME Typed, UNCHANGED <<case, remote, rows, said>>, night.pc \in {"groups", "draft"}, TailType',
           NEW p \in {"groups", "draft", "json"}, NEW g, NEW grp, WroteTo(p, g, grp)
    PROVE  Typed' /\ Steady
<1>1. night'.pc = p /\ NightType'
  BY DEF WroteTo
<1>2. Control'
  BY <1>1, ControlStays DEF Before1, Joining, Walking
<1>3. Typed'
  BY <1>1, <1>2, TypesStay DEF Typed
<1>4. Steady
  BY <1>1 DEF Steady, WroteTo, Building, Before1, Joining, Walking
<1> QED
  BY <1>3, <1>4

LEMMA MovesTyped ==
    ASSUME Typed, UNCHANGED <<case, remote, rows, said, tail>>, NEW p \in {"run", "json"},
           night.pc \in {"groups", "run"}, night' = [night EXCEPT !.pc = p]
    PROVE  /\ Typed' /\ Steady /\ night'.pc = p
           /\ UNCHANGED <<night.at, night.ranges, night.groups, night.group>>
<1>1. night' = Tailed(p, night.ranges, night.groups)
  BY DEF Typed, NightType, Tailed
<1>2. NightType'
  <2>1. p \in Phases /\ night.ranges \in SUBSET RangeType /\ night.groups \in Seq(KeySet)
    BY DEF Typed, NightType, RangeType, Phases, Ending
  <2> QED
    BY <1>1, <2>1, TailedTypes
<1>3. night'.pc = p /\ UNCHANGED <<night.at, night.ranges, night.groups, night.group>>
      /\ night'.fetched = night.fetched /\ night'.main = night.main /\ night'.fields = night.fields
  BY DEF Typed, NightType
<1>4. Control'
  BY <1>3, ControlStays DEF Before1, Joining, Walking
<1>5. Typed'
  BY <1>2, <1>4, TypesStay DEF Typed
<1> QED
  BY <1>3, <1>5 DEF Steady, Building, Before1, Joining, Walking

LEMMA WriteTyped ==
    ASSUME Typed, Write, ~FollowUpRuns
    PROVE  Typed' /\ Steady /\ UNCHANGED <<case, remote, rows, said, night.ranges>>
<1>1. CASE PoolsGroup
  BY <1>1, PoolsGroupIs, WroteTyped DEF Onward, Told, WroteTo
<1>2. CASE \E dropped \in SUBSET {f \in case.finds : f.probe} : TakesGroup(dropped)
  <2>1. PICK dropped \in SUBSET {f \in case.finds : f.probe} : TakesGroup(dropped)
    BY <1>2
  <2>2. /\ night.pc = "groups" /\ UNCHANGED <<case, remote, rows, said>>
        /\ IF dropped = {} THEN UNCHANGED tail
           ELSE Told(Append(tail.pooled, Item(Group, dropped)), tail.minted)
        /\ IF dropped = FoundIn(Group) THEN WroteTo("groups", Tail(night.groups), {})
           ELSE WroteTo("draft", night.groups, FoundIn(Group) \ dropped)
    BY <2>1, TakesGroupIs
  <2>3. TailType'
    BY <2>2, TypesStay DEF Told
  <2> QED
    BY <2>2, <2>3, WroteTyped DEF WroteTo
<1>3. ASSUME NEW turns, WriteRaises \/ DraftIs(turns)
      PROVE  Typed' /\ Steady /\ UNCHANGED <<case, remote, rows, said, night.ranges>>
  <2>1. /\ night.pc = "draft" /\ UNCHANGED <<case, remote, rows, said>>
        /\ \/ Onward(night.group)
           \/ WroteTo("draft", night.groups, night.group) /\ UNCHANGED tail
           \/ WroteTo("groups", Tail(night.groups), {}) /\ Told(tail.pooled, tail.minted \union {Group})
    BY <1>3, SessionIs
  <2>2. TailType'
    BY <2>1, TypesStay DEF Told, Onward
  <2> QED
    BY <2>1, <2>2, WroteTyped DEF WroteTo, Onward
<1>4. CASE \E minted \in BOOLEAN : FollowUpsRaise(minted)
  <2>1. PICK minted \in BOOLEAN : FollowUpsRaise(minted)
    BY <1>4
  <2>2. /\ night.pc \in {"groups", "draft"} /\ UNCHANGED <<case, remote, rows, said>>
        /\ WroteTo("json", <<>>, night.group) /\ TailType'
    BY <2>1, FollowUpsRaiseIs DEF Told
  <2> QED
    BY <2>2, WroteTyped DEF WroteTo
<1>5. CASE WritingEnds
  BY <1>5, MovesTyped DEF WritingEnds
<1>6. CASE FollowUpUnrun
  BY <1>6, MovesTyped DEF FollowUpUnrun
<1> QED
  BY <1>1, <1>2, <1>3, <1>4, <1>5, <1>6 DEF Write, DraftIs
-----------------------------------------------------------------------------
(* The finish. *)

LEMMA FinishMoves ==
    ASSUME Typed, night.pc \in Ending, UNCHANGED <<case, remote, rows, said>>,
           NEW p \in Ending, NEW a \in Int, p = "check" => a \in 1 .. Top + 1,
           night' = [night EXCEPT !.pc = p, !.at = a]
    PROVE  /\ NightType' /\ Control' /\ Steady /\ night'.pc = p /\ night'.at = a
           /\ UNCHANGED <<night.ranges, night.groups, night.group>>
<1>1. /\ night'.pc = p /\ night'.at = a /\ UNCHANGED <<night.ranges, night.groups, night.group>>
      /\ night'.fetched = night.fetched /\ night'.main = night.main /\ night'.fields = night.fields
  BY DEF Typed, NightType
<1>2. NightType'
  <2>1. Branches' = Branches /\ KeySet' = KeySet /\ case' = case /\ p \in Phases
    BY DEF Branches, KeySet, Files, Phases
  <2> QED
    BY <2>1 DEF Typed, NightType
<1>3. Control'
  <2>1. Top' = Top /\ Layers' = Layers /\ rows' = rows /\ case' = case /\ \A i : Predecessor(i)' = Predecessor(i)
    BY DEF Top, Layers, Predecessor
  <2>2. p \notin Building /\ p \notin Before1 /\ night.pc # "build"
    BY DEF Ending, Building, Before1, Joining, Walking
  <2> QED
    BY <1>1, <2>1, <2>2 DEF Typed, Control, Building
<1>4. Steady
  BY <1>1 DEF Steady, Building, Ending, Before1, Joining, Walking
<1> QED
  BY <1>1, <1>2, <1>3, <1>4

Kept1 == UNCHANGED <<tail.kept, tail.pooled, tail.minted>>

Finished(filed, atop, pushed, opened, linked) ==
    [tail EXCEPT !.filed = filed, !.atop = atop, !.pushed = pushed, !.opened = opened, !.linked = linked]

LEMMA FinishTails ==
    ASSUME Typed, UNCHANGED case, NEW f \in BOOLEAN, NEW a \in Commit, NEW p \in BOOLEAN, NEW o \in BOOLEAN,
           NEW l \in BOOLEAN,
           tail' = Finished(f, a, p, o, l)
    PROVE  TailType' /\ Kept1 /\ tail'.atop = a /\ tail'.pushed = p
<1>1. Branches' = Branches /\ KeySet' = KeySet /\ case' = case
  BY DEF Branches, KeySet, Files
<1> QED
  BY ZenonT(60), <1>1 DEF Typed, TailType, Kept1, Finished

(* Where each step of the finish goes, and what it adds to the tail. *)
FinishTo(p, a) ==
    /\ p \in Ending /\ a \in Int /\ night' = [night EXCEPT !.pc = p, !.at = a]
    /\ p = "check" => a \in 1 .. Top + 1
    /\ p # "json" /\ (p = "commit" => night.pc = "json")
    /\ \/ UNCHANGED tail
       \/ \E filed \in BOOLEAN : tail' = [tail EXCEPT !.filed = filed] /\ p = "commit"
       \/ tail' = [tail EXCEPT !.atop = FinishOver] /\ p = "check" /\ a = 1 /\ night.pc = "commit"
       \/ tail' = [tail EXCEPT !.pushed = TRUE] /\ p = "open" /\ night.pc = "push"
       \/ tail' = [tail EXCEPT !.opened = TRUE] /\ p = "link" /\ night.pc = "open"
       \/ \E linked \in BOOLEAN : tail' = [tail EXCEPT !.linked = linked] /\ p = "done"
    /\ p = "check" => \/ tail' = [tail EXCEPT !.atop = FinishOver] /\ a = 1 /\ night.pc = "commit"
                      \/ night.pc = "check" /\ UNCHANGED tail /\ Stands(At) /\ At \in Layers /\ a = At + 1
    /\ p = "push" => night.pc = "check" /\ At = Top + 1 /\ UNCHANGED tail
    /\ p = "open" => night.pc = "push"
    /\ p = "link" => night.pc = "open"

LEMMA FinishIs ==
    ASSUME Typed, Finish
    PROVE  /\ night.pc \in Ending /\ UNCHANGED <<case, remote, rows, said>>
           /\ \E p \in Ending, a \in Int : FinishTo(p, a)
<1>1. night.at \in Int /\ Top \in Nat /\ Layers = 1 .. Top
  BY Basics
<1>2. night.at \in Int
  BY Basics
<1>3. CASE WriteFindings
  <2>1. night' = [night EXCEPT !.pc = "commit", !.at = night.at]
    BY <1>3 DEF WriteFindings, Typed, NightType
  <2>2. night.pc = "json" /\ UNCHANGED <<case, remote, rows, said>>
        /\ \E filed \in BOOLEAN : tail' = [tail EXCEPT !.filed = filed]
    BY <1>3 DEF WriteFindings
  <2>3. FinishTo("commit", night.at)
    BY <1>2, <2>1, <2>2 DEF FinishTo, Ending
  <2> QED
    BY <1>2, <2>2, <2>3 DEF Ending
<1>4. CASE CommitFinish
  <2>1. /\ night.pc = "commit" /\ UNCHANGED <<case, remote, rows, said>>
        /\ tail' = [tail EXCEPT !.atop = FinishOver] /\ night' = [night EXCEPT !.pc = "check", !.at = 1]
    BY <1>4 DEF CommitFinish
  <2>2. 1 \in 1 .. Top + 1 /\ "check" \in Ending /\ "commit" \in Ending
    BY <1>1 DEF Ending
  <2>3. FinishTo("check", 1)
    BY <2>1, <2>2 DEF FinishTo
  <2> QED
    BY <2>1, <2>2, <2>3
<1>5. CASE FinishesNothing \/ SuiteRefuses
  <2>1. night' = [night EXCEPT !.pc = "done", !.at = night.at]
    BY <1>5 DEF FinishesNothing, SuiteRefuses, Typed, NightType
  <2> QED
    <3>1. night.pc \in Ending /\ UNCHANGED <<case, remote, rows, said, tail>>
      BY <1>5 DEF FinishesNothing, SuiteRefuses, Ending
    <3>2. FinishTo("done", night.at)
      BY <1>2, <2>1, <3>1 DEF FinishTo, Ending
    <3> QED
      BY <1>2, <3>1, <3>2 DEF Ending
<1>6. CASE ChecksHead
  <2>1. /\ night.pc = "check" /\ night.at <= Top /\ UNCHANGED <<case, remote, rows, said, tail>>
        /\ night' = IF Stands(night.at) THEN [night EXCEPT !.at = night.at + 1] ELSE [night EXCEPT !.pc = "done"]
    BY <1>6 DEF ChecksHead
  <2>2. At \in Layers /\ At = night.at /\ night.at + 1 \in 1 .. Top + 1
    BY <1>1, <2>1 DEF At, Typed, Control
  <2>3. CASE Stands(night.at)
    <3>1. night' = [night EXCEPT !.pc = "check", !.at = night.at + 1]
      BY <2>1, <2>3 DEF Typed, NightType
    <3>2. Stands(At) /\ night.at + 1 = At + 1 /\ night.at + 1 \in Int /\ "check" \in Ending
      BY <1>2, <2>2, <2>3 DEF Ending
    <3>3. FinishTo("check", night.at + 1)
      BY <2>1, <2>2, <3>1, <3>2 DEF FinishTo
    <3> QED
      BY <2>1, <3>2, <3>3
  <2>4. CASE ~Stands(night.at)
    <3>1. night' = [night EXCEPT !.pc = "done", !.at = night.at]
      BY <2>1, <2>4 DEF Typed, NightType
    <3>2. FinishTo("done", night.at)
      BY <1>2, <2>1, <3>1 DEF FinishTo, Ending
    <3> QED
      BY <1>2, <2>1, <3>2 DEF Ending
  <2> QED
    BY <2>3, <2>4
<1>7. CASE ChecksTargets
  <2>1. /\ night.pc = "check" /\ night.at = Top + 1 /\ UNCHANGED <<case, remote, rows, said, tail>>
        /\ \E p \in {"push", "done"} : night' = [night EXCEPT !.pc = p]
    BY <1>7 DEF ChecksTargets
  <2>2. PICK p \in {"push", "done"} : night' = [night EXCEPT !.pc = p]
    BY <2>1
  <2>3. night' = [night EXCEPT !.pc = p, !.at = night.at]
    BY <2>2 DEF Typed, NightType
  <2>4. FinishTo(p, night.at)
    BY <1>2, <2>1, <2>3 DEF FinishTo, Ending, At
  <2> QED
    BY <1>2, <2>1, <2>4 DEF Ending
<1>8. CASE PushFinish
  <2>1. night.pc = "push" /\ UNCHANGED <<case, remote, rows, said>>
    BY <1>8 DEF PushFinish
  <2>2. \/ tail' = [tail EXCEPT !.pushed = TRUE] /\ night' = [night EXCEPT !.pc = "open", !.at = night.at]
        \/ UNCHANGED tail /\ night' = [night EXCEPT !.pc = "done", !.at = night.at]
    BY <1>8 DEF PushFinish, Typed, NightType
  <2>3. \E p \in Ending : FinishTo(p, night.at)
    BY <1>2, <2>1, <2>2 DEF FinishTo, Ending
  <2> QED
    BY <1>2, <2>1, <2>3 DEF Ending
<1>9. CASE OpenFinish
  <2>1. night.pc = "open" /\ UNCHANGED <<case, remote, rows, said>>
    BY <1>9 DEF OpenFinish
  <2>2. \/ tail' = [tail EXCEPT !.opened = TRUE] /\ night' = [night EXCEPT !.pc = "link", !.at = night.at]
        \/ UNCHANGED tail /\ night' = [night EXCEPT !.pc = "done", !.at = night.at]
    BY <1>9 DEF OpenFinish, Typed, NightType
  <2>3. \E p \in Ending : FinishTo(p, night.at)
    BY <1>2, <2>1, <2>2 DEF FinishTo, Ending
  <2> QED
    BY <1>2, <2>1, <2>3 DEF Ending
<1>10. CASE LinkStack
  <2>1. night.pc = "link" /\ UNCHANGED <<case, remote, rows, said>>
        /\ \E linked \in BOOLEAN : tail' = [tail EXCEPT !.linked = linked]
    BY <1>10 DEF LinkStack
  <2>2. night' = [night EXCEPT !.pc = "done", !.at = night.at]
    BY <1>10 DEF LinkStack, Typed, NightType
  <2>3. \E p \in Ending : FinishTo(p, night.at)
    BY <1>2, <2>1, <2>2 DEF FinishTo, Ending
  <2> QED
    BY <1>2, <2>1, <2>3 DEF Ending
<1> QED
  BY <1>3, <1>4, <1>5, <1>6, <1>7, <1>8, <1>9, <1>10 DEF Finish

LEMMA FinishTyped ==
    ASSUME Typed, Finish
    PROVE  /\ Typed' /\ Steady /\ night.pc \in Ending /\ night'.pc \in Ending
           /\ UNCHANGED <<case, remote, rows, said, night.ranges, night.groups, night.group>> /\ Kept1
<1>1. night.pc \in Ending /\ UNCHANGED <<case, remote, rows, said>>
  BY FinishIs
<1>2. PICK p \in Ending, a \in Int : FinishTo(p, a)
  BY FinishIs
<1>0. /\ night' = [night EXCEPT !.pc = p, !.at = a] /\ (p = "check" => a \in 1 .. Top + 1)
      /\ \/ UNCHANGED tail
         \/ \E filed \in BOOLEAN : tail' = [tail EXCEPT !.filed = filed]
         \/ tail' = [tail EXCEPT !.atop = FinishOver]
         \/ tail' = [tail EXCEPT !.pushed = TRUE]
         \/ tail' = [tail EXCEPT !.opened = TRUE]
         \/ \E linked \in BOOLEAN : tail' = [tail EXCEPT !.linked = linked]
  BY <1>2 DEF FinishTo
<1>3. /\ NightType' /\ Control' /\ Steady /\ night'.pc = p
      /\ UNCHANGED <<night.ranges, night.groups, night.group>>
  BY <1>0, <1>1, FinishMoves
<1>4. FinishOver \in Commit
  <2>1. Top >= 1 /\ Top \in Layers
    BY <1>1, Basics DEF Typed, Control, Ending
  <2> QED
    BY <2>1, GradedIs DEF FinishOver, GradedHead, Span
<1>5. TailType' /\ Kept1
  <2>1. tail.filed \in BOOLEAN /\ tail.atop \in Commit /\ tail.pushed \in BOOLEAN /\ tail.opened \in BOOLEAN
        /\ tail.linked \in BOOLEAN
    BY DEF Typed, TailType
  <2>2. \E f \in BOOLEAN, c \in Commit, b \in BOOLEAN, o \in BOOLEAN, l \in BOOLEAN :
           tail' = Finished(f, c, b, o, l)
    <3>1. UNCHANGED tail => tail' = Finished(tail.filed, tail.atop, tail.pushed, tail.opened, tail.linked)
      BY DEF Typed, TailType, Finished
    <3>2. \A f \in BOOLEAN : tail' = [tail EXCEPT !.filed = f]
             => tail' = Finished(f, tail.atop, tail.pushed, tail.opened, tail.linked)
      BY DEF Typed, TailType, Finished
    <3>3. tail' = [tail EXCEPT !.atop = FinishOver]
             => tail' = Finished(tail.filed, FinishOver, tail.pushed, tail.opened, tail.linked)
      BY DEF Typed, TailType, Finished
    <3>4. tail' = [tail EXCEPT !.pushed = TRUE]
             => tail' = Finished(tail.filed, tail.atop, TRUE, tail.opened, tail.linked)
      BY DEF Typed, TailType, Finished
    <3>5. tail' = [tail EXCEPT !.opened = TRUE]
             => tail' = Finished(tail.filed, tail.atop, tail.pushed, TRUE, tail.linked)
      BY DEF Typed, TailType, Finished
    <3>6. \A l \in BOOLEAN : tail' = [tail EXCEPT !.linked = l]
             => tail' = Finished(tail.filed, tail.atop, tail.pushed, tail.opened, l)
      BY DEF Typed, TailType, Finished
    <3>7. CASE UNCHANGED tail
      BY <2>1, <3>1, <3>7
    <3>8. CASE \E filed \in BOOLEAN : tail' = [tail EXCEPT !.filed = filed]
      BY <2>1, <3>2, <3>8
    <3>9. CASE tail' = [tail EXCEPT !.atop = FinishOver]
      BY <1>4, <2>1, <3>3, <3>9
    <3>10. CASE tail' = [tail EXCEPT !.pushed = TRUE]
      BY <2>1, <3>4, <3>10
    <3>11. CASE tail' = [tail EXCEPT !.opened = TRUE]
      BY <2>1, <3>5, <3>11
    <3>12. CASE \E linked \in BOOLEAN : tail' = [tail EXCEPT !.linked = linked]
      BY <2>1, <3>6, <3>12
    <3> QED
      BY <1>0, <3>7, <3>8, <3>9, <3>10, <3>11, <3>12
  <2> QED
    BY <1>1, <2>2, FinishTails
<1> QED
  BY <1>1, <1>3, <1>5, TypesStay DEF Typed
-----------------------------------------------------------------------------
(* Steady steps keep what is said of the heads, the ranges and the reads.  *)

(* What the bottom layer's base depends on. *)
LEMMA BottomStays ==
    ASSUME UNCHANGED <<case, night.fetched, night.main, remote.head[0]>>, rows'.layers[1] = rows.layers[1]
    PROVE  \A base : BottomIs(base) => BottomIs(base)'
<1>1. Bottom' = Bottom /\ Base(1, Bottom)' = Base(1, Bottom) /\ Resolves(1, Bottom)' = Resolves(1, Bottom)
  BY DEF Base, Resolves, Bottom, LayerCandidates, OwnParent
<1> QED
  BY <1>1 DEF BottomIs

LEMMA ReadsStay ==
    ASSUME Typed, UNCHANGED <<night.fetched, night.main>>, NEW l, NEW range, Reads(l, range),
           l \in Layers', rows'.layers[l] = rows.layers[l]
    PROVE  Reads(l, range)'
  BY DEF Reads, IsBase, OwnParent

LEMMA SteadyKeeps ==
    ASSUME Inv, Typed', Steady
    PROVE  History' /\ Resolutions' /\ Readings'
<1>1. /\ UNCHANGED <<case, remote, said, rows.layers, night.fetched, night.main, night.fields>>
      /\ night.pc \notin Building /\ night'.pc \notin Building
  BY DEF Steady
<1>2. Top' = Top /\ Layers' = Layers /\ Branches' = Branches
  BY <1>1 DEF Top, Layers, Branches
<1>3. History'
  BY <1>1, <1>2 DEF Inv, History, Heads, Packages, Fetched, FollowUpOver, Unbuilt, Content
<1>4. /\ night'.pc \notin {"joinUnder", "layerUnder", "layerRead", "joinRead", "build"} \union Joining \union Walking
  BY <1>1 DEF Building, Joining, Walking
<1>5. /\ \A l \in Branches : night.fields[l] # Nothing => Reads(l, night.fields[l])
      /\ night.fields[1] # Nothing => BottomIs(night.fields[1].base)
  BY DEF Inv, Resolutions
<1>6. \A base : BottomIs(base) => BottomIs(base)'
  BY <1>1, BottomStays
<1>7. \A l, range : Reads(l, range) => Reads(l, range)'
  BY <1>1, <1>2 DEF Reads, IsBase, OwnParent
<1>8. Resolutions'
  BY <1>1, <1>2, <1>4, <1>5, <1>6, <1>7 DEF Resolutions
<1>9. Readings'
  <2>1. /\ \A l \in Branches :
              LET s == said.layer[l]
              IN  /\ s.read # Nothing => Reads(l, s.read)
                  /\ s.found # {} => s.read # Nothing /\ night.fields[l] = s.read
                  /\ \A f \in s.found : f.lens \in {"spec", "standards"} /\ f.layer = l /\ Shows(s.read, f)
        /\ \A f \in said.join.found : f.lens = "join" /\ Shows(said.join, f)
        /\ said.join.found # {} /\ night.pc \in Before1 =>
              /\ night.fields[1] # Nothing /\ night.fields[Top] # Nothing
              /\ said.join.head = night.fetched[Top] /\ BottomIs(said.join.base)
    BY DEF Inv, Readings
  <2>2. night'.pc \in Before1 => night.pc \in Before1
    BY DEF Steady
  <2> QED
    BY <1>1, <1>2, <1>4, <1>6, <1>7, <2>1, <2>2 DEF Readings, Shows
<1> QED
  BY <1>3, <1>8, <1>9
-----------------------------------------------------------------------------
(* A branch's heads, in the order in which they come. *)

LEMMA LaterIs ==
    ASSUME NEW b
    PROVE  /\ \A x : Later(b, x, x)
           /\ \A x : Later(b, x, Gone)
           /\ \A x, y, z : Later(b, x, y) /\ Later(b, y, z) /\ y # Gone => Later(b, x, z)
           /\ \A x, y : Later(b, x, y) /\ Later(b, y, x) /\ x # Gone /\ y # Gone => x = y
  BY DEF Later, Own, Redo, Gone
LEMMA NamesDiffer ==
    \A i, j \in Int :
        /\ Own(i) # Redo(j) /\ Own(i) # Push(j) /\ Redo(i) # Push(j)
        /\ Main(i) # Own(j) /\ Main(i) # Redo(j) /\ Main(i) # Push(j)
        /\ i # j => Own(i) # Own(j) /\ Redo(i) # Redo(j) /\ Push(i) # Push(j)
  BY DEF Own, Redo, Push, Main

LEMMA OthersMove ==
    ASSUME Typed, Heads, Outside
    PROVE  /\ \A b \in Branches : /\ Later(b, remote.head[b], remote'.head[b])
                                  /\ remote.head[b] = Gone => remote'.head[b] = Gone
           /\ Heads'
<1>0. /\ Branches = 0 .. case.size + 1 /\ case.size \in Nat /\ Branches \subseteq Int /\ Top \in Int
      /\ remote.head \in [Branches -> Commit] /\ UNCHANGED <<case, rows>>
  BY Basics, OutsideIs
<1>1. Branches' = Branches /\ Top' = Top
  BY <1>0 DEF Branches, Top
<1>2. /\ \A j \in Branches : j > 1 => Of(j) \intersect remote.main = {}
      /\ Unbuilt(remote.main)
      /\ \A b \in Branches : b > Top => remote.head[b] = Gone
      /\ \A b \in Branches : remote.head[b] # Gone => Content(b, remote.head[b]) /\ Unbuilt(remote.head[b])
  BY DEF Heads
<1>3. remote = [main |-> remote.main, moves |-> remote.moves, head |-> remote.head]
  BY DEF Typed, RemoteType
<1>4. ASSUME NEW main, \A j \in Branches : j > 1 => Of(j) \intersect main = {}, Unbuilt(main),
             remote' = [remote EXCEPT !.main = main, !.moves = @ + 1]
      PROVE  /\ \A b \in Branches : /\ Later(b, remote.head[b], remote'.head[b])
                                    /\ remote.head[b] = Gone => remote'.head[b] = Gone
             /\ Heads'
  <2>1. remote'.main = main /\ remote'.head = remote.head
    BY <1>3, <1>4
  <2> QED
    BY <1>0, <1>1, <1>2, <1>4, <2>1, LaterIs DEF Heads, Unbuilt, Content
<1>5. ASSUME NEW b \in Branches, NEW h, MovesHead(b, h), Live(b), Later(b, remote.head[b], h),
             h # Gone => Content(b, h) /\ Unbuilt(h)
      PROVE  /\ \A i \in Branches : /\ Later(i, remote.head[i], remote'.head[i])
                                    /\ remote.head[i] = Gone => remote'.head[i] = Gone
             /\ Heads'
  <2>1. /\ remote'.main = remote.main /\ remote'.head[b] = h
        /\ \A i \in Branches : i # b => remote'.head[i] = remote.head[i]
    BY <1>0, <1>3, <1>5 DEF MovesHead
  <2>2. b <= Top
    BY <1>0, <1>2, <1>5 DEF Live
  <2>3. \A i \in Branches : /\ Later(i, remote.head[i], remote'.head[i])
                            /\ remote.head[i] = Gone => remote'.head[i] = Gone
    BY <1>5, <2>1, LaterIs DEF Live
  <2>4. /\ \A i \in Branches : i > Top => remote'.head[i] = Gone
        /\ \A i \in Branches : remote'.head[i] # Gone => Content(i, remote'.head[i]) /\ Unbuilt(remote'.head[i])
    <3>1. ASSUME NEW i \in Branches, i > Top PROVE remote'.head[i] = Gone
      BY <1>0, <1>2, <2>1, <2>2, <3>1
    <3>2. ASSUME NEW i \in Branches, remote'.head[i] # Gone
          PROVE  Content(i, remote'.head[i]) /\ Unbuilt(remote'.head[i])
      <4>1. CASE i = b
        BY <1>5, <2>1, <3>2, <4>1
      <4>2. CASE i # b
        BY <1>2, <2>1, <3>2, <4>2
      <4> QED
        BY <4>1, <4>2
    <3> QED
      BY <3>1, <3>2
  <2> QED
    BY <1>0, <1>1, <1>2, <2>1, <2>3, <2>4 DEF Heads, Unbuilt, Content
<1>6. CASE MainMoves
  <2>1. /\ \A j \in Branches : j > 1 => Of(j) \intersect (remote.main \union {Main(1)}) = {}
        /\ Unbuilt(remote.main \union {Main(1)})
    BY <1>0, <1>2, NamesDiffer DEF Of, Unbuilt
  <2> QED
    BY <1>4, <1>6, <2>1 DEF MainMoves
<1>7. ASSUME NEW b \in Branches, Live(b)
      PROVE  /\ remote.head[b] # Gone /\ b \in Int /\ b <= Top
             /\ Content(b, remote.head[b]) /\ Unbuilt(remote.head[b])
  BY <1>0, <1>2, <1>7 DEF Live
<1>8. ASSUME NEW b \in Branches, Pushes(b)
      PROVE  /\ \A i \in Branches : /\ Later(i, remote.head[i], remote'.head[i])
                                    /\ remote.head[i] = Gone => remote'.head[i] = Gone
             /\ Heads'
  <2> DEFINE h == remote.head[b] \union {Push(b)}
  <2>1. Live(b) /\ MovesHead(b, h)
    BY <1>8 DEF Pushes
  <2>2. Content(b, h) /\ Unbuilt(h)
    BY <1>0, <1>7, <2>1, NamesDiffer DEF Content, Unbuilt, Of
  <2>3. Later(b, remote.head[b], h)
    BY DEF Later
  <2> HIDE DEF h
  <2> QED
    BY <1>5, <2>1, <2>2, <2>3
<1>9. ASSUME NEW b \in Branches, Redoes(b)
      PROVE  /\ \A i \in Branches : /\ Later(i, remote.head[i], remote'.head[i])
                                    /\ remote.head[i] = Gone => remote'.head[i] = Gone
             /\ Heads'
  <2> DEFINE h == (remote.head[b] \ {Own(b)}) \union {Redo(b)}
  <2>1. Live(b) /\ MovesHead(b, h) /\ Redo(b) \notin remote.head[b]
    BY <1>9 DEF Redoes
  <2>2. Content(b, h) /\ Unbuilt(h)
    <3>1. \A j \in Branches : j > 1 /\ j > b => Of(j) \intersect h = {}
      BY <1>0, <1>7, <2>1, NamesDiffer DEF Content, Of
    <3>2. \A j \in Branches : 1 <= j /\ j <= b => {Own(j), Redo(j)} \intersect h # {}
      <4>1. ASSUME NEW j \in Branches, 1 <= j, j <= b PROVE {Own(j), Redo(j)} \intersect h # {}
        <5>1. {Own(j), Redo(j)} \intersect remote.head[b] # {}
          BY <1>7, <2>1, <4>1 DEF Content
        <5>2. CASE j = b
          BY <5>2
        <5>3. CASE j # b
          BY <1>0, <5>1, <5>3, NamesDiffer
        <5> QED
          BY <5>2, <5>3
      <4> QED
        BY <4>1
    <3>3. Unbuilt(h)
      BY <1>0, <1>7, <2>1, NamesDiffer DEF Unbuilt, Of
    <3> QED
      BY <3>1, <3>2, <3>3 DEF Content
  <2>3. Later(b, remote.head[b], h)
    BY <2>1 DEF Later
  <2> HIDE DEF h
  <2> QED
    BY <1>5, <2>1, <2>2, <2>3
<1>10. ASSUME NEW b \in Branches, NEW s, Live(b), MovesHead(b, remote.head[b] \union s),
              \A j \in Branches : j > 1 /\ j > b => Of(j) \intersect s = {}, Unbuilt(s)
       PROVE  /\ \A i \in Branches : /\ Later(i, remote.head[i], remote'.head[i])
                                     /\ remote.head[i] = Gone => remote'.head[i] = Gone
              /\ Heads'
  <2> DEFINE h == remote.head[b] \union s
  <2>1. Content(b, h) /\ Unbuilt(h)
    BY <1>0, <1>7, <1>10 DEF Content, Unbuilt
  <2>2. Later(b, remote.head[b], h) /\ MovesHead(b, h)
    BY <1>10 DEF Later
  <2> HIDE DEF h
  <2> QED
    BY <1>5, <1>10, <2>1, <2>2
<1>11. ASSUME NEW b \in Branches, Restacks(b)
       PROVE  /\ \A i \in Branches : /\ Later(i, remote.head[i], remote'.head[i])
                                     /\ remote.head[i] = Gone => remote'.head[i] = Gone
              /\ Heads'
  <2>1. b > 0 /\ Live(b) /\ Live(b - 1) /\ MovesHead(b, remote.head[b] \union remote.head[b - 1]) /\ b - 1 \in Branches
    BY <1>0, <1>11 DEF Restacks
  <2>2. Content(b - 1, remote.head[b - 1]) /\ Unbuilt(remote.head[b - 1])
    BY <1>7, <2>1
  <2>3. \A j \in Branches : j > 1 /\ j > b => Of(j) \intersect remote.head[b - 1] = {}
    BY <1>0, <2>1, <2>2 DEF Content
  <2> QED
    BY <1>10, <2>1, <2>2, <2>3
<1>12. ASSUME NEW b \in Branches, CatchesUp(b)
       PROVE  /\ \A i \in Branches : /\ Later(i, remote.head[i], remote'.head[i])
                                     /\ remote.head[i] = Gone => remote'.head[i] = Gone
              /\ Heads'
  BY <1>2, <1>10, <1>12 DEF CatchesUp
<1>13. ASSUME NEW b \in Branches, Merges(b)
       PROVE  /\ \A i \in Branches : /\ Later(i, remote.head[i], remote'.head[i])
                                     /\ remote.head[i] = Gone => remote'.head[i] = Gone
              /\ Heads'
  <2>1. b <= 1 /\ Live(b) /\ remote' = [remote EXCEPT !.main = remote.main \union remote.head[b], !.moves = @ + 1]
    BY <1>13 DEF Merges
  <2>2. Content(b, remote.head[b]) /\ Unbuilt(remote.head[b]) /\ b \in Int
    BY <1>7, <2>1
  <2>3. /\ \A j \in Branches : j > 1 => Of(j) \intersect (remote.main \union remote.head[b]) = {}
        /\ Unbuilt(remote.main \union remote.head[b])
    BY <1>0, <1>2, <2>1, <2>2 DEF Content, Unbuilt
  <2> QED
    BY <1>4, <2>1, <2>3
<1>14. ASSUME NEW b \in Branches, Deletes(b)
       PROVE  /\ \A i \in Branches : /\ Later(i, remote.head[i], remote'.head[i])
                                     /\ remote.head[i] = Gone => remote'.head[i] = Gone
              /\ Heads'
  BY <1>5, <1>14, LaterIs DEF Deletes
<1> QED
  BY <1>6, <1>8, <1>9, <1>11, <1>12, <1>13, <1>14 DEF Outside

LEMMA OutsideKeeps ==
    ASSUME Inv, Outside
    PROVE  Inv'
<1>0. /\ RemoteType' /\ UNCHANGED <<case, rows, night, said, tail>> /\ Branches' = Branches /\ Top' = Top
      /\ Layers' = Layers
  <2>1. RemoteType' /\ UNCHANGED <<case, rows, night, said, tail>>
    BY OutsideIs DEF Inv
  <2> QED
    BY <2>1 DEF Branches, Top, Layers
<1>1. Typed'
  <2>1. Control'
    BY <1>0 DEF Inv, Typed, Control, Predecessor
  <2> QED
    BY <1>0, <2>1, TypesStay DEF Inv, Typed
<1>2. Typed /\ Heads /\ Packages /\ Fetched /\ FollowUpOver
  BY DEF Inv, History
<1>3. /\ \A b \in Branches : /\ Later(b, remote.head[b], remote'.head[b])
                             /\ remote.head[b] = Gone => remote'.head[b] = Gone
      /\ Heads'
  BY <1>2, OthersMove
<1>4. \A b \in Branches : \A x : Later(b, x, remote.head[b]) => Later(b, x, remote'.head[b])
  BY <1>3, LaterIs
<1>5. Layers \subseteq Branches /\ 0 \in Branches /\ \A i \in Layers : i - 1 \in Branches
  BY <1>2, Basics
<1>6. Packages'
  BY <1>0, <1>2, <1>4, <1>5 DEF Packages, Content
<1>7. Fetched'
  BY <1>0, <1>2, <1>4, <1>5 DEF Fetched, Content
<1>8. FollowUpOver'
  BY <1>0, <1>2, <1>4, <1>5 DEF FollowUpOver
<1>9. \A base : BottomIs(base) => BottomIs(base)'
  <2>1. Bottom' = Bottom /\ Base(1, Bottom)' = Base(1, Bottom) /\ Resolves(1, Bottom)' = Resolves(1, Bottom)
    BY <1>0 DEF Base, Resolves, Bottom, LayerCandidates, OwnParent
  <2> QED
    BY <1>0, <1>3, <1>5, <2>1 DEF BottomIs
<1>10. \A l, range : Reads(l, range)' = Reads(l, range)
  BY <1>0 DEF Reads, IsBase, OwnParent
<1>11. Resolutions' /\ Readings'
  BY <1>0, <1>9, <1>10 DEF Inv, Resolutions, Readings, Shows, At
<1>12. Deciding' /\ Accounts' /\ Finishing'
  BY <1>0 DEF Inv, Deciding, RangeIs, LayerOf, Shows, Accounts, Qualifieds, Key, FoundIn, Group, Waiting, IsPooled,
              Finishing, Agreed, GradedHead, Graded, Packaged, OwnParent, At
<1> QED
  BY <1>1, <1>3, <1>6, <1>7, <1>8, <1>11, <1>12 DEF Inv, History
-----------------------------------------------------------------------------
(* The finish keeps the invariant: a head found as it was read is one that *)
(* never moved.                                                            *)

LEMMA StandsAgrees ==
    ASSUME Inv, NEW l \in Layers, Stands(l)
    PROVE  Agreed(l)
<1>1. /\ Typed /\ Layers \subseteq Branches /\ l \in Branches /\ Layers = 1 .. Top /\ Top \in Int
      /\ remote.head[l] = GradedHead(l)
      /\ GradedHead(l) = IF night.fields[l] # Nothing THEN night.fields[l].head ELSE rows.layers[l].pushed
  BY Basics, GradedIs DEF Inv, Stands, GradedHead
<1>2. /\ rows.layers[l].pushed # Gone /\ Later(l, rows.layers[l].pushed, remote.head[l])
      /\ night.fetched[l] # Gone => /\ Later(l, rows.layers[l].pushed, night.fetched[l])
                                    /\ Later(l, night.fetched[l], remote.head[l])
  BY <1>1 DEF Inv, History, Packages, Fetched, Gone
<1>3. night.fields[l] # Nothing => night.fetched[l] # Gone /\ night.fields[l].head = night.fetched[l]
  BY <1>1 DEF Inv, Resolutions, Reads
<1>4. said.layer[l].read # Nothing => night.fetched[l] # Gone /\ said.layer[l].read.head = night.fetched[l]
  BY <1>1 DEF Inv, Readings, Reads
<1>5. said.layer[l].read # Nothing => said.layer[l].read.head = GradedHead(l)
  BY <1>1, <1>2, <1>3, <1>4, LaterIs
<1>6. ASSUME l + 1 \in Layers, rows.layers[l + 1].gen = 1
      PROVE  rows.layers[l + 1].pushed \ {Own(l + 1)} = GradedHead(l)
  <2> DEFINE under == rows.layers[l + 1].pushed \ {Own(l + 1)}
  <2>1. l + 1 - 1 = l
    BY <1>1
  <2>2. /\ under # Gone /\ Later(l, rows.layers[l].pushed, under) /\ Later(l, under, remote.head[l])
        /\ night.fetched[l] # Gone => Later(l, night.fetched[l], under)
    <3>1. ASSUME NEW i \in Layers, rows.layers[i].gen = 1, i - 1 = l
          PROVE  /\ rows.layers[i].pushed \ {Own(i)} # Gone
                 /\ Later(l, rows.layers[l].pushed, rows.layers[i].pushed \ {Own(i)})
                 /\ Later(l, rows.layers[i].pushed \ {Own(i)}, remote.head[l])
                 /\ night.fetched[l] # Gone => Later(l, night.fetched[l], rows.layers[i].pushed \ {Own(i)})
      BY <3>1 DEF Inv, History, FollowUpOver
    <3>2. PICK i \in Layers : i = l + 1
      BY <1>6
    <3>3. rows.layers[i].gen = 1 /\ i - 1 = l
      BY <1>1, <1>6, <3>2
    <3> QED
      BY <3>1, <3>2, <3>3
  <2> HIDE DEF under
  <2>3. under = GradedHead(l)
    BY <1>1, <1>2, <1>3, <2>2, LaterIs
  <2> QED
    BY <2>3 DEF under
<1> QED
  BY <1>5, <1>6 DEF Agreed

LEMMA AgreedStays ==
    ASSUME Typed, Steady, NEW i \in Layers
    PROVE  GradedHead(i)' = GradedHead(i) /\ (Agreed(i) => Agreed(i)') /\ Layers' = Layers /\ Top' = Top
<1>1. Layers' = Layers /\ Top' = Top /\ rows'.layers = rows.layers /\ night'.fields = night.fields /\ said' = said
  BY DEF Steady, Layers, Top
<1>2. GradedHead(i)' = GradedHead(i)
  BY <1>1 DEF GradedHead, Graded, Packaged, OwnParent
<1> QED
  BY <1>1, <1>2 DEF Agreed

LEMMA FinishKeeps ==
    ASSUME Inv, Finish
    PROVE  Inv'
<1>1. /\ Typed' /\ Steady /\ night.pc \in Ending /\ night'.pc \in Ending
      /\ UNCHANGED <<case, remote, rows, said, night.ranges, night.groups, night.group>> /\ Kept1
  BY FinishTyped DEF Inv
<1>2. History' /\ Resolutions' /\ Readings'
  BY <1>1, SteadyKeeps
<1>3. Top' = Top /\ Layers' = Layers /\ Branches' = Branches
  BY <1>1 DEF Top, Layers, Branches
<1>4. Deciding'
  <2>1. Deciding
    BY DEF Inv
  <2> QED
    BY <1>1, <1>3, <2>1 DEF Deciding, RangeIs, Shows, Ending, Joining, Walking
<1>5. Accounts'
  <2>1. Accounts
    BY DEF Inv
  <2> QED
    BY <1>1, <2>1 DEF Accounts, Kept1, Qualifieds, Key, FoundIn, Group, Waiting, IsPooled, Ending, Joining, Walking
<1>6. Finishing'
  <2>1. Typed /\ Finishing /\ Top >= 1 /\ Top \in Layers /\ Layers = 1 .. Top /\ Top \in Int
    BY <1>1, Basics DEF Inv, Typed, Control, Ending
  <2>2. PICK p \in Ending, a \in Int : FinishTo(p, a)
    BY <2>1, FinishIs
  <2>3. night'.pc = p /\ night'.at = a
    BY <2>1, <2>2 DEF Typed, NightType, FinishTo
  <2>4. /\ \A i \in Layers : GradedHead(i)' = GradedHead(i) /\ (Agreed(i) => Agreed(i)')
        /\ GradedHead(Top)' = GradedHead(Top)
    BY <1>1, <2>1, AgreedStays
  <2>5. \/ tail'.atop = tail.atop /\ tail'.pushed = tail.pushed
        \/ tail'.atop = FinishOver /\ tail'.pushed = tail.pushed /\ p = "check" /\ a = 1 /\ night.pc = "commit"
        \/ tail'.atop = tail.atop /\ tail'.pushed = TRUE /\ p = "open" /\ night.pc = "push"
    BY <2>1, <2>2 DEF FinishTo, Typed, TailType
  <2>6. /\ p = "check" => \/ tail'.atop = FinishOver /\ a = 1 /\ night.pc = "commit"
                          \/ night.pc = "check" /\ UNCHANGED tail /\ Stands(At) /\ At \in Layers /\ a = At + 1
        /\ p = "push" => night.pc = "check" /\ At = Top + 1 /\ UNCHANGED tail
        /\ p = "open" => night.pc = "push"
        /\ p = "link" => night.pc = "open"
        /\ p # "json" /\ (p = "commit" => night.pc = "json")
    BY <2>1, <2>2 DEF FinishTo, Typed, TailType
  <2>7. tail'.pushed => p \in {"open", "link", "done"}
    BY <2>1, <2>5, <2>6 DEF Finishing, Ending
  <2>8. p \in {"check", "push", "open", "link"} \/ tail'.pushed => tail'.atop = GradedHead(Top)'
    BY <2>1, <2>4, <2>5, <2>6 DEF Finishing, FinishOver
  <2>9. p = "check" => \A i \in Layers : i < a => Agreed(i)'
    <3>1. ASSUME p = "check", NEW i \in Layers, i < a PROVE Agreed(i)'
      <4>1. CASE a = 1
        BY <2>1, <3>1, <4>1
      <4>2. CASE night.pc = "check" /\ Stands(At) /\ At \in Layers /\ a = At + 1
        <5>1. i < At \/ i = At
          BY <2>1, <3>1, <4>2
        <5>2. Agreed(i)
          BY <2>1, <4>2, <5>1, StandsAgrees DEF Finishing
        <5> QED
          BY <2>4, <5>2
      <4> QED
        BY <2>6, <3>1, <4>1, <4>2
    <3> QED
      BY <3>1
  <2>10. p \in {"push", "open", "link"} \/ tail'.pushed => \A i \in Layers : Agreed(i)'
    <3>1. p = "push" => \A i \in Layers : Agreed(i)
      BY <2>1, <2>6 DEF Finishing
    <3>2. p \in {"open", "link"} \/ tail'.pushed => \A i \in Layers : Agreed(i)
      BY <2>1, <2>5, <2>6 DEF Finishing
    <3> QED
      BY <2>4, <3>1, <3>2
  <2> QED
    BY <1>3, <2>3, <2>7, <2>8, <2>9, <2>10 DEF Finishing, At
<1> QED
  BY <1>1, <1>2, <1>4, <1>5, <1>6 DEF Inv
-----------------------------------------------------------------------------
(* The writing keeps the accounts: what is in hand goes to the backlog, to *)
(* the writer or into a follow-up.                                         *)

LEMMA AppendedIs ==
    ASSUME NEW T, NEW s \in Seq(T), NEW x \in T
    PROVE  /\ DOMAIN Append(s, x) = 1 .. Len(s) + 1 /\ DOMAIN s = 1 .. Len(s) /\ Len(s) \in Nat
           /\ Append(s, x)[Len(s) + 1] = x
           /\ \A i \in 1 .. Len(s) : Append(s, x)[i] = s[i]
  OBVIOUS

(* The findings of the group at hand that nobody has yet. *)
InHand == IF night.pc = "groups" THEN FoundIn(Group) ELSE night.group

Adds(found) == \/ tail'.pooled = Append(tail.pooled, Item(Group, found))
               \/ found = {} /\ tail'.pooled = tail.pooled

LEMMA AddsKeeps ==
    ASSUME Typed, Accounts, UNCHANGED rows, tail.kept, night.groups # <<>>, night.pc \in {"groups", "draft"},
           NEW found \in SUBSET InHand, Adds(found)
    PROVE  /\ \A i \in DOMAIN tail'.pooled : /\ tail'.pooled[i].found \subseteq FoundIn(tail'.pooled[i].key)
                                             /\ tail'.pooled[i].key \notin ToSet(Tail(night.groups))
                                             /\ tail'.pooled[i].key = Group
                                                  => tail'.pooled[i].found \intersect (InHand \ found) = {}
           /\ \A i, j \in DOMAIN tail'.pooled :
                 i # j /\ tail'.pooled[i].key = tail'.pooled[j].key
                    => tail'.pooled[i].found \intersect tail'.pooled[j].found = {}
           /\ \A q : IsPooled(q) => IsPooled(q)'
           /\ \A q : Key(q) = Group /\ q.finding \in found => IsPooled(q)'
           /\ Group \notin ToSet(Tail(night.groups))
           /\ \A i, j \in DOMAIN Tail(night.groups) : i # j => Tail(night.groups)[i] # Tail(night.groups)[j]
           /\ \A q \in Qualifieds : Key(q) = Group => \/ q.finding \in InHand
                                                      \/ IsPooled(q) \/ Key(q) \in tail.minted
           /\ \A q \in Qualifieds : Key(q) # Group => \/ Key(q) \in ToSet(Tail(night.groups))
                                                      \/ IsPooled(q) \/ Key(q) \in tail.minted
<1>0. \A k : FoundIn(k)' = FoundIn(k)
  BY DEF FoundIn
<1>1. /\ night.groups \in Seq(KeySet) /\ Group \in KeySet /\ Tail(night.groups) \in Seq(KeySet)
      /\ Len(night.groups) >= 1 /\ Len(night.groups) \in Nat /\ Group = night.groups[1]
      /\ DOMAIN night.groups = 1 .. Len(night.groups)
      /\ DOMAIN Tail(night.groups) = 1 .. Len(night.groups) - 1
      /\ \A i \in 1 .. Len(night.groups) - 1 : Tail(night.groups)[i] = night.groups[i + 1]
      /\ ToSet(night.groups) = {Group} \union ToSet(Tail(night.groups))
  BY GroupIs
<1>2. \A i, j \in DOMAIN night.groups : i # j => night.groups[i] # night.groups[j]
  BY DEF Accounts
<1>3. Group \notin ToSet(Tail(night.groups))
  <2>1. ASSUME NEW i \in 1 .. Len(night.groups) - 1 PROVE Tail(night.groups)[i] # Group
    <3>1. i + 1 \in DOMAIN night.groups /\ 1 \in DOMAIN night.groups /\ i + 1 # 1
      BY <1>1
    <3> QED
      BY <1>1, <1>2, <3>1
  <2> QED
    BY <1>1, <2>1 DEF ToSet
<1>4. \A i, j \in DOMAIN Tail(night.groups) : i # j => Tail(night.groups)[i] # Tail(night.groups)[j]
  <2>1. ASSUME NEW i \in 1 .. Len(night.groups) - 1, NEW j \in 1 .. Len(night.groups) - 1, i # j
        PROVE  Tail(night.groups)[i] # Tail(night.groups)[j]
    <3>1. i + 1 \in DOMAIN night.groups /\ j + 1 \in DOMAIN night.groups /\ i + 1 # j + 1
      BY <1>1, <2>1
    <3> QED
      BY <1>1, <1>2, <3>1
  <2> QED
    BY <1>1, <2>1
<1>5. InHand \subseteq FoundIn(Group)
  BY DEF InHand, Accounts
<1>6. ASSUME NEW i \in DOMAIN tail.pooled
      PROVE  /\ tail.pooled[i].found \subseteq FoundIn(tail.pooled[i].key)
             /\ tail.pooled[i].key \notin ToSet(Tail(night.groups))
             /\ tail.pooled[i].key = Group => tail.pooled[i].found \intersect InHand = {}
  BY <1>1, <1>6 DEF Accounts, Waiting, InHand
<1>7. \A i, j \in DOMAIN tail.pooled :
         i # j /\ tail.pooled[i].key = tail.pooled[j].key
            => tail.pooled[i].found \intersect tail.pooled[j].found = {}
  BY DEF Accounts
<1>8. ASSUME NEW q \in Qualifieds
      PROVE  /\ Key(q) = Group => q.finding \in InHand \/ IsPooled(q) \/ Key(q) \in tail.minted
             /\ Key(q) # Group => Key(q) \in ToSet(Tail(night.groups)) \/ IsPooled(q) \/ Key(q) \in tail.minted
  <2>1. \/ night.pc \in {"groups", "draft"} /\ Key(q) \in Waiting
        \/ night.pc = "draft" /\ Key(q) = Group /\ q.finding \in night.group
        \/ IsPooled(q) \/ Key(q) \in tail.minted
    BY DEF Accounts
  <2>2. q.finding \in FoundIn(Key(q))
    BY DEF FoundIn, Qualifieds
  <2> QED
    BY <1>1, <1>3, <2>1, <2>2 DEF Waiting, InHand
<1>9. CASE found = {} /\ tail'.pooled = tail.pooled
  BY <1>0, <1>3, <1>4, <1>6, <1>7, <1>8, <1>9 DEF IsPooled
<1>10. CASE tail'.pooled = Append(tail.pooled, Item(Group, found))
  <2> DEFINE x == Item(Group, found)
             n == Len(tail.pooled) + 1
  <2>1. x.key = Group /\ x.found = found
    BY DEF Item
  <2>2. /\ DOMAIN tail'.pooled = 1 .. n /\ DOMAIN tail.pooled = 1 .. n - 1 /\ n \in Nat /\ n > 0
        /\ tail'.pooled[n] = x /\ \A i \in 1 .. n - 1 : tail'.pooled[i] = tail.pooled[i]
    <3>1. tail.pooled \in Seq([key : KeySet, found : SUBSET case.finds]) /\ x \in [key : KeySet, found : SUBSET case.finds]
      BY <1>1, <1>5, FoundInIs DEF Typed, TailType, Item
    <3> QED
      BY <1>10, <3>1, AppendedIs
  <2> HIDE DEF x
  <2>3. ASSUME NEW i \in DOMAIN tail'.pooled
        PROVE  /\ tail'.pooled[i].found \subseteq FoundIn(tail'.pooled[i].key)
               /\ tail'.pooled[i].key \notin ToSet(Tail(night.groups))
               /\ tail'.pooled[i].key = Group => tail'.pooled[i].found \intersect (InHand \ found) = {}
    <3>1. CASE i = n
      BY <1>0, <1>3, <1>5, <2>1, <2>2, <3>1
    <3>2. CASE i # n
      <4>1. i \in DOMAIN tail.pooled /\ tail'.pooled[i] = tail.pooled[i]
        BY <2>2, <2>3, <3>2
      <4> QED
        BY <1>0, <1>6, <4>1
    <3> QED
      BY <3>1, <3>2
  <2>4. ASSUME NEW i \in DOMAIN tail'.pooled, NEW j \in DOMAIN tail'.pooled, i # j,
               tail'.pooled[i].key = tail'.pooled[j].key
        PROVE  tail'.pooled[i].found \intersect tail'.pooled[j].found = {}
    <3>1. ASSUME NEW k \in DOMAIN tail'.pooled, k # n, tail'.pooled[k].key = Group
          PROVE  tail'.pooled[k].found \intersect found = {}
      <4>1. k \in DOMAIN tail.pooled /\ tail'.pooled[k] = tail.pooled[k]
        BY <2>2, <3>1
      <4> QED
        BY <1>6, <3>1, <4>1
    <3>2. CASE i = n
      BY <2>1, <2>2, <2>4, <3>1, <3>2
    <3>3. CASE j = n
      BY <2>1, <2>2, <2>4, <3>1, <3>3
    <3>4. CASE i # n /\ j # n
      <4>1. /\ i \in DOMAIN tail.pooled /\ tail'.pooled[i] = tail.pooled[i]
            /\ j \in DOMAIN tail.pooled /\ tail'.pooled[j] = tail.pooled[j]
        BY <2>2, <2>4, <3>4
      <4> QED
        BY <1>7, <2>4, <4>1
    <3> QED
      BY <3>2, <3>3, <3>4
  <2>5. \A q : IsPooled(q) => IsPooled(q)'
    <3>1. ASSUME NEW q, IsPooled(q) PROVE IsPooled(q)'
      <4>1. PICK i \in DOMAIN tail.pooled : tail.pooled[i].key = Key(q) /\ q.finding \in tail.pooled[i].found
        BY <3>1 DEF IsPooled
      <4>2. i \in DOMAIN tail'.pooled /\ tail'.pooled[i] = tail.pooled[i]
        BY <2>2
      <4> QED
        BY <4>1, <4>2 DEF IsPooled, Key
    <3> QED
      BY <3>1
  <2>6. \A q : Key(q) = Group /\ q.finding \in found => IsPooled(q)'
    <3>1. ASSUME NEW q, Key(q) = Group, q.finding \in found PROVE IsPooled(q)'
      <4>1. n \in DOMAIN tail'.pooled /\ tail'.pooled[n].key = Key(q) /\ q.finding \in tail'.pooled[n].found
        BY <2>1, <2>2, <3>1
      <4> QED
        BY <4>1 DEF IsPooled, Key
    <3> QED
      BY <3>1
  <2> QED
    BY <1>3, <1>4, <1>8, <2>3, <2>4, <2>5, <2>6
<1> QED
  BY <1>9, <1>10 DEF Adds
(* The group is through, or the rest of it is the writer's. *)
LEMMA GroupMoves ==
    ASSUME Typed, Accounts, UNCHANGED rows, tail.kept, night.groups # <<>>, night.pc \in {"groups", "draft"},
           NEW found \in SUBSET InHand, Adds(found), tail'.kept = tail.kept, tail.minted \subseteq tail'.minted,
           night'.ranges = night.ranges,
           \/ /\ night'.pc = "groups" /\ night'.groups = Tail(night.groups)
              /\ found = InHand \/ Group \in tail'.minted
           \/ /\ night'.pc = "draft" /\ night'.groups = night.groups /\ night'.group = InHand \ found
    PROVE  Accounts'
<1>1. /\ \A i \in DOMAIN tail'.pooled : /\ tail'.pooled[i].found \subseteq FoundIn(tail'.pooled[i].key)
                                        /\ tail'.pooled[i].key \notin ToSet(Tail(night.groups))
                                        /\ tail'.pooled[i].key = Group
                                             => tail'.pooled[i].found \intersect (InHand \ found) = {}
      /\ \A i, j \in DOMAIN tail'.pooled :
            i # j /\ tail'.pooled[i].key = tail'.pooled[j].key
               => tail'.pooled[i].found \intersect tail'.pooled[j].found = {}
      /\ \A q : IsPooled(q) => IsPooled(q)'
      /\ \A q : Key(q) = Group /\ q.finding \in found => IsPooled(q)'
      /\ Group \notin ToSet(Tail(night.groups))
      /\ \A i, j \in DOMAIN Tail(night.groups) : i # j => Tail(night.groups)[i] # Tail(night.groups)[j]
      /\ \A q \in Qualifieds : Key(q) = Group => \/ q.finding \in InHand
                                                 \/ IsPooled(q) \/ Key(q) \in tail.minted
      /\ \A q \in Qualifieds : Key(q) # Group => \/ Key(q) \in ToSet(Tail(night.groups))
                                                 \/ IsPooled(q) \/ Key(q) \in tail.minted
  BY AddsKeeps
<1>2. Qualifieds' = Qualifieds /\ (\A k : FoundIn(k)' = FoundIn(k)) /\ \A q : Key(q)' = Key(q)
  BY DEF Qualifieds, FoundIn, Key
<1>3. night.ranges = {} /\ InHand \subseteq FoundIn(Group)
      /\ \A i, j \in DOMAIN night.groups : i # j => night.groups[i] # night.groups[j]
  BY DEF Accounts, InHand
<1>4. CASE /\ night'.pc = "groups" /\ night'.groups = Tail(night.groups)
           /\ found = InHand \/ Group \in tail'.minted
  <2>1. Waiting' = ToSet(Tail(night.groups))
    BY <1>4 DEF Waiting
  <2>2. \A q \in Qualifieds : \/ Key(q) \in ToSet(Tail(night.groups)) \/ IsPooled(q)' \/ Key(q) \in tail'.minted
    BY <1>1, <1>4
  <2> QED
    BY <1>1, <1>2, <1>3, <1>4, <2>1, <2>2 DEF Accounts, Joining, Walking
<1>5. CASE night'.pc = "draft" /\ night'.groups = night.groups /\ night'.group = InHand \ found
  <2>1. Waiting' = ToSet(Tail(night.groups)) /\ Group' = Group
    BY <1>5 DEF Waiting, Group
  <2>2. \A q \in Qualifieds : \/ Key(q) \in ToSet(Tail(night.groups)) \/ IsPooled(q)' \/ Key(q) \in tail'.minted
                              \/ Key(q) = Group /\ q.finding \in InHand \ found
    BY <1>1
  <2> QED
    BY <1>1, <1>2, <1>3, <1>5, <2>1, <2>2 DEF Accounts, Joining, Walking
<1> QED
  BY <1>4, <1>5

(* A finding has one key, whatever it was decided with. *)
LEMMA OneKey ==
    ASSUME Deciding, night.pc \in {"groups", "draft"}, NEW k, NEW q \in Qualifieds, q.finding \in FoundIn(k)
    PROVE  k = Key(q)
<1>1. PICK d \in rows.quals : Key(d) = k /\ d.finding = q.finding
  BY DEF FoundIn
<1>2. d.layer = LayerOf(d.finding) /\ q.layer = LayerOf(q.finding)
  BY <1>1 DEF Deciding, Qualifieds
<1> QED
  BY <1>1, <1>2 DEF Key

LEMMA RaiseAccounts ==
    ASSUME Inv, NEW minted, FollowUpsRaise(minted)
    PROVE  Accounts'
<1>1. /\ night.pc \in {"groups", "draft"} /\ tail.kept /\ night.groups # <<>> /\ UNCHANGED <<case, remote, rows, said>>
      /\ WroteTo("json", <<>>, night.group)
  BY FollowUpsRaiseIs DEF Inv
<1>2. PICK left \in Seq(Unpooled) :
                 /\ ToSet(left) = Unpooled /\ \A i, j \in DOMAIN left : i # j => left[i] # left[j]
                 /\ [i \in DOMAIN left |-> Item(left[i], Rest(left[i]))] \in Seq([key : KeySet, found : SUBSET case.finds])
                 /\ Told(tail.pooled \o [i \in DOMAIN left |-> Item(left[i], Rest(left[i]))], tail.minted)
  BY FollowUpsRaiseIs DEF Inv
<1> DEFINE more == [i \in DOMAIN left |-> Item(left[i], Rest(left[i]))]
           n == Len(tail.pooled)
<1>3. tail'.pooled = tail.pooled \o more /\ tail'.minted = tail.minted /\ tail'.kept = tail.kept
      /\ night'.pc = "json" /\ night'.groups = <<>> /\ night'.ranges = night.ranges
  BY <1>1, <1>2 DEF Told, WroteTo
<1>4. Typed /\ Deciding /\ Accounts
  BY DEF Inv
<1>5. tail.pooled \in Seq([key : KeySet, found : SUBSET case.finds])
      /\ more \in Seq([key : KeySet, found : SUBSET case.finds])
  BY <1>2, <1>4 DEF Typed, TailType
<1>6. DOMAIN more = DOMAIN left /\ DOMAIN left = 1 .. Len(left) /\ Len(more) = Len(left) /\ Len(left) \in Nat
      /\ \A i \in DOMAIN left : more[i].key = left[i] /\ more[i].found = Rest(left[i])
  <2>1. DOMAIN more = DOMAIN left /\ DOMAIN left = 1 .. Len(left) /\ Len(left) \in Nat
        /\ \A i \in DOMAIN left : more[i].key = left[i] /\ more[i].found = Rest(left[i])
    BY DEF Item
  <2> HIDE DEF more
  <2>2. DOMAIN more = 1 .. Len(more) /\ Len(more) \in Nat
    BY <1>5
  <2> QED
    BY <2>1, <2>2
<1> HIDE DEF more
<1>7. /\ DOMAIN tail'.pooled = 1 .. n + Len(left) /\ n \in Nat /\ DOMAIN tail.pooled = 1 .. n
      /\ \A i \in 1 .. n : tail'.pooled[i] = tail.pooled[i]
      /\ \A i \in DOMAIN left : tail'.pooled[n + i] = more[i]
  <2>1. /\ DOMAIN (tail.pooled \o more) = 1 .. n + Len(more)
        /\ \A i \in 1 .. n + Len(more) : (tail.pooled \o more)[i] = IF i <= n THEN tail.pooled[i] ELSE more[i - n]
    BY <1>5, JoinedIs
  <2>2. n \in Nat /\ DOMAIN tail.pooled = 1 .. n
    BY <1>5
  <2>3. ASSUME NEW i \in DOMAIN left PROVE tail'.pooled[n + i] = more[i]
    <3>1. n + i \in 1 .. n + Len(more) /\ ~(n + i <= n) /\ n + i - n = i
      BY <1>6, <2>2, <2>3
    <3> QED
      BY <1>3, <2>1, <3>1
  <2>4. DOMAIN tail'.pooled = 1 .. n + Len(left)
    BY <1>3, <1>6, <2>1
  <2>5. ASSUME NEW i \in 1 .. n PROVE tail'.pooled[i] = tail.pooled[i]
    <3>1. i \in 1 .. n + Len(more) /\ i <= n
      BY <1>6, <2>2, <2>5
    <3> QED
      BY <1>3, <2>1, <3>1
  <2> QED
    BY <2>2, <2>3, <2>4, <2>5
<1>8. ASSUME NEW i \in DOMAIN tail'.pooled, ~(i <= n)
      PROVE  \E k \in DOMAIN left : i = n + k /\ tail'.pooled[i].key = left[k] /\ tail'.pooled[i].found = Rest(left[k])
  <2>1. i - n \in DOMAIN left /\ i = n + (i - n)
    BY <1>6, <1>7, <1>8
  <2> QED
    BY ZenonT(60), <1>6, <1>7, <2>1
<1>9. ASSUME NEW i \in DOMAIN tail'.pooled, i <= n
      PROVE  i \in DOMAIN tail.pooled /\ tail'.pooled[i] = tail.pooled[i]
  BY <1>7, <1>9
<1>10. Qualifieds' = Qualifieds /\ (\A k : FoundIn(k)' = FoundIn(k)) /\ \A q : Key(q)' = Key(q)
  BY <1>1 DEF Qualifieds, FoundIn, Key
<1>11. \A i \in DOMAIN tail'.pooled : tail'.pooled[i].found \subseteq FoundIn(tail'.pooled[i].key)
  <2>1. \A k : Rest(k) \subseteq FoundIn(k)
    BY DEF Rest
  <2> QED
    BY <1>4, <1>8, <1>9, <2>1 DEF Accounts
<1>12. \A i \in DOMAIN tail.pooled : \A k : tail.pooled[i].found \intersect Rest(k) = {}
  BY DEF Rest, PooledAlready, ToSet
<1>13. ASSUME NEW i \in DOMAIN tail'.pooled, NEW j \in DOMAIN tail'.pooled, i # j,
              tail'.pooled[i].key = tail'.pooled[j].key
       PROVE  tail'.pooled[i].found \intersect tail'.pooled[j].found = {}
  <2>1. CASE i <= n /\ j <= n
    BY <1>4, <1>9, <1>13, <2>1 DEF Accounts
  <2>2. CASE i <= n /\ ~(j <= n)
    BY <1>8, <1>9, <1>12, <2>2
  <2>3. CASE ~(i <= n) /\ j <= n
    BY <1>8, <1>9, <1>12, <2>3
  <2>4. CASE ~(i <= n) /\ ~(j <= n)
    <3>1. PICK k \in DOMAIN left : i = n + k /\ tail'.pooled[i].key = left[k]
      BY <1>8, <2>4
    <3>2. PICK m \in DOMAIN left : j = n + m /\ tail'.pooled[j].key = left[m]
      BY <1>8, <2>4
    <3> QED
      BY <1>2, <1>13, <3>1, <3>2
  <2> QED
    BY <2>1, <2>2, <2>3, <2>4
<1>14. ASSUME NEW q \in Qualifieds PROVE IsPooled(q)' \/ Key(q) \in tail'.minted
  <2>1. \/ Key(q) \in ToSet(night.groups) \/ IsPooled(q) \/ Key(q) \in tail.minted
    BY <1>1, <1>4, GroupIs DEF Accounts, Waiting
  <2>2. CASE IsPooled(q)
    <3>1. PICK i \in DOMAIN tail.pooled : tail.pooled[i].key = Key(q) /\ q.finding \in tail.pooled[i].found
      BY <2>2 DEF IsPooled
    <3>2. i \in DOMAIN tail'.pooled /\ tail'.pooled[i] = tail.pooled[i]
      BY <1>6, <1>7
    <3> QED
      BY <1>10, <3>1, <3>2 DEF IsPooled
  <2>3. CASE Key(q) \in ToSet(night.groups) /\ ~IsPooled(q)
    <3>1. q.finding \in FoundIn(Key(q))
      BY DEF FoundIn, Qualifieds
    <3>2. q.finding \notin PooledAlready(tail.pooled)
      <4>1. SUFFICES ASSUME NEW i \in DOMAIN tail.pooled, q.finding \in tail.pooled[i].found PROVE FALSE
        BY DEF PooledAlready, ToSet
      <4>2. q.finding \in FoundIn(tail.pooled[i].key)
        BY <1>4, <4>1 DEF Accounts
      <4>3. tail.pooled[i].key = Key(q)
        BY <1>1, <1>4, <4>2, OneKey
      <4> QED
        BY <2>3, <4>1, <4>3 DEF IsPooled
    <3>3. q.finding \in Rest(Key(q)) /\ Key(q) \in Unpooled
      BY <2>3, <3>1, <3>2 DEF Rest, Unpooled
    <3>4. PICK k \in DOMAIN left : left[k] = Key(q)
      BY <1>2, <3>3 DEF ToSet
    <3>5. n + k \in DOMAIN tail'.pooled /\ tail'.pooled[n + k].key = Key(q) /\ q.finding \in tail'.pooled[n + k].found
      BY <1>6, <1>7, <3>3, <3>4
    <3> QED
      BY <1>10, <3>5 DEF IsPooled
  <2> QED
    BY <1>3, <2>1, <2>2, <2>3
<1>15. night.ranges = {}
  BY <1>1, <1>4 DEF Accounts
<1>16. DOMAIN night'.groups = {}
  BY <1>3
<1>17. /\ \A i \in DOMAIN tail'.pooled : tail'.pooled[i].found \subseteq FoundIn(tail'.pooled[i].key)
       /\ \A i, j \in DOMAIN tail'.pooled :
             i # j /\ tail'.pooled[i].key = tail'.pooled[j].key
                => tail'.pooled[i].found \intersect tail'.pooled[j].found = {}
       /\ \A q \in Qualifieds' : IsPooled(q)' \/ Key(q)' \in tail'.minted
  BY <1>10, <1>11, <1>13, <1>14
<1> QED
  BY <1>1, <1>3, <1>10, <1>15, <1>16, <1>17 DEF Accounts, Ending, Joining, Walking
LEMMA EndsAccounts ==
    ASSUME Inv, WritingEnds \/ FollowUpUnrun
    PROVE  Accounts'
<1>1. UNCHANGED <<case, remote, rows, said, tail>> /\ night.pc \in {"groups", "run"} /\ Typed /\ Accounts
      /\ (night.pc = "groups" => night.groups = <<>> /\ tail.kept)
  BY DEF WritingEnds, FollowUpUnrun, Inv
<1>2. \E p \in {"run", "json"} : night' = [night EXCEPT !.pc = p]
  BY DEF WritingEnds, FollowUpUnrun
<1>3. night'.pc \in {"run", "json"} /\ UNCHANGED <<night.ranges, night.groups, night.group>>
  BY <1>1, <1>2, MovesTyped
<1>4. Qualifieds' = Qualifieds /\ (\A k : FoundIn(k)' = FoundIn(k)) /\ (\A q : Key(q)' = Key(q))
      /\ \A q : IsPooled(q)' = IsPooled(q)
  BY <1>1 DEF Qualifieds, FoundIn, Key, IsPooled
<1>5. tail.kept
  BY <1>1 DEF Accounts
<1>6. \A q \in Qualifieds : IsPooled(q) \/ Key(q) \in tail.minted
  <2>1. night.pc = "groups" => Waiting = {}
    BY <1>1 DEF Waiting, ToSet
  <2> QED
    BY <1>1, <1>5, <2>1 DEF Accounts
<1> QED
  BY <1>1, <1>3, <1>4, <1>5, <1>6 DEF Accounts, Ending, Joining, Walking

LEMMA SessionAccounts ==
    ASSUME Inv, NEW turns, WriteRaises \/ DraftIs(turns)
    PROVE  Accounts'
<1>1. /\ night.pc = "draft" /\ tail.kept /\ night.groups # <<>> /\ UNCHANGED <<case, remote, rows, said>>
      /\ \/ Onward(night.group)
         \/ WroteTo("draft", night.groups, night.group) /\ UNCHANGED tail
         \/ WroteTo("groups", Tail(night.groups), {}) /\ Told(tail.pooled, tail.minted \union {Group})
  BY SessionIs DEF Inv
<1>2. Typed /\ Accounts /\ InHand = night.group
  BY <1>1 DEF Inv, InHand
<1>3. CASE Onward(night.group)
  <2>1. /\ Adds(night.group) /\ tail'.kept = tail.kept /\ tail.minted \subseteq tail'.minted
        /\ night'.ranges = night.ranges /\ night'.pc = "groups" /\ night'.groups = Tail(night.groups)
    BY <1>3 DEF Onward, Told, WroteTo, Adds
  <2> QED
    BY <1>1, <1>2, <2>1, GroupMoves
<1>4. CASE WroteTo("draft", night.groups, night.group) /\ UNCHANGED tail
  <2>1. /\ Adds({}) /\ tail'.kept = tail.kept /\ tail.minted \subseteq tail'.minted /\ {} \in SUBSET InHand
        /\ night'.ranges = night.ranges /\ night'.pc = "draft" /\ night'.groups = night.groups
        /\ night'.group = InHand \ {}
    BY <1>2, <1>4 DEF WroteTo, Adds
  <2> QED
    BY <1>1, <1>2, <2>1, GroupMoves
<1>5. CASE WroteTo("groups", Tail(night.groups), {}) /\ Told(tail.pooled, tail.minted \union {Group})
  <2>1. /\ Adds({}) /\ tail'.kept = tail.kept /\ tail.minted \subseteq tail'.minted /\ {} \in SUBSET InHand
        /\ night'.ranges = night.ranges /\ night'.pc = "groups" /\ night'.groups = Tail(night.groups)
        /\ Group \in tail'.minted
    BY <1>5 DEF Told, WroteTo, Adds
  <2> QED
    BY <1>1, <1>2, <2>1, GroupMoves
<1> QED
  BY <1>1, <1>3, <1>4, <1>5

LEMMA TakesAccounts ==
    ASSUME Inv, PoolsGroup \/ \E dropped \in SUBSET {f \in case.finds : f.probe} : TakesGroup(dropped)
    PROVE  Accounts'
<1>1. Typed /\ Accounts
  BY DEF Inv
<1>2. CASE PoolsGroup
  <2>1. /\ night.pc = "groups" /\ tail.kept /\ night.groups # <<>> /\ UNCHANGED <<case, remote, rows, said>>
        /\ Onward(FoundIn(Group))
    BY <1>1, <1>2, PoolsGroupIs
  <2>2. InHand = FoundIn(Group)
    BY <2>1 DEF InHand
  <2>3. /\ Adds(InHand) /\ tail'.kept = tail.kept /\ tail.minted \subseteq tail'.minted
        /\ night'.ranges = night.ranges /\ night'.pc = "groups" /\ night'.groups = Tail(night.groups)
    BY <2>1, <2>2 DEF Onward, Told, WroteTo, Adds
  <2> QED
    BY <1>1, <2>1, <2>3, GroupMoves
<1>3. ASSUME NEW dropped, TakesGroup(dropped) PROVE Accounts'
  <2>1. /\ night.pc = "groups" /\ tail.kept /\ night.groups # <<>> /\ UNCHANGED <<case, remote, rows, said>>
        /\ dropped \subseteq FoundIn(Group)
        /\ IF dropped = {} THEN UNCHANGED tail
           ELSE Told(Append(tail.pooled, Item(Group, dropped)), tail.minted)
        /\ IF dropped = FoundIn(Group) THEN WroteTo("groups", Tail(night.groups), {})
           ELSE WroteTo("draft", night.groups, FoundIn(Group) \ dropped)
    BY <1>1, <1>3, TakesGroupIs
  <2>2. InHand = FoundIn(Group) /\ dropped \in SUBSET InHand
    BY <2>1 DEF InHand
  <2>3. Adds(dropped) /\ tail'.kept = tail.kept /\ tail.minted \subseteq tail'.minted
    BY <2>1 DEF Adds, Told
  <2>4. /\ night'.ranges = night.ranges
        /\ \/ /\ night'.pc = "groups" /\ night'.groups = Tail(night.groups) /\ dropped = InHand
           \/ /\ night'.pc = "draft" /\ night'.groups = night.groups /\ night'.group = InHand \ dropped
    BY <2>1, <2>2 DEF WroteTo
  <2> QED
    BY <1>1, <2>1, <2>2, <2>3, <2>4, GroupMoves
<1> QED
  BY <1>2, <1>3

LEMMA WriteKeeps ==
    ASSUME Inv, Write, ~FollowUpRuns
    PROVE  Inv'
<1>1. Typed' /\ Steady /\ UNCHANGED <<case, remote, rows, said, night.ranges>>
  BY WriteTyped DEF Inv
<1>2. History' /\ Resolutions' /\ Readings'
  BY <1>1, SteadyKeeps
<1>3. Accounts'
  BY EndsAccounts, SessionAccounts, TakesAccounts, RaiseAccounts DEF Write, DraftIs
<1>4. /\ Typed /\ Deciding /\ Accounts /\ night.pc \in {"groups", "draft", "run"}
      /\ night'.pc \in {"groups", "draft", "run", "json"} /\ (night.pc = "run" => night'.pc = "json")
      /\ tail'.pushed = tail.pushed /\ tail.kept
  <2>1. Typed /\ Deciding /\ Accounts
    BY DEF Inv
  <2>2. CASE PoolsGroup
    BY <2>1, <2>2, PoolsGroupIs DEF Onward, Told, WroteTo
  <2>3. CASE \E dropped \in SUBSET {f \in case.finds : f.probe} : TakesGroup(dropped)
    <3>1. PICK dropped \in SUBSET {f \in case.finds : f.probe} : TakesGroup(dropped)
      BY <2>3
    <3> QED
      BY <2>1, <3>1, TakesGroupIs DEF Told, WroteTo
  <2>4. ASSUME NEW turns, WriteRaises \/ DraftIs(turns)
        PROVE  night.pc = "draft" /\ night'.pc \in {"groups", "draft"} /\ tail'.pushed = tail.pushed /\ tail.kept
    BY <2>1, <2>4, SessionIs DEF Onward, Told, WroteTo
  <2>5. CASE \E minted \in BOOLEAN : FollowUpsRaise(minted)
    <3>1. PICK minted \in BOOLEAN : FollowUpsRaise(minted)
      BY <2>5
    <3> QED
      BY <2>1, <3>1, FollowUpsRaiseIs DEF Told, WroteTo
  <2>6. CASE WritingEnds \/ FollowUpUnrun
    <3>1. /\ night.pc \in {"groups", "run"} /\ UNCHANGED <<case, remote, rows, said, tail>>
          /\ night.pc = "groups" => tail.kept
      BY <2>6 DEF WritingEnds, FollowUpUnrun
    <3>2. PICK p \in {"run", "json"} : night' = [night EXCEPT !.pc = p] /\ (night.pc = "run" => p = "json")
      BY <2>6 DEF WritingEnds, FollowUpUnrun
    <3>3. night'.pc = p
      BY <2>1, <3>1, <3>2, MovesTyped
    <3> QED
      BY <2>1, <3>1, <3>2, <3>3 DEF Accounts
  <2> QED
    BY <2>1, <2>2, <2>3, <2>4, <2>5, <2>6 DEF Write, DraftIs
<1>5. night.ranges = {}
  BY <1>4 DEF Accounts
<1>6. Top' = Top
  BY <1>1 DEF Top
<1>7. Deciding'
  BY <1>1, <1>4, <1>5, <1>6 DEF Deciding, LayerOf, Joining, Walking
<1>8. Finishing'
  BY <1>4 DEF Inv, Finishing
<1> QED
  BY <1>1, <1>2, <1>3, <1>7, <1>8 DEF Inv
-----------------------------------------------------------------------------
(* Qualifying keeps the invariant: what a lens read is what its findings   *)
(* are decided over.                                                       *)

LEMMA QualifySteady ==
    ASSUME Inv, Typed', UNCHANGED <<case, remote, said>>, rows'.layers = rows.layers,
           night.pc \in {"qualify", "groups"}, NEW p \in {"groups", "json"}, NEW r, NEW g,
           night' = Tailed(p, r, g) \/ (UNCHANGED night /\ p = "groups" /\ night.pc = p)
    PROVE  /\ Steady /\ night'.pc = p /\ History' /\ Resolutions' /\ Readings'
           /\ tail'.pushed = tail.pushed => Finishing'
<1>1. /\ night'.fetched = night.fetched /\ night'.main = night.main /\ night'.fields = night.fields
      /\ night'.pc = p
  BY DEF Inv, Typed, NightType, Tailed
<1>2. Steady
  BY <1>1 DEF Steady, Building, Before1, Joining, Walking
<1>3. tail'.pushed = tail.pushed => Finishing'
  BY <1>1 DEF Inv, Finishing
<1> QED
  BY <1>1, <1>2, <1>3, SteadyKeeps

(* What a range holds as the qualifying starts. *)
LEMMA RangesHold ==
    ASSUME Inv, night.pc = "qualify", NEW r \in Ranges
    PROVE  RangeIs(r) /\ (r.kind = "join" => r.layer = Top)
<1>1. Typed /\ Resolutions /\ Readings /\ Top >= 1 /\ 1 \in Layers /\ Top \in Layers /\ Layers \subseteq Branches
  <2>1. Typed /\ Resolutions /\ Readings /\ Top >= 1
    BY DEF Inv, Typed, Control
  <2> QED
    BY <2>1, Basics
<1>2. /\ r \in RangeType /\ r.layer \in Layers /\ r.found # {}
      /\ \/ r.kind = "join" /\ said.join.ran
            /\ r = Range1("join", Top, said.join.found, Graded(1).base, Graded(Top).head)
         \/ r.kind = "end"
            /\ r = Range1("end", r.layer, said.layer[r.layer].found, Graded(r.layer).base, Graded(r.layer).head)
         \/ r.kind = "cell"
            /\ r = Range1("cell", r.layer, Concerns(r.layer), Packaged(r.layer).base, Packaged(r.layer).head)
  BY <1>1, RangesAre
<1>3. CASE r.kind = "end"
  <2> DEFINE l == r.layer
             s == said.layer[l]
  <2>1. r.found = s.found /\ r.base = Graded(l).base /\ r.head = Graded(l).head /\ l \in Branches
    BY <1>1, <1>2, <1>3 DEF Range1
  <2>2. /\ s.read # Nothing /\ night.fields[l] = s.read
        /\ \A f \in s.found : f.lens \in {"spec", "standards"} /\ f.layer = l /\ Shows(s.read, f)
    BY <1>1, <1>2, <2>1 DEF Readings
  <2>3. Graded(l) = s.read
    BY <2>2 DEF Graded
  <2>4. s.read = [base |-> s.read.base, head |-> s.read.head]
    BY <1>1, <2>1 DEF Typed, SaidType, Span
  <2> QED
    BY <1>3, <2>1, <2>2, <2>3, <2>4 DEF RangeIs, Shows
<1>4. CASE r.kind = "cell"
  BY <1>2, <1>4 DEF RangeIs, Range1, Concerns
<1>5. CASE r.kind = "join"
  <2>1. /\ r.layer = Top /\ r.found = said.join.found /\ r.base = Graded(1).base /\ r.head = Graded(Top).head
    BY <1>2, <1>5 DEF Range1
  <2>2. /\ night.fields[1] # Nothing /\ night.fields[Top] # Nothing
        /\ said.join.head = night.fetched[Top] /\ BottomIs(said.join.base)
        /\ \A f \in said.join.found : f.lens = "join" /\ Shows(said.join, f)
    BY <1>1, <1>2, <2>1 DEF Readings, Before1
  <2>3. Graded(1) = night.fields[1] /\ Graded(Top) = night.fields[Top]
    BY <2>2 DEF Graded
  <2>4. night.fields[Top].head = night.fetched[Top] /\ BottomIs(night.fields[1].base)
    BY <1>1, <2>2 DEF Resolutions, Reads
  <2>5. r.base # said.join.base => case.base /\ case.faults
    BY <2>1, <2>2, <2>3, <2>4 DEF BottomIs
  <2> QED
    BY <1>5, <2>1, <2>2, <2>3, <2>4, <2>5 DEF RangeIs
<1> QED
  BY <1>2, <1>3, <1>4, <1>5 DEF RangeType

(* What is decided of a range holds of the qualifications. *)
LEMMA DecidesRight ==
    ASSUME Inv, night.pc = "groups", NEW r \in night.ranges, NEW verdict, NEW d \in Decided(r, verdict)
    PROVE  /\ d.layer = LayerOf(d.finding)
           /\ d.outcome = "unanchored" => \/ d.finding.lens \in {"correctness", "adequacy"}
                                          \/ d.finding.lens = "join" /\ case.base /\ case.faults
<1>1. Typed /\ Deciding /\ RangeIs(r) /\ r.kind \in {"join", "end", "cell"}
  BY DEF Inv, Deciding, Typed, NightType
<1>2. d.layer = r.layer /\ d.finding \in r.found /\ d.outcome = Decide(r, d.finding, verdict)
  BY <1>1, DecidedIs
<1>3. d.outcome = "unanchored" => ~Shows(r, d.finding)
  BY <1>2 DEF Decide
<1>4. CASE r.kind = "end"
  BY <1>1, <1>2, <1>3, <1>4 DEF RangeIs, LayerOf
<1>5. CASE r.kind = "cell"
  BY <1>1, <1>2, <1>5 DEF RangeIs, LayerOf
<1>6. CASE r.kind = "join"
  <2>1. /\ d.finding.lens = "join" /\ Shows(said.join, d.finding) /\ r.head = said.join.head /\ r.layer = Top
        /\ r.base # said.join.base => case.base /\ case.faults
    BY <1>1, <1>2, <1>6 DEF RangeIs
  <2>2. r.base = said.join.base => Shows(r, d.finding)
    BY <2>1 DEF Shows
  <2> QED
    BY <1>2, <1>3, <2>1, <2>2 DEF LayerOf
<1> QED
  BY <1>1, <1>4, <1>5, <1>6

LEMMA QualifyRangeKeeps ==
    ASSUME Inv, NEW verdict, QualifyRange(verdict)
    PROVE  Inv'
<1>1. Typed /\ Deciding /\ Accounts
  BY DEF Inv
<1>2. /\ night.pc = "groups" /\ UNCHANGED <<case, remote, said, tail>> /\ rows'.layers = rows.layers /\ Typed'
  BY <1>1, QualifyRangeIs
<1>3. PICK r \in night.ranges : \E groups \in Grouped(night.groups, Decided(r, verdict)) :
                 /\ rows'.quals = rows.quals \union Decided(r, verdict)
                 /\ night' = Tailed("groups", night.ranges \ {r}, groups)
                 /\ ToSet(groups) = ToSet(night.groups)
                       \union {Key(q) : q \in {d \in Decided(r, verdict) : d.outcome = "qualified"}}
                 /\ \A i, j \in DOMAIN groups : i # j => groups[i] # groups[j]
  BY <1>1, QualifyRangeIs
<1>4. PICK groups \in Grouped(night.groups, Decided(r, verdict)) :
                 /\ rows'.quals = rows.quals \union Decided(r, verdict)
                 /\ night' = Tailed("groups", night.ranges \ {r}, groups)
                 /\ ToSet(groups) = ToSet(night.groups)
                       \union {Key(q) : q \in {d \in Decided(r, verdict) : d.outcome = "qualified"}}
                 /\ \A i, j \in DOMAIN groups : i # j => groups[i] # groups[j]
  BY <1>3
<1>5. night'.pc = "groups" /\ History' /\ Resolutions' /\ Readings' /\ Finishing'
  BY <1>2, <1>4, QualifySteady
<1>6. night'.ranges = night.ranges \ {r} /\ night'.groups = groups
  BY <1>1, <1>4 DEF Typed, NightType, Tailed
<1>7. Top' = Top
  BY <1>2 DEF Top
<1>8. Deciding'
  <2>1. \A d \in Decided(r, verdict) :
           /\ d.layer = LayerOf(d.finding)
           /\ d.outcome = "unanchored" => \/ d.finding.lens \in {"correctness", "adequacy"}
                                          \/ d.finding.lens = "join" /\ case.base /\ case.faults
    BY <1>2, DecidesRight
  <2>2. \A s \in night.ranges : RangeIs(s)'
    BY <1>1, <1>2, <1>5, <1>7 DEF Deciding, RangeIs, Shows
  <2>3. \A q \in rows'.quals :
           /\ q.layer = LayerOf(q.finding)'
           /\ q.outcome = "unanchored" => \/ q.finding.lens \in {"correctness", "adequacy"}
                                          \/ q.finding.lens = "join" /\ case.base /\ case.faults
    BY <1>1, <1>2, <1>4, <1>7, <2>1 DEF Deciding, LayerOf
  <2> QED
    BY <1>2, <1>5, <1>6, <2>2, <2>3 DEF Deciding, Joining, Walking
<1>9. Accounts'
  <2>1. ~tail.kept /\ tail.pooled = <<>> /\ tail.minted = {}
    BY <1>1, <1>3 DEF Accounts
  <2>2. DOMAIN tail'.pooled = {} /\ ~tail'.kept /\ tail'.pooled = <<>> /\ tail'.minted = {}
    BY <1>2, <2>1
  <2>3. \A q \in Qualifieds' : Key(q)' \in ToSet(groups)
    <3>1. ASSUME NEW q \in Qualifieds' PROVE Key(q) \in ToSet(groups)
      <4>1. q \in Qualifieds \/ q \in {d \in Decided(r, verdict) : d.outcome = "qualified"}
        BY <1>4, <3>1 DEF Qualifieds
      <4> QED
        BY <1>1, <1>2, <1>4, <2>1, <4>1 DEF Accounts
    <3> QED
      BY <3>1 DEF Key
  <2> QED
    <3>1. /\ night'.pc \notin {"build", "qualify", "draft", "run"} \union Joining \union Walking
          /\ \A i, j \in DOMAIN night'.groups : i # j => night'.groups[i] # night'.groups[j]
      BY <1>4, <1>5, <1>6 DEF Joining, Walking
    <3>2. \A q \in Qualifieds' : Key(q)' \in ToSet(night'.groups)
      BY <1>6, <2>3
    <3> QED
      BY <2>2, <3>1, <3>2 DEF Accounts
<1> QED
  BY <1>2, <1>5, <1>8, <1>9 DEF Inv

LEMMA QualifyKeeps ==
    ASSUME Inv, Qualify
    PROVE  Inv'
<1>1. Typed /\ Deciding /\ Accounts
  BY DEF Inv
<1>2. CASE StartsQualifying
  <2>1. /\ night.pc = "qualify" /\ UNCHANGED <<case, remote, rows, said, tail>>
        /\ night' = Tailed("groups", Ranges, night.groups) /\ Typed'
    BY <1>1, <1>2, StartsQualifyingIs
  <2>2. night'.pc = "groups" /\ History' /\ Resolutions' /\ Readings' /\ Finishing'
    BY <2>1, QualifySteady
  <2>3. night'.ranges = Ranges /\ night'.groups = night.groups /\ Top' = Top
    BY <1>1, <2>1 DEF Typed, NightType, Tailed, Top
  <2>4. rows.quals = {} /\ night.groups = <<>> /\ ~tail.kept /\ tail.pooled = <<>> /\ tail.minted = {}
    BY <1>1, <2>1 DEF Deciding, Accounts, Ending
  <2>5. \A r \in Ranges : RangeIs(r)'
    BY <2>1, <2>3, RangesHold DEF RangeIs, Shows
  <2>6. Deciding'
    BY <2>1, <2>2, <2>3, <2>4, <2>5 DEF Deciding, Joining, Walking
  <2>7. Accounts'
    BY <1>1, <2>1, <2>2, <2>3, <2>4 DEF Accounts, Qualifieds, Joining, Walking
  <2> QED
    BY <2>1, <2>2, <2>6, <2>7 DEF Inv
<1>3. CASE QualifiesNothing
  <2>1. /\ night.pc = "qualify" /\ UNCHANGED <<case, remote, rows, said>>
        /\ night' = Tailed("json", night.ranges, night.groups) /\ tail' = [tail EXCEPT !.kept = TRUE] /\ Typed'
    BY <1>1, <1>3, QualifiesNothingIs
  <2>2. tail'.pushed = tail.pushed /\ tail'.pooled = tail.pooled /\ tail'.minted = tail.minted /\ tail'.kept
    BY <1>1, <2>1 DEF Typed, TailType
  <2>3. night'.pc = "json" /\ History' /\ Resolutions' /\ Readings' /\ Finishing'
    BY <2>1, <2>2, QualifySteady
  <2>4. night'.ranges = night.ranges /\ night'.groups = night.groups /\ Top' = Top
    BY <1>1, <2>1 DEF Typed, NightType, Tailed, Top
  <2>5. rows.quals = {} /\ night.groups = <<>> /\ night.ranges = {} /\ tail.pooled = <<>> /\ tail.minted = {}
    BY <1>1, <2>1 DEF Deciding, Accounts, Ending
  <2>6. Deciding'
    BY <2>1, <2>3, <2>4, <2>5 DEF Deciding, Joining, Walking
  <2>7. Accounts'
    BY <2>1, <2>2, <2>3, <2>4, <2>5 DEF Accounts, Qualifieds, Joining, Walking, Ending
  <2> QED
    BY <2>1, <2>3, <2>6, <2>7 DEF Inv
<1>4. CASE QualifyRaises
  <2>1. /\ night.pc = "groups" /\ night.ranges # {} /\ UNCHANGED <<case, remote, rows, said, tail>>
        /\ night' = Tailed("json", night.ranges, <<>>) /\ Typed'
    BY <1>1, <1>4, QualifyRaisesIs
  <2>2. night'.pc = "json" /\ History' /\ Resolutions' /\ Readings' /\ Finishing'
    BY <2>1, QualifySteady
  <2>3. night'.ranges = night.ranges /\ night'.groups = <<>> /\ Top' = Top
    BY <1>1, <2>1 DEF Typed, NightType, Tailed, Top
  <2>4. ~tail.kept /\ tail.pooled = <<>> /\ tail.minted = {}
    BY <1>1, <2>1 DEF Accounts
  <2>5. Deciding'
    BY <1>1, <2>1, <2>2, <2>3 DEF Deciding, RangeIs, Shows, Joining, Walking
  <2>6. Accounts'
    BY <2>1, <2>2, <2>3, <2>4 DEF Accounts, Joining, Walking, Ending
  <2> QED
    BY <2>1, <2>2, <2>5, <2>6 DEF Inv
<1>5. CASE Qualified
  <2>1. /\ night.pc = "groups" /\ night.ranges = {} /\ ~tail.kept /\ UNCHANGED <<case, remote, rows, night, said>>
        /\ tail' = [tail EXCEPT !.kept = TRUE] /\ Typed'
    BY <1>1, <1>5, QualifiedIs
  <2>2. tail'.pushed = tail.pushed /\ tail'.pooled = tail.pooled /\ tail'.minted = tail.minted /\ tail'.kept
    BY <1>1, <2>1 DEF Typed, TailType
  <2>3. History' /\ Resolutions' /\ Readings' /\ Finishing'
    BY <2>1, <2>2, QualifySteady
  <2>4. Top' = Top /\ tail.pooled = <<>>
    BY <1>1, <2>1 DEF Top, Accounts
  <2>5. Deciding'
    BY <1>1, <2>1, <2>4 DEF Deciding, RangeIs, Shows, LayerOf
  <2>6. Accounts'
    BY <1>1, <2>1, <2>2, <2>4 DEF Accounts, Qualifieds, Waiting, Key, Joining, Walking
  <2> QED
    BY <2>1, <2>3, <2>5, <2>6 DEF Inv
<1> QED
  BY <1>2, <1>3, <1>4, <1>5, QualifyRangeKeeps DEF Qualify
-----------------------------------------------------------------------------
(* The review keeps the invariant.  What is fetched is kept, and what a    *)
(* range was resolved from is there still.                                 *)

Grown ==
    /\ \A b \in Branches : night.fetched[b] # Gone => night'.fetched[b] = night.fetched[b]
    /\ night.main # Gone => night'.main = night.main
    /\ \A b \in Branches : night'.fetched[b] = night.fetched[b] \/ night'.fetched[b] = Gone
                           \/ night'.fetched[b] = remote.head[b]
    /\ night'.main = night.main \/ night'.main = Gone \/ night'.main = remote.main

LEMMA GrownKeeps ==
    ASSUME Inv, UNCHANGED <<case, remote, rows>>, night.pc \in Before1, Grown
    PROVE  /\ History'
           /\ \A l, range : Reads(l, range) => Reads(l, range)'
           /\ \A base : night.fields[1] # Nothing /\ BottomIs(base) => BottomIs(base)'
<1>0. /\ Branches' = Branches /\ Top' = Top /\ Layers' = Layers
  BY DEF Branches, Top, Layers
<1>1. /\ Typed /\ Heads /\ Packages /\ Fetched /\ FollowUpOver /\ Resolutions /\ Control
      /\ Layers \subseteq Branches /\ Layers = 1 .. Top /\ Top \in Int /\ Branches \subseteq Int
      /\ 0 \in Branches /\ \A l \in Layers : l - 1 \in Branches
  BY Basics DEF Inv, History, Typed
<1>2. Heads' /\ Packages'
  BY <1>0, <1>1 DEF Heads, Packages, Content, Unbuilt
<1>3. Fetched'
  <2>1. \A j \in Branches : j > 1 => Of(j) \intersect night'.main = {}
    BY <1>1 DEF Grown, Fetched, Heads, Gone
  <2>2. ASSUME NEW b \in Branches, night'.fetched[b] # Gone
        PROVE  /\ b <= Top
               /\ Content(b, night'.fetched[b])
               /\ b \in Layers => /\ Later(b, rows.layers[b].pushed, night'.fetched[b])
                                  /\ Later(b, night'.fetched[b], remote.head[b])
    <3>1. CASE night'.fetched[b] = night.fetched[b]
      BY <1>1, <2>2, <3>1 DEF Fetched
    <3>2. CASE night'.fetched[b] = remote.head[b]
      <4>1. b <= Top
        BY <1>1, <2>2, <3>2 DEF Heads
      <4>2. Content(b, night'.fetched[b])
        BY <1>1, <2>2, <3>2 DEF Heads
      <4>3. b \in Layers => Later(b, rows.layers[b].pushed, night'.fetched[b])
        BY <1>1, <3>2 DEF Packages
      <4> QED
        BY <3>2, <4>1, <4>2, <4>3, LaterIs
    <3> QED
      BY <2>2, <3>1, <3>2 DEF Grown
  <2> QED
    BY <1>0, <2>1, <2>2 DEF Fetched, Content
<1>4. FollowUpOver'
  BY <1>0, <1>1 DEF FollowUpOver, Control
<1>5. ASSUME NEW l, NEW range, Reads(l, range) PROVE Reads(l, range)'
  <2>1. l \in Layers /\ l \in Branches /\ l - 1 \in Branches /\ night.fetched[l] # Gone
    BY <1>1, <1>5 DEF Reads
  <2>2. night'.fetched[l] = night.fetched[l] /\ (night.main # Gone => night'.main = night.main)
        /\ (night.fetched[l - 1] # Gone => night'.fetched[l - 1] = night.fetched[l - 1])
    BY <2>1 DEF Grown
  <2> QED
    BY <1>0, <1>5, <2>2 DEF Reads, IsBase, OwnParent
<1>6. ASSUME NEW base, night.fields[1] # Nothing, BottomIs(base) PROVE BottomIs(base)'
  <2>1. night.fetched[1] # Gone /\ 1 \in Branches /\ rows.layers[1].over = Predecessor(1)
    <3>1. 1 \in Layers
      BY <1>1, <1>6, Basics DEF Resolutions, Reads, Branches
    <3> QED
      BY <1>1, <1>6, <3>1 DEF Resolutions, Reads, Control
  <2>2. night'.fetched[1] = night.fetched[1]
    BY <2>1 DEF Grown
  <2>3. SUFFICES ASSUME ~(case.base /\ case.faults) PROVE BottomIs(base)'
    BY DEF BottomIs
  <2>4. /\ base = Base(1, Bottom) /\ Resolves(1, Bottom) # {} /\ (night.main # Gone \/ case.base)
        /\ (case.base /\ night.fetched[0] = Gone => remote.head[0] = Gone)
    BY <1>6, <2>3 DEF BottomIs
  <2>5. Bottom' = Bottom /\ (case.base => night'.fetched[0] = night.fetched[0]) /\ (~case.base => night'.main = night.main)
    BY <1>1, <2>4 DEF Bottom, Grown
  <2>6. Base(1, Bottom)' = Base(1, Bottom) /\ Resolves(1, Bottom)' = Resolves(1, Bottom)
    BY <2>2, <2>5 DEF Base, Resolves, LayerCandidates, OwnParent
  <2> QED
    BY <2>4, <2>5, <2>6 DEF BottomIs
<1> QED
  BY <1>2, <1>3, <1>4, <1>5, <1>6 DEF History

(* Nothing is qualified, written or finished before the review is over. *)
LEMMA RestKeeps ==
    ASSUME Inv, night.pc \in Building, night'.pc \in Building \union {"qualify"}, rows'.quals = rows.quals,
           UNCHANGED tail, night'.ranges = night.ranges, night'.groups = night.groups
    PROVE  Deciding' /\ Accounts' /\ Finishing'
<1>1. Deciding /\ Accounts /\ Finishing
  BY DEF Inv
<1>2. night.ranges = {} /\ rows.quals = {} /\ night.groups = <<>> /\ ~tail.kept /\ ~tail.pushed
      /\ tail.pooled = <<>> /\ tail.minted = {}
  BY <1>1 DEF Deciding, Accounts, Finishing, Building, Joining, Walking, Ending
<1>3. Deciding'
  BY <1>2 DEF Deciding, Building
<1>4. Accounts'
  BY <1>2 DEF Accounts, Building, Qualifieds, Joining, Walking
<1>5. Finishing'
  BY <1>2 DEF Finishing, Building, Joining, Walking
<1> QED
  BY <1>3, <1>4, <1>5

LEMMA ReadingsStay ==
    ASSUME Inv, UNCHANGED <<case, remote, rows>>, night.pc \in Joining \union Walking, Grown,
           night'.pc \in Joining \union Walking \union {"qualify"},
           said'.layer = said.layer, said'.join.base = said.join.base, said'.join.head = said.join.head,
           said'.join.found = said.join.found,
           night'.pc \in Joining => night.pc \in Joining /\ ~said'.join.ran,
           night'.pc \in Walking => night.pc \in Joining \/ night'.at <= night.at,
           night'.at \in Int,
           \A l \in Branches : said.layer[l].read # Nothing => night'.fields[l] = night.fields[l],
           \A l \in Branches : night.fields[l] # Nothing => night'.fields[l] # Nothing
    PROVE  Readings'
<1>0. /\ Branches' = Branches /\ Top' = Top /\ Layers' = Layers
  BY DEF Branches, Top, Layers
<1>1. Typed /\ Readings /\ Resolutions /\ 1 \in Branches /\ Top \in Branches /\ night.at \in Int /\ Branches \subseteq Int
  <2>1. Typed /\ Readings /\ Resolutions /\ Top >= 1
    BY DEF Inv, Typed, Control, Joining, Walking
  <2> QED
    BY <2>1, Basics
<1>2. night.pc \in Before1
  BY DEF Before1
<1>3. /\ \A l, range : Reads(l, range) => Reads(l, range)'
      /\ \A base : night.fields[1] # Nothing /\ BottomIs(base) => BottomIs(base)'
  BY <1>2, GrownKeeps
<1>4. ASSUME NEW l \in Branches
      PROVE  LET s == said.layer[l]
             IN  /\ s.read # Nothing => Reads(l, s.read)'
                 /\ s.read # Nothing /\ night'.pc \in Walking => l > night'.at
                 /\ s.found # {} => s.read # Nothing /\ night'.fields[l] = s.read
                 /\ \A f \in s.found : f.lens \in {"spec", "standards"} /\ f.layer = l /\ Shows(s.read, f)
  <2> DEFINE s == said.layer[l]
  <2>1. s.read # Nothing => Reads(l, s.read)'
    BY <1>1, <1>3 DEF Readings
  <2>2. s.read # Nothing /\ night'.pc \in Walking => l > night'.at
    BY <1>1 DEF Readings, At
  <2> QED
    BY <1>1, <2>1, <2>2 DEF Readings
<1>5. said.join.found # {} =>
          /\ night'.fields[1] # Nothing /\ night'.fields[Top] # Nothing
          /\ said.join.head = night'.fetched[Top] /\ BottomIs(said.join.base)'
  <2>1. SUFFICES ASSUME said.join.found # {}
                 PROVE  /\ night'.fields[1] # Nothing /\ night'.fields[Top] # Nothing
                        /\ said.join.head = night'.fetched[Top] /\ BottomIs(said.join.base)'
    OBVIOUS
  <2>2. /\ night.fields[1] # Nothing /\ night.fields[Top] # Nothing
        /\ said.join.head = night.fetched[Top] /\ BottomIs(said.join.base)
    BY <1>1, <1>2, <2>1 DEF Readings
  <2>3. night.fetched[Top] # Gone
    BY <1>1, <2>2 DEF Resolutions, Reads
  <2>4. BottomIs(said.join.base)'
    BY <1>3, <2>2 DEF BottomIs
  <2> QED
    BY <1>1, <2>2, <2>3, <2>4 DEF Grown
<1>6. \A f \in said.join.found : f.lens = "join" /\ Shows(said.join, f)
  BY <1>1 DEF Readings
<1>7. night'.pc \in {"build"} \union Joining =>
         /\ said.join.found = {}
         /\ \A l \in Branches : said.layer[l].read = Nothing /\ said.layer[l].found = {}
  BY <1>1 DEF Readings, Joining, Walking
<1> QED
  BY <1>0, <1>4, <1>5, <1>6, <1>7 DEF Readings, Shows, Joining, Walking, BottomIs, At
LEMMA ReviewedIs ==
    ASSUME Typed, NEW p, NEW a, NEW l, NEW h, NEW m, NEW f, night' = Reviewed(p, a, l, h, m, f)
    PROVE  /\ night'.pc = p /\ night'.at = a /\ night'.fetched = h /\ night'.main = m /\ night'.fields = f
           /\ night'.ranges = night.ranges /\ night'.groups = night.groups
  BY DEF Typed, NightType, Reviewed

LEMMA PassesKeep ==
    ASSUME Inv, Typed', UNCHANGED <<case, remote, rows, tail>>, night.pc \in Joining \union Walking, Grown,
           night'.pc \in Joining \union Walking \union {"qualify"},
           night'.ranges = night.ranges, night'.groups = night.groups, Resolutions', Readings'
    PROVE  Inv'
<1>1. History'
  BY GrownKeeps DEF Before1
<1>2. Deciding' /\ Accounts' /\ Finishing'
  BY RestKeeps DEF Building
<1> QED
  BY <1>1, <1>2 DEF Inv

(* The ranges stay resolved. *)
LEMMA FieldsStay ==
    ASSUME Inv, UNCHANGED <<case, remote, rows>>, night.pc \in Joining \union Walking, Grown,
           night'.fields = night.fields
    PROVE  /\ (\A l \in Branches : night.fields[l] # Nothing => Reads(l, night.fields[l]))'
           /\ (night.fields[1] # Nothing => BottomIs(night.fields[1].base))'
<1>1. /\ \A l, range : Reads(l, range) => Reads(l, range)'
      /\ \A base : night.fields[1] # Nothing /\ BottomIs(base) => BottomIs(base)'
  BY GrownKeeps DEF Before1
<1>2. Branches' = Branches
  BY DEF Branches
<1> QED
  BY <1>1, <1>2 DEF Inv, Resolutions

(* What a layer's range is resolved to, and over what. *)
LEMMA UnderKeeps ==
    ASSUME Inv, UNCHANGED <<case, remote, rows>>, night.pc \in Joining \union Walking, NEW l \in Layers,
           night.fetched[l] # Gone, NEW found \in BOOLEAN, NEW f \in [Branches -> Span], UnderStep(l, found, f)
    PROVE  /\ Grown /\ night'.fields = f /\ night'.ranges = night.ranges /\ night'.groups = night.groups
           /\ night'.fetched[l] = night.fetched[l]
           /\ \A b \in Branches : b # l => f[b] = night.fields[b]
           /\ ~found => f = night.fields
           /\ found => f[l] # Nothing
           /\ \A b \in Branches : f[b] # Nothing => Reads(b, f[b])'
           /\ f[1] # Nothing => BottomIs(f[1].base)'
<1>1. PICK under \in Under(l), h \in [Branches -> Commit], m \in Commit :
        /\ FetchedUnder(l, under, h, m)
        /\ found <=> Resolves(l, under) # {}
        /\ f = IF found THEN [night.fields EXCEPT ![l] = [base |-> Base(l, under), head |-> night.fetched[l]]]
               ELSE night.fields
        /\ night' = Reviewed(night'.pc, night'.at, night.left, h, m, f)
  BY DEF UnderStep
<1>2. /\ Typed /\ Resolutions /\ Control /\ Layers \subseteq Branches /\ l \in Branches /\ Layers = 1 .. Top
      /\ Top \in Int /\ night.fields \in [Branches -> Span] /\ night.fetched \in [Branches -> Commit]
      /\ Branches \subseteq Int /\ 1 \in Layers /\ 0 \in Branches
  <2>1. Typed /\ Resolutions /\ Control /\ Top >= 1
    BY DEF Inv, Typed, Control, Joining, Walking
  <2> QED
    BY <2>1, Basics
<1>3. /\ night'.fetched = h /\ night'.main = m /\ night'.fields = f
      /\ night'.ranges = night.ranges /\ night'.groups = night.groups
  BY <1>1, <1>2, ReviewedIs
<1>4. Grown
  BY <1>1, <1>2, <1>3, CachesStay DEF Grown
<1>5. night'.fetched[l] = night.fetched[l]
  BY <1>2, <1>4 DEF Grown
<1>6. /\ \A b \in Branches : b # l => f[b] = night.fields[b]
      /\ ~found => f = night.fields
      /\ found => f[l] = [base |-> Base(l, under), head |-> night.fetched[l]]
  BY <1>1, <1>2
<1>7. found => f[l] # Nothing
  BY <1>6 DEF Nothing, Gone
<1>8. under \in Commit
  BY <1>2, UnderIs
<1>9. /\ \A b, range : Reads(b, range) => Reads(b, range)'
      /\ \A base : night.fields[1] # Nothing /\ BottomIs(base) => BottomIs(base)'
  BY <1>4, GrownKeeps DEF Before1
<1>10. found => Reads(l, f[l])'
  <2>1. SUFFICES ASSUME found PROVE Reads(l, f[l])'
    OBVIOUS
  <2>2. /\ Base(l, under) \in Commit /\ Base(l, under) \subseteq night.fetched[l]
        /\ \/ Base(l, under) = OwnParent(l)
           \/ /\ rows.layers[l].over = -1 /\ under # Gone
              /\ Base(l, under) = night.fetched[l] \intersect under
              /\ OwnParent(l) \subseteq Base(l, under) /\ ~(rows.layers[l].pushed \subseteq Base(l, under))
           \/ /\ rows.layers[l].over # -1
              /\ \/ Base(l, under) = rows.layers[l].overHead
                 \/ under # Gone /\ Base(l, under) = under
    BY <1>1, <1>2, <1>8, <2>1, BaseIs
  <2>3. /\ rows.layers[l].over = -1 => m = under
        /\ rows.layers[l].over # -1 => l - 1 \in Branches /\ h[l - 1] = under
    BY <1>1, <1>2 DEF FetchedUnder
  <2>4. rows' = rows /\ Layers' = Layers
    BY DEF Layers
  <2>5. rows.layers[l].gen = 0
    BY <1>2 DEF Control, Before1
  <2>6. f[l].base = Base(l, under) /\ f[l].head = night.fetched[l]
    BY <1>6, <2>1
  <2>7. PICK base \in Commit : base = Base(l, under)
    BY <2>2
  <2>8. IsBase(l, base)'
    BY <1>3, <1>5, <2>2, <2>3, <2>4, <2>7 DEF IsBase, OwnParent
  <2> QED
    BY <1>5, <2>2, <2>4, <2>5, <2>6, <2>7, <2>8 DEF Reads
<1>11. found /\ l = 1 => BottomIs(f[1].base)'
  <2>1. SUFFICES ASSUME found, l = 1, ~(case.base /\ case.faults) PROVE BottomIs(f[1].base)'
    BY DEF BottomIs
  <2>2. rows.layers[1].over = IF ~case.base THEN -1 ELSE 0
    BY <1>2 DEF Control, Predecessor
  <2>3. Bottom' = under
    BY <1>1, <1>2, <1>3, <2>1, <2>2 DEF Bottom, FetchedUnder
  <2>4. Base(1, Bottom)' = Base(1, under) /\ Resolves(1, Bottom)' = Resolves(1, under)
    BY <1>5, <2>1, <2>3 DEF Base, Resolves, LayerCandidates, OwnParent
  <2>5. f[1].base = Base(1, under) /\ Resolves(1, under) # {}
    BY <1>1, <1>6, <2>1
  <2>6. ~case.base => night'.main # Gone
    <3>1. rows.layers[1].over = -1 => under # Gone
      BY <2>5 DEF Resolves
    <3> QED
      BY <1>1, <1>3, <2>1, <2>2, <3>1 DEF FetchedUnder
  <2>7. case.base /\ night'.fetched[0] = Gone => remote.head[0] = Gone
    <3>1. case.base => h[0] = under /\ under \in Fetches(0)
      BY <1>1, <1>2, <2>1, <2>2 DEF FetchedUnder
    <3>2. case.base /\ under = Gone => remote.head[0] = Gone
      BY <1>2, <2>1, <3>1, FetchesAre
    <3> QED
      BY <1>3, <3>1, <3>2
  <2> QED
    BY <2>4, <2>5, <2>6, <2>7 DEF BottomIs
<1>12. \A b \in Branches : f[b] # Nothing => Reads(b, f[b])'
  BY <1>2, <1>6, <1>9, <1>10 DEF Resolutions
<1>13. f[1] # Nothing => BottomIs(f[1].base)'
  <2>1. CASE l = 1 /\ found
    BY <1>11, <2>1
  <2>2. CASE ~(l = 1 /\ found)
    <3>1. f[1] = night.fields[1]
      BY <1>2, <1>6, <2>2
    <3>2. night.fields[1] # Nothing => BottomIs(night.fields[1].base)
      BY <1>2 DEF Resolutions
    <3> QED
      BY <1>9, <3>1, <3>2
  <2> QED
    BY <2>1, <2>2
<1> QED
  BY <1>3, <1>4, <1>5, <1>6, <1>7, <1>12, <1>13
LEMMA SaysIs ==
    ASSUME Typed,
           NEW j \in [ran : BOOLEAN, base : Commit, head : Commit, found : SUBSET case.finds],
           NEW l \in [Branches -> [read : Span, found : SUBSET case.finds]],
           said' = Says1(j, l)
    PROVE  said'.join = j /\ said'.layer = l
<1>1. said' = [join |-> j, layer |-> l]
  BY SaysBoth
<1> QED
  BY <1>1

LEMMA SaidIs ==
    ASSUME Typed
    PROVE  /\ said.join \in [ran : BOOLEAN, base : Commit, head : Commit, found : SUBSET case.finds]
           /\ said.layer \in [Branches -> [read : Span, found : SUBSET case.finds]]
  BY DEF Typed, SaidType

(* The join ends with nothing read. *)
LEMMA JoinEndsKeeps ==
    ASSUME Inv, Typed', UNCHANGED <<case, remote, rows, tail>>, night.pc \in Joining, Grown,
           night'.pc = "layer", night'.at = Top, night'.fields = night.fields,
           night'.ranges = night.ranges, night'.groups = night.groups,
           said' = Says1([said.join EXCEPT !.ran = TRUE], said.layer)
    PROVE  Inv'
<1>1. Typed
  BY DEF Inv
<1>2. said.join \in [ran : BOOLEAN, base : Commit, head : Commit, found : SUBSET case.finds]
  BY <1>1, SaidIs
<1> DEFINE j == [said.join EXCEPT !.ran = TRUE]
<1>3. /\ j \in [ran : BOOLEAN, base : Commit, head : Commit, found : SUBSET case.finds]
      /\ j.base = said.join.base /\ j.head = said.join.head /\ j.found = said.join.found
  BY <1>2
<1> HIDE DEF j
<1>4. said'.join = j /\ said'.layer = said.layer
  BY <1>1, <1>3, SaidIs, SaysIs DEF j
<1>5. night.pc \in Joining \union Walking
  OBVIOUS
<1>6. Readings'
  BY <1>1, <1>3, <1>4, <1>5, Basics, ReadingsStay DEF Joining, Walking
<1>7. Resolutions'
  BY <1>5, FieldsStay DEF Resolutions, Joining
<1> QED
  BY <1>5, <1>6, <1>7, PassesKeep DEF Walking

(* A branch's head is fetched, or kept. *)
LEMMA FetchGrows ==
    ASSUME Inv, NEW b \in Branches, NEW head \in Fetches(b), head # Gone,
           night'.fetched = [night.fetched EXCEPT ![b] = head], night'.main = night.main
    PROVE  Grown /\ night'.fetched[b] # Gone
<1>1. Typed /\ night.fetched \in [Branches -> Commit]
  BY Basics DEF Inv
<1>2. /\ head = IF night.fetched[b] # Gone THEN night.fetched[b] ELSE remote.head[b]
  BY <1>1, FetchesAre
<1> QED
  BY <1>1, <1>2 DEF Grown

LEMMA JoinFetchKeeps ==
    ASSUME Inv, JoinFetch
    PROVE  Inv'
<1>1. Typed /\ Typed'
  BY ReviewTyped DEF Inv, Review
<1>2. night.pc = "join" /\ UNCHANGED <<case, remote, rows, tail>> /\ night.pc \in Joining
  BY <1>1, JoinFetchIs DEF Joining
<1>3. At \in Layers /\ At \in Branches /\ At \in Int /\ Layers = 1 .. Top
  <2>1. At \in 1 .. Top
    BY <1>1, <1>2 DEF Typed, Control, Joining, At
  <2> QED
    BY <1>1, <2>1, Basics
<1>4. PICK head \in Fetches(At) :
         \/ /\ night' = Reviewed("layer", Top, night.left, night.fetched, night.main, night.fields)
            /\ said' = Says1([said.join EXCEPT !.ran = TRUE], said.layer)
         \/ /\ head # Gone /\ said' = said
            /\ night' = Reviewed("joinUnder", At, night.left, [night.fetched EXCEPT ![At] = head],
                                 night.main, night.fields)
  BY <1>1, JoinFetchIs
<1>5. CASE /\ night' = Reviewed("layer", Top, night.left, night.fetched, night.main, night.fields)
           /\ said' = Says1([said.join EXCEPT !.ran = TRUE], said.layer)
  <2>1. /\ night'.pc = "layer" /\ night'.at = Top /\ night'.fields = night.fields /\ Grown
        /\ night'.ranges = night.ranges /\ night'.groups = night.groups
    BY <1>1, <1>5, ReviewedIs DEF Grown
  <2> QED
    BY <1>1, <1>2, <1>5, <2>1, JoinEndsKeeps
<1>6. CASE /\ head # Gone /\ said' = said
           /\ night' = Reviewed("joinUnder", At, night.left, [night.fetched EXCEPT ![At] = head],
                                night.main, night.fields)
  <2> DEFINE h == [night.fetched EXCEPT ![At] = head]
  <2> HIDE DEF h
  <2>1. /\ night'.pc = "joinUnder" /\ night'.at = At /\ night'.fields = night.fields
        /\ night'.ranges = night.ranges /\ night'.groups = night.groups
        /\ night'.fetched = h /\ night'.main = night.main
    BY <1>1, <1>6, ReviewedIs DEF h
  <2>2. Grown /\ night'.fetched[At] # Gone
    BY <1>3, <1>6, <2>1, FetchGrows DEF h
  <2>3. Readings'
    <3>1. ~said.join.ran
      BY <1>2 DEF Inv, Readings
    <3> QED
      BY <1>2, <1>3, <1>6, <2>1, <2>2, <3>1, ReadingsStay DEF Joining, Walking
  <2>4. Resolutions'
    <3>1. \A i \in 1 .. At - 1 : night.fields[i] # Nothing
      BY <1>2 DEF Inv, Resolutions
    <3>2. (\A l \in Branches : night.fields[l] # Nothing => Reads(l, night.fields[l]))'
          /\ (night.fields[1] # Nothing => BottomIs(night.fields[1].base))'
      BY <1>2, <2>1, <2>2, FieldsStay
    <3>3. At' = At
      BY <2>1 DEF At
    <3> QED
      BY <2>1, <2>2, <3>1, <3>2, <3>3 DEF Resolutions
  <2> QED
    BY <1>1, <1>2, <2>1, <2>2, <2>3, <2>4, PassesKeep DEF Joining
<1> QED
  BY <1>4, <1>5, <1>6

LEMMA JoinUnderKeeps ==
    ASSUME Inv, JoinUnder
    PROVE  Inv'
<1>1. Typed /\ Typed'
  BY ReviewTyped DEF Inv, Review
<1>2. /\ night.pc = "joinUnder" /\ At \in Layers /\ UNCHANGED <<case, remote, rows, tail>> /\ night.pc \in Joining
      /\ night.fetched[At] # Gone
  BY <1>1, JoinUnderIs DEF Joining, Inv, Resolutions
<1>3. At \in Branches /\ At \in Int /\ Layers = 1 .. Top /\ Layers \subseteq Branches /\ Top \in Int
  BY <1>1, <1>2, Basics
<1>4. PICK found \in BOOLEAN, fields \in [Branches -> Span] :
         /\ UnderStep(At, found, fields)
         /\ ~found => night'.pc = "layer" /\ night'.at = Top /\ said' = Says1([said.join EXCEPT !.ran = TRUE], said.layer)
         /\ found => /\ night'.pc = IF At < Top THEN "join" ELSE "joinRead"
                     /\ night'.at = IF At < Top THEN At + 1 ELSE At
                     /\ said' = said
  BY <1>1, JoinUnderIs
<1>5. /\ Grown /\ night'.fields = fields /\ night'.ranges = night.ranges /\ night'.groups = night.groups
      /\ night'.fetched[At] = night.fetched[At]
      /\ \A b \in Branches : b # At => fields[b] = night.fields[b]
      /\ ~found => fields = night.fields
      /\ found => fields[At] # Nothing
      /\ \A b \in Branches : fields[b] # Nothing => Reads(b, fields[b])'
      /\ fields[1] # Nothing => BottomIs(fields[1].base)'
  BY <1>2, <1>4, UnderKeeps
<1>6. CASE ~found
  BY <1>1, <1>2, <1>4, <1>5, <1>6, JoinEndsKeeps
<1>7. CASE found
  <2>1. /\ night'.pc = IF At < Top THEN "join" ELSE "joinRead"
        /\ night'.at = IF At < Top THEN At + 1 ELSE At
        /\ said' = said /\ night'.at \in Int /\ night'.pc \in Joining
    BY <1>3, <1>4, <1>7 DEF Joining
  <2>2. \A b \in Branches : said.layer[b].read = Nothing
    BY <1>2 DEF Inv, Readings
  <2>3. ~said.join.ran
    BY <1>2 DEF Inv, Readings
  <2>4. \A b \in Branches : night.fields[b] # Nothing => night'.fields[b] # Nothing
    BY <1>5, <1>7
  <2>5. Readings'
    BY <1>2, <1>5, <2>1, <2>2, <2>3, <2>4, ReadingsStay DEF Joining, Walking
  <2>6. Resolutions'
    <3>1. \A i \in 1 .. At - 1 : night.fields[i] # Nothing
      BY <1>2 DEF Inv, Resolutions
    <3>2. \A i \in 1 .. At' - 1 : fields[i] # Nothing
      <4>1. SUFFICES ASSUME NEW i \in 1 .. night'.at - 1 PROVE fields[i] # Nothing
        BY DEF At
      <4>2. i \in Branches
        BY <1>2, <1>3, <2>1, <4>1
      <4>3. CASE i = At
        BY <1>5, <1>7, <4>3
      <4>4. CASE i # At
        <5>1. i \in 1 .. At - 1
          BY <1>3, <2>1, <4>1, <4>4
        <5> QED
          BY <1>5, <3>1, <4>2, <4>4, <5>1
      <4> QED
        BY <4>3, <4>4
    <3>3. Top' = Top /\ Branches' = Branches
      BY <1>2 DEF Top, Branches
    <3>4. night'.pc = "joinRead" => night'.at = At /\ ~(At < Top)
      BY <2>1
    <3>5. night'.pc = "joinRead" => At' = At /\ At = Top
      BY <1>2, <1>3, <3>4 DEF At
    <3> QED
      BY <1>5, <1>7, <2>1, <3>2, <3>3, <3>5 DEF Resolutions, Joining
  <2> QED
    BY <1>1, <1>2, <1>5, <2>1, <2>5, <2>6, PassesKeep
<1> QED
  BY <1>6, <1>7

LEMMA JoinRaisesKeeps ==
    ASSUME Inv, JoinRaises
    PROVE  Inv'
<1>1. Typed /\ Typed'
  BY ReviewTyped DEF Inv, Review
<1>2. /\ night.pc \in Joining /\ UNCHANGED <<case, remote, rows, tail>>
      /\ night' = Reviewed("layer", Top, night.left, night.fetched, night.main, night.fields)
      /\ said' = Says1([said.join EXCEPT !.ran = TRUE], said.layer)
  BY <1>1, JoinRaisesIs DEF Joining
<1>3. /\ night'.pc = "layer" /\ night'.at = Top /\ night'.fields = night.fields /\ Grown
      /\ night'.ranges = night.ranges /\ night'.groups = night.groups
  BY <1>1, <1>2, ReviewedIs DEF Grown
<1> QED
  BY <1>1, <1>2, <1>3, JoinEndsKeeps
LEMMA JoinReadKeeps ==
    ASSUME Inv, JoinRead
    PROVE  Inv'
<1>1. Typed /\ Typed'
  BY ReviewTyped DEF Inv, Review
<1>2. /\ night.pc = "joinRead" /\ night.pc \in Joining /\ UNCHANGED <<case, remote, rows, tail>>
      /\ night' = Reviewed("layer", Top, night.left - 1, night.fetched, night.main, night.fields)
  BY <1>1, JoinReadIs DEF Joining
<1>3. PICK found \in SUBSET case.finds :
         /\ \A f \in found : f.lens = "join" /\ Shows(JoinRange, f)
         /\ said' = Says1([ran |-> TRUE, base |-> JoinRange.base, head |-> JoinRange.head, found |-> found],
                          said.layer)
  BY <1>1, JoinReadIs
<1>4. /\ night'.pc = "layer" /\ night'.at = Top /\ night'.fields = night.fields /\ Grown
      /\ night'.ranges = night.ranges /\ night'.groups = night.groups /\ night'.fetched = night.fetched
  BY <1>1, <1>2, ReviewedIs DEF Grown
<1>5. At = Top /\ night.fields[Top] # Nothing /\ night.fields[1] # Nothing /\ Top \in Branches /\ 1 \in Branches
  <2>1. At = Top /\ night.fields[Top] # Nothing /\ Top \in 1 .. Top /\ \A i \in 1 .. Top - 1 : night.fields[i] # Nothing
    BY <1>2 DEF Inv, Resolutions, Typed, Control, At
  <2>2. 1 \in 1 .. Top
    BY <2>1
  <2>3. Top = 1 \/ 1 \in 1 .. Top - 1
    BY <2>1, <1>1, Basics
  <2> QED
    BY <1>1, <2>1, <2>2, <2>3, Basics
<1>6. JoinRange.base \in Commit /\ JoinRange.head \in Commit
  <2>1. night.fields[1] \in Span /\ night.fields[Top] \in Span
    BY <1>1, <1>5, Basics
  <2> QED
    BY <2>1 DEF JoinRange, Span
<1> DEFINE j == [ran |-> TRUE, base |-> JoinRange.base, head |-> JoinRange.head, found |-> found]
<1>7. /\ j \in [ran : BOOLEAN, base : Commit, head : Commit, found : SUBSET case.finds]
      /\ j.base = night.fields[1].base /\ j.head = night.fields[Top].head /\ j.found = found
      /\ \A f : Shows(JoinRange, f) => Shows(j, f)
  BY <1>6 DEF JoinRange, Shows
<1> HIDE DEF j
<1>8. said'.join = j /\ said'.layer = said.layer
  BY <1>1, <1>3, <1>7, SaidIs, SaysIs DEF j
<1>9. /\ (\A l \in Branches : night.fields[l] # Nothing => Reads(l, night.fields[l]))'
      /\ (night.fields[1] # Nothing => BottomIs(night.fields[1].base))'
  BY <1>2, <1>4, FieldsStay
<1>10. Resolutions'
  BY <1>4, <1>9 DEF Resolutions, Joining
<1>11. Readings'
  <2>1. \A l \in Branches : said.layer[l].read = Nothing /\ said.layer[l].found = {}
    BY <1>2 DEF Inv, Readings
  <2>2. j.head = night.fetched[Top]
    BY <1>5, <1>7 DEF Inv, Resolutions, Reads
  <2>3. BottomIs(night.fields[1].base)'
    BY <1>4, <1>5, <1>9
  <2>4. PICK base : base = night.fields[1].base
    OBVIOUS
  <2>5. night'.fields[1].base = base /\ BottomIs(base)'
    BY <1>4, <2>3, <2>4
  <2>6. said'.join.base = base /\ said'.join.head = night'.fetched[Top] /\ said'.join.found = found
    BY <1>4, <1>7, <1>8, <2>2, <2>4
  <2>7. BottomIs(said.join.base)'
    BY <2>5, <2>6 DEF BottomIs
  <2>8. Branches' = Branches /\ Top' = Top
    BY <1>2 DEF Branches, Top
  <2>9. \A f \in said'.join.found : f.lens = "join" /\ Shows(said.join, f)'
    BY <1>3, <1>7, <1>8, <2>6 DEF Shows
  <2> QED
    BY <1>4, <1>5, <1>8, <2>1, <2>6, <2>7, <2>8, <2>9 DEF Readings, Joining
<1> QED
  BY <1>1, <1>2, <1>4, <1>10, <1>11, PassesKeep DEF Walking

(* A step down the layers that reads nothing of this one. *)
LEMMA PassesLayer ==
    ASSUME Inv, Typed', UNCHANGED <<case, remote, rows, said, tail>>, night.pc \in Walking, Grown,
           night'.pc \in Walking \union {"qualify"}, night'.at \in Int, night'.at <= night.at,
           night'.fields = night.fields,
           night'.pc = "layerUnder" => night'.fetched[night'.at] # Gone,
           night'.pc # "layerRead", night'.ranges = night.ranges, night'.groups = night.groups
    PROVE  Inv'
<1>1. night.pc \in Joining \union Walking /\ night'.pc \notin {"joinUnder", "joinRead"} /\ night'.pc \notin Joining
  BY DEF Walking, Joining
<1>2. Readings'
  BY <1>1, ReadingsStay
<1>3. Resolutions'
  BY <1>1, FieldsStay DEF Resolutions, At
<1> QED
  BY <1>1, <1>2, <1>3, PassesKeep

LEMMA Walks ==
    ASSUME Typed, night.pc \in Walking
    PROVE  /\ At = night.at /\ At \in Layers /\ At \in Branches /\ At \in Int /\ Branches \subseteq Int
           /\ (IF At > 1 THEN At - 1 ELSE At) \in Int /\ (IF At > 1 THEN At - 1 ELSE At) <= At
<1>1. At = night.at /\ At \in 1 .. Top
  BY DEF Typed, Control, At
<1> QED
  BY <1>1, Basics

LEMMA WalkKeeps ==
    ASSUME Inv, NotReached \/ LayerRaises \/ LayerFetch
    PROVE  Inv'
<1>1. Typed /\ Typed'
  BY ReviewTyped DEF Inv, Review
<1> DEFINE p == IF At > 1 THEN "layer" ELSE "qualify"
           a == IF At > 1 THEN At - 1 ELSE At
<1>2. night.pc \in Walking /\ UNCHANGED <<case, remote, rows, said, tail>>
  BY <1>1, NotReachedIs, LayerRaisesIs, LayerFetchIs DEF Walking
<1>3. At = night.at /\ At \in Branches /\ At \in Int /\ a \in Int /\ a <= At
  BY <1>1, <1>2, Walks
<1>4. p \in {"layer", "qualify"}
  OBVIOUS
<1> HIDE DEF p, a
<1>5. ASSUME NEW q \in {"layer", "qualify"}, NEW b \in Int, b <= At,
             night' = Reviewed(q, b, night.left, night.fetched, night.main, night.fields)
      PROVE  Inv'
  <2>1. /\ night'.pc = q /\ night'.at = b /\ night'.fields = night.fields /\ Grown
        /\ night'.ranges = night.ranges /\ night'.groups = night.groups
    BY <1>1, <1>5, ReviewedIs DEF Grown
  <2> QED
    BY <1>1, <1>2, <1>3, <1>5, <2>1, PassesLayer DEF Walking
<1>6. ASSUME NEW head \in Fetches(At), head # Gone,
             night' = Reviewed("layerUnder", At, night.left, [night.fetched EXCEPT ![At] = head],
                               night.main, night.fields)
      PROVE  Inv'
  <2> DEFINE h == [night.fetched EXCEPT ![At] = head]
  <2> HIDE DEF h
  <2>1. /\ night'.pc = "layerUnder" /\ night'.at = At /\ night'.fields = night.fields
        /\ night'.ranges = night.ranges /\ night'.groups = night.groups
        /\ night'.fetched = h /\ night'.main = night.main
    BY <1>1, <1>6, ReviewedIs DEF h
  <2>2. Grown /\ night'.fetched[At] # Gone
    BY <1>3, <1>6, <2>1, FetchGrows DEF h
  <2> QED
    BY <1>1, <1>2, <1>3, <2>1, <2>2, PassesLayer DEF Walking
<1>7. CASE NotReached
  BY <1>1, <1>3, <1>5, <1>7, NotReachedIs
<1>8. CASE LayerRaises
  BY <1>1, <1>3, <1>4, <1>5, <1>8, LayerRaisesIs DEF p, a
<1>9. CASE LayerFetch
  BY <1>1, <1>3, <1>4, <1>5, <1>6, <1>9, LayerFetchIs DEF p, a
<1> QED
  BY <1>7, <1>8, <1>9
LEMMA LayerUnderKeeps ==
    ASSUME Inv, LayerUnder
    PROVE  Inv'
<1>1. Typed /\ Typed'
  BY ReviewTyped DEF Inv, Review
<1>2. /\ night.pc = "layerUnder" /\ At \in Layers /\ UNCHANGED <<case, remote, rows, said, tail>>
      /\ night.pc \in Joining \union Walking /\ night.fetched[At] # Gone
  BY <1>1, LayerUnderIs DEF Walking, Inv, Resolutions
<1>3. At = night.at /\ At \in Branches /\ At \in Int
      /\ (IF At > 1 THEN At - 1 ELSE At) \in Int /\ (IF At > 1 THEN At - 1 ELSE At) <= At
  BY <1>1, <1>2, Walks DEF Walking
<1>4. PICK found \in BOOLEAN, fields \in [Branches -> Span] :
         /\ UnderStep(At, found, fields)
         /\ ~found => /\ night'.pc = IF At > 1 THEN "layer" ELSE "qualify"
                      /\ night'.at = IF At > 1 THEN At - 1 ELSE At
         /\ found => night'.pc = "layerRead" /\ night'.at = At
  BY <1>1, LayerUnderIs
<1>5. /\ Grown /\ night'.fields = fields /\ night'.ranges = night.ranges /\ night'.groups = night.groups
      /\ night'.fetched[At] = night.fetched[At]
      /\ \A b \in Branches : b # At => fields[b] = night.fields[b]
      /\ ~found => fields = night.fields
      /\ found => fields[At] # Nothing
      /\ \A b \in Branches : fields[b] # Nothing => Reads(b, fields[b])'
      /\ fields[1] # Nothing => BottomIs(fields[1].base)'
  BY <1>2, <1>4, UnderKeeps
<1>6. CASE ~found
  <2>1. night'.pc \in {"layer", "qualify"} /\ night'.at \in Int /\ night'.at <= night.at
    BY <1>3, <1>4, <1>6
  <2> QED
    BY <1>1, <1>2, <1>5, <1>6, <2>1, PassesLayer DEF Walking
<1>7. CASE found
  <2>1. night'.pc = "layerRead" /\ night'.at = At /\ At' = At /\ Branches' = Branches
    BY <1>2, <1>4, <1>7 DEF At, Branches
  <2>2. \A b \in Branches : said.layer[b].read # Nothing => b # At
    BY <1>2, <1>3 DEF Inv, Readings, Walking
  <2>3. \A b \in Branches : night.fields[b] # Nothing => night'.fields[b] # Nothing
    BY <1>5, <1>7
  <2>4. Readings'
    BY <1>2, <1>3, <1>5, <2>1, <2>2, <2>3, ReadingsStay DEF Joining, Walking
  <2>5. Resolutions'
    BY <1>5, <1>7, <2>1 DEF Resolutions, Joining
  <2> QED
    BY <1>1, <1>2, <1>5, <2>1, <2>4, <2>5, PassesKeep DEF Walking
<1> QED
  BY <1>6, <1>7

LEMMA LayerReadKeeps ==
    ASSUME Inv, LayerRead
    PROVE  Inv'
<1>1. Typed /\ Typed'
  BY ReviewTyped DEF Inv, Review
<1> DEFINE p == IF At > 1 THEN "layer" ELSE "qualify"
           a == IF At > 1 THEN At - 1 ELSE At
<1>2. /\ night.pc = "layerRead" /\ night.pc \in Walking /\ UNCHANGED <<case, remote, rows, tail>>
      /\ night' = Reviewed(p, a, night.left - LayerBudget, night.fetched, night.main, night.fields)
  BY <1>1, LayerReadIs DEF Walking
<1>3. PICK found \in SUBSET case.finds :
         /\ \A f \in found : f.lens \in {"spec", "standards"} /\ f.layer = At /\ Shows(night.fields[At], f)
         /\ said' = Says1(said.join, [said.layer EXCEPT ![At] = [read |-> night.fields[At], found |-> found]])
  BY <1>1, LayerReadIs
<1>4. /\ At = night.at /\ At \in Layers /\ At \in Branches /\ At \in Int /\ Branches \subseteq Int
      /\ p \in {"layer", "qualify"} /\ (p = "layer" => a = At - 1)
  BY <1>1, <1>2, Walks
<1> HIDE DEF p, a
<1>5. /\ night'.pc = p /\ night'.at = a /\ night'.fields = night.fields /\ Grown
      /\ night'.ranges = night.ranges /\ night'.groups = night.groups /\ night'.fetched = night.fetched
  BY <1>1, <1>2, ReviewedIs DEF Grown
<1> DEFINE r == [read |-> night.fields[At], found |-> found]
           s == [said.layer EXCEPT ![At] = r]
<1>6. /\ s \in [Branches -> [read : Span, found : SUBSET case.finds]]
      /\ s[At] = r /\ \A l \in Branches : l # At => s[l] = said.layer[l]
  <2>1. said.layer \in [Branches -> [read : Span, found : SUBSET case.finds]]
    BY <1>1, SaidIs
  <2>2. r \in [read : Span, found : SUBSET case.finds]
    BY <1>1, <1>4, Basics
  <2> QED
    BY <1>4, <2>1, <2>2
<1>7. r.read = night.fields[At] /\ r.found = found
  OBVIOUS
<1> HIDE DEF r, s
<1>8. said'.join = said.join /\ said'.layer = s
  BY <1>1, <1>3, <1>6, SaidIs, SaysIs DEF r, s
<1>9. /\ (\A l \in Branches : night.fields[l] # Nothing => Reads(l, night.fields[l]))'
      /\ (night.fields[1] # Nothing => BottomIs(night.fields[1].base))'
  BY <1>2, <1>5, FieldsStay
<1>10. Resolutions'
  BY <1>4, <1>5, <1>9 DEF Resolutions, Joining
<1>11. /\ \A l, range : Reads(l, range) => Reads(l, range)'
       /\ \A base : night.fields[1] # Nothing /\ BottomIs(base) => BottomIs(base)'
  BY <1>2, <1>5, GrownKeeps DEF Before1
<1>12. night.fields[At] # Nothing
  BY <1>2 DEF Inv, Resolutions
<1>13. Branches' = Branches /\ Top' = Top
  BY <1>2 DEF Branches, Top
<1>14. ASSUME NEW l \in Branches
       PROVE  /\ s[l].read # Nothing => \E range : range = s[l].read /\ Reads(l, range)'
              /\ s[l].read # Nothing /\ night'.pc \in Walking => l > night'.at
              /\ s[l].found # {} => s[l].read # Nothing /\ night'.fields[l] = s[l].read
              /\ \A f \in s[l].found : f.lens \in {"spec", "standards"} /\ f.layer = l /\ Shows(s[l].read, f)
  <2>1. CASE l = At
    <3>1. \E range : range = night.fields[At] /\ Reads(l, range)'
      BY <1>4, <1>11, <1>12, <2>1 DEF Inv, Resolutions
    <3>2. night'.pc \in Walking => At > night'.at
      BY <1>4, <1>5 DEF Walking
    <3> QED
      BY <1>3, <1>5, <1>6, <1>7, <1>12, <2>1, <3>1, <3>2
  <2>2. CASE l # At
    <3>1. /\ said.layer[l].read # Nothing => Reads(l, said.layer[l].read) /\ l > At
          /\ said.layer[l].found # {} => said.layer[l].read # Nothing /\ night.fields[l] = said.layer[l].read
          /\ \A f \in said.layer[l].found : f.lens \in {"spec", "standards"} /\ f.layer = l
                                            /\ Shows(said.layer[l].read, f)
      BY <1>2 DEF Inv, Readings
    <3>2. night'.pc \in Walking /\ l > At => l > night'.at
      BY <1>4, <1>5 DEF Walking
    <3>3. said.layer[l].read # Nothing => \E range : range = said.layer[l].read /\ Reads(l, range)'
      BY <1>11, <3>1
    <3> QED
      BY <1>5, <1>6, <2>2, <3>1, <3>2, <3>3
  <2> QED
    BY <2>1, <2>2
<1>15. ASSUME NEW l \in Branches, s[l].read # Nothing PROVE (Reads(l, said.layer[l].read))'
  <2>1. PICK range : range = s[l].read /\ Reads(l, range)'
    BY <1>14, <1>15
  <2> QED
    BY <1>8, <2>1 DEF Reads
<1>16. said.join.found # {} =>
          /\ night'.fields[1] # Nothing /\ night'.fields[Top] # Nothing
          /\ said.join.head = night'.fetched[Top] /\ BottomIs(said.join.base)'
  <2>1. SUFFICES ASSUME said.join.found # {}
                 PROVE  /\ night'.fields[1] # Nothing /\ night'.fields[Top] # Nothing
                        /\ said.join.head = night'.fetched[Top] /\ BottomIs(said.join.base)'
    OBVIOUS
  <2>2. /\ night.fields[1] # Nothing /\ night.fields[Top] # Nothing
        /\ said.join.head = night.fetched[Top] /\ BottomIs(said.join.base)
    BY <1>2, <2>1 DEF Inv, Readings, Before1
  <2>3. PICK base : base = said.join.base
    OBVIOUS
  <2>4. BottomIs(base)'
    BY <1>11, <2>2, <2>3
  <2>5. BottomIs(said.join.base)'
    BY <1>8, <2>3, <2>4 DEF BottomIs
  <2> QED
    BY <1>5, <2>2, <2>5
<1>17. \A f \in said.join.found : f.lens = "join" /\ Shows(said.join, f)
  BY DEF Inv, Readings
<1>18. Readings'
  BY <1>4, <1>5, <1>8, <1>13, <1>14, <1>15, <1>16, <1>17 DEF Readings, Joining, Shows, At
<1> QED
  BY <1>1, <1>2, <1>4, <1>5, <1>10, <1>18, PassesKeep DEF Walking

(* A raise keeps what was fetched and forgets every range. *)
LEMMA EndReviewRaisesKeeps ==
    ASSUME Inv, EndReviewRaises
    PROVE  Inv'
<1>1. Typed /\ Typed'
  BY ReviewTyped DEF Inv, Review
<1> DEFINE j == [said.join EXCEPT !.ran = FALSE, !.found = {}]
           s == [b \in Branches |-> [said.layer[b] EXCEPT !.found = {}]]
           none == [b \in Branches |-> Nothing]
<1>2. /\ night.pc \in Joining \union Walking /\ UNCHANGED <<case, remote, rows, tail>>
      /\ night' = [night EXCEPT !.pc = "qualify", !.raised = TRUE, !.fields = none]
      /\ said' = Says1(j, s)
  BY <1>1, EndReviewRaisesIs
<1>3. /\ j \in [ran : BOOLEAN, base : Commit, head : Commit, found : SUBSET case.finds]
      /\ s \in [Branches -> [read : Span, found : SUBSET case.finds]]
      /\ j.found = {} /\ \A b \in Branches : s[b].found = {} /\ s[b].read = said.layer[b].read
  BY <1>1, SaidIs
<1>4. \A b \in Branches : none[b] = Nothing
  OBVIOUS
<1> HIDE DEF j, s, none
<1>5. said'.join = j /\ said'.layer = s
  BY <1>1, <1>2, <1>3, SaysIs
<1>6. /\ night'.pc = "qualify" /\ night'.fields = none /\ night'.fetched = night.fetched /\ night'.main = night.main
      /\ night'.ranges = night.ranges /\ night'.groups = night.groups
  BY <1>1, <1>2 DEF Typed, NightType
<1>7. Grown
  BY <1>6 DEF Grown
<1>8. Branches' = Branches /\ Top' = Top /\ 1 \in Branches
  BY <1>1, <1>2, Basics DEF Branches, Top
<1>9. Resolutions'
  BY <1>4, <1>6, <1>8 DEF Resolutions, Joining
<1>10. \A l, range : Reads(l, range) => Reads(l, range)'
  BY <1>2, <1>7, GrownKeeps DEF Before1
<1>11. ASSUME NEW b \in Branches, s[b].read # Nothing PROVE (Reads(b, said.layer[b].read))'
  <2>1. Reads(b, s[b].read)
    BY <1>3, <1>11 DEF Inv, Readings
  <2>2. PICK range : range = s[b].read
    OBVIOUS
  <2>3. Reads(b, range)'
    BY <1>10, <2>1, <2>2
  <2> QED
    BY <1>5, <2>2, <2>3 DEF Reads
<1>12. Readings'
  BY <1>3, <1>5, <1>6, <1>8, <1>11 DEF Readings, Joining, Walking
<1> QED
  BY <1>1, <1>2, <1>6, <1>7, <1>9, <1>12, PassesKeep
LEMMA BuildEndsKeeps ==
    ASSUME Inv, BuildEnds
    PROVE  Inv'
<1>1. Typed /\ Typed'
  BY ReviewTyped DEF Inv, Review
<1>2. /\ night.pc = "build" /\ Top >= 1 /\ UNCHANGED <<case, remote, rows, said, tail>> /\ night.pc \in Before1
  BY <1>1, BuildEndsIs DEF Before1
<1>3. PICK p \in {"join", "layer"}, a \in {1, Top} :
         /\ night' = Reviewed(p, a, night.left, night.fetched, night.main, night.fields)
         /\ BuildEnds
  BY <1>1, BuildEndsIs
<1>4. /\ night'.pc = p /\ night'.at = a /\ night'.fields = night.fields /\ Grown
      /\ night'.ranges = night.ranges /\ night'.groups = night.groups
  BY <1>1, <1>3, ReviewedIs DEF Grown
<1>5. /\ History'
      /\ \A l, range : Reads(l, range) => Reads(l, range)'
      /\ \A base : night.fields[1] # Nothing /\ BottomIs(base) => BottomIs(base)'
  BY <1>2, <1>4, GrownKeeps
<1>6. p = "join" => a = 1
  BY <1>1, <1>3, <1>4 DEF BuildEnds, StartsReview, Typed, NightType
<1>7. Branches' = Branches /\ Top' = Top
  BY <1>2 DEF Branches, Top
<1>8. Resolutions'
  BY <1>4, <1>5, <1>6, <1>7 DEF Inv, Resolutions, Joining, At
<1>9. Readings'
  BY <1>2, <1>4, <1>7 DEF Inv, Readings, Joining, Walking, At
<1>10. Deciding' /\ Accounts' /\ Finishing'
  BY <1>2, <1>4, RestKeeps DEF Building, Joining, Walking
<1> QED
  BY <1>1, <1>5, <1>8, <1>9, <1>10 DEF Inv
-----------------------------------------------------------------------------
(* A layer comes on top, built by the order or by a follow-up. *)
LEMMA LayerKeeps ==
    ASSUME Inv, NEW g \in {0, 1}, Top + 1 \in Branches, Layer(Top + 1, g), UNCHANGED case,
           night'.fetched = night.fetched, night'.main = night.main,
           night.pc \in {"build", "run"}, g = 1 => Top >= 1
    PROVE  /\ History'
           /\ \A l, range : Reads(l, range) => Reads(l, range)'
           /\ \A base : night.fields[1] # Nothing /\ BottomIs(base) => BottomIs(base)'
<1> DEFINE l == Top + 1
           under == IF Predecessor(l) = -1 THEN {Main(0)} ELSE remote.head[l - 1]
<1>1. /\ Typed /\ Heads /\ Packages /\ Fetched /\ FollowUpOver /\ Resolutions /\ Control
      /\ Layers \subseteq Branches /\ Layers = 1 .. Top /\ Top \in Nat /\ Branches \subseteq Int
      /\ 0 \in Branches /\ (\A i \in Layers : i - 1 \in Branches) /\ remote.head \in [Branches -> Commit]
      /\ case.base \in BOOLEAN /\ l \in Branches /\ l \in Int /\ l - 1 \in Branches
      /\ Branches = 0 .. case.size + 1 /\ case.size \in Nat
      /\ remote = [main |-> remote.main, moves |-> remote.moves, head |-> remote.head]
  <2>1. Typed
    BY DEF Inv
  <2>2. remote = [main |-> remote.main, moves |-> remote.moves, head |-> remote.head]
    BY <2>1 DEF Typed, RemoteType
  <2> QED
    BY <2>1, <2>2, Basics DEF Inv, History, Typed
<1>2. /\ under \in Commit /\ under # Gone
      /\ remote' = [remote EXCEPT !.head = [remote.head EXCEPT ![l] = under \union {Own(l)}]]
      /\ Top' = l /\ Layers' = 1 .. l
      /\ \A i \in Layers : rows'.layers[i] = rows.layers[i]
      /\ rows'.layers[l] = [pushed |-> under \union {Own(l)}, over |-> Predecessor(l), gen |-> g,
              overHead |-> IF l > 1 THEN rows.layers[l - 1].pushed
                           ELSE IF case.base THEN {Main(0), Own(0)} ELSE {}]
  BY <1>1, LayerIs
<1>3. /\ remote'.main = remote.main /\ remote'.head[l] = under \union {Own(l)}
      /\ \A b \in Branches : b # l => remote'.head[b] = remote.head[b]
  BY <1>1, <1>2
<1>4. Branches' = Branches
  BY DEF Branches
<1>5. /\ rows'.layers[l].pushed = under \union {Own(l)} /\ rows'.layers[l].gen = g
      /\ rows'.layers[l].overHead = IF l > 1 THEN rows.layers[l - 1].pushed
                                    ELSE IF case.base THEN {Main(0), Own(0)} ELSE {}
  BY <1>2
<1>6. l > 1 \/ case.base => under = remote.head[l - 1]
  BY <1>1 DEF Predecessor
<1>7. ~(l > 1 \/ case.base) => under = {Main(0)} /\ l = 1
  <2>1. SUFFICES ASSUME ~(l > 1), ~case.base PROVE under = {Main(0)} /\ l = 1
    OBVIOUS
  <2>2. l = 1
    BY <1>1, <2>1
  <2>3. Predecessor(l) = -1
    BY <2>1, <2>2 DEF Predecessor
  <2> QED
    BY <2>2, <2>3
<1> HIDE DEF under
<1>0. /\ \A j \in Branches : Main(0) \notin Of(j)
      /\ \A j \in Branches : j # l => Own(l) \notin Of(j)
      /\ \A j \in Branches : Own(j) \in Of(j) /\ Redo(j) \in Of(j)
  BY <1>1, NamesDiffer DEF Of
<1>8. Content(l - 1, under) /\ Unbuilt(under)
  <2>1. CASE l > 1 \/ case.base
    BY <1>1, <1>2, <1>6, <2>1 DEF Heads
  <2>2. CASE ~(l > 1 \/ case.base)
    <3>1. under = {Main(0)} /\ l = 1 /\ l - 1 = 0
      BY <1>7, <2>2
    <3>2. \A j \in Branches : Of(j) \intersect under = {}
      BY <1>0, <3>1
    <3>3. \A j \in Branches : ~(1 <= j /\ j <= l - 1)
      BY <1>1, <3>1
    <3> QED
      BY <3>2, <3>3 DEF Content, Unbuilt
  <2> QED
    BY <2>1, <2>2
<1>9. Own(l) \notin under /\ Redo(l) \notin under /\ Redo(l) # Own(l)
  BY <1>1, <1>8, NamesDiffer DEF Unbuilt, Of
<1>10. Content(l, under \union {Own(l)})
  <2>1. \A j \in Branches : j > 1 /\ j > l => Of(j) \intersect (under \union {Own(l)}) = {}
    BY <1>0, <1>1, <1>8 DEF Unbuilt
  <2>2. ASSUME NEW j \in Branches, 1 <= j, j <= l
        PROVE  {Own(j), Redo(j)} \intersect (under \union {Own(l)}) # {}
    <3>1. CASE j = l
      BY <3>1
    <3>2. CASE j # l
      <4>1. j <= l - 1
        BY <1>1, <2>2, <3>2
      <4>2. {Own(j), Redo(j)} \intersect under # {}
        BY <1>8, <2>2, <4>1 DEF Content
      <4> QED
        BY <4>2
    <3> QED
      BY <3>1, <3>2
  <2> QED
    BY <2>1, <2>2 DEF Content
<1>11. \A j \in Branches : j > l => Of(j) \intersect (under \union {Own(l)}) = {}
  BY <1>1, <1>8, NamesDiffer DEF Unbuilt, Of
<1> HIDE DEF l
<1>12. l = Top + 1
  BY DEF l
<1>13. Heads'
  <2>1. \A j \in Branches : j > 1 => Of(j) \intersect remote.main = {}
    BY <1>1 DEF Heads
  <2>2. \A j \in Branches : j > l => Of(j) \intersect remote.main = {}
    BY <1>1, <1>12 DEF Heads, Unbuilt
  <2>3. ASSUME NEW b \in Branches
        PROVE  /\ b > l => remote'.head[b] = Gone
               /\ remote'.head[b] # Gone => /\ Content(b, remote'.head[b])
                                            /\ \A j \in Branches : j > l => Of(j) \intersect remote'.head[b] = {}
    <3>1. CASE b = l
      <4>1. ~(l > l) /\ remote'.head[l] = under \union {Own(l)}
        BY <1>1, <1>3
      <4> QED
        BY <1>10, <1>11, <3>1, <4>1
    <3>2. CASE b # l
      BY <1>1, <1>3, <1>12, <3>2 DEF Heads, Unbuilt
    <3> QED
      BY <3>1, <3>2
  <2> QED
    BY <1>2, <1>3, <1>4, <2>1, <2>2, <2>3 DEF Heads, Unbuilt, Content
<1>14. Packages'
  <2>1. ASSUME NEW i \in 1 .. l
        PROVE  /\ Own(i) \in rows'.layers[i].pushed
               /\ Redo(i) \notin rows'.layers[i].pushed
               /\ Content(i, rows'.layers[i].pushed)
               /\ Later(i, rows'.layers[i].pushed, remote'.head[i])
               /\ i > 1 => rows'.layers[i].overHead = rows'.layers[i - 1].pushed
    <3>1. CASE i = l
      <4>1. l > 1 => l - 1 \in Layers
        BY <1>1, <1>12
      <4>2. rows'.layers[l].pushed = under \union {Own(l)} /\ remote'.head[l] = under \union {Own(l)}
        BY <1>3, <1>5
      <4>3. Own(l) \in under \union {Own(l)} /\ Redo(l) \notin under \union {Own(l)}
        BY <1>9
      <4>4. Later(l, under \union {Own(l)}, under \union {Own(l)})
        BY LaterIs
      <4>5. l > 1 => rows'.layers[l].overHead = rows'.layers[l - 1].pushed
        BY <1>2, <1>5, <4>1
      <4> QED
        BY <1>10, <3>1, <4>2, <4>3, <4>4, <4>5
    <3>2. CASE i # l
      <4>1. i \in Layers /\ i \in Branches /\ (i > 1 => i - 1 \in Layers)
        BY <1>1, <1>12, <2>1, <3>2
      <4> QED
        BY ZenonT(60), <1>1, <1>2, <1>3, <3>2, <4>1 DEF Packages
    <3> QED
      BY <3>1, <3>2
  <2>2. /\ ~case.base => rows'.layers[1].pushed = {Main(0), Own(1)}
        /\ case.base => rows'.layers[1].overHead = {Main(0), Own(0)}
    <3>1. CASE l = 1
      BY <1>5, <1>7, <3>1
    <3>2. CASE l # 1
      <4>1. 1 \in Layers
        BY <1>1, <1>12, <3>2
      <4> QED
        BY <1>1, <1>2, <4>1 DEF Packages
    <3> QED
      BY <3>1, <3>2
  <2> QED
    BY <1>2, <1>4, <2>1, <2>2 DEF Packages, Content
<1>15. Fetched'
  <2>1. ASSUME NEW b \in Branches, night.fetched[b] # Gone
        PROVE  /\ b <= l /\ Content(b, night.fetched[b])
               /\ b \in 1 .. l => /\ Later(b, rows'.layers[b].pushed, night.fetched[b])
                                  /\ Later(b, night.fetched[b], remote'.head[b])
    <3>1. b <= Top /\ Content(b, night.fetched[b])
      BY <1>1, <2>1 DEF Fetched
    <3>2. b \in 1 .. l => b \in Layers /\ b # l
      BY <1>1, <1>12, <3>1
    <3> QED
      BY SMTT(30), <1>1, <1>2, <1>3, <1>12, <2>1, <3>1, <3>2 DEF Fetched
  <2>2. \A j \in Branches : j > 1 => Of(j) \intersect night.main = {}
    BY <1>1 DEF Fetched
  <2> QED
    BY <1>2, <1>4, <2>1, <2>2 DEF Fetched, Content
<1>16. FollowUpOver'
  <2>1. SUFFICES ASSUME NEW i \in 1 .. l, rows'.layers[i].gen = 1
                 PROVE  LET cut == rows'.layers[i].pushed \ {Own(i)}
                        IN  /\ cut # Gone
                            /\ Later(i - 1, rows'.layers[i - 1].pushed, cut)
                            /\ Later(i - 1, cut, remote'.head[i - 1])
                            /\ night.fetched[i - 1] # Gone => Later(i - 1, night.fetched[i - 1], cut)
    BY <1>2 DEF FollowUpOver
  <2>2. i = l
    <3>1. \A k \in Layers : rows.layers[k].gen = 0
      BY <1>1 DEF Control, Before1
    <3> QED
      BY SMTT(30), <1>1, <1>2, <1>12, <2>1, <3>1
  <2>3. g = 1 /\ l > 1 /\ l - 1 = Top /\ l - 1 \in Layers /\ l - 1 # l
    BY <1>1, <1>5, <1>12, <2>1, <2>2
  <2>4. rows'.layers[l].pushed \ {Own(l)} = under
    BY <1>5, <1>9
  <2>5. under = remote.head[l - 1] /\ remote'.head[l - 1] = under
    BY <1>1, <1>3, <1>6, <2>3
  <2>6. Later(l - 1, rows.layers[l - 1].pushed, under)
    BY <1>1, <2>3, <2>5 DEF Packages
  <2>7. night.fetched[l - 1] # Gone => Later(l - 1, night.fetched[l - 1], under)
    BY <1>1, <2>3, <2>5 DEF Fetched
  <2>8. Later(l - 1, under, remote'.head[l - 1])
    BY <2>5, LaterIs
  <2>9. rows'.layers[l - 1] = rows.layers[l - 1]
    BY <1>2, <2>3
  <2> QED
    BY <1>2, <2>2, <2>4, <2>6, <2>7, <2>8, <2>9
<1>17. ASSUME NEW k, NEW range, Reads(k, range) PROVE Reads(k, range)'
  <2>1. k \in Layers /\ k \in Layers'
    BY <1>1, <1>2, <1>12, <1>17 DEF Reads
  <2> QED
    BY <1>1, <1>2, <1>17, <2>1, ReadsStay
<1>18. ASSUME NEW base, night.fields[1] # Nothing, BottomIs(base) PROVE BottomIs(base)'
  <2>1. 1 \in Layers
    BY <1>1, <1>18, Basics DEF Resolutions, Reads, Branches
  <2>2. remote'.head[0] = remote.head[0] /\ rows'.layers[1] = rows.layers[1]
    BY <1>1, <1>2, <1>3, <1>12, <2>1
  <2> QED
    BY <1>18, <2>2, BottomStays
<1> QED
  BY <1>13, <1>14, <1>15, <1>16, <1>17, <1>18 DEF History
LEMMA BuildLayerKeeps ==
    ASSUME Inv, BuildLayer
    PROVE  Inv'
<1>1. Typed /\ Typed'
  BY ReviewTyped DEF Inv, Review
<1>2. /\ night.pc = "build" /\ At = Top + 1 /\ At \in Branches /\ Layer(Top + 1, 0) /\ UNCHANGED <<case, said, tail>>
  BY <1>1, BuildLayerIs
<1>3. PICK p \in {"build", "join", "layer"}, a \in Int :
         /\ night' = Reviewed(p, a, night.left, night.fetched, night.main, night.fields)
         /\ p = "join" => a = 1
  BY <1>1, BuildLayerIs
<1>4. /\ night'.pc = p /\ night'.at = a /\ night'.fields = night.fields
      /\ night'.fetched = night.fetched /\ night'.main = night.main
      /\ night'.ranges = night.ranges /\ night'.groups = night.groups
  BY <1>1, <1>3, ReviewedIs
<1>5. /\ History'
      /\ \A l, range : Reads(l, range) => Reads(l, range)'
      /\ \A base : night.fields[1] # Nothing /\ BottomIs(base) => BottomIs(base)'
  BY <1>2, <1>4, LayerKeeps
<1>6. Branches' = Branches /\ rows'.quals = rows.quals
  BY <1>1, <1>2, LayerIs DEF Branches
<1>7. Resolutions'
  BY <1>3, <1>4, <1>5, <1>6 DEF Inv, Resolutions, Joining, At
<1>8. Readings'
  BY <1>2, <1>4, <1>6 DEF Inv, Readings, Joining, Walking, At
<1>9. Deciding' /\ Accounts' /\ Finishing'
  BY <1>2, <1>4, <1>6, RestKeeps DEF Building, Joining, Walking
<1> QED
  BY <1>1, <1>5, <1>7, <1>8, <1>9 DEF Inv

LEMMA FollowUpRunsKeeps ==
    ASSUME Inv, FollowUpRuns
    PROVE  Inv'
<1>1. Typed /\ Accounts /\ Deciding /\ Finishing
  BY DEF Inv
<1>2. /\ night.pc = "run" /\ Layer(Top + 1, 1) /\ night' = [night EXCEPT !.pc = "json"]
      /\ UNCHANGED <<case, said, tail>>
  BY DEF FollowUpRuns
<1>3. /\ Top \in Nat /\ Top >= 1 /\ Top <= case.size /\ Top + 1 \in Branches /\ Layers = 1 .. Top
      /\ case.size \in Nat
      /\ \A i \in Layers : rows.layers[i].gen = 0 /\ rows.layers[i].over = Predecessor(i)
  BY <1>1, <1>2, Basics DEF Typed, Control, Before1
<1>4. /\ Top' = Top + 1 /\ Layers' = 1 .. Top + 1 /\ RowsType' /\ RemoteType' /\ rows'.quals = rows.quals
      /\ \A i \in Layers : rows'.layers[i] = rows.layers[i]
      /\ rows'.layers[Top + 1].over = Predecessor(Top + 1) /\ rows'.layers[Top + 1].gen = 1
  BY <1>1, <1>2, <1>3, LayerIs
<1>5. night' = Tailed("json", night.ranges, night.groups)
  BY <1>1, <1>2 DEF Typed, NightType, Tailed
<1>6. NightType'
  <2>1. "json" \in Phases /\ night.ranges \in SUBSET RangeType /\ night.groups \in Seq(KeySet)
    BY <1>1 DEF Typed, NightType, RangeType, Phases, Ending
  <2> QED
    BY <1>1, <1>2, <1>5, <2>1, TailedTypes
<1>7. /\ night'.pc = "json" /\ UNCHANGED <<night.at, night.ranges, night.groups, night.group>>
      /\ night'.fetched = night.fetched /\ night'.main = night.main /\ night'.fields = night.fields
  BY <1>1, <1>2 DEF Typed, NightType
<1>8. Control'
  <2>1. case' = case /\ case \in Cases /\ \A i \in Int : Predecessor(i)' = Predecessor(i)
    BY <1>1, <1>2, Basics DEF Predecessor
  <2>2. ASSUME NEW i \in Layers'
        PROVE  /\ rows'.layers[i].gen = 1 => i = Top + 1 /\ i > 1
               /\ rows'.layers[i].gen = 0 => i <= case.size
               /\ rows'.layers[i].over = Predecessor(i) /\ i \in Int
    BY <1>3, <1>4
  <2> QED
    BY <1>3, <1>4, <1>7, <2>1, <2>2 DEF Control, Before1, Joining, Walking
<1>9. Typed'
  BY <1>1, <1>2, <1>4, <1>6, <1>8, TypesStay DEF Typed
<1>10. /\ History'
       /\ \A l, range : Reads(l, range) => Reads(l, range)'
       /\ \A base : night.fields[1] # Nothing /\ BottomIs(base) => BottomIs(base)'
  BY <1>2, <1>3, <1>7, LayerKeeps
<1>11. Branches' = Branches
  BY <1>2 DEF Branches
<1>12. Resolutions'
  BY <1>7, <1>10, <1>11 DEF Inv, Resolutions, Joining
<1>13. Readings'
  <2>1. ASSUME NEW l \in Branches
        PROVE  /\ said.layer[l].read # Nothing => Reads(l, said.layer[l].read)'
               /\ said.layer[l].found # {} => said.layer[l].read # Nothing /\ night.fields[l] = said.layer[l].read
               /\ \A f \in said.layer[l].found : f.lens \in {"spec", "standards"} /\ f.layer = l
                                                 /\ Shows(said.layer[l].read, f)
    <3>1. said.layer[l].read # Nothing => Reads(l, said.layer[l].read)
      BY DEF Inv, Readings
    <3>2. PICK range : range = said.layer[l].read
      OBVIOUS
    <3>3. said.layer[l].read # Nothing => Reads(l, range)'
      BY <1>10, <3>1, <3>2
    <3>4. said.layer[l].read # Nothing => Reads(l, said.layer[l].read)'
      BY <1>2, <3>2, <3>3 DEF Reads
    <3> QED
      BY <3>4 DEF Inv, Readings
  <2>2. \A f \in said.join.found : f.lens = "join" /\ Shows(said.join, f)
    BY DEF Inv, Readings
  <2> QED
    BY <1>2, <1>7, <1>11, <2>1, <2>2 DEF Readings, Joining, Walking, Before1, Shows
<1>14. Deciding'
  <2>1. night.ranges = {}
    BY <1>1, <1>2 DEF Deciding
  <2> QED
    BY <1>1, <1>2, <1>4, <1>7, <2>1 DEF Deciding, Joining, Walking
<1>15. Accounts'
  <2>1. Qualifieds' = Qualifieds /\ (\A k : FoundIn(k)' = FoundIn(k)) /\ (\A q : Key(q)' = Key(q))
        /\ \A q : IsPooled(q)' = IsPooled(q)
    BY <1>2, <1>4 DEF Qualifieds, FoundIn, Key, IsPooled
  <2>2. tail.kept /\ \A q \in Qualifieds : IsPooled(q) \/ Key(q) \in tail.minted
    BY <1>1, <1>2 DEF Accounts
  <2> QED
    BY <1>1, <1>2, <1>7, <2>1, <2>2 DEF Accounts, Ending, Joining, Walking
<1>16. Finishing'
  BY <1>1, <1>2, <1>7 DEF Finishing
<1> QED
  BY <1>9, <1>10, <1>12, <1>13, <1>14, <1>15, <1>16 DEF Inv

LEMMA StutterKeeps ==
    ASSUME Inv, UNCHANGED vars
    PROVE  Inv'
<1>1. UNCHANGED <<case, remote, rows, night, said, tail>> /\ Typed
  BY DEF vars, Inv
<1>2. Top' = Top /\ Layers' = Layers /\ Branches' = Branches /\ At' = At
  BY <1>1 DEF Top, Layers, Branches, At
<1>3. Typed'
  <2>1. Control'
    BY <1>1, <1>2 DEF Typed, Control, Predecessor
  <2> QED
    BY <1>1, <2>1, TypesStay DEF Typed
<1>4. Grown
  BY <1>1 DEF Grown
<1>5. History'
  BY <1>1, <1>2 DEF Inv, History, Heads, Packages, Fetched, FollowUpOver, Unbuilt, Content
<1>6. /\ \A l, range : Reads(l, range) => Reads(l, range)'
      /\ \A base : BottomIs(base) => BottomIs(base)'
  BY <1>1, <1>2, BottomStays DEF Reads, IsBase, OwnParent
<1>7. Resolutions'
  BY <1>1, <1>2, <1>6 DEF Inv, Resolutions
<1>8. Readings'
  BY <1>1, <1>2, <1>6 DEF Inv, Readings, Shows
<1>9. Deciding'
  BY <1>1, <1>2 DEF Inv, Deciding, RangeIs, LayerOf, Shows
<1>10. Accounts'
  BY <1>1, <1>2 DEF Inv, Accounts, Qualifieds, Waiting, IsPooled, FoundIn, Key, Group
<1>11. Finishing'
  BY <1>1, <1>2 DEF Inv, Finishing, Agreed, GradedHead, Graded, Packaged, OwnParent
<1> QED
  BY <1>3, <1>5, <1>7, <1>8, <1>9, <1>10, <1>11 DEF Inv

LEMMA ReviewKeeps ==
    ASSUME Inv, Review
    PROVE  Inv'
  BY BuildLayerKeeps, BuildEndsKeeps, JoinFetchKeeps, JoinUnderKeeps, JoinReadKeeps, JoinRaisesKeeps, WalkKeeps,
     LayerUnderKeeps, LayerReadKeeps, EndReviewRaisesKeeps DEF Review

LEMMA InvAtFirst == Init => Inv
<1> SUFFICES ASSUME Init PROVE Inv
  OBVIOUS
<1>1. Typed
  BY TypedAtFirst
<1>2. /\ Layers = {} /\ Top = 0 /\ Branches \subseteq Int /\ case.base \in BOOLEAN /\ 1 \in Branches
      /\ Branches = 0 .. case.size + 1
  <2>1. rows.layers = <<>>
    BY DEF Init
  <2> QED
    BY <1>1, <2>1, Basics DEF Top, Layers
<1>3. /\ remote.main = {Main(0)} /\ night.main = Gone /\ \A b \in Branches : night.fetched[b] = Gone
      /\ \A b \in Branches : night.fields[b] = Nothing
      /\ \A b \in Branches : remote.head[b] = IF b = 0 /\ case.base THEN {Main(0), Own(0)} ELSE Gone
      /\ \A b \in Branches : said.layer[b] = [read |-> Nothing, found |-> {}]
  BY DEF Init
<1>4. \A j \in Branches : Main(0) \notin Of(j) /\ (j # 0 => Own(0) \notin Of(j))
  BY <1>2, NamesDiffer DEF Of
<1>5. Heads
  <2>1. ASSUME NEW b \in Branches, remote.head[b] # Gone
        PROVE  Content(b, remote.head[b]) /\ Unbuilt(remote.head[b])
    <3>1. b = 0 /\ remote.head[b] = {Main(0), Own(0)}
      BY <1>3, <2>1
    <3>2. \A j \in Branches : j > 0 => Of(j) \intersect remote.head[b] = {}
      BY <1>2, <1>4, <3>1
    <3> QED
      BY <1>2, <3>1, <3>2 DEF Content, Unbuilt
  <2>2. Unbuilt(remote.main) /\ \A j \in Branches : j > 1 => Of(j) \intersect remote.main = {}
    BY <1>3, <1>4 DEF Unbuilt
  <2>3. \A b \in Branches : b > Top => remote.head[b] = Gone
    BY <1>2, <1>3
  <2> QED
    BY <2>1, <2>2, <2>3 DEF Heads
<1>6. Packages /\ Fetched /\ FollowUpOver
  BY <1>2, <1>3 DEF Packages, Fetched, FollowUpOver, Gone
<1>7. Resolutions
  BY <1>2, <1>3 DEF Init, Resolutions, Joining
<1>8. Readings
  BY <1>3 DEF Init, Readings, Walking
<1>9. Deciding
  BY DEF Init, Deciding
<1>10. Accounts
  BY DEF Init, Accounts, Qualifieds, Ending
<1>11. Finishing
  BY DEF Init, Finishing
<1> QED
  BY <1>1, <1>5, <1>6, <1>7, <1>8, <1>9, <1>10, <1>11 DEF Inv, History

(* The strengthening that every theorem below rests on. *)
THEOREM Inductive == Spec => []Inv
<1>1. Init => Inv
  BY InvAtFirst
<1>2. Inv /\ [Next]_vars => Inv'
  <2>1. SUFFICES ASSUME Inv, [Next]_vars PROVE Inv'
    OBVIOUS
  <2>2. CASE Write
    BY <2>1, <2>2, WriteKeeps, FollowUpRunsKeeps
  <2> QED
    BY <2>1, <2>2, OutsideKeeps, ReviewKeeps, QualifyKeeps, FinishKeeps, StutterKeeps DEF Next
<1> QED
  BY <1>1, <1>2, PTL DEF Spec
-----------------------------------------------------------------------------
(* The theorems. *)

(* A range's base misses the layer's own change, and has every change      *)
(* below it.                                                               *)
LEMMA BaseMisses ==
    ASSUME Inv, NEW l, NEW range, Reads(l, range)
    PROVE  /\ l \in Layers /\ l \in Branches
           /\ \/ {Own(l), Redo(l)} \intersect (range.head \ range.base) # {}
              \/ l = 1 /\ \/ Redo(1) \in night.main
                          \/ {Own(1), Redo(1)} \intersect night.fetched[0] # {}
           /\ \A j \in Layers \ {l} : Own(j) \in range.head \ range.base => Redo(j) \in range.base
<1>1. /\ Typed /\ Packages /\ Fetched /\ Control /\ l \in Layers /\ Layers \subseteq Branches /\ Branches \subseteq Int
      /\ Layers = 1 .. Top /\ Top \in Nat /\ case.base \in BOOLEAN /\ l \in Int /\ l >= 1 /\ l \in Branches
      /\ l - 1 \in Branches /\ Branches = 0 .. case.size + 1 /\ case.size \in Nat
  <2>1. Typed
    BY DEF Inv
  <2> QED
    BY <2>1, Basics DEF Inv, History, Typed, Reads
<1> DEFINE head == range.head
           base == range.base
           pushed == rows.layers[l].pushed
<1>2. head = night.fetched[l] /\ night.fetched[l] # Gone /\ base \subseteq head /\ IsBase(l, base)
  BY DEF Reads
<1>3. Content(l, head) /\ Content(l, pushed) /\ Own(l) \in pushed /\ Redo(l) \notin pushed /\ Later(l, pushed, head)
  BY <1>1, <1>2 DEF Fetched, Packages
<1>4. OwnParent(l) = pushed \ {Own(l)} /\ rows.layers[l].over = Predecessor(l)
  BY <1>1 DEF OwnParent, Control
<1>5. {Own(l), Redo(l)} \intersect head # {}
  BY <1>1, <1>3 DEF Content
<1>6. l > 1 => rows.layers[l].overHead = rows.layers[l - 1].pushed /\ l - 1 \in Layers
  BY <1>1 DEF Packages
<1> HIDE DEF head, base, pushed
<1>7. ASSUME Own(l) \notin base, Redo(l) \notin base
      PROVE  {Own(l), Redo(l)} \intersect (head \ base) # {}
  BY <1>5, <1>7
<1>8. \/ {Own(l), Redo(l)} \intersect (head \ base) # {}
      \/ l = 1 /\ \/ Redo(1) \in night.main
                  \/ {Own(1), Redo(1)} \intersect night.fetched[0] # {}
  <2>1. CASE base = OwnParent(l)
    <3>1. Own(l) \notin base /\ Redo(l) \notin base
      BY <1>3, <1>4, <2>1
    <3> QED
      BY <1>7, <3>1
  <2>2. CASE /\ rows.layers[l].over = -1 /\ base = night.fetched[l] \intersect night.main
             /\ OwnParent(l) \subseteq base /\ ~(pushed \subseteq base)
    <3>1. l = 1
      BY <1>1, <1>4, <2>2 DEF Predecessor
    <3>2. Own(l) \notin base
      BY <1>4, <2>2
    <3>3. Redo(l) \in base => Redo(1) \in night.main
      BY <2>2, <3>1
    <3> QED
      BY <1>7, <3>1, <3>2, <3>3
  <2>3. CASE /\ l > 1
             /\ \/ base = rows.layers[l].overHead
                \/ night.fetched[l - 1] # Gone /\ base = night.fetched[l - 1]
    <3>1. Content(l - 1, base)
      BY <1>1, <1>6, <2>3 DEF Packages, Fetched
    <3>2. Of(l) \intersect base = {}
      BY <1>1, <2>3, <3>1 DEF Content
    <3> QED
      BY <1>7, <3>2 DEF Of
  <2>4. CASE /\ l = 1 /\ rows.layers[l].over # -1
             /\ \/ base = rows.layers[l].overHead
                \/ night.fetched[l - 1] # Gone /\ base = night.fetched[l - 1]
    <3>1. case.base /\ l - 1 = 0
      BY <1>1, <1>4, <2>4 DEF Predecessor
    <3>2. CASE base = rows.layers[l].overHead
      <4>1. base = {Main(0), Own(0)}
        BY <1>1, <2>4, <3>1, <3>2 DEF Packages
      <4> QED
        BY <1>1, <1>7, <2>4, <4>1, NamesDiffer
    <3>3. CASE base = night.fetched[0]
      BY <1>7, <2>4, <3>3
    <3> QED
      BY <2>4, <3>1, <3>2, <3>3
  <2>5. l = 1 \/ l > 1
    BY <1>1
  <2> QED
    BY <1>2, <2>1, <2>2, <2>3, <2>4, <2>5 DEF IsBase, pushed
<1>9. ASSUME NEW j \in Layers, j # l, Own(j) \in head, Own(j) \notin base
      PROVE  Redo(j) \in base
  <2>1. j \in Branches /\ j \in Int /\ j >= 1
    BY <1>1
  <2>2. ~(j > l)
    <3>1. j > l => j > 1 /\ Own(j) \in Of(j)
      BY <1>1, <2>1 DEF Of
    <3> QED
      BY <1>3, <1>9, <2>1, <3>1 DEF Content
  <2>3. j <= l - 1 /\ j <= l /\ l > 1
    BY <1>1, <1>9, <2>1, <2>2
  <2>4. rows.layers[l].over # -1
    BY <1>1, <1>4, <2>3 DEF Predecessor
  <2>5. CASE base = OwnParent(l)
    <3>1. {Own(j), Redo(j)} \intersect pushed # {}
      BY <1>3, <2>1, <2>3 DEF Content
    <3>2. Own(j) # Own(l) /\ Redo(j) # Own(l)
      BY <1>1, <1>9, <2>1, NamesDiffer
    <3> QED
      BY <1>4, <1>9, <2>5, <3>1, <3>2
  <2>6. CASE \/ base = rows.layers[l].overHead
             \/ night.fetched[l - 1] # Gone /\ base = night.fetched[l - 1]
    <3>1. Content(l - 1, base)
      BY <1>1, <1>6, <2>3, <2>6 DEF Packages, Fetched
    <3> QED
      BY <1>9, <2>1, <2>3, <3>1 DEF Content
  <2> QED
    BY <1>2, <2>4, <2>5, <2>6 DEF IsBase
<1> QED
  BY <1>1, <1>8, <1>9 DEF head, base

(* What a layer's lenses read is that layer's own change and no other's,   *)
(* however the branches move under the review (end_review._layer_range).   *)
THEOREM ReadsItsOwn == Spec => []RangeIsItsOwn
<1>1. Inv => RangeIsItsOwn
  <2>1. SUFFICES ASSUME Inv, NEW l \in Branches, said.layer[l].read # Nothing
                 PROVE  LET read == said.layer[l].read
                        IN  /\ \/ {Own(l), Redo(l)} \intersect (read.head \ read.base) # {}
                               \/ l = 1 /\ \/ Redo(1) \in night.main
                                           \/ {Own(1), Redo(1)} \intersect night.fetched[0] # {}
                            /\ \A j \in Layers \ {l} : Own(j) \in read.head \ read.base => Redo(j) \in read.base
    BY DEF RangeIsItsOwn
  <2>2. Reads(l, said.layer[l].read)
    BY <2>1 DEF Inv, Readings
  <2> QED
    BY <2>1, <2>2, BaseMisses
<1> QED
  BY <1>1, Inductive, PTL

(* The last layer of the order, under the one a follow-up may have added. *)
LEMMA TopOfOrder ==
    ASSUME Inv, Top >= 1
    PROVE  LET l == Max({i \in Layers : rows.layers[i].gen = 0})
           IN  /\ l \in Layers /\ rows.layers[l].gen = 0
               /\ \/ l = Top
                  \/ l = Top - 1 /\ rows.layers[Top].gen = 1
<1>1. /\ Typed /\ Control /\ Layers = 1 .. Top /\ Top \in Nat
      /\ \A i \in Layers : rows.layers[i].gen \in {0, 1}
  <2>1. Typed
    BY DEF Inv
  <2> QED
    BY <2>1, Basics DEF Typed
<1> DEFINE S == {i \in Layers : rows.layers[i].gen = 0}
<1>2. ASSUME NEW x \in S, \A y \in S : x >= y PROVE Max(S) = x
  <2>1. \A y \in S : (\A z \in S : y >= z) => y = x
    BY <1>1, <1>2
  <2> QED
    BY <1>2, <2>1 DEF Max
<1>3. CASE rows.layers[Top].gen = 0
  <2>1. Top \in S /\ \A y \in S : Top >= y
    BY <1>1, <1>3
  <2> QED
    BY <1>1, <1>2, <1>3, <2>1
<1>4. CASE rows.layers[Top].gen = 1
  <2>1. Top \in Layers /\ Top > 1
    BY <1>1, <1>4 DEF Control
  <2>2. Top - 1 \in Layers /\ Top - 1 # Top
    BY <1>1, <2>1
  <2>3. rows.layers[Top - 1].gen = 0
    BY <1>1, <2>2 DEF Control
  <2>4. Top - 1 \in S /\ \A y \in S : Top - 1 >= y
    BY <1>1, <1>4, <2>2, <2>3
  <2>5. Max(S) = Top - 1
    BY <1>2, <2>4
  <2> QED
    BY <1>4, <2>2, <2>3, <2>5
<1> QED
  BY <1>1, <1>3, <1>4

LEMMA FinishedAtop ==
    ASSUME Inv, tail.pushed, NEW l, l = Max({i \in Layers : rows.layers[i].gen = 0}),
           said.layer[l].read.head # {}
    PROVE  tail.atop \ {Own(l + 1)} = said.layer[l].read.head
<1>1. /\ Typed /\ Control /\ Fetched /\ Layers = 1 .. Top /\ Top \in Nat /\ Layers \subseteq Branches
      /\ Branches = 0 .. case.size + 1 /\ case.size \in Nat /\ Branches \subseteq Int
  <2>1. Typed
    BY DEF Inv
  <2> QED
    BY <2>1, Basics DEF Typed, Inv, History
<1>2. Top >= 1 /\ tail.atop = GradedHead(Top) /\ \A i \in Layers : Agreed(i)
  <2>1. night.pc \in {"open", "link", "done"} /\ tail.atop = GradedHead(Top) /\ \A i \in Layers : Agreed(i)
    BY DEF Inv, Finishing
  <2> QED
    BY <1>1, <2>1 DEF Control
<1>3. /\ l \in Layers /\ rows.layers[l].gen = 0
      /\ \/ l = Top
         \/ l = Top - 1 /\ rows.layers[Top].gen = 1
  BY <1>2, TopOfOrder
<1>4. l \in Branches /\ l \in Int /\ l + 1 \in Branches /\ l + 1 > 1
  <2>1. l \in Layers /\ rows.layers[l].gen = 0 /\ \A i \in Layers : rows.layers[i].gen = 0 => i <= case.size
    BY <1>1, <1>3 DEF Control
  <2>2. l <= case.size /\ l \in 1 .. Top
    BY <1>1, <2>1
  <2> QED
    BY <1>1, <2>2
<1>5. said.layer[l].read # Nothing
  BY DEF Nothing
<1>6. said.layer[l].read.head = GradedHead(l)
  BY <1>2, <1>3, <1>5 DEF Agreed
<1>7. Reads(l, said.layer[l].read)
  BY <1>4, <1>5 DEF Inv, Readings
<1>8. CASE l = Top
  <2>1. Content(l, said.layer[l].read.head)
    BY <1>4, <1>7, <1>1 DEF Reads, Fetched
  <2>2. Own(l + 1) \notin said.layer[l].read.head
    BY SMTT(30), <1>4, <2>1 DEF Content, Of
  <2> QED
    BY <1>2, <1>6, <1>8, <2>2
<1>9. CASE l = Top - 1 /\ rows.layers[Top].gen = 1
  <2>1. l + 1 = Top /\ Top \in Layers /\ Top \in Branches
    BY <1>1, <1>3, <1>9
  <2>2. rows.layers[Top].pushed \ {Own(Top)} = GradedHead(l)
    BY <1>2, <1>3, <1>9, <2>1 DEF Agreed
  <2>3. night.fields[Top] = Nothing
    <3>1. night.fields[Top] # Nothing => Reads(Top, night.fields[Top])
      BY <2>1 DEF Inv, Resolutions
    <3> QED
      BY <1>9, <3>1 DEF Reads
  <2>4. GradedHead(Top) = rows.layers[Top].pushed
    BY <2>3 DEF GradedHead, Graded, Packaged
  <2> QED
    BY <1>2, <1>6, <2>1, <2>2, <2>4
<1> QED
  BY <1>3, <1>8, <1>9

(* What a lens read is what its findings are decided over, and what the    *)
(* finishing commit is pushed over: qualify reads the heads the review     *)
(* resolved, and the finish's check refuses a head that has moved.         *)
THEOREM OneHead == Spec => []OneHeadThroughout
<1>1. Inv => OneHeadThroughout
  <2>1. SUFFICES ASSUME Inv PROVE OneHeadThroughout
    OBVIOUS
  <2>2. \A r \in night.ranges :
          /\ r.kind = "end" => [base |-> r.base, head |-> r.head] = said.layer[r.layer].read
          /\ r.kind = "join" => r.head = said.join.head
          /\ r.kind = "join" /\ r.base # said.join.base => case.base /\ case.faults
    BY <2>1 DEF Inv, Deciding, RangeIs
  <2>3. \A q \in rows.quals : q.outcome = "unanchored" =>
          \/ q.finding.lens \in {"correctness", "adequacy"}
          \/ q.finding.lens = "join" /\ case.base /\ case.faults
    BY <2>1 DEF Inv, Deciding
  <2>4. tail.pushed => LET l == Max({i \in Layers : rows.layers[i].gen = 0})
                           h == said.layer[l].read.head
                       IN  h # {} => tail.atop \ {Own(l + 1)} = h
    BY <2>1, FinishedAtop
  <2> QED
    BY <2>2, <2>3, <2>4 DEF OneHeadThroughout
<1> QED
  BY <1>1, Inductive, PTL

(* Once the writing is over every qualified finding is pooled once, or has *)
(* a follow-up with its text, whatever was refused, limited or raised      *)
(* (follow_ups.write_follow_ups, qualify.py).                              *)
THEOREM FollowedOrPooled == Spec => []FindingIsFollowedOrPooled
<1>1. Inv => FindingIsFollowedOrPooled
  <2>1. SUFFICES ASSUME Inv, tail.kept, night.pc \in {"run"} \union Ending, NEW q \in Qualifieds
                 PROVE  LET pools == {i \in DOMAIN tail.pooled : tail.pooled[i].key = Key(q)
                                                                 /\ q.finding \in tail.pooled[i].found}
                        IN  /\ Cardinality(pools) <= 1
                            /\ Entry(q) = "follow_up" <=> pools = {}
                            /\ pools = {} => Key(q) \in tail.minted
    BY DEF FindingIsFollowedOrPooled, Ending, Qualifieds
  <2> DEFINE pools == {i \in DOMAIN tail.pooled : tail.pooled[i].key = Key(q) /\ q.finding \in tail.pooled[i].found}
  <2>2. \A i, j \in pools : i = j
    BY <2>1 DEF Inv, Accounts
  <2>3. Cardinality(pools) <= 1
    <3>1. CASE pools = {}
      BY <3>1, FS_EmptySet
    <3>2. CASE pools # {}
      <4>1. PICK i : i \in pools
        BY <3>2
      <4>2. pools = {i}
        BY <2>2, <4>1
      <4>3. Cardinality(pools) = 1
        BY <4>2, FS_Singleton
      <4> QED
        BY <4>3
    <3> QED
      BY <3>1, <3>2
  <2>4. pools # {} <=> \E p \in ToSet(tail.pooled) : p.key = Key(q) /\ q.finding \in p.found
    BY DEF ToSet
  <2>5. Entry(q) = "follow_up" <=> pools = {}
    BY <2>4 DEF Entry
  <2>6. pools = {} => Key(q) \in tail.minted
    BY <2>1 DEF Inv, Accounts, IsPooled, Ending
  <2> QED
    BY <2>3, <2>5, <2>6
<1> QED
  BY <1>1, Inductive, PTL
=============================================================================
