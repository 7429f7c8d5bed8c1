------------------------- MODULE LedgerRecordProofs -------------------------
(***************************************************************************)
(* Proofs about LedgerRecord.tla, for any number of commands, of writes    *)
(* and of states a write may set, whatever goes wrong between them: no     *)
(* command leaves a fact behind unpushed, a ref is a history nobody        *)
(* rewinds, and what migrate calls migrated folds back to the rows.  That  *)
(* nothing is lost short of a mishap is proved of a task only one command  *)
(* writes: two whose appends cross can leave a ref the fold cannot place.  *)
(*                                                                         *)
(* What a ref folds to is read off a summary of it, Told, that every       *)
(* readable ref has: one that opens on its creation, names nothing twice,  *)
(* closes only what it opened and numbers its findings in order.           *)
(***************************************************************************)
EXTENDS LedgerRecord, SequenceTheorems, FiniteSetTheorems, WellFoundedInduction, TLAPS

Kinds == {"created", "state", "opened", "closed", "finding", "rebuttal", "text", "push"}

StateNames == States \union {"", "QUEUED", "elsewhere"}

Facts ==
    {f \in [kind : Kinds, n : Nat \union StateNames] :
        /\ f.kind = "created" => f.n = 0
        /\ f.kind = "state" => f.n \in StateNames
        /\ f.kind \notin {"created", "state"} => f.n \in Nat \ {0}}

(* The facts that name something: no other of their kind has the number.   *)
Names(f) == f.kind \notin {"state", "push"}

RowShape ==
    [made : BOOLEAN, state : StateNames, opened : SUBSET (Nat \ {0}), closed : SUBSET (Nat \ {0}),
     findings : Nat, rebutted : SUBSET (Nat \ {0}), texts : SUBSET (Nat \ {0}), pushed : Nat,
     read : {"ok", "gap", "unplaced"}]

RowIs(row) ==
    /\ row \in RowShape
    /\ IsFiniteSet(row.opened) /\ IsFiniteSet(row.texts)
    /\ row.closed \subseteq row.opened /\ row.rebutted \subseteq 1 .. row.findings

(* The row tells of the fact. *)
Held(row, f) ==
    /\ f.kind = "created" => row.made
    /\ f.kind = "opened" => f.n \in row.opened
    /\ f.kind = "closed" => f.n \in row.closed
    /\ f.kind = "finding" => f.n <= row.findings
    /\ f.kind = "rebuttal" => f.n \in row.rebutted
    /\ f.kind = "text" => f.n \in row.texts

Typed ==
    /\ RowIs(rows) /\ rows.read = "ok"
    /\ mirror \in Seq(Facts) /\ origin \in Seq(Facts)
    /\ pending \in [Procs -> Seq(Facts)]
    /\ cell \in [Procs -> [attempt : Nat, findings : SUBSET (Nat \ {0})]]
    /\ up \subseteq Procs /\ kept \subseteq up
    /\ \A p \in Procs : (pending[p] # <<>> \/ cell[p] # NoCell) => p \in up
    /\ writes \in 0 .. MaxWrites /\ diverged \in BOOLEAN /\ refused \in BOOLEAN
    /\ verdict \in {"none", "migrated", "refused"}
-----------------------------------------------------------------------------
(* The inductive invariant. *)

(* No fact that names something is twice in the sequence. *)
Distinct(s) == \A i, j \in DOMAIN s : (i # j /\ s[i] = s[j]) => ~Names(s[i])

Opens(s) == s # <<>> => s[1].kind = "created"

(* What a pending fact names is on no ref and pending nowhere else.        *)
OnlyHere(p, i) ==
    LET f == pending[p][i] IN
    /\ f \notin Range(mirror) /\ f \notin Range(origin)
    /\ \A q \in Procs : \A j \in DOMAIN pending[q] : pending[q][j] = f => q = p /\ j = i

(* A closing follows its opening, and a rebuttal its finding.              *)
Ground(f) ==
    IF f.kind = "closed" THEN {Fact("opened", f.n)}
    ELSE IF f.kind = "rebuttal" THEN {Fact("finding", f.n)} ELSE {}

Grounded(had, s) ==
    \A i \in DOMAIN s : Ground(s[i]) \subseteq had \union {s[j] : j \in 1 .. i - 1}

Refs ==
    /\ Opens(mirror) /\ Opens(origin) /\ Distinct(mirror) /\ Distinct(origin)
    /\ Grounded({}, mirror) /\ Grounded({}, origin)
    /\ mirror # <<>> => \A f \in Range(origin) : Names(f) => f \in Range(mirror)
    /\ rows.made => \A f \in Range(mirror) \union Range(origin) : Names(f) => Held(rows, f)
    /\ writes = 0 => mirror = <<>> /\ origin = <<>> /\ ~rows.made

Waiting ==
    \A p \in Procs : \A i \in DOMAIN pending[p] :
        /\ rows.made
        /\ Names(pending[p][i]) => OnlyHere(p, i) /\ Held(rows, pending[p][i])
        /\ pending[p][i].kind = "created" => mirror = <<>> /\ origin = <<>>
        /\ Ground(pending[p][i]) \subseteq Range(mirror)

(* What a command works on is the rows', and on the ref or on its way.     *)
Working ==
    \A p \in Procs :
        LET to == Range(mirror) \union Range(pending[p]) IN
        /\ cell[p] # NoCell => rows.made
        /\ cell[p].attempt # 0 => /\ cell[p].attempt \in rows.opened \ rows.closed
                                  /\ Fact("opened", cell[p].attempt) \in to
        /\ cell[p].findings \subseteq 1 .. rows.findings
        /\ \A n \in cell[p].findings : Fact("finding", n) \in to
        /\ \A q \in Procs : (q # p /\ cell[p].attempt # 0) => cell[q].attempt # cell[p].attempt

Unpushed == (~refused /\ kept = {}) => IsPrefix(mirror, origin)

MigratedWhole ==
    verdict = "migrated" =>
        /\ \A p \in Procs : pending[p] = <<>>
        /\ Folded(mirror) = [rows EXCEPT !.pushed = Folded(mirror).pushed]

Inv == Typed /\ Refs /\ Waiting /\ Working /\ Unpushed /\ MigratedWhole

(* The ref a write would find, and a task that only one command writes.    *)
Ref == IF mirror # <<>> THEN mirror ELSE origin

OneCommand == \A p, q \in Procs : p = q

(* Nothing lost: the ref, and then what is on its way to it, fold to the   *)
(* rows.                                                                   *)
Kept ==
    ~diverged => /\ Idle => Folded(Ref) = rows
                 /\ \A p \in Procs : pending[p] # <<>> => After(Folded(Ref), pending[p]) = rows
-----------------------------------------------------------------------------
(* Recursion along a sequence. *)

LEMMA LeastIs ==
    ASSUME NEW S, S \subseteq Nat, S # {}
    PROVE  \E x \in S : \A y \in S : x <= y
<1>1. PICK n \in S : TRUE
  OBVIOUS
<1> DEFINE T == {0 .. i : i \in {i \in S : i <= n}}
<1>2. T # {} /\ T \subseteq SUBSET (0 .. n)
  BY <1>1
<1>3. IsFiniteSet(0 .. n)
  BY <1>1, FS_Interval
<1>4. IsWellFoundedOn(StrictSubsetOrdering(0 .. n), SUBSET (0 .. n))
  BY <1>3, FS_StrictSubsetOrderingWellFounded, FS_FiniteSubsetsOfFinite
<1>5. PICK m \in T : \A y \in T : ~ (<<y, m>> \in StrictSubsetOrdering(0 .. n))
  BY <1>2, <1>4, WFMin
<1>6. PICK x \in S : x <= n /\ m = 0 .. x
  OBVIOUS
<1>7. ASSUME NEW y \in S, ~(x <= y)
      PROVE  FALSE
  <2>1. y <= n /\ y < x /\ y \in Nat /\ x \in Nat
    BY <1>1, <1>6, <1>7
  <2>2. 0 .. y \in T /\ 0 .. y \subseteq 0 .. x /\ x \notin 0 .. y /\ x \in 0 .. x
    BY <2>1
  <2>3. <<0 .. y, 0 .. x>> \in StrictSubsetOrdering(0 .. n)
    BY <2>2, <1>2, <1>6 DEF StrictSubsetOrdering
  <2> QED
    BY <2>2, <2>3, <1>5, <1>6
<1> QED
  BY <1>7

LEMMA MaxIs ==
    ASSUME NEW S, S \subseteq Nat, IsFiniteSet(S), S # {}
    PROVE  Max(S) \in S /\ \A y \in S : y <= Max(S)
<1> DEFINE Above(x) == {y \in S : y > x}
           T == {Above(x) : x \in S}
<1>1. T # {} /\ T \subseteq SUBSET S
  OBVIOUS
<1>2. IsWellFoundedOn(StrictSubsetOrdering(S), SUBSET S)
  BY FS_StrictSubsetOrderingWellFounded, FS_FiniteSubsetsOfFinite
<1>3. PICK m \in T : \A y \in T : ~ (<<y, m>> \in StrictSubsetOrdering(S))
  BY <1>1, <1>2, WFMin
<1>4. PICK x \in S : m = Above(x)
  OBVIOUS
<1>5. ASSUME NEW y \in S, ~(x >= y)
      PROVE  FALSE
  <2>1. Above(y) \subseteq Above(x) /\ y \in Above(x) /\ y \notin Above(y)
    <3>1. \A a, b, z \in Nat : ~(a >= b) => (z > b => z > a) /\ b > a /\ ~(b > b)
      OBVIOUS
    <3>2. x \in Nat /\ y \in Nat /\ S \subseteq Nat
      OBVIOUS
    <3>3. \A z \in S : z > y => z > x
      BY <3>1, <3>2, <1>5
    <3> QED
      BY <3>1, <3>2, <3>3, <1>5
  <2>2. <<Above(y), Above(x)>> \in StrictSubsetOrdering(S)
    BY <2>1 DEF StrictSubsetOrdering
  <2> QED
    BY <2>2, <1>3, <1>4
<1>6. \A y \in S : x >= y
  BY <1>5
<1>7. Max(S) \in S /\ \A y \in S : Max(S) >= y
  BY <1>6 DEF Max
<1> QED
  BY <1>7

StepFns(n, D) == [(1 .. n) \X D -> D]

Recursion(g, n, D, x, step) ==
    g \in [0 .. n -> D] /\ g[0] = x /\ \A i \in 1 .. n : g[i] = step[<<i, g[i - 1]>>]

LEMMA RecursionExists ==
    ASSUME NEW n \in Nat, NEW D, NEW x \in D, NEW step \in StepFns(n, D)
    PROVE  \E g : Recursion(g, n, D, x, step)
<1>0. step \in [(1 .. n) \X D -> D]
  BY DEF StepFns
<1> DEFINE Ok(m) == \E g \in [0 .. m -> D] : g[0] = x /\ \A i \in 1 .. m : g[i] = step[<<i, g[i - 1]>>]
           Bad == {m \in 0 .. n : ~Ok(m)}
<1>1. ASSUME Bad # {}
      PROVE  FALSE
  <2>0. Bad \subseteq Nat
    OBVIOUS
  <2>1. PICK m \in Bad : \A j \in Bad : m <= j
    BY <1>1, <2>0, LeastIs
  <2>2. m # 0
    <3> DEFINE g == [k \in 0 .. 0 |-> x]
    <3>1. g \in [0 .. 0 -> D] /\ g[0] = x /\ \A i \in 1 .. 0 : g[i] = step[<<i, g[i - 1]>>]
      OBVIOUS
    <3> HIDE DEF g
    <3>2. Ok(0)
      BY <3>1
    <3> QED
      BY <2>1, <3>2
  <2>3. m - 1 \in 0 .. n /\ m \in 1 .. n /\ m - 1 \notin Bad
    BY <2>1, <2>2
  <2>4. PICK g \in [0 .. m - 1 -> D] : g[0] = x /\ \A i \in 1 .. m - 1 : g[i] = step[<<i, g[i - 1]>>]
    BY <2>3
  <2> DEFINE h == [k \in 0 .. m |-> IF k = m THEN step[<<m, g[m - 1]>>] ELSE g[k]]
  <2>5. g[m - 1] \in D /\ step[<<m, g[m - 1]>>] \in D
    BY <1>0, <2>3, <2>4
  <2>6. h \in [0 .. m -> D]
    <3>1. ASSUME NEW k \in 0 .. m, k # m PROVE k \in 0 .. m - 1
      BY <2>3, <3>1
    <3> QED
      BY <2>4, <2>5, <3>1
  <2>7. h[0] = x
    BY <2>3, <2>4
  <2>8. ASSUME NEW i \in 1 .. m PROVE h[i] = step[<<i, h[i - 1]>>]
    <3>1. CASE i = m
      <4>1. i - 1 \in 0 .. m /\ i - 1 # m /\ i \in 0 .. m
        BY <2>3, <3>1
      <4>2. h[i] = step[<<m, g[m - 1]>>] /\ h[i - 1] = g[i - 1]
        BY <3>1, <4>1
      <4> QED
        BY <3>1, <4>2
    <3>2. CASE i # m
      <4>1. i \in 1 .. m - 1 /\ h[i] = g[i] /\ h[i - 1] = g[i - 1]
        BY <2>3, <3>2
      <4> QED
        BY <4>1, <2>4
    <3> QED
      BY <3>1, <3>2
  <2>9. Ok(m)
    <3> HIDE DEF h
    <3> QED
      BY <2>6, <2>7, <2>8
  <2> QED
    BY <2>1, <2>9
<1>2. n \notin Bad
  BY <1>1
<1> QED
  BY <1>2 DEF Recursion

LEMMA JoinedIs ==
    ASSUME NEW K, NEW s \in Seq(K), NEW t \in Seq(K)
    PROVE  /\ s \o t \in Seq(K) /\ Len(s \o t) = Len(s) + Len(t) /\ DOMAIN (s \o t) = 1 .. Len(s) + Len(t)
           /\ \A i \in 1 .. Len(s) + Len(t) : (s \o t)[i] = IF i <= Len(s) THEN s[i] ELSE t[i - Len(s)]
           /\ Range(s \o t) = Range(s) \union Range(t)
<1>1. /\ s \o t \in Seq(K) /\ Len(s \o t) = Len(s) + Len(t) /\ DOMAIN (s \o t) = 1 .. Len(s) + Len(t)
      /\ \A i \in 1 .. Len(s) + Len(t) : (s \o t)[i] = IF i <= Len(s) THEN s[i] ELSE t[i - Len(s)]
  OBVIOUS
<1>2. /\ Len(s) \in Nat /\ Len(t) \in Nat /\ DOMAIN s = 1 .. Len(s) /\ DOMAIN t = 1 .. Len(t)
  OBVIOUS
<1>3. Range(s \o t) \subseteq Range(s) \union Range(t)
  <2>1. ASSUME NEW i \in DOMAIN (s \o t) PROVE (s \o t)[i] \in Range(s) \union Range(t)
    <3>1. CASE i <= Len(s)
      <4>1. i \in DOMAIN s /\ (s \o t)[i] = s[i]
        BY <1>1, <1>2, <3>1
      <4> QED
        BY <4>1 DEF Range
    <3>2. CASE ~(i <= Len(s))
      <4>1. i - Len(s) \in DOMAIN t /\ (s \o t)[i] = t[i - Len(s)]
        BY <1>1, <1>2, <3>2
      <4> QED
        BY <4>1 DEF Range
    <3> QED
      BY <3>1, <3>2
  <2> QED
    BY <2>1 DEF Range
<1>4. Range(s) \subseteq Range(s \o t)
  <2>1. ASSUME NEW i \in DOMAIN s PROVE i \in DOMAIN (s \o t) /\ (s \o t)[i] = s[i]
    BY <1>1, <1>2
  <2> HIDE DEF Range
  <2> QED
    BY <2>1 DEF Range
<1>5. Range(t) \subseteq Range(s \o t)
  <2>1. ASSUME NEW i \in DOMAIN t PROVE i + Len(s) \in DOMAIN (s \o t) /\ (s \o t)[i + Len(s)] = t[i]
    <3>1. i + Len(s) \in 1 .. Len(s) + Len(t) /\ ~(i + Len(s) <= Len(s)) /\ i + Len(s) - Len(s) = i
      BY <1>2
    <3> QED
      BY <1>1, <3>1
  <2> QED
    BY <2>1 DEF Range
<1> QED
  BY <1>1, <1>3, <1>4, <1>5

LEMMA OneIs ==
    ASSUME NEW K, NEW x \in K
    PROVE  /\ <<x>> \in Seq(K) /\ Len(<<x>>) = 1 /\ DOMAIN <<x>> = {1} /\ <<x>>[1] = x /\ Range(<<x>>) = {x}
           /\ <<>> \in Seq(K) /\ Len(<<>>) = 0 /\ Range(<<>>) = {} /\ DOMAIN <<>> = {}
<1>1. DOMAIN <<x>> = {1} /\ DOMAIN <<>> = {}
  OBVIOUS
<1> QED
  BY <1>1 DEF Range
-----------------------------------------------------------------------------
(* What the facts leave of a row: After, step by step. *)

LEMMA ApplyShape ==
    ASSUME NEW row \in RowShape, NEW f \in Facts
    PROVE  Apply(row, f) \in RowShape
<1>1. CASE row.read # "ok"
  BY <1>1 DEF Apply
<1>2. CASE row.read = "ok" /\ ~Placed(row, f)
  BY <1>2 DEF Apply, RowShape
<1>3. CASE row.read = "ok" /\ Placed(row, f)
  <2>1. CASE f.kind = "created"
    BY <1>3, <2>1 DEF Apply, RowShape, Facts, StateNames
  <2>2. CASE f.kind = "state"
    BY <1>3, <2>2 DEF Apply, RowShape, Facts, StateNames
  <2>3. CASE f.kind \in {"opened", "closed", "rebuttal", "text"}
    <3>1. f.n \in Nat \ {0}
      BY <2>3 DEF Facts
    <3>2. CASE f.kind = "opened"
      <4>1. Apply(row, f) = [row EXCEPT !.opened = row.opened \union {f.n}]
        BY <1>3, <3>2 DEF Apply
      <4>2. row.opened \union {f.n} \in SUBSET (Nat \ {0})
        BY <3>1 DEF RowShape
      <4> QED
        BY <4>1, <4>2 DEF RowShape
    <3>3. CASE f.kind = "closed"
      <4>1. Apply(row, f) = [row EXCEPT !.closed = row.closed \union {f.n}]
        BY <1>3, <3>3 DEF Apply
      <4>2. row.closed \union {f.n} \in SUBSET (Nat \ {0})
        BY <3>1 DEF RowShape
      <4> QED
        BY <4>1, <4>2 DEF RowShape
    <3>4. CASE f.kind = "rebuttal"
      <4>1. Apply(row, f) = [row EXCEPT !.rebutted = row.rebutted \union {f.n}]
        BY <1>3, <3>4 DEF Apply
      <4>2. row.rebutted \union {f.n} \in SUBSET (Nat \ {0})
        BY <3>1 DEF RowShape
      <4> QED
        BY <4>1, <4>2 DEF RowShape
    <3>5. CASE f.kind = "text"
      <4>1. Apply(row, f) = [row EXCEPT !.texts = row.texts \union {f.n}]
        BY <1>3, <3>5 DEF Apply
      <4>2. row.texts \union {f.n} \in SUBSET (Nat \ {0})
        BY <3>1 DEF RowShape
      <4> QED
        BY <4>1, <4>2 DEF RowShape
    <3> QED
      BY <2>3, <3>2, <3>3, <3>4, <3>5
  <2>4. CASE f.kind \in {"finding", "push"}
    BY <1>3, <2>4 DEF Apply, RowShape, Facts, StateNames
  <2> QED
    BY <2>1, <2>2, <2>3, <2>4 DEF Facts, Kinds
<1> QED
  BY <1>1, <1>2, <1>3

(* g is the rows the facts of s leave of `row`, one by one.                *)
StepsFrom(g, row, s) ==
    /\ g \in [0 .. Len(s) -> RowShape] /\ g[0] = row
    /\ \A i \in 1 .. Len(s) : g[i] = Apply(g[i - 1], s[i])

LEMMA AfterIs ==
    ASSUME NEW row \in RowShape, NEW s \in Seq(Facts)
    PROVE  \E g : StepsFrom(g, row, s) /\ After(row, s) = g[Len(s)]
<1> DEFINE n == Len(s)
           Steps(g) == g = [i \in 0 .. n |-> IF i = 0 THEN row ELSE Apply(g[i - 1], s[i])]
           step == [p \in (1 .. n) \X RowShape |-> Apply(p[2], s[p[1]])]
           f == CHOOSE g : Steps(g)
<1>1. n \in Nat /\ DOMAIN s = 1 .. n /\ \A i \in 1 .. n : s[i] \in Facts
  OBVIOUS
<1>2. step \in StepFns(n, RowShape)
  BY <1>1, ApplyShape DEF StepFns
<1> HIDE DEF n
<1>3. PICK g : Recursion(g, n, RowShape, row, step)
  <2>1. n \in Nat
    BY <1>1
  <2> HIDE DEF step
  <2> QED
    BY <1>2, <2>1, RecursionExists
<1>4. ASSUME NEW i \in 1 .. n PROVE g[i] = Apply(g[i - 1], s[i])
  <2>1. i - 1 \in 0 .. n
    BY <1>1
  <2>2. g[i - 1] \in RowShape
    BY <1>3, <2>1 DEF Recursion
  <2> QED
    BY <1>3, <2>2 DEF Recursion
<1>5. Steps(g)
  <2>1. ASSUME NEW i \in 0 .. n
        PROVE  g[i] = IF i = 0 THEN row ELSE Apply(g[i - 1], s[i])
    <3>1. i = 0 \/ i \in 1 .. n
      BY <1>1
    <3> QED
      BY <1>3, <1>4, <3>1 DEF Recursion
  <2> QED
    BY <1>3, <2>1 DEF Recursion
<1>6. Steps(f)
  BY <1>5
<1>7. After(row, s) = f[n]
  BY DEF After, n
<1>8. \A i \in 0 .. n : f[i] = IF i = 0 THEN row ELSE Apply(f[i - 1], s[i])
  <2> HIDE DEF f
  <2> QED
    BY <1>6
<1>9. \A i \in 0 .. n : f[i] = g[i]
  <2> DEFINE Bad == {i \in 0 .. n : f[i] # g[i]}
  <2> HIDE DEF f
  <2>1. ASSUME Bad # {} PROVE FALSE
    <3>0. Bad \subseteq Nat
      BY <1>1
    <3>1. PICK i \in Bad : \A j \in Bad : i <= j
      BY <2>1, <3>0, LeastIs
    <3>2. CASE i = 0
      BY <1>1, <1>3, <1>8, <3>1, <3>2 DEF Recursion
    <3>3. CASE i # 0
      <4>1. i \in 1 .. n /\ i - 1 \in 0 .. n /\ ~(i <= i - 1)
        BY <1>1, <3>1, <3>3
      <4>2. f[i - 1] = g[i - 1]
        BY <3>1, <4>1
      <4> QED
        BY <1>4, <1>8, <3>1, <3>3, <4>1, <4>2
    <3> QED
      BY <3>2, <3>3
  <2> QED
    BY <2>1
<1>10. n \in 0 .. n
  BY <1>1
<1> QED
  BY <1>1, <1>3, <1>4, <1>7, <1>9, <1>10 DEF StepsFrom, n, Recursion

LEMMA AfterNone ==
    ASSUME NEW row \in RowShape
    PROVE  After(row, <<>>) = row
<1>1. <<>> \in Seq(Facts) /\ Len(<<>>) = 0
  OBVIOUS
<1>2. PICK g : StepsFrom(g, row, <<>>) /\ After(row, <<>>) = g[Len(<<>>)]
  BY <1>1, AfterIs
<1> QED
  BY <1>1, <1>2 DEF StepsFrom

LEMMA AfterFirst ==
    ASSUME NEW row \in RowShape, NEW s \in Seq(Facts), s # <<>>
    PROVE  After(row, s) = After(Apply(row, Head(s)), Tail(s))
<1>1. /\ Head(s) \in Facts /\ Head(s) = s[1] /\ Tail(s) \in Seq(Facts) /\ Len(s) \in Nat \ {0}
      /\ Len(Tail(s)) = Len(s) - 1 /\ \A i \in 1 .. Len(s) - 1 : Tail(s)[i] = s[i + 1]
  OBVIOUS
<1> DEFINE r == Apply(row, Head(s))
<1>2. r \in RowShape
  BY <1>1, ApplyShape
<1> HIDE DEF r
<1>3. PICK g : StepsFrom(g, row, s) /\ After(row, s) = g[Len(s)]
  BY AfterIs
<1>4. PICK h : StepsFrom(h, r, Tail(s)) /\ After(r, Tail(s)) = h[Len(Tail(s))]
  BY <1>1, <1>2, AfterIs
<1> DEFINE n == Len(s) - 1
           Bad == {i \in 0 .. n : h[i] # g[i + 1]}
<1>5. n \in Nat /\ n + 1 = Len(s) /\ n = Len(Tail(s))
  BY <1>1
<1>6. ASSUME Bad # {} PROVE FALSE
  <2>0. Bad \subseteq Nat
    BY <1>5
  <2>1. PICK i \in Bad : \A j \in Bad : i <= j
    BY <1>6, <2>0, LeastIs
  <2>2. CASE i = 0
    <3>1. g[1] = Apply(g[0], s[1]) /\ g[0] = row /\ h[0] = r
      BY <1>1, <1>3, <1>4 DEF StepsFrom
    <3> QED
      BY <1>1, <2>1, <2>2, <3>1 DEF r
  <2>3. CASE i # 0
    <3>1. i \in 1 .. n /\ i - 1 \in 0 .. n /\ ~(i <= i - 1) /\ i + 1 \in 1 .. Len(s) /\ i - 1 + 1 = i /\ i + 1 - 1 = i
      BY <1>5, <2>1, <2>3
    <3>2. h[i - 1] = g[i]
      BY <2>1, <3>1
    <3>3. h[i] = Apply(h[i - 1], Tail(s)[i]) /\ g[i + 1] = Apply(g[i], s[i + 1]) /\ Tail(s)[i] = s[i + 1]
      BY <1>1, <1>3, <1>4, <1>5, <3>1 DEF StepsFrom
    <3> QED
      BY <2>1, <3>2, <3>3
  <2> QED
    BY <2>2, <2>3
<1>7. h[n] = g[n + 1]
  <2>1. n \in 0 .. n
    BY <1>5
  <2> QED
    BY <1>6, <2>1
<1> QED
  BY <1>3, <1>4, <1>5, <1>7 DEF r

LEMMA AfterLast ==
    ASSUME NEW row \in RowShape, NEW s \in Seq(Facts), NEW f \in Facts
    PROVE  After(row, Append(s, f)) = Apply(After(row, s), f)
<1> DEFINE t == Append(s, f)
           n == Len(s)
<1>1. /\ t \in Seq(Facts) /\ Len(t) = n + 1 /\ n \in Nat /\ t[n + 1] = f
      /\ \A i \in 1 .. n : t[i] = s[i]
  OBVIOUS
<1>2. PICK g : StepsFrom(g, row, s) /\ After(row, s) = g[n]
  BY AfterIs
<1> HIDE DEF t
<1>3. PICK h : StepsFrom(h, row, t) /\ After(row, t) = h[Len(t)]
  BY <1>1, AfterIs
<1> DEFINE Bad == {i \in 0 .. n : h[i] # g[i]}
<1>6. ASSUME Bad # {} PROVE FALSE
  <2>0. Bad \subseteq Nat
    BY <1>1
  <2>1. PICK i \in Bad : \A j \in Bad : i <= j
    BY <1>6, <2>0, LeastIs
  <2>2. CASE i = 0
    BY <1>2, <1>3, <2>1, <2>2 DEF StepsFrom
  <2>3. CASE i # 0
    <3>1. i \in 1 .. n /\ i - 1 \in 0 .. n /\ ~(i <= i - 1) /\ i \in 1 .. Len(t)
      BY <1>1, <2>1, <2>3
    <3>2. h[i - 1] = g[i - 1]
      BY <2>1, <3>1
    <3>3. h[i] = Apply(h[i - 1], t[i]) /\ g[i] = Apply(g[i - 1], s[i]) /\ t[i] = s[i]
      BY <1>1, <1>2, <1>3, <3>1 DEF StepsFrom
    <3> QED
      BY <2>1, <3>2, <3>3
  <2> QED
    BY <2>2, <2>3
<1>7. h[n] = g[n]
  <2>1. n \in 0 .. n
    BY <1>1
  <2> QED
    BY <1>6, <2>1
<1>8. h[n + 1] = Apply(h[n], f)
  <2>1. n + 1 \in 1 .. Len(t) /\ n + 1 - 1 = n
    BY <1>1
  <2> QED
    BY <1>1, <1>3, <2>1 DEF StepsFrom
<1> QED
  BY <1>1, <1>2, <1>3, <1>7, <1>8 DEF t
-----------------------------------------------------------------------------
(* The facts of a kind, and sequences joined end to end. *)

One(f, k) == IF f.kind = k THEN <<f>> ELSE <<>>

UpTo(u, s, k) ==
    /\ u \in [0 .. Len(s) -> Seq(Facts)] /\ u[0] = <<>>
    /\ \A i \in 1 .. Len(s) : u[i] = u[i - 1] \o One(s[i], k)

LEMMA OneOf ==
    ASSUME NEW f \in Facts, NEW k
    PROVE  One(f, k) \in Seq(Facts)
  BY DEF One

LEMMA OfKindIs ==
    ASSUME NEW s \in Seq(Facts), NEW k
    PROVE  \E u : UpTo(u, s, k) /\ OfKind(s, k) = u[Len(s)]
<1> DEFINE n == Len(s)
           Steps(g) == g = [i \in 0 .. n |->
                              IF i = 0 THEN <<>>
                              ELSE g[i - 1] \o (IF s[i].kind = k THEN <<s[i]>> ELSE <<>>)]
           step == [p \in (1 .. n) \X Seq(Facts) |-> p[2] \o One(s[p[1]], k)]
           f == CHOOSE g : Steps(g)
<1>1. n \in Nat /\ DOMAIN s = 1 .. n /\ \A i \in 1 .. n : s[i] \in Facts
  OBVIOUS
<1>2. step \in StepFns(n, Seq(Facts)) /\ <<>> \in Seq(Facts)
  <2>1. \A p \in (1 .. n) \X Seq(Facts) : p[2] \o One(s[p[1]], k) \in Seq(Facts)
    BY <1>1, OneOf
  <2> QED
    BY <2>1 DEF StepFns
<1> HIDE DEF n
<1>3. PICK g : Recursion(g, n, Seq(Facts), <<>>, step)
  <2>1. n \in Nat
    BY <1>1
  <2> HIDE DEF step
  <2> QED
    BY <1>2, <2>1, RecursionExists
<1>4. ASSUME NEW i \in 1 .. n PROVE g[i] = g[i - 1] \o One(s[i], k)
  <2>1. i - 1 \in 0 .. n
    BY <1>1
  <2>2. g[i - 1] \in Seq(Facts)
    BY <1>3, <2>1 DEF Recursion
  <2> QED
    BY <1>3, <2>2 DEF Recursion
<1>5. Steps(g)
  <2>1. ASSUME NEW i \in 0 .. n
        PROVE  g[i] = IF i = 0 THEN <<>> ELSE g[i - 1] \o (IF s[i].kind = k THEN <<s[i]>> ELSE <<>>)
    <3>1. i = 0 \/ i \in 1 .. n
      BY <1>1
    <3> QED
      BY <1>3, <1>4, <3>1 DEF Recursion, One
  <2> QED
    BY <1>3, <2>1 DEF Recursion
<1>6. Steps(f)
  BY <1>5
<1>7. OfKind(s, k) = f[n]
  BY DEF OfKind, n
<1>8. \A i \in 0 .. n : f[i] = IF i = 0 THEN <<>> ELSE f[i - 1] \o (IF s[i].kind = k THEN <<s[i]>> ELSE <<>>)
  <2> HIDE DEF f
  <2> QED
    BY <1>6
<1>9. \A i \in 0 .. n : f[i] = g[i]
  <2> DEFINE Bad == {i \in 0 .. n : f[i] # g[i]}
  <2> HIDE DEF f
  <2>1. ASSUME Bad # {} PROVE FALSE
    <3>0. Bad \subseteq Nat
      BY <1>1
    <3>1. PICK i \in Bad : \A j \in Bad : i <= j
      BY <2>1, <3>0, LeastIs
    <3>2. CASE i = 0
      BY <1>1, <1>3, <1>8, <3>1, <3>2 DEF Recursion
    <3>3. CASE i # 0
      <4>1. i \in 1 .. n /\ i - 1 \in 0 .. n /\ ~(i <= i - 1)
        BY <1>1, <3>1, <3>3
      <4>2. f[i - 1] = g[i - 1]
        BY <3>1, <4>1
      <4> QED
        BY <1>4, <1>8, <3>1, <3>3, <4>1, <4>2 DEF One
    <3> QED
      BY <3>2, <3>3
  <2> QED
    BY <2>1
<1>10. n \in 0 .. n
  BY <1>1
<1> QED
  BY <1>1, <1>3, <1>4, <1>7, <1>9, <1>10 DEF UpTo, n, Recursion

LEMMA OfKindIn ==
    ASSUME NEW s \in Seq(Facts), NEW k
    PROVE  OfKind(s, k) \in Seq(Facts)
<1>1. PICK u : UpTo(u, s, k) /\ OfKind(s, k) = u[Len(s)]
  BY OfKindIs
<1>2. Len(s) \in 0 .. Len(s)
  OBVIOUS
<1> QED
  BY <1>1, <1>2 DEF UpTo

LEMMA OfKindJoined ==
    ASSUME NEW s \in Seq(Facts), NEW t \in Seq(Facts), NEW k
    PROVE  OfKind(s \o t, k) = OfKind(s, k) \o OfKind(t, k)
<1> DEFINE n == Len(s)
           m == Len(t)
           st == s \o t
<1>1. /\ st \in Seq(Facts) /\ Len(st) = n + m /\ n \in Nat /\ m \in Nat
      /\ \A i \in 1 .. n : st[i] = s[i]
      /\ \A i \in 1 .. m : st[n + i] = t[i]
  OBVIOUS
<1> HIDE DEF n, m, st
<1>2. PICK u : UpTo(u, st, k) /\ OfKind(st, k) = u[n + m]
  BY <1>1, OfKindIs
<1>3. PICK a : UpTo(a, s, k) /\ OfKind(s, k) = a[n]
  BY OfKindIs DEF n
<1>4. PICK b : UpTo(b, t, k) /\ OfKind(t, k) = b[m]
  BY OfKindIs DEF m
<1>5. \A i \in 0 .. n : u[i] = a[i]
  <2> DEFINE Bad == {i \in 0 .. n : u[i] # a[i]}
  <2>1. ASSUME Bad # {} PROVE FALSE
    <3>0. Bad \subseteq Nat
      BY <1>1
    <3>1. PICK i \in Bad : \A j \in Bad : i <= j
      BY <2>1, <3>0, LeastIs
    <3>2. CASE i = 0
      BY <1>2, <1>3, <3>1, <3>2 DEF UpTo
    <3>3. CASE i # 0
      <4>1. i \in 1 .. n /\ i - 1 \in 0 .. n /\ ~(i <= i - 1) /\ i \in 1 .. n + m
        BY <1>1, <3>1, <3>3
      <4>2. u[i - 1] = a[i - 1]
        BY <3>1, <4>1
      <4>3. u[i] = u[i - 1] \o One(st[i], k) /\ a[i] = a[i - 1] \o One(s[i], k) /\ st[i] = s[i]
        BY <1>1, <1>2, <1>3, <4>1 DEF UpTo, n
      <4> QED
        BY <3>1, <4>2, <4>3
    <3> QED
      BY <3>2, <3>3
  <2> QED
    BY <2>1
<1>6. a[n] \in Seq(Facts)
  <2>1. n \in 0 .. n /\ n = Len(s)
    BY <1>1 DEF n
  <2> QED
    BY <1>3, <2>1 DEF UpTo
<1>7. \A x, y, z \in Seq(Facts) : (x \o y) \o z = x \o (y \o z)
  BY ConcatAssociative
<1>8. \A j \in 0 .. m : u[n + j] = a[n] \o b[j]
  <2> DEFINE Off(j) == u[n + j] # a[n] \o b[j]
             Bad == {j \in 0 .. m : Off(j)}
  <2>1. ASSUME Bad # {} PROVE FALSE
    <3>0. Bad \subseteq Nat
      <4> HIDE DEF Off
      <4> QED
        BY <1>1
    <3>1. PICK j \in Bad : \A i \in Bad : j <= i
      BY <2>1, <3>0, LeastIs
    <3>2. CASE j = 0
      <4>1. n + j \in 0 .. n /\ n + j = n
        BY <1>1, <3>2
      <4>2. b[j] = <<>>
        BY <1>4, <3>2 DEF UpTo
      <4>3. a[n] \o <<>> = a[n]
        BY <1>6
      <4> QED
        BY <1>5, <3>1, <3>2, <4>1, <4>2, <4>3
    <3>3. CASE j # 0
      <4>0. j \in 1 .. m /\ j - 1 \in 0 .. m /\ ~(j <= j - 1) /\ n + j \in 1 .. n + m
        BY <1>1, <3>1, <3>3
      <4>1. PICK c \in 1 .. n + m : c = n + j
        BY <4>0
      <4>2. u[c - 1] = a[n] \o b[j - 1]
        <5>1. c - 1 = n + (j - 1)
          BY <1>1, <4>0, <4>1
        <5>2. ~Off(j - 1)
          BY <3>1, <4>0
        <5> QED
          BY <5>1, <5>2
      <4>3. u[c] = u[c - 1] \o One(t[j], k) /\ b[j] = b[j - 1] \o One(t[j], k)
        <5>1. st[c] = t[j] /\ Len(st) = n + m
          BY <1>1, <4>0, <4>1
        <5>2. \A i \in 1 .. n + m : u[i] = u[i - 1] \o One(st[i], k)
          BY <1>2, <5>1 DEF UpTo
        <5>3. b[j] = b[j - 1] \o One(t[j], k)
          BY <1>4, <4>0 DEF UpTo, m
        <5> QED
          BY <4>1, <5>1, <5>2, <5>3
      <4>4. b[j - 1] \in Seq(Facts) /\ One(t[j], k) \in Seq(Facts)
        <5>1. b \in [0 .. m -> Seq(Facts)] /\ t[j] \in Facts
          BY <1>4, <4>0 DEF UpTo, m
        <5> QED
          BY <4>0, <5>1, OneOf
      <4>5. (a[n] \o b[j - 1]) \o One(t[j], k) = a[n] \o (b[j - 1] \o One(t[j], k))
        BY <1>6, <1>7, <4>4
      <4> QED
        BY <3>1, <4>1, <4>2, <4>3, <4>5
    <3> QED
      BY <3>2, <3>3
  <2> QED
    BY <2>1
<1>9. m \in 0 .. m
  BY <1>1
<1> QED
  BY <1>2, <1>3, <1>4, <1>8, <1>9 DEF st
LEMMA OfKindOne ==
    ASSUME NEW f \in Facts, NEW k
    PROVE  OfKind(<<f>>, k) = One(f, k) /\ OfKind(<<>>, k) = <<>>
<1>1. <<f>> \in Seq(Facts) /\ Len(<<f>>) = 1 /\ <<f>>[1] = f /\ <<>> \in Seq(Facts) /\ Len(<<>>) = 0
  OBVIOUS
<1>2. PICK u : UpTo(u, <<f>>, k) /\ OfKind(<<f>>, k) = u[Len(<<f>>)]
  BY <1>1, OfKindIs
<1>3. PICK v : UpTo(v, <<>>, k) /\ OfKind(<<>>, k) = v[Len(<<>>)]
  BY <1>1, OfKindIs
<1>4. u[1] = u[0] \o One(f, k) /\ u[0] = <<>>
  <2>1. \A i \in 1 .. 1 : u[i] = u[i - 1] \o One(<<f>>[i], k)
    BY <1>1, <1>2 DEF UpTo
  <2>2. 1 \in 1 .. 1 /\ 1 - 1 = 0
    OBVIOUS
  <2>3. u[1] = u[1 - 1] \o One(<<f>>[1], k)
    BY <2>1, <2>2, Zenon
  <2> QED
    BY <1>1, <1>2, <2>2, <2>3 DEF UpTo
<1>5. <<>> \o One(f, k) = One(f, k)
  BY OneOf, ConcatEmptySeq
<1> QED
  BY <1>1, <1>2, <1>3, <1>4, <1>5 DEF UpTo

(* The facts of a kind are facts of the sequence, and they are all of them. *)
LEMMA OfKindRange ==
    ASSUME NEW s \in Seq(Facts), NEW k
    PROVE  Range(OfKind(s, k)) = {f \in Range(s) : f.kind = k}
<1>1. PICK u : UpTo(u, s, k) /\ OfKind(s, k) = u[Len(s)]
  BY OfKindIs
<1> DEFINE Told(i) == {f \in {s[j] : j \in 1 .. i} : f.kind = k}
           Off(i) == Range(u[i]) # Told(i)
           Bad == {i \in 0 .. Len(s) : Off(i)}
<1>2. Len(s) \in Nat /\ \A i \in 1 .. Len(s) : s[i] \in Facts
  OBVIOUS
<1>3. ASSUME Bad # {} PROVE FALSE
  <2>0. Bad \subseteq Nat
    <3> HIDE DEF Off
    <3> QED
      BY <1>2
  <2>1. PICK i \in Bad : \A j \in Bad : i <= j
    BY <1>3, <2>0, LeastIs
  <2>2. CASE i = 0
    <3>1. u[0] = <<>> /\ Range(<<>>) = {}
      BY <1>1 DEF UpTo, Range
    <3> QED
      BY <2>1, <2>2, <3>1
  <2>3. CASE i # 0
    <3>1. i \in 1 .. Len(s) /\ i - 1 \in 0 .. Len(s) /\ ~(i <= i - 1)
      BY <1>2, <2>1, <2>3
    <3>2. ~Off(i - 1)
      BY <2>1, <3>1
    <3>3. u[i] = u[i - 1] \o One(s[i], k) /\ u[i - 1] \in Seq(Facts) /\ One(s[i], k) \in Seq(Facts)
      BY <1>1, <1>2, <3>1, OneOf DEF UpTo
    <3>4. Range(u[i]) = Range(u[i - 1]) \union Range(One(s[i], k))
      BY <3>3, JoinedIs
    <3>5. Range(One(s[i], k)) = IF s[i].kind = k THEN {s[i]} ELSE {}
      BY <1>2, <3>1, OneIs DEF One
    <3>6. {s[j] : j \in 1 .. i} = {s[j] : j \in 1 .. i - 1} \union {s[i]}
      BY <3>1
    <3> QED
      BY <2>1, <3>2, <3>4, <3>5, <3>6
  <2> QED
    BY <2>2, <2>3
<1>4. ~Off(Len(s))
  <2>1. Len(s) \in 0 .. Len(s)
    BY <1>2
  <2> QED
    BY <1>3, <2>1
<1>5. Range(s) = {s[j] : j \in 1 .. Len(s)}
  <2>1. DOMAIN s = 1 .. Len(s)
    OBVIOUS
  <2> QED
    BY <2>1 DEF Range
<1> QED
  BY <1>1, <1>4, <1>5

LEMMA OfKindNone ==
    ASSUME NEW s \in Seq(Facts), NEW k, \A f \in Range(s) : f.kind # k
    PROVE  OfKind(s, k) = <<>>
<1>1. Range(OfKind(s, k)) = {} /\ OfKind(s, k) \in Seq(Facts)
  BY OfKindRange, OfKindIn
<1>2. DOMAIN OfKind(s, k) = {}
  BY <1>1 DEF Range
<1>3. \A t \in Seq(Facts) : DOMAIN t = {} => t = <<>>
  <2>1. ASSUME NEW t \in Seq(Facts), DOMAIN t = {} PROVE Len(t) = 0
    BY <2>1
  <2> QED
    BY <2>1, EmptySeq
<1> QED
  BY <1>1, <1>2, <1>3

(* A sequence with none of the kind adds none to those it is joined to.    *)
LEMMA NoneOfKind ==
    ASSUME NEW s \in Seq(Facts), NEW t \in Seq(Facts), NEW k
    PROVE  /\ OfKind(t, k) = <<>> => OfKind(s \o t, k) = OfKind(s, k)
           /\ OfKind(s, k) = <<>> => OfKind(s \o t, k) = OfKind(t, k)
<1>1. OfKind(s \o t, k) = OfKind(s, k) \o OfKind(t, k)
  BY OfKindJoined
<1>2. OfKind(s, k) \in Seq(Facts) /\ OfKind(t, k) \in Seq(Facts)
  BY OfKindIn
<1>3. \A r \in Seq(Facts) : r \o <<>> = r /\ <<>> \o r = r
  BY ConcatEmptySeq
<1> QED
  BY <1>1, <1>2, <1>3

(* What FlattenSeq leaves of the first pieces. *)
JoinedTo(g, pieces) ==
    /\ g \in [0 .. Len(pieces) -> Seq(Facts)] /\ g[0] = <<>>
    /\ \A i \in 1 .. Len(pieces) : g[i] = g[i - 1] \o pieces[i]

LEMMA FlattenIs ==
    ASSUME NEW pieces \in Seq(Seq(Facts))
    PROVE  \E g : JoinedTo(g, pieces) /\ FlattenSeq(pieces) = g[Len(pieces)]
<1> DEFINE n == Len(pieces)
           step == [p \in (1 .. n) \X Seq(Facts) |-> p[2] \o pieces[p[1]]]
<1>1. n \in Nat /\ DOMAIN pieces = 1 .. n /\ \A i \in 1 .. n : pieces[i] \in Seq(Facts)
  OBVIOUS
<1>2. step \in StepFns(n, Seq(Facts)) /\ <<>> \in Seq(Facts)
  <2>1. \A p \in (1 .. n) \X Seq(Facts) : p[2] \o pieces[p[1]] \in Seq(Facts)
    BY <1>1
  <2> QED
    BY <2>1 DEF StepFns
<1> HIDE DEF n
<1>3. PICK g : Recursion(g, n, Seq(Facts), <<>>, step)
  <2>1. n \in Nat
    BY <1>1
  <2> HIDE DEF step
  <2> QED
    BY <1>2, <2>1, RecursionExists
<1>4. ASSUME NEW i \in 1 .. n PROVE g[i] = g[i - 1] \o pieces[i]
  <2>1. i - 1 \in 0 .. n
    BY <1>1
  <2>2. g[i - 1] \in Seq(Facts)
    BY <1>3, <2>1 DEF Recursion
  <2> QED
    BY <1>3, <2>2 DEF Recursion
<1>5. CASE n = 0
  <2>1. pieces = <<>> /\ FlattenSeq(pieces) = pieces
    BY <1>5 DEF FlattenSeq, n
  <2> QED
    BY <1>3, <1>4, <1>5, <2>1 DEF JoinedTo, n, Recursion
<1>6. CASE n # 0
  <2> DEFINE Steps(h) == h = [i \in 1 .. n |-> IF i = 1 THEN pieces[i] ELSE h[i - 1] \o pieces[i]]
             f == CHOOSE h : Steps(h)
             r == [i \in 1 .. n |-> g[i]]
  <2>1. FlattenSeq(pieces) = f[n]
    BY <1>6 DEF FlattenSeq, n
  <2>2. Steps(r)
    <3>1. ASSUME NEW i \in 1 .. n PROVE r[i] = IF i = 1 THEN pieces[i] ELSE r[i - 1] \o pieces[i]
      <4>1. CASE i = 1
        <5>1. g[0] = <<>> /\ g[1] = g[0] \o pieces[1] /\ pieces[1] \in Seq(Facts)
          <6>1. 1 \in 1 .. n /\ 1 - 1 = 0
            BY <4>1
          <6>2. g[1] = g[1 - 1] \o pieces[1]
            BY <1>4, <6>1, Zenon
          <6> QED
            BY <1>1, <1>3, <6>1, <6>2 DEF Recursion
        <5>2. <<>> \o pieces[1] = pieces[1]
          BY <5>1, ConcatEmptySeq
        <5> QED
          BY <4>1, <5>1, <5>2
      <4>2. CASE i # 1
        <5>1. i - 1 \in 1 .. n
          BY <1>1, <4>2
        <5> QED
          BY <1>4, <4>2, <5>1
      <4> QED
        BY <4>1, <4>2
    <3> QED
      BY <3>1
  <2>3. Steps(f)
    <3> HIDE DEF r
    <3> QED
      BY <2>2
  <2>4. \A i \in 1 .. n : f[i] = IF i = 1 THEN pieces[i] ELSE f[i - 1] \o pieces[i]
    <3> HIDE DEF f
    <3> QED
      BY <2>3
  <2> DEFINE Off(i) == f[i] # g[i]
             Bad == {i \in 1 .. n : Off(i)}
  <2> HIDE DEF f
  <2>5. ASSUME Bad # {} PROVE FALSE
    <3>0. Bad \subseteq Nat
      <4> HIDE DEF Off
      <4> QED
        BY <1>1
    <3>1. PICK i \in Bad : \A j \in Bad : i <= j
      BY <2>5, <3>0, LeastIs
    <3>2. CASE i = 1
      <4>1. f[1] = pieces[1] /\ r[1] = pieces[1] /\ r[1] = g[1]
        BY <2>2, <2>4, <3>1, <3>2
      <4> QED
        BY <3>1, <3>2, <4>1
    <3>3. CASE i # 1
      <4>1. i \in 1 .. n /\ i - 1 \in 1 .. n /\ ~(i <= i - 1)
        BY <1>1, <3>1, <3>3
      <4>2. f[i - 1] = g[i - 1]
        BY <3>1, <4>1
      <4> QED
        BY <1>4, <2>4, <3>1, <3>3, <4>1, <4>2
    <3> QED
      BY <3>2, <3>3
  <2>6. f[n] = g[n]
    <3>1. n \in 1 .. n
      BY <1>1, <1>6
    <3> QED
      BY <2>5, <3>1
  <2> QED
    BY <1>3, <1>4, <2>1, <2>6 DEF JoinedTo, n, Recursion
<1> QED
  BY <1>5, <1>6
-----------------------------------------------------------------------------
(* Sequences that name nothing twice, and those that are grounded.         *)

LEMMA DistinctJoined ==
    ASSUME NEW s \in Seq(Facts), NEW t \in Seq(Facts), Distinct(s), Distinct(t),
           \A f \in Range(s) : Names(f) => f \notin Range(t)
    PROVE  Distinct(s \o t)
<1>1. /\ DOMAIN (s \o t) = 1 .. Len(s) + Len(t)
      /\ \A i \in 1 .. Len(s) + Len(t) : (s \o t)[i] = IF i <= Len(s) THEN s[i] ELSE t[i - Len(s)]
  BY JoinedIs
<1>2. Len(s) \in Nat /\ Len(t) \in Nat /\ DOMAIN s = 1 .. Len(s) /\ DOMAIN t = 1 .. Len(t)
  OBVIOUS
<1> DEFINE st == s \o t
<1> HIDE DEF st
<1>3. ASSUME NEW i \in DOMAIN st
      PROVE  \/ i \in DOMAIN s /\ st[i] = s[i] /\ st[i] \in Range(s)
             \/ i - Len(s) \in DOMAIN t /\ st[i] = t[i - Len(s)] /\ st[i] \in Range(t)
  <2>1. CASE i <= Len(s)
    <3>1. i \in DOMAIN s /\ st[i] = s[i]
      BY <1>1, <1>2, <1>3, <2>1 DEF st
    <3> QED
      BY <3>1 DEF Range
  <2>2. CASE ~(i <= Len(s))
    <3>1. i - Len(s) \in DOMAIN t /\ st[i] = t[i - Len(s)]
      BY <1>1, <1>2, <1>3, <2>2 DEF st
    <3> QED
      BY <3>1 DEF Range
  <2> QED
    BY <2>1, <2>2
<1>4. \A i, j \in DOMAIN st : i \in Int /\ j \in Int /\ (i # j => i - Len(s) # j - Len(s))
  BY <1>1, <1>2 DEF st
<1>5. ASSUME NEW i \in DOMAIN st, NEW j \in DOMAIN st, i # j, st[i] = st[j]
      PROVE  ~Names(st[i])
  <2>1. i - Len(s) # j - Len(s)
    BY <1>4, <1>5
  <2> QED
    BY <1>3, <1>5, <2>1 DEF Distinct
<1> QED
  BY <1>5 DEF Distinct, st

LEMMA GroundedMore ==
    ASSUME NEW s, NEW had, NEW more, Grounded(had, s), had \subseteq more
    PROVE  Grounded(more, s)
  BY DEF Grounded

LEMMA GroundedJoined ==
    ASSUME NEW s \in Seq(Facts), NEW t \in Seq(Facts), NEW had,
           Grounded(had, s), Grounded(had \union Range(s), t)
    PROVE  Grounded(had, s \o t)
<1> DEFINE st == s \o t
<1>1. /\ DOMAIN st = 1 .. Len(s) + Len(t)
      /\ \A i \in 1 .. Len(s) + Len(t) : st[i] = IF i <= Len(s) THEN s[i] ELSE t[i - Len(s)]
  BY JoinedIs
<1>2. Len(s) \in Nat /\ Len(t) \in Nat /\ DOMAIN s = 1 .. Len(s) /\ DOMAIN t = 1 .. Len(t)
  OBVIOUS
<1> HIDE DEF st
<1>3. ASSUME NEW i \in DOMAIN st
      PROVE  Ground(st[i]) \subseteq had \union {st[j] : j \in 1 .. i - 1}
  <2>1. CASE i <= Len(s)
    <3>1. i \in DOMAIN s /\ st[i] = s[i] /\ \A j \in 1 .. i - 1 : st[j] = s[j]
      BY <1>1, <1>2, <1>3, <2>1
    <3>2. Ground(s[i]) \subseteq had \union {s[j] : j \in 1 .. i - 1}
      BY <3>1 DEF Grounded
    <3> QED
      BY <3>1, <3>2
  <2>2. CASE ~(i <= Len(s))
    <3> DEFINE k == i - Len(s)
    <3>1. k \in DOMAIN t /\ st[i] = t[k] /\ i = k + Len(s)
      BY <1>1, <1>2, <1>3, <2>2
    <3>2. Ground(t[k]) \subseteq had \union Range(s) \union {t[j] : j \in 1 .. k - 1}
      <4> HIDE DEF k
      <4> QED
        BY <3>1 DEF Grounded
    <3>3. Range(s) \subseteq {st[j] : j \in 1 .. i - 1}
      <4>1. ASSUME NEW j \in DOMAIN s PROVE j \in 1 .. i - 1 /\ st[j] = s[j]
        BY <1>1, <1>2, <1>3, <2>2
      <4> QED
        BY <4>1 DEF Range
    <3>4. {t[j] : j \in 1 .. k - 1} \subseteq {st[j] : j \in 1 .. i - 1}
      <4>1. ASSUME NEW j \in 1 .. k - 1 PROVE j + Len(s) \in 1 .. i - 1 /\ st[j + Len(s)] = t[j]
        <5>1. /\ j + Len(s) \in 1 .. i - 1 /\ j + Len(s) \in 1 .. Len(s) + Len(t)
              /\ ~(j + Len(s) <= Len(s)) /\ j + Len(s) - Len(s) = j
          BY <1>1, <1>2, <1>3, <3>1
        <5> QED
          BY <1>1, <5>1
      <4> HIDE DEF k
      <4> QED
        BY <4>1
    <3> HIDE DEF k
    <3> QED
      BY <3>1, <3>2, <3>3, <3>4
  <2> QED
    BY <2>1, <2>2
<1> QED
  BY <1>3 DEF Grounded, st

LEMMA OneSound ==
    ASSUME NEW f \in Facts, NEW had, Ground(f) \subseteq had
    PROVE  /\ Distinct(<<f>>) /\ Grounded(had, <<f>>) /\ Distinct(<<>>) /\ Grounded(had, <<>>)
<1>1. DOMAIN <<f>> = {1} /\ <<f>>[1] = f /\ DOMAIN <<>> = {}
  OBVIOUS
<1> QED
  BY <1>1 DEF Distinct, Grounded

(* A sequence of a row's facts that the ref has not: sound to add to it.   *)
Sound(s, had) == s \in Seq(Facts) /\ Distinct(s) /\ Grounded(had, s)

(* Pieces, each of the facts filed under its own number, joined.           *)
LEMMA FlatSound ==
    ASSUME NEW pieces \in Seq(Seq(Facts)), NEW had,
           \A i \in DOMAIN pieces : Sound(pieces[i], had) /\ \A f \in Range(pieces[i]) : f.n = i
    PROVE  /\ Sound(FlattenSeq(pieces), had)
           /\ Range(FlattenSeq(pieces)) = UNION {Range(pieces[i]) : i \in DOMAIN pieces}
<1>1. PICK g : JoinedTo(g, pieces) /\ FlattenSeq(pieces) = g[Len(pieces)]
  BY FlattenIs
<1> DEFINE n == Len(pieces)
           All(i) == UNION {Range(pieces[j]) : j \in 1 .. i}
           Good(i) == Sound(g[i], had) /\ Range(g[i]) = All(i)
           Bad == {i \in 0 .. n : ~Good(i)}
<1>2. n \in Nat /\ DOMAIN pieces = 1 .. n
  OBVIOUS
<1> HIDE DEF n
<1>3. ASSUME Bad # {} PROVE FALSE
  <2>0. Bad \subseteq Nat
    <3> HIDE DEF Good
    <3> QED
      BY <1>2
  <2>1. PICK i \in Bad : \A j \in Bad : i <= j
    BY <1>3, <2>0, LeastIs
  <2>2. CASE i = 0
    <3>1. g[0] = <<>> /\ Range(<<>>) = {} /\ <<>> \in Seq(Facts) /\ DOMAIN <<>> = {}
      BY <1>1 DEF JoinedTo, Range
    <3>2. All(0) = {}
      OBVIOUS
    <3> QED
      BY <2>1, <2>2, <3>1, <3>2 DEF Sound, Distinct, Grounded
  <2>3. CASE i # 0
    <3>1. i \in 1 .. n /\ i - 1 \in 0 .. n /\ ~(i <= i - 1)
      BY <1>2, <2>1, <2>3
    <3> DEFINE s == g[i - 1]
               t == pieces[i]
    <3>2. Good(i - 1)
      BY <2>1, <3>1
    <3>3. g[i] = s \o t
      BY <1>1, <3>1 DEF JoinedTo, n
    <3>4. s \in Seq(Facts) /\ t \in Seq(Facts) /\ Distinct(s) /\ Distinct(t) /\ Grounded(had, s) /\ Grounded(had, t)
      BY <1>2, <3>1, <3>2 DEF Sound
    <3>5. ASSUME NEW f \in Range(s) PROVE f \notin Range(t)
      <4>1. PICK j \in 1 .. i - 1 : f \in Range(pieces[j])
        BY <3>2, <3>5
      <4>2. f.n = j /\ j # i
        BY <1>2, <3>1, <4>1
      <4> QED
        BY <1>2, <3>1, <4>2
    <3>6. Range(s \o t) = Range(s) \union Range(t) /\ s \o t \in Seq(Facts)
      <4> HIDE DEF s, t
      <4> QED
        BY <3>4, JoinedIs
    <3>7. Distinct(s \o t)
      <4> HIDE DEF s, t
      <4> QED
        BY <3>4, <3>5, DistinctJoined
    <3>8. Grounded(had, s \o t)
      <4> HIDE DEF s, t
      <4>1. Grounded(had \union Range(s), t)
        BY <3>4, GroundedMore
      <4> QED
        BY <3>4, <4>1, GroundedJoined
    <3>9. All(i) = All(i - 1) \union Range(t)
      <4>1. 1 .. i = (1 .. i - 1) \union {i}
        BY <3>1
      <4> QED
        BY <4>1
    <3> QED
      BY <2>1, <3>2, <3>3, <3>6, <3>7, <3>8, <3>9 DEF Sound
  <2> QED
    BY <2>2, <2>3
<1>4. Good(n)
  <2>1. n \in 0 .. n
    BY <1>2
  <2> QED
    BY <1>3, <2>1
<1> QED
  BY <1>1, <1>2, <1>4 DEF n
-----------------------------------------------------------------------------
(* The facts a row gives. *)

Of(kind, S) == {Fact(kind, n) : n \in S}

(* A fact of kind l follows the one of kind k with its number.             *)
Grounds(k, l) == (k = "opened" /\ l = "closed") \/ (k = "finding" /\ l = "rebuttal")

Numbered == Kinds \ {"created", "state"}

(* s is the facts of S that are not had, each once, in an order that may   *)
(* follow a ref of those had.                                               *)
Adds(s, had, S) == Sound(s, had) /\ Range(s) = S \ had

OnlyGives(s, S) == s \in Seq(Facts) /\ Distinct(s) /\ Range(s) = S

Piece(k, l, n, A, B, had) == Due(k, n, A, had) \o Due(l, n, B, had)

Pieces(k, l, top, A, B, had) == [n \in 1 .. top |-> Piece(k, l, n, A, B, had)]

LEMMA NumberedIs ==
    ASSUME NEW kind \in Numbered, NEW n \in Nat \ {0}
    PROVE  Fact(kind, n) \in Facts
  BY DEF Fact, Facts, Kinds, Numbered

LEMMA DueIs ==
    ASSUME NEW kind \in Numbered, NEW n \in Nat \ {0}, NEW S, NEW had
    PROVE  OnlyGives(Due(kind, n, S, had), Of(kind, S \intersect {n}) \ had)
<1>1. Fact(kind, n) \in Facts
  BY NumberedIs
<1>2. Distinct(<<Fact(kind, n)>>) /\ Distinct(<<>>)
  BY <1>1, OneSound DEF Distinct
<1>3. CASE n \in S /\ Fact(kind, n) \notin had
  <2>1. Due(kind, n, S, had) = <<Fact(kind, n)>> /\ S \intersect {n} = {n}
    BY <1>3 DEF Due
  <2> QED
    BY <1>1, <1>2, <1>3, <2>1, OneIs, SMTT(30) DEF Of, OnlyGives
<1>4. CASE ~(n \in S /\ Fact(kind, n) \notin had)
  <2>1. Due(kind, n, S, had) = <<>> /\ Of(kind, S \intersect {n}) \ had = {}
    BY <1>4 DEF Due, Of
  <2> QED
    BY <1>1, <1>2, <2>1, OneIs, ZenonT(60) DEF OnlyGives
<1> QED
  BY <1>1, <1>3, <1>4

LEMMA FactIs ==
    ASSUME NEW k, NEW n
    PROVE  Fact(k, n).kind = k /\ Fact(k, n).n = n /\ \A j, m : Fact(j, m) = Fact(k, n) => j = k /\ m = n
  BY DEF Fact

(* The pieces of attempts and of findings: one fact, then one it grounds.  *)
LEMMA PairIs ==
    ASSUME NEW k, NEW l, Grounds(k, l),
           NEW n \in Nat \ {0}, NEW A, NEW B, B \subseteq A, NEW had
    PROVE  Adds(Piece(k, l, n, A, B, had), had, Of(k, A \intersect {n}) \union Of(l, B \intersect {n}))
<1> DEFINE s == Due(k, n, A, had)
           t == Due(l, n, B, had)
<1>1. k \in Numbered /\ l \in Numbered /\ k # l
  BY DEF Kinds, Numbered, Grounds
<1>2. /\ s \in Seq(Facts) /\ Distinct(s) /\ Range(s) = Of(k, A \intersect {n}) \ had
      /\ t \in Seq(Facts) /\ Distinct(t) /\ Range(t) = Of(l, B \intersect {n}) \ had
  <2>1. OnlyGives(s, Of(k, A \intersect {n}) \ had)
    BY <1>1, DueIs
  <2>2. OnlyGives(t, Of(l, B \intersect {n}) \ had)
    BY <1>1, DueIs
  <2> QED
    BY <2>1, <2>2 DEF OnlyGives
<1>3. Range(s \o t) = Range(s) \union Range(t) /\ s \o t \in Seq(Facts)
  <2>1. s \in Seq(Facts) /\ t \in Seq(Facts)
    BY <1>2
  <2> HIDE DEF s, t
  <2> QED
    BY <2>1, JoinedIs, SMTT(30)
<1>4. \A f \in Range(s) : f.kind = k /\ f.n = n
  <2> HIDE DEF s
  <2> QED
    BY <1>2, FactIs DEF Of
<1>5. \A f \in Range(t) : f.kind = l /\ f.n = n
  <2> HIDE DEF t
  <2> QED
    BY <1>2, FactIs DEF Of
<1>6. Distinct(s \o t)
  <2> HIDE DEF s, t
  <2> QED
    BY <1>1, <1>2, <1>4, <1>5, DistinctJoined
<1>7. Grounded(had, s)
  <2>1. CASE n \in A /\ Fact(k, n) \notin had
    <3>1. s = <<Fact(k, n)>> /\ Fact(k, n) \in Facts
      BY <1>1, <2>1, NumberedIs DEF Due
    <3>2. Ground(Fact(k, n)) = {}
      BY DEF Ground, Fact, Grounds
    <3> QED
      BY <3>1, <3>2, OneSound
  <2>2. CASE ~(n \in A /\ Fact(k, n) \notin had)
    <3>1. s = <<>>
      BY <2>2 DEF Due
    <3> QED
      BY <3>1 DEF Grounded
  <2> QED
    BY <2>1, <2>2
<1>8. Grounded(had \union Range(s), t)
  <2>1. CASE n \in B /\ Fact(l, n) \notin had
    <3>1. t = <<Fact(l, n)>> /\ Fact(l, n) \in Facts
      BY <1>1, <2>1, NumberedIs DEF Due
    <3>2. Ground(Fact(l, n)) = {Fact(k, n)}
      BY DEF Ground, Fact, Grounds
    <3>3. Fact(k, n) \in had \union Range(s)
      <4>1. n \in A \intersect {n}
        BY <2>1
      <4> HIDE DEF s
      <4> QED
        BY <1>2, <4>1 DEF Of
    <3> HIDE DEF s, t
    <3> QED
      BY <3>1, <3>2, <3>3, OneSound
  <2>2. CASE ~(n \in B /\ Fact(l, n) \notin had)
    <3>1. t = <<>>
      BY <2>2 DEF Due
    <3> QED
      BY <3>1 DEF Grounded
  <2> QED
    BY <2>1, <2>2
<1>9. Grounded(had, s \o t)
  <2> HIDE DEF s, t
  <2> QED
    BY <1>2, <1>7, <1>8, GroundedJoined
<1> QED
  BY <1>2, <1>3, <1>6, <1>9 DEF Sound, Piece, Adds

LEMMA TopIs ==
    ASSUME NEW S, S \subseteq Nat \ {0}, IsFiniteSet(S)
    PROVE  Max(S \union {0}) \in Nat /\ S \subseteq 1 .. Max(S \union {0})
<1>1. S \union {0} \subseteq Nat /\ IsFiniteSet(S \union {0}) /\ S \union {0} # {}
  BY FS_AddElement
<1>2. Max(S \union {0}) \in S \union {0} /\ \A y \in S \union {0} : y <= Max(S \union {0})
  BY <1>1, MaxIs
<1> DEFINE top == Max(S \union {0})
<1> HIDE DEF top
<1>3. top \in Nat /\ \A y \in S : y \in Nat \ {0} /\ y <= top
  BY <1>1, <1>2 DEF top
<1>4. S \subseteq 1 .. top
  BY <1>3
<1> QED
  BY <1>3, <1>4 DEF top

LEMMA PairsAre ==
    ASSUME NEW k, NEW l, Grounds(k, l),
           NEW top \in Nat, NEW A, NEW B, B \subseteq A, A \subseteq 1 .. top, NEW had
    PROVE  Adds(FlattenSeq(Pieces(k, l, top, A, B, had)), had, Of(k, A) \union Of(l, B))
<1> DEFINE pieces == Pieces(k, l, top, A, B, had)
<1>1. ASSUME NEW n \in 1 .. top
      PROVE  /\ Sound(pieces[n], had)
             /\ Range(pieces[n]) = (Of(k, A \intersect {n}) \union Of(l, B \intersect {n})) \ had
             /\ \A f \in Range(pieces[n]) : f.n = n
  <2>1. n \in Nat \ {0}
    OBVIOUS
  <2>2. pieces[n] = Piece(k, l, n, A, B, had)
    BY DEF Pieces
  <2> HIDE DEF pieces
  <2>3. Adds(Piece(k, l, n, A, B, had), had, Of(k, A \intersect {n}) \union Of(l, B \intersect {n}))
    BY <2>1, PairIs
  <2>4. ASSUME NEW f \in Of(k, A \intersect {n}) \union Of(l, B \intersect {n}) PROVE f.n = n
    BY FactIs DEF Of
  <2> QED
    BY <2>2, <2>3, <2>4 DEF Adds
<1>2. DOMAIN pieces = 1 .. top
  BY DEF Pieces
<1>3. pieces \in Seq(Seq(Facts))
  <2>1. \A n \in 1 .. top : pieces[n] \in Seq(Facts)
    BY <1>1 DEF Sound
  <2>2. pieces \in [1 .. top -> Seq(Facts)]
    BY <2>1 DEF Pieces
  <2> HIDE DEF pieces
  <2> QED
    BY <2>2
<1> HIDE DEF pieces
<1>4. /\ Sound(FlattenSeq(pieces), had)
      /\ Range(FlattenSeq(pieces)) = UNION {Range(pieces[i]) : i \in 1 .. top}
  BY <1>1, <1>2, <1>3, FlatSound
<1>5. UNION {Range(pieces[i]) : i \in 1 .. top} = (Of(k, A) \union Of(l, B)) \ had
  <2>1. ASSUME NEW f \in UNION {Range(pieces[i]) : i \in 1 .. top}
        PROVE  f \in (Of(k, A) \union Of(l, B)) \ had
    BY <1>1, <2>1 DEF Of
  <2>2. ASSUME NEW f \in (Of(k, A) \union Of(l, B)) \ had
        PROVE  f \in UNION {Range(pieces[i]) : i \in 1 .. top}
    <3>1. PICK n \in A : f = Fact(k, n) \/ (n \in B /\ f = Fact(l, n))
      BY <2>2 DEF Of
    <3>2. n \in 1 .. top /\ f \in Range(pieces[n])
      BY <1>1, <2>2, <3>1 DEF Of
    <3> QED
      BY <3>2
  <2> QED
    BY <2>1, <2>2
<1> QED
  BY <1>4, <1>5 DEF pieces, Adds

LEMMA AttemptsAre ==
    ASSUME NEW row, RowIs(row), NEW had
    PROVE  Adds(Attempts(row, had), had, Of("opened", row.opened) \union Of("closed", row.closed))
<1>1. row.opened \subseteq Nat \ {0} /\ IsFiniteSet(row.opened) /\ row.closed \subseteq row.opened
  BY DEF RowIs, RowShape
<1>2. Max(row.opened \union {0}) \in Nat /\ row.opened \subseteq 1 .. Max(row.opened \union {0})
  BY <1>1, TopIs
<1> DEFINE top == Max(row.opened \union {0})
           pieces == Pieces("opened", "closed", top, row.opened, row.closed, had)
<1>3. Attempts(row, had) = FlattenSeq(pieces)
  BY DEF Attempts, Pieces, Piece
<1> HIDE DEF top
<1>4. top \in Nat /\ row.opened \subseteq 1 .. top
  BY <1>2 DEF top
<1>5. Adds(FlattenSeq(pieces), had, Of("opened", row.opened) \union Of("closed", row.closed))
  <2>1. Grounds("opened", "closed")
    BY DEF Grounds
  <2> QED
    BY <1>1, <1>4, <2>1, PairsAre
<1> QED
  BY <1>3, <1>5

LEMMA FindingsAre ==
    ASSUME NEW row, RowIs(row), NEW had
    PROVE  Adds(Findings(row, had), had, Of("finding", 1 .. row.findings) \union Of("rebuttal", row.rebutted))
<1>1. row.findings \in Nat /\ row.rebutted \subseteq 1 .. row.findings
  BY DEF RowIs, RowShape
<1> DEFINE top == row.findings
           S == 1 .. row.findings
           pieces == Pieces("finding", "rebuttal", top, S, row.rebutted, had)
<1>2. Findings(row, had) = FlattenSeq(pieces)
  BY DEF Findings, Pieces, Piece
<1>3. top \in Nat /\ S \subseteq 1 .. top /\ row.rebutted \subseteq S
  BY <1>1
<1> HIDE DEF S, top
<1>4. Adds(FlattenSeq(pieces), had, Of("finding", S) \union Of("rebuttal", row.rebutted))
  <2>1. Grounds("finding", "rebuttal")
    BY DEF Grounds
  <2> QED
    BY <1>3, <2>1, PairsAre
<1> QED
  BY <1>2, <1>4 DEF S

LEMMA TextsAre ==
    ASSUME NEW row, RowIs(row), NEW had
    PROVE  Adds(Texts(row, had), had, Of("text", row.texts))
<1> DEFINE top == Max(row.texts \union {0})
           pieces == [n \in 1 .. top |-> Due("text", n, row.texts, had)]
<1>1. row.texts \subseteq Nat \ {0} /\ IsFiniteSet(row.texts)
  BY DEF RowIs, RowShape
<1>2. top \in Nat /\ row.texts \subseteq 1 .. top
  BY <1>1, TopIs
<1> HIDE DEF top
<1>3. ASSUME NEW n \in 1 .. top
      PROVE  /\ Sound(pieces[n], had) /\ Range(pieces[n]) = Of("text", row.texts \intersect {n}) \ had
             /\ \A f \in Range(pieces[n]) : f.n = n
  <2> DEFINE p == Due("text", n, row.texts, had)
  <2>1. "text" \in Numbered /\ n \in Nat \ {0} /\ pieces[n] = p
    BY DEF Kinds, Numbered
  <2>2. p \in Seq(Facts) /\ Distinct(p) /\ Range(p) = Of("text", row.texts \intersect {n}) \ had
    <3>1. OnlyGives(p, Of("text", row.texts \intersect {n}) \ had)
      BY <2>1, DueIs
    <3> QED
      BY <3>1 DEF OnlyGives
  <2> HIDE DEF p, pieces
  <2>3. \A f \in Range(p) : f.kind = "text" /\ f.n = n
    BY <2>2, FactIs DEF Of
  <2>4. ASSUME NEW i \in DOMAIN p PROVE Ground(p[i]) = {}
    BY <2>3 DEF Ground, Range
  <2> QED
    BY <2>1, <2>2, <2>3, <2>4 DEF Sound, Grounded
<1>4. DOMAIN pieces = 1 .. top
  OBVIOUS
<1>5. pieces \in Seq(Seq(Facts))
  <2>1. \A n \in 1 .. top : pieces[n] \in Seq(Facts)
    BY <1>3 DEF Sound
  <2>2. pieces \in [1 .. top -> Seq(Facts)]
    BY <2>1
  <2> HIDE DEF pieces
  <2> QED
    BY <1>2, <2>2
<1>6. Texts(row, had) = FlattenSeq(pieces)
  BY DEF Texts, top
<1> HIDE DEF pieces
<1>7. /\ Sound(FlattenSeq(pieces), had)
      /\ Range(FlattenSeq(pieces)) = UNION {Range(pieces[i]) : i \in 1 .. top}
  BY <1>3, <1>4, <1>5, FlatSound
<1>8. UNION {Range(pieces[i]) : i \in 1 .. top} = Of("text", row.texts) \ had
  <2>1. ASSUME NEW f \in UNION {Range(pieces[i]) : i \in 1 .. top}
        PROVE  f \in Of("text", row.texts) \ had
    BY <1>3, <2>1 DEF Of
  <2>2. ASSUME NEW f \in Of("text", row.texts) \ had
        PROVE  f \in UNION {Range(pieces[i]) : i \in 1 .. top}
    <3>1. PICK n \in row.texts : f = Fact("text", n)
      BY <2>2 DEF Of
    <3>2. n \in 1 .. top /\ f \in Range(pieces[n])
      BY <1>2, <1>3, <2>2, <3>1 DEF Of
    <3> QED
      BY <3>2
  <2> QED
    BY <2>1, <2>2
<1> QED
  BY <1>6, <1>7, <1>8 DEF Adds
-----------------------------------------------------------------------------
(* One fact applied to a row that places it.                               *)

Step(row, f, r) ==
    /\ r.made
    /\ r.read = "ok"
    /\ r.state = IF f.kind = "created" THEN "QUEUED" ELSE IF f.kind = "state" THEN f.n ELSE row.state
    /\ r.opened = IF f.kind = "opened" THEN row.opened \union {f.n} ELSE row.opened
    /\ r.closed = IF f.kind = "closed" THEN row.closed \union {f.n} ELSE row.closed
    /\ r.findings = IF f.kind = "finding" THEN f.n ELSE row.findings
    /\ r.rebutted = IF f.kind = "rebuttal" THEN row.rebutted \union {f.n} ELSE row.rebutted
    /\ r.texts = IF f.kind = "text" THEN row.texts \union {f.n} ELSE row.texts
    /\ r.pushed = IF f.kind = "push" THEN f.n ELSE row.pushed

LEMMA Applied ==
    ASSUME NEW row \in RowShape, NEW f \in Facts, row.read = "ok", Placed(row, f)
    PROVE  Step(row, f, Apply(row, f))
<1>1. f.kind # "created" => row.made
  BY DEF Placed, Facts, Kinds
<1>2. CASE f.kind = "created"
  BY <1>2 DEF Apply, RowShape, Step
<1>3. CASE f.kind = "state"
  BY <1>1, <1>3 DEF Apply, RowShape, Step
<1>4. CASE f.kind = "opened"
  BY <1>1, <1>4 DEF Apply, RowShape, Step
<1>5. CASE f.kind = "closed"
  BY <1>1, <1>5 DEF Apply, RowShape, Step
<1>6. CASE f.kind = "finding"
  BY <1>1, <1>6 DEF Apply, RowShape, Step
<1>7. CASE f.kind = "rebuttal"
  BY <1>1, <1>7 DEF Apply, RowShape, Step
<1>8. CASE f.kind = "text"
  BY <1>1, <1>8 DEF Apply, RowShape, Step
<1>9. CASE f.kind = "push"
  BY <1>1, <1>9 DEF Apply, RowShape, Step
<1> QED
  BY <1>2, <1>3, <1>4, <1>5, <1>6, <1>7, <1>8, <1>9 DEF Facts, Kinds

LEMMA NotApplied ==
    ASSUME NEW row \in RowShape, NEW f \in Facts, row.read # "ok" \/ ~Placed(row, f)
    PROVE  Apply(row, f).read # "ok"
  BY DEF Apply, RowShape

(* A step keeps a row a row, keeps what it holds and holds the fact.       *)
LEMMA StepHolds ==
    ASSUME NEW row, RowIs(row), NEW f \in Facts, Apply(row, f).read = "ok"
    PROVE  /\ row.read = "ok" /\ Placed(row, f) /\ RowIs(Apply(row, f)) /\ Held(Apply(row, f), f)
           /\ \A e \in Facts : Held(row, e) => Held(Apply(row, f), e)
<1> DEFINE r == Apply(row, f)
<1>1. row \in RowShape /\ r \in RowShape
  BY ApplyShape DEF RowIs
<1>2. row.read = "ok" /\ Placed(row, f)
  BY <1>1, NotApplied
<1>3. Step(row, f, r)
  BY <1>1, <1>2, Applied
<1> HIDE DEF r
<1>4. f.kind \notin {"created", "state"} => f.n \in Nat \ {0}
  BY DEF Facts
<1>5. IsFiniteSet(r.opened) /\ IsFiniteSet(r.texts)
  <2>1. IsFiniteSet(row.opened) /\ IsFiniteSet(row.texts)
    BY DEF RowIs
  <2>2. IsFiniteSet(row.opened \union {f.n}) /\ IsFiniteSet(row.texts \union {f.n})
    BY <2>1, FS_AddElement
  <2>3. r.opened \in {row.opened, row.opened \union {f.n}} /\ r.texts \in {row.texts, row.texts \union {f.n}}
    BY <1>3 DEF Step
  <2> QED
    BY <2>1, <2>2, <2>3
<1>6. row.findings \in Nat /\ row.closed \subseteq row.opened /\ row.rebutted \subseteq 1 .. row.findings
  BY DEF RowIs, RowShape
<1>7. f.kind = "finding" => r.findings = row.findings + 1
  BY <1>2, <1>3 DEF Placed, Step
<1>8. r.closed \subseteq r.opened
  BY <1>2, <1>3, <1>6 DEF Placed, Step
<1>9. r.rebutted \subseteq 1 .. r.findings
  <2>1. CASE f.kind = "rebuttal"
    BY <1>2, <1>3, <1>6, <2>1 DEF Placed, Step
  <2>2. CASE f.kind # "rebuttal"
    <3>1. r.rebutted = row.rebutted /\ (r.findings = row.findings \/ r.findings = row.findings + 1)
      BY <1>3, <1>7, <2>2 DEF Step
    <3> QED
      BY <1>6, <3>1
  <2> QED
    BY <2>1, <2>2
<1>10. RowIs(r)
  BY <1>1, <1>5, <1>8, <1>9 DEF RowIs
<1>11. Held(r, f)
  <2>1. r.findings \in Nat
    BY <1>1 DEF RowShape
  <2> QED
    BY <1>3, <2>1 DEF Held, Step
<1>12. ASSUME NEW e \in Facts, Held(row, e) PROVE Held(r, e)
  <2>1. row.findings <= r.findings
    BY <1>3, <1>6, <1>7 DEF Step
  <2>2. r.findings \in Nat
    BY <1>1 DEF RowShape
  <2>3. e.kind = "finding" => e.n \in Nat
    BY DEF Facts
  <2>4. e.kind = "finding" => e.n <= r.findings
    BY <1>6, <1>12, <2>1, <2>2, <2>3 DEF Held
  <2> QED
    BY <1>3, <1>12, <2>4 DEF Held, Step
<1> QED
  BY <1>2, <1>10, <1>11, <1>12 DEF r

LEMMA AfterHolds ==
    ASSUME NEW row, RowIs(row), NEW s \in Seq(Facts), After(row, s).read = "ok"
    PROVE  /\ RowIs(After(row, s)) /\ row.read = "ok"
           /\ \A f \in Range(s) : Held(After(row, s), f)
           /\ \A f \in Facts : Held(row, f) => Held(After(row, s), f)
<1>1. row \in RowShape
  BY DEF RowIs
<1>2. PICK g : StepsFrom(g, row, s) /\ After(row, s) = g[Len(s)]
  BY <1>1, AfterIs
<1> DEFINE n == Len(s)
           Good(i) == g[i].read = "ok" =>
                        /\ RowIs(g[i]) /\ row.read = "ok"
                        /\ \A j \in 1 .. i : Held(g[i], s[j])
                        /\ \A f \in Facts : Held(row, f) => Held(g[i], f)
           Bad == {i \in 0 .. n : ~Good(i)}
<1>3. n \in Nat /\ DOMAIN s = 1 .. n /\ \A i \in 1 .. n : s[i] \in Facts
  OBVIOUS
<1> HIDE DEF n
<1>4. ASSUME Bad # {} PROVE FALSE
  <2>0. Bad \subseteq Nat
    <3> HIDE DEF Good
    <3> QED
      BY <1>3
  <2>1. PICK i \in Bad : \A j \in Bad : i <= j
    BY <1>4, <2>0, LeastIs
  <2>2. CASE i = 0
    BY <1>2, <2>1, <2>2 DEF StepsFrom
  <2>3. CASE i # 0
    <3>1. i \in 1 .. n /\ i - 1 \in 0 .. n /\ ~(i <= i - 1)
      BY <1>3, <2>1, <2>3
    <3>2. Good(i - 1)
      BY <2>1, <3>1
    <3>3. g[i] = Apply(g[i - 1], s[i]) /\ g[i - 1] \in RowShape /\ s[i] \in Facts
      BY <1>2, <1>3, <3>1 DEF StepsFrom, n
    <3>4. ASSUME g[i].read = "ok"
          PROVE  /\ RowIs(g[i]) /\ row.read = "ok"
                 /\ \A j \in 1 .. i : Held(g[i], s[j])
                 /\ \A f \in Facts : Held(row, f) => Held(g[i], f)
      <4>1. g[i - 1].read = "ok"
        BY <3>3, <3>4, NotApplied
      <4>2. RowIs(g[i - 1])
        BY <3>2, <4>1
      <4>3. RowIs(g[i]) /\ Held(g[i], s[i]) /\ \A e \in Facts : Held(g[i - 1], e) => Held(g[i], e)
        BY <3>3, <3>4, <4>2, StepHolds
      <4>4. ASSUME NEW j \in 1 .. i PROVE Held(g[i], s[j])
        <5>1. CASE j = i
          BY <4>3, <5>1
        <5>2. CASE j # i
          <6>1. j \in 1 .. i - 1 /\ j \in 1 .. n
            BY <1>3, <3>1, <5>2
          <6> QED
            BY <1>3, <3>2, <4>1, <4>3, <6>1
        <5> QED
          BY <5>1, <5>2
      <4> QED
        BY <3>2, <4>1, <4>3, <4>4
    <3> QED
      BY <2>1, <3>4
  <2> QED
    BY <2>2, <2>3
<1>5. Good(n)
  <2>1. n \in 0 .. n
    BY <1>3
  <2> QED
    BY <1>4, <2>1
<1>6. \A f \in Range(s) : \E j \in 1 .. n : f = s[j]
  BY <1>3 DEF Range
<1> QED
  BY <1>2, <1>5, <1>6 DEF n

LEMMA NoRowIs == RowIs(NoRow) /\ NoRow.read = "ok" /\ ~NoRow.made
  BY FS_EmptySet DEF NoRow, RowIs, RowShape, StateNames
-----------------------------------------------------------------------------
(* What a readable ref folds to. *)

(* A fact of the kind keeps its place in the facts of the kind.            *)
LEMMA UpToPlace ==
    ASSUME NEW s \in Seq(Facts), NEW k, NEW u, UpTo(u, s, k), NEW i \in 1 .. Len(s), s[i].kind = k
    PROVE  /\ Len(u[i - 1]) + 1 \in 1 .. Len(u[Len(s)])
           /\ u[Len(s)][Len(u[i - 1]) + 1] = s[i]
<1> DEFINE n == Len(s)
           p == Len(u[i - 1]) + 1
           Good(m) == p \in 1 .. Len(u[m]) /\ u[m][p] = s[i]
           Bad == {m \in i .. n : ~Good(m)}
<1>1. n \in Nat /\ i - 1 \in 0 .. n /\ \A m \in 1 .. n : s[m] \in Facts
  OBVIOUS
<1>2. /\ \A m \in 0 .. n : u[m] \in Seq(Facts)
      /\ \A m \in 1 .. n : u[m] = u[m - 1] \o One(s[m], k)
  BY DEF UpTo
<1> HIDE DEF n
<1>3. p \in Nat \ {0} /\ p - 1 = Len(u[i - 1])
  <2>1. u[i - 1] \in Seq(Facts)
    BY <1>1, <1>2
  <2>2. Len(u[i - 1]) \in Nat
    BY <2>1
  <2> QED
    BY <2>2
<1> HIDE DEF p
<1>4. ASSUME Bad # {} PROVE FALSE
  <2>0. Bad \subseteq Nat
    <3> HIDE DEF Good
    <3> QED
      BY <1>1
  <2>1. PICK m \in Bad : \A j \in Bad : m <= j
    BY <1>4, <2>0, LeastIs
  <2>2. m \in 1 .. n /\ m - 1 \in 0 .. n /\ ~(m <= m - 1)
    BY <1>1, <2>1
  <2> DEFINE x == u[m - 1]
             y == One(s[m], k)
  <2>3. u[m] = x \o y /\ x \in Seq(Facts) /\ y \in Seq(Facts)
    BY <1>1, <1>2, <2>2, OneOf
  <2>4. CASE m = i
    <3>1. y = <<s[i]>> /\ Len(x) = p - 1
      BY <1>3, <2>4 DEF One
    <3> HIDE DEF x, y
    <3>2. Len(u[m]) = p /\ u[m][p] = s[i]
      BY <1>1, <1>3, <2>3, <3>1
    <3> QED
      BY <1>3, <2>1, <3>2
  <2>5. CASE m # i
    <3>1. m - 1 \in i .. n
      BY <1>1, <2>1, <2>2, <2>5
    <3>2. Good(m - 1)
      BY <2>1, <2>2, <3>1
    <3>3. p \in 1 .. Len(x) /\ x[p] = s[i]
      BY <3>2
    <3> HIDE DEF x, y
    <3>4. p \in 1 .. Len(x \o y) /\ (x \o y)[p] = x[p]
      BY <1>3, <2>3, <3>3
    <3> QED
      BY <2>1, <2>3, <3>3, <3>4
  <2> QED
    BY <2>4, <2>5
<1>5. Good(n)
  <2>1. n \in i .. n
    BY <1>1 DEF n
  <2> QED
    BY <1>4, <2>1
<1> QED
  BY <1>5 DEF p, n

Numbering(s) == \A j \in DOMAIN OfKind(s, "finding") : OfKind(s, "finding")[j].n = j

Readable(s) ==
    /\ s \in Seq(Facts) /\ s # <<>> /\ s[1].kind = "created"
    /\ Distinct(s) /\ Grounded({}, s) /\ Numbering(s)

(* The row is what the facts of the ref tell.                              *)
Told(s, row) ==
    /\ row.made /\ row.read = "ok" /\ row.state = RecordState(s)
    /\ \A n : /\ n \in row.opened <=> Fact("opened", n) \in Range(s)
              /\ n \in row.closed <=> Fact("closed", n) \in Range(s)
              /\ n \in row.rebutted <=> Fact("rebuttal", n) \in Range(s)
              /\ n \in row.texts <=> Fact("text", n) \in Range(s)
    /\ row.findings = Len(OfKind(s, "finding"))

(* The same of the first facts of the ref, where u and v are its states    *)
(* and its findings so far.                                                *)
ToldTo(s, i, row, u, v) ==
    /\ row.made /\ row.read = "ok"
    /\ row.state = (IF u[i] = <<>> THEN "QUEUED" ELSE Last(u[i]).n)
    /\ \A n : /\ n \in row.opened <=> \E j \in 1 .. i : s[j] = Fact("opened", n)
              /\ n \in row.closed <=> \E j \in 1 .. i : s[j] = Fact("closed", n)
              /\ n \in row.rebutted <=> \E j \in 1 .. i : s[j] = Fact("rebuttal", n)
              /\ n \in row.texts <=> \E j \in 1 .. i : s[j] = Fact("text", n)
    /\ row.findings = Len(v[i])
    /\ \A j \in 1 .. i : s[j].kind = "finding" => s[j].n <= row.findings

FactOf(f) == f = Fact(f.kind, f.n)

LEMMA FactsAre ==
    ASSUME NEW f \in Facts
    PROVE  FactOf(f) /\ f.kind \in Kinds
  BY DEF Fact, Facts, FactOf

LEMMA PlacedNext ==
    ASSUME NEW s, Readable(s), NEW i \in 2 .. Len(s), NEW row \in RowShape, NEW u, NEW v,
           UpTo(v, s, "finding"), OfKind(s, "finding") = v[Len(s)],
           ToldTo(s, i - 1, row, u, v)
    PROVE  Placed(row, s[i]) /\ s[i].kind # "created"
<1>1. /\ s \in Seq(Facts) /\ s[i] \in Facts /\ s[1] \in Facts /\ i \in DOMAIN s /\ 1 \in DOMAIN s
      /\ i \in 1 .. Len(s) /\ i # 1 /\ Len(s) \in Nat
  BY DEF Readable
<1>2. FactOf(s[i]) /\ s[i].kind \in Kinds
  BY <1>1, FactsAre
<1>3. row.made
  BY DEF ToldTo
<1>4. s[i].kind # "created"
  <2>1. s[i].kind = "created" => s[i] = s[1]
    BY <1>1, FactsAre DEF Readable, Facts, FactOf
  <2> QED
    BY <1>1, <2>1 DEF Readable, Distinct, Names
<1>5. Ground(s[i]) \subseteq {s[j] : j \in 1 .. i - 1}
  BY <1>1 DEF Readable, Grounded
<1>6. CASE s[i].kind = "closed"
  <2>1. PICK j \in 1 .. i - 1 : s[j] = Fact("opened", s[i].n)
    BY <1>5, <1>6 DEF Ground
  <2>2. s[i].n \in row.opened
    BY <2>1 DEF ToldTo
  <2> QED
    BY <1>3, <1>4, <1>6, <2>2 DEF Placed
<1>7. CASE s[i].kind = "finding"
  <2>1. /\ Len(v[i - 1]) + 1 \in 1 .. Len(v[Len(s)])
        /\ v[Len(s)][Len(v[i - 1]) + 1] = s[i]
    BY <1>1, <1>7, UpToPlace
  <2>2. v[Len(s)] \in Seq(Facts)
    BY <1>1, OfKindIn
  <2>3. Len(v[i - 1]) + 1 \in DOMAIN v[Len(s)]
    BY <2>1, <2>2
  <2>4. s[i].n = Len(v[i - 1]) + 1
    BY <2>1, <2>3 DEF Readable, Numbering
  <2>5. row.findings = Len(v[i - 1])
    BY DEF ToldTo
  <2> QED
    BY <1>3, <1>4, <1>7, <2>4, <2>5 DEF Placed
<1>8. CASE s[i].kind = "rebuttal"
  <2>1. PICK j \in 1 .. i - 1 : s[j] = Fact("finding", s[i].n)
    BY <1>5, <1>8 DEF Ground
  <2>2. s[i].n <= row.findings
    BY <2>1, FactIs DEF ToldTo
  <2>3. s[i].n \in Nat \ {0} /\ row.findings \in Nat
    BY <1>1, <1>8 DEF Facts, RowShape
  <2>4. s[i].n \in 1 .. row.findings
    BY <2>2, <2>3
  <2> QED
    BY <1>3, <1>4, <1>8, <2>4 DEF Placed
<1>9. CASE s[i].kind = "text"
  <2>1. ASSUME s[i].n \in row.texts PROVE FALSE
    <3>1. PICK j \in 1 .. i - 1 : s[j] = Fact("text", s[i].n)
      BY <2>1 DEF ToldTo
    <3>2. s[j] = s[i] /\ j # i /\ j \in DOMAIN s
      BY <1>1, <1>2, <1>9, <3>1 DEF FactOf
    <3> QED
      BY <1>1, <1>9, <3>2 DEF Readable, Distinct, Names
  <2> QED
    BY <1>3, <1>4, <1>9, <2>1 DEF Placed
<1>10. CASE s[i].kind \in {"state", "opened", "push"}
  BY <1>3, <1>10 DEF Placed
<1> QED
  BY <1>2, <1>4, <1>6, <1>7, <1>8, <1>9, <1>10 DEF Kinds
(* The facts a kind has so far, after one more.                            *)
LEMMA UpToStep ==
    ASSUME NEW s \in Seq(Facts), NEW k, NEW u, UpTo(u, s, k), NEW i \in 1 .. Len(s)
    PROVE  /\ s[i].kind # k => u[i] = u[i - 1]
           /\ s[i].kind = k => Len(u[i]) = Len(u[i - 1]) + 1 /\ u[i] # <<>> /\ Last(u[i]) = s[i]
<1>1. s[i] \in Facts /\ i - 1 \in 0 .. Len(s)
  OBVIOUS
<1>2. u[i - 1] \in Seq(Facts) /\ u[i] = u[i - 1] \o One(s[i], k)
  BY <1>1 DEF UpTo
<1> DEFINE x == u[i - 1]
<1>3. CASE s[i].kind # k
  <2>1. x \o <<>> = x
    BY <1>2, ConcatEmptySeq
  <2> QED
    BY <1>2, <1>3, <2>1 DEF One
<1>4. CASE s[i].kind = k
  <2>1. u[i] = x \o <<s[i]>>
    BY <1>2, <1>4 DEF One
  <2>2. x \in Seq(Facts) /\ s[i] \in Facts
    BY <1>1, <1>2
  <2> DEFINE f == s[i]
             y == u[i]
  <2> HIDE DEF x, f, y
  <2>3. y = x \o <<f>>
    BY <2>1 DEF f, y
  <2>4. Len(y) = Len(x) + 1 /\ y # <<>> /\ y[Len(x) + 1] = f
    BY <2>2, <2>3 DEF f
  <2> QED
    BY <1>4, <2>4 DEF Last, f, x, y
<1> QED
  BY <1>3, <1>4

LEMMA ToldNext ==
    ASSUME NEW s, Readable(s), NEW i \in 2 .. Len(s), NEW row \in RowShape, NEW u, NEW v,
           UpTo(u, s, "state"), UpTo(v, s, "finding"), OfKind(s, "finding") = v[Len(s)],
           ToldTo(s, i - 1, row, u, v)
    PROVE  ToldTo(s, i, Apply(row, s[i]), u, v)
<1> DEFINE f == s[i]
           r == Apply(row, f)
<1>1. s \in Seq(Facts) /\ f \in Facts /\ i \in 1 .. Len(s) /\ i - 1 \in Nat
  BY DEF Readable
<1>2. Placed(row, f) /\ f.kind # "created"
  BY PlacedNext
<1>3. row.read = "ok" /\ row.made
  BY DEF ToldTo
<1>4. Step(row, f, r)
  BY <1>1, <1>2, <1>3, Applied
<1>5. FactOf(f)
  BY <1>1, FactsAre
<1> HIDE DEF r
<1>6. r.state = (IF u[i] = <<>> THEN "QUEUED" ELSE Last(u[i]).n)
  <2>1. /\ f.kind # "state" => u[i] = u[i - 1]
        /\ f.kind = "state" => u[i] # <<>> /\ Last(u[i]) = f
    BY <1>1, UpToStep
  <2> HIDE DEF f
  <2>2. row.state = (IF u[i - 1] = <<>> THEN "QUEUED" ELSE Last(u[i - 1]).n)
    BY DEF ToldTo
  <2> QED
    BY <1>2, <1>4, <2>1, <2>2 DEF Step
<1>7. r.findings = Len(v[i]) /\ (f.kind = "finding" => r.findings = row.findings + 1) /\ row.findings \in Nat
  <2>1. /\ f.kind # "finding" => v[i] = v[i - 1]
        /\ f.kind = "finding" => Len(v[i]) = Len(v[i - 1]) + 1
    BY <1>1, UpToStep
  <2> HIDE DEF f
  <2>2. row.findings = Len(v[i - 1]) /\ row.findings \in Nat
    BY DEF ToldTo, RowShape
  <2> QED
    BY <1>2, <1>4, <2>1, <2>2 DEF Step, Placed
<1>8. ASSUME NEW k, NEW n
      PROVE  (\E j \in 1 .. i : s[j] = Fact(k, n)) <=> ((\E j \in 1 .. i - 1 : s[j] = Fact(k, n)) \/ f = Fact(k, n))
  <2>1. \A j : j \in 1 .. i <=> (j \in 1 .. i - 1 \/ j = i)
    BY <1>1
  <2> QED
    BY <2>1
<1> HIDE DEF f
<1>9. \A k, n : f = Fact(k, n) <=> f.kind = k /\ f.n = n
  BY <1>5, FactIs DEF FactOf
<1>10. ASSUME NEW n
       PROVE  /\ n \in r.opened <=> \E j \in 1 .. i : s[j] = Fact("opened", n)
              /\ n \in r.closed <=> \E j \in 1 .. i : s[j] = Fact("closed", n)
              /\ n \in r.rebutted <=> \E j \in 1 .. i : s[j] = Fact("rebuttal", n)
              /\ n \in r.texts <=> \E j \in 1 .. i : s[j] = Fact("text", n)
  <2>1. /\ n \in row.opened <=> \E j \in 1 .. i - 1 : s[j] = Fact("opened", n)
        /\ n \in row.closed <=> \E j \in 1 .. i - 1 : s[j] = Fact("closed", n)
        /\ n \in row.rebutted <=> \E j \in 1 .. i - 1 : s[j] = Fact("rebuttal", n)
        /\ n \in row.texts <=> \E j \in 1 .. i - 1 : s[j] = Fact("text", n)
    BY DEF ToldTo
  <2>2. /\ n \in r.opened <=> n \in row.opened \/ f = Fact("opened", n)
        /\ n \in r.closed <=> n \in row.closed \/ f = Fact("closed", n)
        /\ n \in r.rebutted <=> n \in row.rebutted \/ f = Fact("rebuttal", n)
        /\ n \in r.texts <=> n \in row.texts \/ f = Fact("text", n)
    BY <1>4, <1>9 DEF Step
  <2>3. (\E j \in 1 .. i : s[j] = Fact("opened", n))
          <=> ((\E j \in 1 .. i - 1 : s[j] = Fact("opened", n)) \/ f = Fact("opened", n))
    BY <1>8
  <2>4. (\E j \in 1 .. i : s[j] = Fact("closed", n))
          <=> ((\E j \in 1 .. i - 1 : s[j] = Fact("closed", n)) \/ f = Fact("closed", n))
    BY <1>8
  <2>5. (\E j \in 1 .. i : s[j] = Fact("rebuttal", n))
          <=> ((\E j \in 1 .. i - 1 : s[j] = Fact("rebuttal", n)) \/ f = Fact("rebuttal", n))
    BY <1>8
  <2>6. (\E j \in 1 .. i : s[j] = Fact("text", n))
          <=> ((\E j \in 1 .. i - 1 : s[j] = Fact("text", n)) \/ f = Fact("text", n))
    BY <1>8
  <2>7. n \in r.opened <=> \E j \in 1 .. i : s[j] = Fact("opened", n)
    BY <2>1, <2>2, <2>3
  <2>8. n \in r.closed <=> \E j \in 1 .. i : s[j] = Fact("closed", n)
    BY <2>1, <2>2, <2>4
  <2>9. n \in r.rebutted <=> \E j \in 1 .. i : s[j] = Fact("rebuttal", n)
    BY <2>1, <2>2, <2>5
  <2>10. n \in r.texts <=> \E j \in 1 .. i : s[j] = Fact("text", n)
    BY <2>1, <2>2, <2>6
  <2> QED
    BY <2>7, <2>8, <2>9, <2>10
<1>11. ASSUME NEW j \in 1 .. i, s[j].kind = "finding" PROVE s[j].n <= r.findings
  <2>1. CASE j = i
    <3>1. r.findings = f.n /\ r.findings \in Nat
      BY <1>4, <1>7, <1>11, <2>1 DEF f, Step
    <3> QED
      BY <2>1, <3>1 DEF f
  <2>2. CASE j # i
    <3>1. j \in 1 .. i - 1
      BY <1>1, <2>2
    <3>2. s[j].n <= row.findings
      BY <1>11, <3>1 DEF ToldTo
    <3>3. r.findings = row.findings \/ r.findings = row.findings + 1
      BY <1>4, <1>7 DEF Step
    <3>4. j \in 1 .. Len(s) /\ s[j] \in Facts
      BY <1>1, <3>1
    <3>5. s[j].n \in Nat
      BY <1>11, <3>4 DEF Facts
    <3> QED
      BY <1>7, <3>2, <3>3, <3>5
  <2> QED
    BY <2>1, <2>2
<1>12. r.made /\ r.read = "ok"
  BY <1>4 DEF Step
<1>13. ToldTo(s, i, r, u, v)
  BY <1>6, <1>7, <1>10, <1>11, <1>12 DEF ToldTo
<1> QED
  BY <1>13 DEF f, r

LEMMA ToldFirst ==
    ASSUME NEW s, Readable(s), NEW u, NEW v, UpTo(u, s, "state"), UpTo(v, s, "finding")
    PROVE  ToldTo(s, 1, Apply(NoRow, s[1]), u, v)
<1>1. s \in Seq(Facts) /\ 1 \in 1 .. Len(s) /\ s[1] \in Facts /\ s[1].kind = "created" /\ 1 - 1 = 0
  BY DEF Readable
<1>2. NoRow \in RowShape /\ NoRow.read = "ok" /\ ~NoRow.made
  BY NoRowIs DEF RowIs
<1>3. Placed(NoRow, s[1])
  BY <1>1, <1>2 DEF Placed
<1> DEFINE r == Apply(NoRow, s[1])
<1>4. Step(NoRow, s[1], r)
  BY <1>1, <1>2, <1>3, Applied
<1>5. u[1] = u[0] /\ v[1] = v[0]
  BY <1>1, UpToStep
<1>6. u[0] = <<>> /\ v[0] = <<>> /\ Len(<<>>) = 0
  BY DEF UpTo
<1> HIDE DEF r
<1>7. r.made /\ r.read = "ok" /\ r.state = "QUEUED" /\ r.findings = 0
      /\ r.opened = {} /\ r.closed = {} /\ r.rebutted = {} /\ r.texts = {}
  BY <1>1, <1>4 DEF Step, NoRow
<1>8. \A j \in 1 .. 1 : s[j].kind = "created"
  BY <1>1
<1>9. \A k, n : (\E j \in 1 .. 1 : s[j] = Fact(k, n)) => k = "created"
  BY <1>8, FactIs
<1> QED
  BY <1>5, <1>6, <1>7, <1>8, <1>9 DEF ToldTo, r

LEMMA ReadableFolds ==
    ASSUME NEW s, Readable(s)
    PROVE  Told(s, Folded(s))
<1>0. s \in Seq(Facts) /\ Len(s) \in Nat /\ Len(s) # 0 /\ DOMAIN s = 1 .. Len(s)
  BY DEF Readable
<1>1. PICK g : StepsFrom(g, NoRow, s) /\ Folded(s) = g[Len(s)]
  BY <1>0, NoRowIs, AfterIs DEF Folded, RowIs
<1>2. PICK u : UpTo(u, s, "state") /\ OfKind(s, "state") = u[Len(s)]
  BY <1>0, OfKindIs
<1>3. PICK v : UpTo(v, s, "finding") /\ OfKind(s, "finding") = v[Len(s)]
  BY <1>0, OfKindIs
<1> DEFINE n == Len(s)
           Good(i) == ToldTo(s, i, g[i], u, v)
           Bad == {i \in 1 .. n : ~Good(i)}
<1> HIDE DEF n
<1>4. n \in Nat /\ n # 0 /\ n = Len(s)
  BY <1>0 DEF n
<1>5. ASSUME Bad # {} PROVE FALSE
  <2>0. Bad \subseteq Nat
    <3> HIDE DEF Good
    <3> QED
      BY <1>4
  <2>1. PICK i \in Bad : \A j \in Bad : i <= j
    BY <1>5, <2>0, LeastIs
  <2>2. i \in 1 .. n /\ i - 1 \in 0 .. n /\ ~(i <= i - 1)
    BY <1>4, <2>1
  <2>3. g[i] = Apply(g[i - 1], s[i]) /\ g[i - 1] \in RowShape
    BY <1>1, <1>4, <2>2 DEF StepsFrom
  <2>4. CASE i = 1
    <3>1. g[0] = NoRow /\ i - 1 = 0
      BY <1>1, <2>4 DEF StepsFrom
    <3>2. g[1] = Apply(NoRow, s[1])
      BY <2>3, <2>4, <3>1
    <3> QED
      BY <1>2, <1>3, <2>1, <2>4, <3>2, ToldFirst
  <2>5. CASE i # 1
    <3>1. i \in 2 .. Len(s) /\ i - 1 \in 1 .. n
      BY <1>4, <2>2, <2>5
    <3>2. Good(i - 1)
      BY <2>1, <2>2, <3>1
    <3>3. ToldTo(s, i, Apply(g[i - 1], s[i]), u, v)
      BY <1>2, <1>3, <2>3, <3>1, <3>2, ToldNext
    <3> QED
      BY <2>1, <2>3, <3>3
  <2> QED
    BY <2>4, <2>5
<1>6. Good(n)
  <2>1. n \in 1 .. n
    BY <1>4
  <2> QED
    BY <1>5, <2>1
<1>7. \A f : f \in Range(s) <=> \E j \in 1 .. n : s[j] = f
  BY <1>0, <1>4 DEF Range
<1>8. RecordState(s) = (IF u[n] = <<>> THEN "QUEUED" ELSE Last(u[n]).n)
  BY <1>2, <1>4 DEF RecordState
<1> QED
  BY <1>1, <1>3, <1>4, <1>6, <1>7, <1>8 DEF Told, ToldTo
-----------------------------------------------------------------------------
(* The ref migrate leaves is readable, and tells of the rows.              *)

LEMMA AddsJoined ==
    ASSUME NEW s, NEW t, NEW S, NEW T, NEW had, Adds(s, had, S), Adds(t, had, T),
           \A f \in S : Names(f) => f \notin T
    PROVE  Adds(s \o t, had, S \union T)
<1>1. s \in Seq(Facts) /\ t \in Seq(Facts)
  BY DEF Adds, Sound
<1>2. s \o t \in Seq(Facts) /\ Range(s \o t) = Range(s) \union Range(t)
  BY <1>1, JoinedIs
<1>3. Distinct(s \o t)
  BY <1>1, DistinctJoined DEF Adds, Sound
<1>4. Grounded(had, s \o t)
  <2>1. Grounded(had \union Range(s), t)
    BY GroundedMore DEF Adds, Sound
  <2> QED
    BY <1>1, <2>1, GroundedJoined DEF Adds, Sound
<1> QED
  BY <1>2, <1>3, <1>4 DEF Adds, Sound

LEMMA FirstJoined ==
    ASSUME NEW s \in Seq(Facts), NEW t \in Seq(Facts), s # <<>>
    PROVE  s \o t # <<>> /\ (s \o t)[1] = s[1]
  OBVIOUS

LEMMA PrefixIs ==
    ASSUME NEW K, NEW s \in Seq(K), NEW t \in Seq(K)
    PROVE  IsPrefix(s, t) <=> Len(s) <= Len(t) /\ \A i \in 1 .. Len(s) : s[i] = t[i]
<1>1. Len(s) \in Nat /\ Len(t) \in Nat /\ s \in [1 .. Len(s) -> K]
  OBVIOUS
<1>2. CASE Len(s) <= Len(t)
  <2>1. SubSeq(s, 1, Len(s)) = [i \in 1 .. Len(s) |-> s[i]]
    BY <1>1
  <2>2. SubSeq(t, 1, Len(s)) = [i \in 1 .. Len(s) |-> t[i]]
    BY <1>1, <1>2
  <2> QED
    BY <1>2, <2>1, <2>2 DEF IsPrefix
<1> QED
  BY <1>2 DEF IsPrefix

LEMMA FindingsInOrder ==
    ASSUME NEW row, RowIs(row), NEW had, NEW k \in 0 .. row.findings,
           \A n \in 1 .. row.findings : Fact("finding", n) \in had <=> n <= k
    PROVE  LET t == OfKind(Findings(row, had), "finding") IN
           Len(t) = row.findings - k /\ \A j \in 1 .. Len(t) : t[j].n = k + j
<1> DEFINE n == row.findings
           S == 1 .. n
           pieces == Pieces("finding", "rebuttal", n, S, row.rebutted, had)
<1>1. n \in Nat /\ k \in Nat /\ k <= n
  BY DEF RowIs, RowShape
<1>2. Findings(row, had) = FlattenSeq(pieces) /\ DOMAIN pieces = 1 .. n
  BY DEF Findings, Pieces, Piece
<1> HIDE DEF n
<1>3. ASSUME NEW i \in 1 .. n
      PROVE  /\ pieces[i] \in Seq(Facts)
             /\ OfKind(pieces[i], "finding") = IF i <= k THEN <<>> ELSE <<Fact("finding", i)>>
  <2> DEFINE a == Due("finding", i, S, had)
             b == Due("rebuttal", i, row.rebutted, had)
  <2>1. pieces[i] = a \o b
    BY DEF Pieces, Piece
  <2>2. i \in Nat \ {0} /\ "finding" \in Numbered /\ "rebuttal" \in Numbered
    BY DEF Numbered, Kinds
  <2>3. Fact("finding", i) \in Facts
    BY <2>2, NumberedIs
  <2>4. OnlyGives(a, Of("finding", S \intersect {i}) \ had)
    BY <2>2, DueIs
  <2>5. OnlyGives(b, Of("rebuttal", row.rebutted \intersect {i}) \ had)
    BY <2>2, DueIs
  <2>6. a = IF i <= k THEN <<>> ELSE <<Fact("finding", i)>>
    <3>1. Fact("finding", i) \in had <=> i <= k
      BY DEF n
    <3> QED
      BY <3>1 DEF Due
  <2> HIDE DEF a, b, pieces
  <2>7. a \in Seq(Facts) /\ b \in Seq(Facts)
    BY <2>4, <2>5 DEF OnlyGives
  <2>8. OfKind(b, "finding") = <<>>
    <3>1. \A f \in Range(b) : f.kind # "finding"
      BY <2>5, FactIs DEF OnlyGives, Of
    <3> QED
      BY <2>7, <3>1, OfKindNone
  <2>9. OfKind(a, "finding") = a
    BY <2>3, <2>6, OfKindOne, FactIs DEF One
  <2>10. OfKind(a \o b, "finding") = a \o <<>>
    <3>1. OfKind(a \o b, "finding") = OfKind(a, "finding") \o OfKind(b, "finding")
      BY <2>7, OfKindJoined
    <3> QED
      BY <2>8, <2>9, <3>1
  <2>11. a \o <<>> = a /\ a \o b \in Seq(Facts)
    BY <2>7
  <2> QED
    BY <2>1, <2>6, <2>10, <2>11
<1>4. pieces \in Seq(Seq(Facts)) /\ Len(pieces) = n
  <2>1. pieces \in [1 .. n -> Seq(Facts)]
    BY <1>3 DEF Pieces
  <2> HIDE DEF pieces
  <2> QED
    BY <1>1, <2>1
<1> HIDE DEF pieces
<1>5. PICK g : JoinedTo(g, pieces) /\ FlattenSeq(pieces) = g[n]
  BY <1>4, FlattenIs
<1> DEFINE t(i) == OfKind(g[i], "finding")
           Good(i) == /\ Len(t(i)) = IF i <= k THEN 0 ELSE i - k
                      /\ \A j \in 1 .. Len(t(i)) : t(i)[j].n = k + j
           Bad == {i \in 0 .. n : ~Good(i)}
<1>6. ASSUME Bad # {} PROVE FALSE
  <2>0. Bad \subseteq Nat
    <3> HIDE DEF Good
    <3> QED
      BY <1>1
  <2>1. PICK i \in Bad : \A j \in Bad : i <= j
    BY <1>6, <2>0, LeastIs
  <2>2. CASE i = 0
    <3>1. g[0] = <<>> /\ Fact("finding", 1) \in Facts
      BY <1>5, NumberedIs DEF JoinedTo, Numbered, Kinds
    <3>2. t(0) = <<>> /\ Len(<<>>) = 0
      BY <3>1, OfKindOne
    <3> QED
      BY <1>1, <2>1, <2>2, <3>2
  <2>3. CASE i # 0
    <3>1. i \in 1 .. n /\ i - 1 \in 0 .. n /\ ~(i <= i - 1)
      BY <1>1, <2>1, <2>3
    <3>2. Good(i - 1)
      BY <2>1, <3>1
    <3>3. g[i] = g[i - 1] \o pieces[i] /\ g[i - 1] \in Seq(Facts) /\ pieces[i] \in Seq(Facts)
      BY <1>3, <1>4, <1>5, <3>1 DEF JoinedTo
    <3> DEFINE x == t(i - 1)
               y == OfKind(pieces[i], "finding")
    <3>4. t(i) = x \o y
      <4> DEFINE p == g[i - 1]
                 q == pieces[i]
      <4>1. p \in Seq(Facts) /\ q \in Seq(Facts) /\ g[i] = p \o q
        BY <3>3
      <4> HIDE DEF p, q
      <4>2. OfKind(p \o q, "finding") = OfKind(p, "finding") \o OfKind(q, "finding")
        BY <4>1, OfKindJoined
      <4> QED
        BY <4>1, <4>2 DEF p, q
    <3>5. x \in Seq(Facts) /\ y \in Seq(Facts) /\ y = IF i <= k THEN <<>> ELSE <<Fact("finding", i)>>
      BY <1>3, <3>1, <3>3, OfKindIn
    <3>6. Len(x) = (IF i - 1 <= k THEN 0 ELSE i - 1 - k) /\ \A j \in 1 .. Len(x) : x[j].n = k + j
      BY <3>2
    <3> DEFINE z == t(i)
    <3> HIDE DEF x, y, z
    <3>7. z = x \o y
      BY <3>4 DEF z
    <3>8. CASE i <= k
      <4>1. z = x /\ Len(x) = 0
        BY <1>1, <3>1, <3>5, <3>6, <3>7, <3>8
      <4> QED
        BY <1>1, <2>1, <3>1, <3>8, <4>1 DEF z
    <3>9. CASE ~(i <= k)
      <4>1. y = <<Fact("finding", i)>> /\ Len(x) = i - 1 - k
        BY <1>1, <3>1, <3>5, <3>6, <3>9
      <4>2. /\ Len(z) = i - k /\ z[i - k] = Fact("finding", i)
            /\ \A j \in 1 .. i - 1 - k : z[j] = x[j]
        <5>1. /\ Len(z) = Len(x) + 1 /\ z[Len(x) + 1] = Fact("finding", i)
              /\ \A j \in 1 .. Len(x) : z[j] = x[j]
          BY <3>5, <3>7, <4>1
        <5>2. Len(x) + 1 = i - k
          BY <1>1, <3>1, <4>1
        <5> QED
          BY <4>1, <5>1, <5>2
      <4>3. ASSUME NEW j \in 1 .. Len(z) PROVE z[j].n = k + j
        <5>1. CASE j = i - k
          BY <1>1, <3>1, <4>2, <5>1, FactIs
        <5>2. CASE j # i - k
          <6>1. j \in 1 .. i - 1 - k
            BY <1>1, <3>1, <4>2, <5>2
          <6> QED
            BY <3>6, <4>1, <4>2, <6>1
        <5> QED
          BY <5>1, <5>2
      <4> QED
        BY <2>1, <3>9, <4>2, <4>3 DEF z
    <3> QED
      BY <3>8, <3>9
  <2> QED
    BY <2>2, <2>3
<1>7. Good(n)
  <2>1. n \in 0 .. n
    BY <1>1
  <2> QED
    BY <1>6, <2>1
<1>8. t(n) = OfKind(Findings(row, had), "finding")
  BY <1>2, <1>5
<1> HIDE DEF t
<1>9. Len(t(n)) = n - k
  BY <1>1, <1>7
<1> QED
  BY <1>7, <1>8, <1>9 DEF n
(* The facts of the compared kinds that a row gives.                       *)
RowFacts(row) ==
    (Of("opened", row.opened) \union Of("closed", row.closed))
      \union (Of("finding", 1 .. row.findings) \union Of("rebuttal", row.rebutted))
      \union Of("text", row.texts)

Owed(row, had) == Attempts(row, had) \o Findings(row, had) \o Texts(row, had)

LEMMA RowFactsAre ==
    ASSUME NEW row, NEW f
    PROVE  f \in RowFacts(row) <=>
              \/ f = Fact("opened", f.n) /\ f.n \in row.opened
              \/ f = Fact("closed", f.n) /\ f.n \in row.closed
              \/ f = Fact("finding", f.n) /\ f.n \in 1 .. row.findings
              \/ f = Fact("rebuttal", f.n) /\ f.n \in row.rebutted
              \/ f = Fact("text", f.n) /\ f.n \in row.texts
<1>1. ASSUME NEW k, NEW S PROVE f \in Of(k, S) <=> f = Fact(k, f.n) /\ f.n \in S
  BY FactIs DEF Of
<1> QED
  BY <1>1 DEF RowFacts

LEMMA OfKinds ==
    ASSUME NEW k, NEW S
    PROVE  \A f \in Of(k, S) : f.kind = k
  BY FactIs DEF Of

LEMMA OwedIs ==
    ASSUME NEW row, RowIs(row), NEW had
    PROVE  /\ Adds(Owed(row, had), had, RowFacts(row))
           /\ OfKind(Owed(row, had), "state") = <<>>
           /\ OfKind(Owed(row, had), "finding") = OfKind(Findings(row, had), "finding")
<1> DEFINE a == Attempts(row, had)
           b == Findings(row, had)
           c == Texts(row, had)
           A == Of("opened", row.opened) \union Of("closed", row.closed)
           B == Of("finding", 1 .. row.findings) \union Of("rebuttal", row.rebutted)
           C == Of("text", row.texts)
<1>1. Adds(a, had, A) /\ Adds(b, had, B) /\ Adds(c, had, C)
  BY AttemptsAre, FindingsAre, TextsAre
<1>2. /\ \A f \in A : f.kind \in {"opened", "closed"}
      /\ \A f \in B : f.kind \in {"finding", "rebuttal"}
      /\ \A f \in C : f.kind = "text"
  BY OfKinds
<1>3. Owed(row, had) = (a \o b) \o c /\ RowFacts(row) = (A \union B) \union C
  BY DEF Owed, RowFacts
<1> HIDE DEF a, b, c, A, B, C
<1>4. Adds(a \o b, had, A \union B)
  BY <1>1, <1>2, AddsJoined
<1>5. Adds((a \o b) \o c, had, (A \union B) \union C)
  BY <1>1, <1>2, <1>4, AddsJoined
<1>6. /\ a \in Seq(Facts) /\ b \in Seq(Facts) /\ c \in Seq(Facts) /\ a \o b \in Seq(Facts)
      /\ (a \o b) \o c \in Seq(Facts)
  BY <1>1, <1>4, <1>5 DEF Adds, Sound
<1>7. OfKind((a \o b) \o c, "state") = <<>>
  <2>1. \A f \in Range((a \o b) \o c) : f.kind # "state"
    BY <1>2, <1>5 DEF Adds
  <2> QED
    BY <1>6, <2>1, OfKindNone
<1>8. OfKind(a, "finding") = <<>> /\ OfKind(c, "finding") = <<>>
  <2>1. (\A f \in Range(a) : f.kind # "finding") /\ (\A f \in Range(c) : f.kind # "finding")
    BY <1>1, <1>2 DEF Adds
  <2> QED
    BY <1>6, <2>1, OfKindNone
<1>9. OfKind((a \o b) \o c, "finding") = OfKind(b, "finding")
  <2>1. OfKind(a \o b, "finding") = OfKind(b, "finding")
    BY <1>6, <1>8, NoneOfKind
  <2> DEFINE ab == a \o b
  <2>2. ab \in Seq(Facts)
    BY <1>6
  <2> HIDE DEF ab
  <2>3. OfKind(ab \o c, "finding") = OfKind(ab, "finding")
    BY <1>6, <1>8, <2>2, NoneOfKind
  <2> QED
    BY <2>1, <2>3 DEF ab
<1> QED
  BY <1>3, <1>5, <1>7, <1>9 DEF b

LEMMA OneAdds ==
    ASSUME NEW f \in Facts, Ground(f) = {}, NEW had
    PROVE  /\ f \notin had => Adds(<<f>>, had, {f})
           /\ Adds(<<>>, had, {})
<1>1. Distinct(<<f>>) /\ Grounded(had, <<f>>) /\ Distinct(<<>>) /\ Grounded(had, <<>>)
  BY OneSound
<1> QED
  BY <1>1, OneIs DEF Adds, Sound

(* A row that has been made, as migrate finds it.                          *)
Made(row) == RowIs(row) /\ row.made /\ row.read = "ok"

LEMMA FactsForIs ==
    ASSUME NEW row, Made(row)
    PROVE  /\ Readable(FactsFor(row)) /\ RecordState(FactsFor(row)) = row.state
           /\ Len(OfKind(FactsFor(row), "finding")) = row.findings
           /\ \A f : f \in Range(FactsFor(row)) =>
                        f.kind \in {"created", "push", "state"} \/ f \in RowFacts(row)
           /\ RowFacts(row) \subseteq Range(FactsFor(row))
           /\ \A f \in Range(FactsFor(row)) : f.kind = "created" => row.made
<1> DEFINE x == <<Fact("created", 0)>>
           a == Attempts(row, {})
           b == Findings(row, {})
           p == IF row.pushed # 0 THEN <<Fact("push", row.pushed)>> ELSE <<>>
           q == <<Fact("state", row.state)>>
           c == Texts(row, {})
           X == {Fact("created", 0)}
           A == Of("opened", row.opened) \union Of("closed", row.closed)
           B == Of("finding", 1 .. row.findings) \union Of("rebuttal", row.rebutted)
           P == IF row.pushed # 0 THEN {Fact("push", row.pushed)} ELSE {}
           Q == {Fact("state", row.state)}
           C == Of("text", row.texts)
<1>1. RowIs(row) /\ row.state \in StateNames /\ row.pushed \in Nat
  BY DEF Made, RowIs, RowShape
<1>2. /\ Fact("created", 0) \in Facts /\ Fact("state", row.state) \in Facts
      /\ row.pushed # 0 => Fact("push", row.pushed) \in Facts
  BY <1>1 DEF Fact, Facts, Kinds
<1>3. \A k, n : k \notin {"closed", "rebuttal"} => Ground(Fact(k, n)) = {}
  BY FactIs DEF Ground
<1>4. Adds(x, {}, X) /\ Adds(q, {}, Q)
  BY <1>2, <1>3, OneAdds
<1>5. Adds(p, {}, P)
  BY <1>2, <1>3, OneAdds
<1>6. Adds(a, {}, A) /\ Adds(b, {}, B) /\ Adds(c, {}, C)
  BY <1>1, AttemptsAre, FindingsAre, TextsAre
<1>7. /\ \A f \in A : f.kind \in {"opened", "closed"}
      /\ \A f \in B : f.kind \in {"finding", "rebuttal"}
      /\ \A f \in C : f.kind = "text"
      /\ \A f \in X : f.kind = "created"
      /\ \A f \in P : f.kind = "push"
      /\ \A f \in Q : f.kind = "state"
  BY OfKinds, FactIs
<1>8. FactsFor(row) = ((((x \o a) \o b) \o p) \o q) \o c
  BY DEF FactsFor
<1>9. RowFacts(row) = A \union B \union C
  BY DEF RowFacts
<1>10. x # <<>> /\ x[1].kind = "created" /\ x \in Seq(Facts) /\ q \in Seq(Facts)
  BY <1>2, FactIs
<1>11. OfKind(q, "state") = q /\ OfKind(q, "finding") = <<>> /\ OfKind(x, "state") = <<>> /\ OfKind(x, "finding") = <<>>
  BY <1>2, OfKindOne, FactIs DEF One
<1>12. q # <<>> /\ Last(q).n = row.state /\ Len(q) = 1
  BY FactIs DEF Last
<1>13. LET t == OfKind(b, "finding") IN Len(t) = row.findings /\ \A j \in 1 .. Len(t) : t[j].n = j
  <2>1. row.findings \in Nat /\ 0 \in 0 .. row.findings
    BY <1>1 DEF RowIs, RowShape
  <2>2. \A n \in 1 .. row.findings : Fact("finding", n) \in {} <=> n <= 0
    BY <2>1
  <2> DEFINE t == OfKind(b, "finding")
  <2>3. Len(t) = row.findings - 0 /\ \A j \in 1 .. Len(t) : t[j].n = 0 + j
    BY <1>1, <2>1, <2>2, FindingsInOrder
  <2> HIDE DEF t
  <2>4. Len(t) = row.findings /\ \A j \in 1 .. Len(t) : t[j].n = j
    BY <2>1, <2>3
  <2> QED
    BY <2>4 DEF t
<1> HIDE DEF x, a, b, p, q, c, X, A, B, P, Q, C
<1>14. Adds(x \o a, {}, X \union A)
  BY <1>4, <1>6, <1>7, AddsJoined
<1>15. Adds((x \o a) \o b, {}, X \union A \union B)
  BY <1>6, <1>7, <1>14, AddsJoined
<1>16. Adds(((x \o a) \o b) \o p, {}, X \union A \union B \union P)
  BY <1>5, <1>7, <1>15, AddsJoined
<1>17. Adds((((x \o a) \o b) \o p) \o q, {}, X \union A \union B \union P \union Q)
  BY <1>4, <1>7, <1>16, AddsJoined
<1>18. Adds(FactsFor(row), {}, X \union A \union B \union P \union Q \union C)
  BY <1>6, <1>7, <1>8, <1>17, AddsJoined
<1>19. /\ a \in Seq(Facts) /\ b \in Seq(Facts) /\ p \in Seq(Facts) /\ c \in Seq(Facts)
       /\ x \o a \in Seq(Facts) /\ (x \o a) \o b \in Seq(Facts) /\ ((x \o a) \o b) \o p \in Seq(Facts)
       /\ (((x \o a) \o b) \o p) \o q \in Seq(Facts)
  BY <1>5, <1>6, <1>14, <1>15, <1>16, <1>17 DEF Adds, Sound
<1>20. FactsFor(row) # <<>> /\ FactsFor(row)[1].kind = "created"
  BY <1>8, <1>10, <1>19, FirstJoined
<1>22. /\ OfKind(a, "state") = <<>> /\ OfKind(b, "state") = <<>> /\ OfKind(p, "state") = <<>>
       /\ OfKind(c, "state") = <<>> /\ OfKind(a, "finding") = <<>> /\ OfKind(p, "finding") = <<>>
       /\ OfKind(c, "finding") = <<>>
  <2>1. /\ \A f \in Range(a) : f.kind \notin {"state", "finding"}
        /\ \A f \in Range(b) : f.kind # "state"
        /\ \A f \in Range(p) : f.kind \notin {"state", "finding"}
        /\ \A f \in Range(c) : f.kind \notin {"state", "finding"}
    BY <1>5, <1>6, <1>7 DEF Adds
  <2> QED
    BY <1>19, <2>1, OfKindNone
<1> DEFINE x1 == x \o a
           x2 == x1 \o b
           x3 == x2 \o p
           x4 == x3 \o q
           x5 == x4 \o c
<1>21. /\ x1 \in Seq(Facts) /\ x2 \in Seq(Facts) /\ x3 \in Seq(Facts) /\ x4 \in Seq(Facts)
       /\ FactsFor(row) = x5
  BY <1>8, <1>19
<1>23. /\ OfKind(x1, "state") = OfKind(x, "state") /\ OfKind(x1, "finding") = OfKind(x, "finding")
  BY <1>10, <1>19, <1>22, NoneOfKind
<1> HIDE DEF x1
<1>29. /\ OfKind(x2, "state") = OfKind(x1, "state") /\ OfKind(x2, "finding") = OfKind(b, "finding")
  <2>1. OfKind(x1, "finding") = <<>>
    BY <1>11, <1>23
  <2> QED
    BY <1>19, <1>21, <1>22, <2>1, NoneOfKind
<1> HIDE DEF x2
<1>30. /\ OfKind(x3, "state") = OfKind(x2, "state") /\ OfKind(x3, "finding") = OfKind(x2, "finding")
  BY <1>19, <1>21, <1>22, NoneOfKind
<1> HIDE DEF x3
<1>31. OfKind(x4, "finding") = OfKind(x3, "finding")
  BY <1>10, <1>11, <1>21, NoneOfKind
<1>32. OfKind(x4, "state") = OfKind(q, "state")
  <2>1. OfKind(x3, "state") = <<>>
    BY <1>11, <1>23, <1>29, <1>30
  <2> QED
    BY <1>10, <1>21, <2>1, NoneOfKind
<1> HIDE DEF x4
<1>33. /\ OfKind(x5, "state") = OfKind(x4, "state") /\ OfKind(x5, "finding") = OfKind(x4, "finding")
  BY <1>19, <1>21, <1>22, NoneOfKind
<1> HIDE DEF x5
<1>24. OfKind(FactsFor(row), "state") = q
  BY <1>11, <1>21, <1>32, <1>33
<1>25. OfKind(FactsFor(row), "finding") = OfKind(b, "finding")
  BY <1>21, <1>29, <1>30, <1>31, <1>33
<1>26. Readable(FactsFor(row))
  <2>1. OfKind(b, "finding") \in Seq(Facts)
    BY <1>19, OfKindIn
  <2>2. Numbering(FactsFor(row))
    BY <1>13, <1>25, <2>1 DEF Numbering
  <2> QED
    BY <1>18, <1>20, <2>2 DEF Readable, Adds, Sound
<1>27. RecordState(FactsFor(row)) = row.state
  BY <1>12, <1>24 DEF RecordState
<1>28. Range(FactsFor(row)) = X \union A \union B \union P \union Q \union C
  BY <1>18 DEF Adds
<1> QED
  BY <1>7, <1>9, <1>13, <1>25, <1>26, <1>27, <1>28 DEF Made
-----------------------------------------------------------------------------
(* A ref that agrees with the rows, and what topping it up makes of it.    *)

Unnumbered == {"created", "push", "state"}

(* The ref says of its task what the rows do, the pushed head apart.       *)
Carries(m, row) ==
    /\ RecordState(m) = row.state /\ Len(OfKind(m, "finding")) = row.findings
    /\ \A f \in Range(m) : f.kind \in Unnumbered \/ f \in RowFacts(row)
    /\ RowFacts(row) \subseteq Range(m)

LEMMA FactsForCarries ==
    ASSUME NEW row, Made(row)
    PROVE  Readable(FactsFor(row)) /\ Carries(FactsFor(row), row)
  BY FactsForIs DEF Carries, Unnumbered

(* The ref's findings are the first k of the rows'.                        *)
FirstFindings(o, row, k) ==
    /\ k \in 0 .. row.findings /\ Len(OfKind(o, "finding")) = k
    /\ \A j \in 1 .. k : OfKind(o, "finding")[j].n = j
    /\ \A n \in 1 .. row.findings : Fact("finding", n) \in Range(o) <=> n <= k

LEMMA AgreesTells ==
    ASSUME NEW row, Made(row), NEW o \in Seq(Facts), Agrees(o, FactsFor(row))
    PROVE  /\ o # <<>>
           /\ \A f \in Range(o) : f.kind \in Unnumbered \/ f \in RowFacts(row)
           /\ \E k : FirstFindings(o, row, k)
<1> DEFINE t == FactsFor(row)
<1>1. Readable(t) /\ Carries(t, row) /\ row.findings \in Nat
  BY FactsForCarries DEF Made, RowIs, RowShape
<1> HIDE DEF t
<1>2. t \in Seq(Facts) /\ Numbering(t) /\ Agrees(o, t)
  BY <1>1 DEF Readable, t
<1>3. o # <<>>
  <2>1. PICK i \in 1 .. Len(o) : o[i].kind = "created"
    BY <1>2 DEF Agrees
  <2> QED
    BY <2>1
<1>4. ASSUME NEW k \in Compared
      PROVE  /\ OfKind(o, k) \in Seq(Facts) /\ OfKind(t, k) \in Seq(Facts)
             /\ Len(OfKind(o, k)) <= Len(OfKind(t, k))
             /\ \A i \in 1 .. Len(OfKind(o, k)) : OfKind(o, k)[i] = OfKind(t, k)[i]
             /\ Range(OfKind(o, k)) \subseteq Range(OfKind(t, k))
  <2> DEFINE a == OfKind(o, k)
             b == OfKind(t, k)
  <2>1. IsPrefix(a, b)
    BY <1>2 DEF Agrees
  <2>2. a \in Seq(Facts) /\ b \in Seq(Facts)
    BY <1>2, OfKindIn
  <2> HIDE DEF a, b
  <2>3. Len(a) <= Len(b) /\ \A i \in 1 .. Len(a) : a[i] = b[i]
    BY <2>1, <2>2, PrefixIs
  <2>4. Len(a) \in Nat /\ Len(b) \in Nat /\ DOMAIN a = 1 .. Len(a) /\ DOMAIN b = 1 .. Len(b)
    BY <2>2
  <2>5. Range(a) \subseteq Range(b)
    BY <2>3, <2>4 DEF Range
  <2> QED
    BY <2>2, <2>3, <2>5 DEF a, b
<1>5. ASSUME NEW f \in Range(o) PROVE f.kind \in Unnumbered \/ f \in RowFacts(row)
  <2>1. f \in Facts
    BY DEF Range
  <2>2. CASE f.kind \in Compared
    <3>1. f \in Range(OfKind(o, f.kind))
      BY OfKindRange
    <3>2. f \in Range(OfKind(t, f.kind))
      BY <1>4, <2>2, <3>1
    <3>3. f \in Range(t)
      BY <1>2, <3>2, OfKindRange
    <3> QED
      BY <1>1, <3>3 DEF Carries
  <2> QED
    BY <2>1, <2>2, FactsAre DEF Kinds, Compared, Unnumbered
<1> DEFINE u == OfKind(o, "finding")
           w == OfKind(t, "finding")
<1>6. /\ u \in Seq(Facts) /\ w \in Seq(Facts) /\ Len(u) <= Len(w)
      /\ \A i \in 1 .. Len(u) : u[i] = w[i]
  BY <1>4 DEF Compared
<1>7. Len(w) = row.findings /\ \A j \in DOMAIN w : w[j].n = j
  BY <1>1, <1>2 DEF Carries, Numbering
<1>8. Range(u) = {f \in Range(o) : f.kind = "finding"}
  BY OfKindRange
<1> HIDE DEF u, w
<1>9. Len(u) \in 0 .. row.findings
  BY <1>1, <1>6, <1>7
<1>10. ASSUME NEW j \in 1 .. Len(u)
       PROVE  u[j].n = j /\ u[j] \in Facts /\ u[j] \in Range(u) /\ j \in 1 .. row.findings
  <2>1. j \in DOMAIN u /\ j \in DOMAIN w /\ j \in 1 .. row.findings
    BY <1>1, <1>6, <1>7
  <2> QED
    BY <1>6, <1>7, <2>1 DEF Range
<1>11. ASSUME NEW n \in 1 .. row.findings
       PROVE  Fact("finding", n) \in Range(o) <=> n <= Len(u)
  <2>1. ASSUME n <= Len(u) PROVE Fact("finding", n) \in Range(o)
    <3>1. n \in 1 .. Len(u)
      BY <1>6, <2>1
    <3>2. u[n].n = n /\ u[n] \in Facts /\ u[n] \in Range(o) /\ u[n].kind = "finding"
      BY <1>8, <1>10, <3>1
    <3> QED
      BY <3>2, FactsAre DEF FactOf
  <2>2. ASSUME Fact("finding", n) \in Range(o) PROVE n <= Len(u)
    <3>1. Fact("finding", n) \in Range(u)
      BY <1>8, <2>2, FactIs
    <3>2. PICK j \in DOMAIN u : u[j] = Fact("finding", n)
      BY <3>1 DEF Range
    <3>3. j \in 1 .. Len(u)
      BY <1>6, <3>2
    <3>4. u[j].n = n /\ u[j].n = j
      BY <1>10, <3>2, <3>3, FactIs
    <3> QED
      BY <1>6, <3>3, <3>4
  <2> QED
    BY <2>1, <2>2
<1>12. FirstFindings(o, row, Len(u))
  BY <1>9, <1>10, <1>11 DEF FirstFindings, u
<1> QED
  BY <1>3, <1>5, <1>12

LEMMA ToppedUpIs ==
    ASSUME NEW row, Made(row), NEW o \in Seq(Facts), Opens(o), Distinct(o), Grounded({}, o),
           Agrees(o, FactsFor(row))
    PROVE  /\ Readable(o \o TopUp(o, row)) /\ Carries(o \o TopUp(o, row), row)
           /\ Range(o) \subseteq Range(o \o TopUp(o, row))
<1> DEFINE had == Range(o)
           e == Owed(row, had)
           g == Fact("state", row.state)
           z == IF RecordState(o \o e) # row.state THEN <<g>> ELSE <<>>
           oe == o \o e
           m == oe \o z
<1>1. o # <<>> /\ \A f \in Range(o) : f.kind \in Unnumbered \/ f \in RowFacts(row)
  BY AgreesTells
<1>2. PICK k : FirstFindings(o, row, k)
  BY AgreesTells
<1>3. RowIs(row) /\ row.state \in StateNames /\ row.findings \in Nat
  BY DEF Made, RowIs, RowShape
<1>4. g \in Facts /\ g.kind = "state" /\ g.n = row.state /\ Ground(g) = {} /\ ~Names(g)
  BY <1>3 DEF Fact, Facts, Kinds, Ground, Names
<1>5. /\ Adds(e, had, RowFacts(row)) /\ OfKind(e, "state") = <<>>
      /\ OfKind(e, "finding") = OfKind(Findings(row, had), "finding")
  BY <1>3, OwedIs
<1> DEFINE y == OfKind(e, "finding")
<1>6. Len(y) = row.findings - k /\ \A j \in 1 .. Len(y) : y[j].n = k + j
  <2>1. k \in 0 .. row.findings /\ \A n \in 1 .. row.findings : Fact("finding", n) \in had <=> n <= k
    BY <1>2 DEF FirstFindings
  <2> HIDE DEF had
  <2> QED
    BY <1>3, <1>5, <2>1, FindingsInOrder
<1>7. TopUp(o, row) = e \o z
  BY DEF TopUp, Owed
<1> HIDE DEF had, e, g, z, y, oe, m
<1>8. e \in Seq(Facts) /\ z \in Seq(Facts) /\ Range(z) \subseteq {g}
  <2>1. z = <<g>> \/ z = <<>>
    BY DEF z
  <2>2. <<g>> \in Seq(Facts) /\ Range(<<g>>) = {g} /\ <<>> \in Seq(Facts) /\ Range(<<>>) = {}
    BY <1>4, OneIs
  <2> QED
    BY <1>5, <2>1, <2>2 DEF Adds, Sound
<1>9. o \o TopUp(o, row) = m
  <2>1. \A r, s, t \in Seq(Facts) : (r \o s) \o t = r \o (s \o t)
    BY ConcatAssociative
  <2>2. (o \o e) \o z = o \o (e \o z)
    BY <1>8, <2>1
  <2> QED
    BY <1>7, <2>2 DEF m, oe
<1>10. /\ oe \in Seq(Facts) /\ Range(oe) = had \union Range(e)
       /\ m \in Seq(Facts) /\ Range(m) = Range(oe) \union Range(z)
  <2>1. oe \in Seq(Facts) /\ Range(oe) = had \union Range(e)
    BY <1>8, JoinedIs DEF oe, had
  <2> QED
    BY <1>8, <2>1, JoinedIs DEF m
<1>11. Range(e) = RowFacts(row) \ had /\ Distinct(e) /\ Grounded(had, e)
  BY <1>5 DEF Adds, Sound
<1>12. Distinct(oe) /\ Grounded({}, oe)
  <2>1. Distinct(oe)
    BY <1>8, <1>11, DistinctJoined DEF oe, had
  <2>2. Grounded({} \union had, e)
    BY <1>11
  <2>3. Grounded({}, oe)
    BY <1>8, <2>2, GroundedJoined DEF oe, had
  <2> QED
    BY <2>1, <2>3
<1>13. Distinct(m) /\ Grounded({}, m)
  <2>1. Distinct(<<g>>) /\ Distinct(<<>>)
    BY <1>4, OneSound
  <2>2. Grounded(Range(oe), <<g>>) /\ Grounded(Range(oe), <<>>)
    BY <1>4, OneSound
  <2>3. Distinct(z) /\ Grounded({} \union Range(oe), z)
    BY <2>1, <2>2 DEF z
  <2>4. \A f \in Range(oe) : Names(f) => f \notin Range(z)
    BY <1>4, <1>8
  <2>5. Distinct(m)
    BY <1>8, <1>10, <1>12, <2>3, <2>4, DistinctJoined DEF m
  <2>6. Grounded({}, m)
    BY <1>8, <1>10, <1>12, <2>3, GroundedJoined DEF m
  <2> QED
    BY <2>5, <2>6
<1>14. m # <<>> /\ m[1].kind = "created"
  <2>1. oe # <<>> /\ oe[1] = o[1] /\ o[1].kind = "created"
    BY <1>1, <1>8, FirstJoined DEF oe, Opens
  <2>2. m # <<>> /\ m[1] = oe[1]
    BY <1>8, <1>10, <2>1, FirstJoined DEF m
  <2> QED
    BY <2>1, <2>2
<1> DEFINE x == OfKind(o, "finding")
<1>15. OfKind(m, "finding") = x \o y /\ x \in Seq(Facts) /\ y \in Seq(Facts)
  <2>1. OfKind(z, "finding") = <<>>
    BY <1>4, OfKindOne DEF z, One
  <2>2. OfKind(m, "finding") = OfKind(oe, "finding")
    BY <1>8, <1>10, <2>1, NoneOfKind DEF m
  <2>3. OfKind(oe, "finding") = x \o y
    BY <1>8, OfKindJoined DEF oe, y
  <2> QED
    BY <1>8, <2>2, <2>3, OfKindIn DEF y
<1>16. Len(x) = k /\ \A j \in 1 .. k : x[j].n = j
  BY <1>2 DEF FirstFindings
<1>17. k \in Nat /\ k <= row.findings
  BY <1>2, <1>3 DEF FirstFindings
<1> DEFINE w == OfKind(m, "finding")
<1> HIDE DEF x, w
<1>18. /\ Len(w) = row.findings /\ DOMAIN w = 1 .. row.findings
       /\ \A j \in 1 .. row.findings : w[j].n = j
  <2>1. w = x \o y
    BY <1>15 DEF w
  <2>2. Len(x) = k /\ Len(y) = row.findings - k /\ Len(x) + Len(y) = row.findings
    BY <1>3, <1>6, <1>16, <1>17
  <2>3. /\ Len(x \o y) = Len(x) + Len(y) /\ DOMAIN (x \o y) = 1 .. Len(x) + Len(y)
        /\ \A i \in 1 .. Len(x) + Len(y) : (x \o y)[i] = IF i <= Len(x) THEN x[i] ELSE y[i - Len(x)]
    BY <1>15, JoinedIs
  <2>4. ASSUME NEW j \in 1 .. row.findings PROVE w[j].n = j
    <3>1. CASE j <= k
      <4>1. j \in 1 .. k /\ w[j] = x[j]
        BY <1>17, <2>1, <2>2, <2>3, <3>1
      <4> QED
        BY <1>16, <4>1
    <3>2. CASE ~(j <= k)
      <4>1. PICK i \in 1 .. Len(y) : j = k + i
        <5>1. j - k \in 1 .. Len(y) /\ j = k + (j - k)
          BY <1>3, <1>17, <2>2, <3>2
        <5> QED
          BY <5>1
      <4>2. j - Len(x) = i /\ w[j] = y[i]
        BY <1>17, <2>1, <2>2, <2>3, <3>2, <4>1
      <4> QED
        BY <1>6, <4>1, <4>2
    <3> QED
      BY <3>1, <3>2
  <2> QED
    BY <2>1, <2>2, <2>3, <2>4
<1>19. RecordState(m) = row.state
  <2>1. CASE RecordState(oe) = row.state
    <3>1. z = <<>>
      BY <2>1 DEF z, oe
    <3>2. m = oe
      BY <1>10, <3>1, ConcatEmptySeq DEF m
    <3> QED
      BY <2>1, <3>2
  <2>2. CASE RecordState(oe) # row.state
    <3>1. z = <<g>>
      BY <2>2 DEF z, oe
    <3>2. OfKind(z, "state") = <<g>>
      BY <1>4, <3>1, OfKindOne DEF One
    <3>6. oe \in Seq(Facts) /\ z \in Seq(Facts)
      BY <1>8, <1>10
    <3>7. OfKind(oe \o z, "state") = OfKind(oe, "state") \o OfKind(z, "state")
      BY <3>6, OfKindJoined
    <3> DEFINE v == OfKind(oe, "state")
               n == OfKind(m, "state")
    <3>3. n = v \o <<g>> /\ v \in Seq(Facts)
      <4>2. OfKind(oe, "state") \in Seq(Facts)
        BY <1>10, OfKindIn
      <4> QED
        BY <3>2, <3>7, <4>2 DEF m
    <3>4. RecordState(m) = IF n = <<>> THEN "QUEUED" ELSE Last(n).n
      BY DEF RecordState
    <3> HIDE DEF v, n
    <3>5. n # <<>> /\ Last(n) = g
      BY <1>4, <3>3 DEF Last
    <3> QED
      BY <1>4, <3>4, <3>5
  <2> QED
    BY <2>1, <2>2
<1>20. Readable(m)
  BY <1>10, <1>13, <1>14, <1>18 DEF Readable, Numbering, w
<1>21. Carries(m, row)
  <2>1. \A f \in Range(m) : f.kind \in Unnumbered \/ f \in RowFacts(row)
    BY <1>1, <1>4, <1>8, <1>10, <1>11 DEF had, Unnumbered
  <2>2. RowFacts(row) \subseteq Range(m)
    BY <1>10, <1>11
  <2> QED
    BY <1>18, <1>19, <2>1, <2>2 DEF Carries, w
<1> QED
  BY <1>9, <1>10, <1>20, <1>21 DEF had

(* A readable ref that carries the rows folds to them.                     *)
LEMMA CarriedFolds ==
    ASSUME NEW row, Made(row), NEW m, Readable(m), Carries(m, row)
    PROVE  Folded(m) = [row EXCEPT !.pushed = Folded(m).pushed]
<1> DEFINE r == Folded(m)
<1>1. Told(m, r)
  BY ReadableFolds
<1>2. m \in Seq(Facts) /\ r = After(NoRow, m)
  BY DEF Readable, Folded
<1>3. RowIs(r)
  <2>1. After(NoRow, m).read = "ok"
    BY <1>1, <1>2 DEF Told
  <2> QED
    BY <1>2, <2>1, AfterHolds, NoRowIs
<1> HIDE DEF r
<1>4. ASSUME NEW k \in Compared, NEW n
      PROVE  Fact(k, n) \in Range(m) <=> Fact(k, n) \in RowFacts(row)
  BY FactIs DEF Carries, Unnumbered, Compared
<1>5. ASSUME NEW n
      PROVE  /\ Fact("opened", n) \in RowFacts(row) <=> n \in row.opened
             /\ Fact("closed", n) \in RowFacts(row) <=> n \in row.closed
             /\ Fact("rebuttal", n) \in RowFacts(row) <=> n \in row.rebutted
             /\ Fact("text", n) \in RowFacts(row) <=> n \in row.texts
  BY RowFactsAre, FactIs
<1>6. \A n : /\ n \in r.opened <=> n \in row.opened
             /\ n \in r.closed <=> n \in row.closed
             /\ n \in r.rebutted <=> n \in row.rebutted
             /\ n \in r.texts <=> n \in row.texts
  BY <1>1, <1>4, <1>5 DEF Told, Compared
<1>7. r.opened = row.opened /\ r.closed = row.closed /\ r.rebutted = row.rebutted /\ r.texts = row.texts
  BY <1>6
<1>8. r.findings = row.findings /\ r.state = row.state /\ r.made = row.made /\ r.read = row.read
  <2>1. r.made \in BOOLEAN /\ row.made \in BOOLEAN
    BY <1>3 DEF Made, RowIs, RowShape
  <2> QED
    BY <1>1, <2>1 DEF Told, Carries, Made
<1>9. r \in RowShape /\ row \in RowShape
  BY <1>3 DEF Made, RowIs
<1>10. r = [row EXCEPT !.pushed = r.pushed]
  BY <1>7, <1>8, <1>9 DEF RowShape
<1> QED
  BY <1>10 DEF r

(* A ref as the history it is, whatever else it tells.                     *)
RefIs(s) == s \in Seq(Facts) /\ Opens(s) /\ Distinct(s) /\ Grounded({}, s)

LEMMA CarriedIs ==
    ASSUME NEW row, Made(row), NEW m, Readable(m), Carries(m, row)
    PROVE  RefIs(m) /\ m # <<>> /\ \A f \in Range(m) : Held(row, f)
<1>1. ASSUME NEW f \in Range(m) PROVE Held(row, f)
  <2>1. CASE f.kind \in Unnumbered
    BY <2>1 DEF Unnumbered, Held, Made
  <2>2. CASE f \in RowFacts(row)
    <3>1. row.findings \in Nat
      BY DEF Made, RowIs, RowShape
    <3> QED
      BY <2>2, <3>1, RowFactsAre, FactIs DEF Held
  <2> QED
    BY <2>1, <2>2 DEF Carries
<1> QED
  BY <1>1 DEF RefIs, Readable, Opens
-----------------------------------------------------------------------------
(* The invariant holds at first, and of every step. *)

LEMMA NoneIs == <<>> \in Seq(Facts) /\ Range(<<>>) = {} /\ DOMAIN <<>> = {}
<1>1. DOMAIN <<>> = {}
  OBVIOUS
<1> QED
  BY <1>1 DEF Range

LEMMA PrefixSelf ==
    ASSUME NEW s \in Seq(Facts)
    PROVE  IsPrefix(s, s)
  BY PrefixIs

LEMMA NoneFirst ==
    ASSUME NEW s \in Seq(Facts)
    PROVE  IsPrefix(<<>>, s)
<1> DEFINE e == <<>>
<1>1. e \in Seq(Facts) /\ Len(e) = 0 /\ Len(s) \in Nat
  OBVIOUS
<1> HIDE DEF e
<1>3. Len(e) <= Len(s) /\ \A i \in 1 .. Len(e) : e[i] = s[i]
  BY <1>1
<1>2. IsPrefix(e, s)
  BY <1>1, <1>3, PrefixIs
<1> QED
  BY <1>2 DEF e

LEMMA NoneRefIs == RefIs(<<>>)
  BY NoneIs DEF RefIs, Opens, Distinct, Grounded

LEMMA InitInv == Init => Inv
<1> SUFFICES ASSUME Init PROVE Inv
  OBVIOUS
<1>1. /\ rows = NoRow /\ mirror = <<>> /\ origin = <<>> /\ pending = [p \in Procs |-> <<>>]
      /\ up = {} /\ kept = {} /\ cell = [p \in Procs |-> NoCell]
      /\ writes = 0 /\ diverged = FALSE /\ refused = FALSE /\ verdict = "none"
  BY DEF Init
<1>2. Typed
  <2>1. writes \in 0 .. MaxWrites
    BY <1>1, MishapsAssumption
  <2> QED
    BY <1>1, <2>1, NoRowIs, NoneIs DEF Typed, NoCell
<1>3. Refs
  BY <1>1, NoneIs, NoneRefIs, NoRowIs DEF Refs, RefIs
<1>4. Waiting
  BY <1>1, NoneIs DEF Waiting
<1>5. Working
  BY <1>1 DEF Working, NoCell
<1>6. Unpushed
  BY <1>1, NoneIs, PrefixSelf DEF Unpushed
<1>7. MigratedWhole
  BY <1>1 DEF MigratedWhole
<1> QED
  BY <1>2, <1>3, <1>4, <1>5, <1>6, <1>7 DEF Inv

(* The refs of a state are histories. *)
LEMMA RefsAre ==
    ASSUME Typed, Refs
    PROVE  RefIs(mirror) /\ RefIs(origin)
  BY DEF Typed, Refs, RefIs

(* Steps that write no row and append no fact: a command may drop what it  *)
(* had pending with what it worked on, and a push may copy the mirror's    *)
(* ref.                                                                    *)
Dropped(q) ==
    \/ pending'[q] = pending[q] /\ cell'[q] = cell[q]
    \/ (pending'[q] = pending[q] \/ pending'[q] = <<>>) /\ cell'[q] = NoCell

LEMMA NothingAdded ==
    ASSUME Inv, UNCHANGED <<rows, mirror, writes>>,
           origin' = origin \/ (origin' = mirror /\ mirror # <<>>),
           \A q \in Procs : Dropped(q)
    PROVE  Refs' /\ Waiting' /\ Working'
<1>1. Typed /\ Refs /\ Waiting /\ Working
  BY DEF Inv
<1>2. Refs'
  <2>1. RefIs(mirror) /\ RefIs(origin)
    BY <1>1, RefsAre
  <2>2. CASE origin' = origin
    BY <1>1, <2>2 DEF Refs
  <2>3. CASE origin' = mirror /\ mirror # <<>>
    BY <1>1, <2>1, <2>3 DEF Refs, RefIs
  <2> QED
    BY <2>2, <2>3
<1>3. Waiting'
  <2> SUFFICES ASSUME NEW p \in Procs, NEW i \in DOMAIN pending'[p]
               PROVE  /\ rows'.made
                      /\ Names(pending'[p][i]) => OnlyHere(p, i)' /\ Held(rows', pending'[p][i])
                      /\ pending'[p][i].kind = "created" => mirror' = <<>> /\ origin' = <<>>
                      /\ Ground(pending'[p][i]) \subseteq Range(mirror')
    BY DEF Waiting
  <2>1. \A q \in Procs : pending'[q] = pending[q] \/ pending'[q] = <<>>
    BY DEF Dropped
  <2>2. pending'[p] = pending[p]
    BY <2>1, NoneIs
  <2>3. /\ rows.made
        /\ Names(pending[p][i]) => OnlyHere(p, i) /\ Held(rows, pending[p][i])
        /\ pending[p][i].kind = "created" => mirror = <<>> /\ origin = <<>>
        /\ Ground(pending[p][i]) \subseteq Range(mirror)
    BY <1>1, <2>2 DEF Waiting
  <2>4. Names(pending[p][i]) => OnlyHere(p, i)'
    <3> SUFFICES ASSUME Names(pending[p][i]) PROVE OnlyHere(p, i)'
      OBVIOUS
    <3>1. OnlyHere(p, i)
      BY <2>3
    <3>2. ASSUME NEW q \in Procs, NEW j \in DOMAIN pending'[q], pending'[q][j] = pending'[p][i]
          PROVE  q = p /\ j = i
      <4>1. pending'[q] = pending[q]
        BY <2>1, NoneIs
      <4> QED
        BY <2>2, <3>1, <3>2, <4>1 DEF OnlyHere
    <3> QED
      BY <2>2, <3>1, <3>2 DEF OnlyHere
  <2> QED
    BY <2>2, <2>3, <2>4
<1>4. Working'
  <2> SUFFICES ASSUME NEW p \in Procs
               PROVE  LET to == Range(mirror') \union Range(pending'[p]) IN
                      /\ cell'[p] # NoCell => rows'.made
                      /\ cell'[p].attempt # 0 => /\ cell'[p].attempt \in rows'.opened \ rows'.closed
                                                /\ Fact("opened", cell'[p].attempt) \in to
                      /\ cell'[p].findings \subseteq 1 .. rows'.findings
                      /\ \A n \in cell'[p].findings : Fact("finding", n) \in to
                      /\ \A q \in Procs : (q # p /\ cell'[p].attempt # 0)
                                             => cell'[q].attempt # cell'[p].attempt
    BY DEF Working
  <2>1. \A q \in Procs : cell'[q] = cell[q] \/ cell'[q] = NoCell
    BY DEF Dropped
  <2>2. CASE cell'[p] = NoCell
    BY <2>2 DEF NoCell
  <2>3. CASE cell'[p] # NoCell
    <3>1. cell'[p] = cell[p] /\ pending'[p] = pending[p]
      BY <2>3 DEF Dropped
    <3>2. \A q \in Procs : cell'[q].attempt = cell[q].attempt \/ cell'[q].attempt = 0
      BY <2>1 DEF NoCell
    <3> QED
      BY <1>1, <3>1, <3>2 DEF Working
  <2> QED
    BY <2>2, <2>3
<1> QED
  BY <1>2, <1>3, <1>4

LEMMA MigratedStays ==
    ASSUME Inv, UNCHANGED <<rows, mirror, verdict>>,
           \A q \in Procs : pending'[q] = pending[q] \/ pending'[q] = <<>>
    PROVE  MigratedWhole'
  BY DEF Inv, MigratedWhole

LEMMA AppendRaisesInv ==
    ASSUME Inv, NEW p \in Procs, AppendRaises(p)
    PROVE  Inv'
<1>1. /\ pending' = [pending EXCEPT ![p] = <<>>] /\ cell' = [cell EXCEPT ![p] = NoCell]
      /\ diverged' = TRUE /\ UNCHANGED <<rows, mirror, origin, up, kept, writes, refused, verdict>>
  BY DEF AppendRaises
<1>2. Typed
  BY DEF Inv
<1>3. \A q \in Procs : Dropped(q)
  BY <1>1, <1>2 DEF Dropped, Typed
<1>4. Refs' /\ Waiting' /\ Working'
  BY <1>1, <1>3, NothingAdded
<1>5. MigratedWhole'
  BY <1>1, <1>3, MigratedStays DEF Dropped
<1>6. Unpushed'
  BY <1>1 DEF Inv, Unpushed
<1>7. Typed'
  BY <1>1, <1>2, NoneIs DEF Typed, NoCell
<1> QED
  BY <1>4, <1>5, <1>6, <1>7 DEF Inv

LEMMA PushRecordInv ==
    ASSUME Inv, NEW p \in Procs, PushRecord(p)
    PROVE  Inv'
<1>1. /\ kept' = kept \ {p} /\ Pushed
      /\ UNCHANGED <<rows, mirror, pending, up, cell, writes, diverged, verdict>>
  BY DEF PushRecord
<1>2. Typed
  BY DEF Inv
<1>3. \A q \in Procs : Dropped(q)
  BY <1>1 DEF Dropped
<1>4. \/ mirror # <<>> /\ origin' = mirror /\ refused' = refused
      \/ origin' = origin /\ refused' = TRUE
  BY <1>1 DEF Pushed
<1>5. Refs' /\ Waiting' /\ Working'
  BY <1>1, <1>3, <1>4, NothingAdded
<1>6. MigratedWhole'
  BY <1>1, <1>3, MigratedStays DEF Dropped
<1>7. Unpushed'
  BY <1>1, <1>2, <1>4, PrefixSelf DEF Typed, Unpushed
<1>8. Typed'
  BY <1>1, <1>2, <1>4 DEF Typed
<1> QED
  BY <1>5, <1>6, <1>7, <1>8 DEF Inv

LEMMA StartInv ==
    ASSUME Inv, NEW p \in Procs, Start(p)
    PROVE  Inv'
<1>1. /\ up' = up \union {p}
      /\ UNCHANGED <<rows, mirror, origin, pending, kept, cell, writes, diverged, refused, verdict>>
  BY DEF Start
<1>2. Refs' /\ Waiting' /\ Working'
  BY <1>1, NothingAdded DEF Dropped
<1>3. MigratedWhole'
  BY <1>1, MigratedStays
<1> QED
  BY <1>1, <1>2, <1>3 DEF Inv, Typed, Unpushed

LEMMA ExitInv ==
    ASSUME Inv, NEW p \in Procs, Exit(p)
    PROVE  Inv'
<1>1. /\ up' = up \ {p} /\ kept' = kept \ {p} /\ cell' = [cell EXCEPT ![p] = NoCell]
      /\ IF p \in kept THEN Pushed ELSE UNCHANGED <<origin, refused>>
      /\ UNCHANGED <<rows, mirror, pending, writes, diverged, verdict>> /\ pending[p] = <<>>
  BY DEF Exit, Free
<1>2. Typed
  BY DEF Inv
<1>3. \A q \in Procs : Dropped(q)
  BY <1>1, <1>2 DEF Dropped, Typed
<1>4. \/ mirror # <<>> /\ origin' = mirror /\ refused' = refused
      \/ origin' = origin /\ refused' = TRUE
      \/ p \notin kept /\ origin' = origin /\ refused' = refused
  BY <1>1 DEF Pushed
<1>5. Refs' /\ Waiting' /\ Working'
  BY <1>1, <1>3, <1>4, NothingAdded
<1>6. MigratedWhole'
  BY <1>1, <1>3, MigratedStays DEF Dropped
<1>7. Unpushed'
  <2>1. CASE p \notin kept /\ origin' = origin /\ refused' = refused
    <3>1. kept' = kept
      BY <1>1, <2>1
    <3> QED
      BY <1>1, <2>1, <3>1 DEF Inv, Unpushed
  <2> QED
    BY <1>1, <1>2, <1>4, <2>1, PrefixSelf DEF Typed, Unpushed
<1>8. Typed'
  BY <1>1, <1>2, <1>4 DEF Typed, NoCell
<1> QED
  BY <1>5, <1>6, <1>7, <1>8 DEF Inv

LEMMA CrashInv ==
    ASSUME Inv, NEW p \in Procs, Crash(p)
    PROVE  Inv'
<1>1. /\ up' = up \ {p} /\ kept' = kept \ {p} /\ cell' = [cell EXCEPT ![p] = NoCell]
      /\ diverged' = (diverged \/ pending[p] # <<>>) /\ refused' = TRUE
      /\ pending' = [pending EXCEPT ![p] = <<>>] /\ UNCHANGED <<rows, mirror, origin, writes, verdict>>
  BY DEF Crash
<1>2. Typed
  BY DEF Inv
<1>3. \A q \in Procs : Dropped(q)
  BY <1>1, <1>2 DEF Dropped, Typed
<1>4. Refs' /\ Waiting' /\ Working'
  BY <1>1, <1>3, NothingAdded
<1>5. MigratedWhole'
  BY <1>1, <1>3, MigratedStays DEF Dropped
<1>6. Unpushed'
  BY <1>1 DEF Unpushed
<1>7. Typed'
  BY <1>1, <1>2, NoneIs DEF Typed, NoCell
<1> QED
  BY <1>4, <1>5, <1>6, <1>7 DEF Inv
LEMMA EnsureMirrorInv ==
    ASSUME Inv, UNCHANGED vars
    PROVE  Inv'
<1>1. UNCHANGED <<rows, mirror, origin, pending, up, kept, cell, writes, diverged, refused, verdict>>
  BY DEF vars
<1>2. Refs' /\ Waiting' /\ Working'
  BY <1>1, NothingAdded DEF Dropped
<1>3. MigratedWhole'
  BY <1>1, MigratedStays
<1> QED
  BY <1>1, <1>2, <1>3 DEF Inv, Typed, Unpushed

(* No command is running. *)
LEMMA NobodyIs ==
    ASSUME Typed, up = {}
    PROVE  (\A p \in Procs : pending[p] = <<>>) /\ \A p \in Procs : cell[p] = NoCell
  BY DEF Typed

(* Between commands nothing is waiting and nothing worked on, so only the  *)
(* refs have to be what they are.                                          *)
LEMMA NobodyWaits ==
    ASSUME Typed, up = {}, UNCHANGED <<pending, cell>>
    PROVE  Waiting' /\ Working'
<1>1. (\A p \in Procs : pending'[p] = <<>>) /\ \A p \in Procs : cell'[p] = NoCell
  BY NobodyIs
<1>2. Waiting'
  BY <1>1, NoneIs DEF Waiting
<1>3. Working'
  BY <1>1 DEF Working, NoCell
<1> QED
  BY <1>2, <1>3

LEMMA LoseMirrorInv ==
    ASSUME Inv, LoseMirror
    PROVE  Inv'
<1>1. /\ up = {} /\ mirror # <<>> /\ mirror' = <<>> /\ diverged' = (diverged \/ mirror # origin)
      /\ verdict' = "none" /\ UNCHANGED <<rows, origin, pending, up, kept, cell, writes, refused>>
  BY DEF LoseMirror
<1>2. Typed /\ Refs
  BY DEF Inv
<1>3. Waiting' /\ Working'
  BY <1>1, <1>2, NobodyWaits
<1>4. Refs'
  BY <1>1, <1>2, NoneIs, NoneRefIs DEF Refs, RefIs
<1>5. Unpushed'
  <2>2. IsPrefix(<<>>, origin)
    BY <1>2, NoneFirst DEF Typed
  <2> QED
    BY <1>1, <2>2 DEF Unpushed
<1>6. Typed'
  BY <1>1, <1>2, NoneIs DEF Typed
<1> QED
  BY <1>1, <1>3, <1>4, <1>5, <1>6 DEF Inv, MigratedWhole

(* One more fact on a ref. *)
LEMMA AppendedIs ==
    ASSUME NEW s, RefIs(s), NEW f \in Facts, s = <<>> => f.kind = "created",
           Names(f) => f \notin Range(s), Ground(f) \subseteq Range(s)
    PROVE  /\ RefIs(Append(s, f)) /\ Append(s, f) # <<>>
           /\ Range(Append(s, f)) = Range(s) \union {f} /\ IsPrefix(s, Append(s, f))
<1>1. s \in Seq(Facts) /\ <<f>> \in Seq(Facts) /\ Range(<<f>>) = {f} /\ Append(s, f) = s \o <<f>>
  BY OneIs DEF RefIs
<1> DEFINE t == <<f>>
<1>2. Distinct(t) /\ Grounded(Range(s), t) /\ Grounded({} \union Range(s), t)
  BY OneSound
<1>3. t # <<>> /\ t[1] = f
  OBVIOUS
<1> HIDE DEF t
<1>4. t \in Seq(Facts) /\ Range(t) = {f} /\ Append(s, f) = s \o t
  BY <1>1 DEF t
<1>5. Distinct(s \o t)
  BY <1>1, <1>2, <1>4, DistinctJoined DEF RefIs
<1>6. Grounded({}, s \o t)
  BY <1>1, <1>2, <1>4, GroundedJoined DEF RefIs
<1>7. s \o t \in Seq(Facts) /\ Range(s \o t) = Range(s) \union {f}
  BY <1>1, <1>4, JoinedIs
<1>8. s \o t # <<>> /\ (s \o t)[1].kind = "created"
  <2>1. CASE s = <<>>
    <3>1. s \o t = t
      BY <1>4, <2>1, ConcatEmptySeq
    <3> QED
      BY <1>3, <2>1, <3>1
  <2>2. CASE s # <<>>
    BY <1>1, <1>4, <2>2, FirstJoined DEF RefIs, Opens
  <2> QED
    BY <2>1, <2>2
<1>9. IsPrefix(s, s \o t)
  <2>1. /\ Len(s \o t) = Len(s) + Len(t) /\ Len(s) \in Nat /\ Len(t) \in Nat
        /\ \A i \in 1 .. Len(s) + Len(t) : (s \o t)[i] = IF i <= Len(s) THEN s[i] ELSE t[i - Len(s)]
    BY <1>1, <1>4, JoinedIs
  <2>2. \A i \in 1 .. Len(s) : i \in 1 .. Len(s) + Len(t) /\ i <= Len(s)
    BY <2>1
  <2>3. Len(s) <= Len(s \o t) /\ \A i \in 1 .. Len(s) : s[i] = (s \o t)[i]
    BY <2>1, <2>2
  <2> QED
    BY <1>1, <1>7, <2>3, PrefixIs
<1> QED
  BY <1>4, <1>5, <1>6, <1>7, <1>8, <1>9 DEF RefIs, Opens

LEMMA PrefixOn ==
    ASSUME NEW r \in Seq(Facts), NEW s \in Seq(Facts), NEW t \in Seq(Facts), IsPrefix(r, s), IsPrefix(s, t)
    PROVE  IsPrefix(r, t)
<1>1. Len(r) <= Len(s) /\ \A i \in 1 .. Len(r) : r[i] = s[i]
  BY PrefixIs
<1>2. Len(s) <= Len(t) /\ \A i \in 1 .. Len(s) : s[i] = t[i]
  BY PrefixIs
<1>3. Len(r) \in Nat /\ Len(s) \in Nat /\ Len(t) \in Nat
  OBVIOUS
<1>4. Len(r) <= Len(t) /\ \A i \in 1 .. Len(r) : r[i] = t[i]
  BY <1>1, <1>2, <1>3
<1> QED
  BY <1>4, PrefixIs

LEMMA ElsewhereIs ==
    LET f == Fact("state", "elsewhere") IN
    f \in Facts /\ f.kind = "state" /\ ~Names(f) /\ Ground(f) = {}
  BY FactIs DEF Fact, Facts, Kinds, StateNames, Names, Ground

LEMMA ElsewhereInv ==
    ASSUME Inv, Elsewhere
    PROVE  Inv' /\ IsPrefix(origin, origin')
<1> DEFINE f == Fact("state", "elsewhere")
<1>1. /\ origin # <<>> /\ origin' = Append(origin, f) /\ diverged' = TRUE /\ verdict' = "none"
      /\ UNCHANGED <<rows, mirror, pending, up, kept, cell, writes, refused>>
  BY DEF Elsewhere
<1>2. Typed /\ Refs /\ Waiting /\ Working
  BY DEF Inv
<1>3. RefIs(mirror) /\ RefIs(origin)
  BY <1>2, RefsAre
<1>4. f \in Facts /\ f.kind = "state" /\ ~Names(f) /\ Ground(f) = {}
  BY ElsewhereIs
<1> HIDE DEF f
<1>5. /\ RefIs(origin') /\ Range(origin') = Range(origin) \union {f} /\ IsPrefix(origin, origin')
      /\ origin' \in Seq(Facts)
  BY <1>1, <1>3, <1>4, AppendedIs DEF RefIs
<1>6. Refs'
  BY <1>1, <1>2, <1>3, <1>4, <1>5 DEF Refs, RefIs
<1>7. Waiting'
  <2> SUFFICES ASSUME NEW p \in Procs, NEW i \in DOMAIN pending[p]
               PROVE  /\ rows.made
                      /\ Names(pending[p][i]) => OnlyHere(p, i)' /\ Held(rows, pending[p][i])
                      /\ pending[p][i].kind # "created"
                      /\ Ground(pending[p][i]) \subseteq Range(mirror)
    BY <1>1 DEF Waiting
  <2>1. /\ rows.made
        /\ Names(pending[p][i]) => OnlyHere(p, i) /\ Held(rows, pending[p][i])
        /\ pending[p][i].kind # "created"
        /\ Ground(pending[p][i]) \subseteq Range(mirror)
    BY <1>1, <1>2 DEF Waiting
  <2>2. ASSUME OnlyHere(p, i), Names(pending[p][i]) PROVE OnlyHere(p, i)'
    <3>1. pending[p][i] # f
      BY <1>4, <2>2
    <3> QED
      BY <1>1, <1>5, <2>2, <3>1 DEF OnlyHere
  <2> QED
    BY <2>1, <2>2
<1>8. Working'
  BY <1>1, <1>2 DEF Working
<1>9. Unpushed'
  <2>1. mirror \in Seq(Facts) /\ origin \in Seq(Facts)
    BY <1>2 DEF Typed
  <2>2. IsPrefix(mirror, origin) => IsPrefix(mirror, origin')
    BY <1>5, <2>1, PrefixOn
  <2> QED
    BY <1>1, <2>2 DEF Inv, Unpushed
<1>10. Typed'
  BY <1>1, <1>2, <1>5 DEF Typed
<1> QED
  BY <1>1, <1>5, <1>6, <1>7, <1>8, <1>9, <1>10 DEF Inv, MigratedWhole

LEMMA LoseLedgerInv ==
    ASSUME Inv, LoseLedgerAndFold
    PROVE  Inv'
<1> DEFINE row == Folded(mirror)
           r == IF row.read = "ok" /\ row.made THEN row ELSE NoRow
<1>1. /\ up = {} /\ rows.made /\ mirror # <<>> /\ rows' = r /\ verdict' = "none"
      /\ diverged' = ~(row.read = "ok" /\ row.made)
      /\ UNCHANGED <<mirror, origin, pending, up, kept, cell, writes, refused>>
  BY DEF LoseLedgerAndFold
<1>2. Typed /\ Refs
  BY DEF Inv
<1>3. RefIs(mirror) /\ RefIs(origin)
  BY <1>2, RefsAre
<1>4. RowIs(r) /\ r.read = "ok" /\ (r.made => \A f \in Range(mirror) : Held(r, f))
  <2>1. CASE row.read = "ok" /\ row.made
    <3>1. row = After(NoRow, mirror) /\ r = row
      BY <2>1 DEF Folded
    <3> HIDE DEF r, row
    <3> QED
      BY <1>3, <2>1, <3>1, AfterHolds, NoRowIs DEF RefIs
  <2>2. CASE ~(row.read = "ok" /\ row.made)
    BY <2>2, NoRowIs
  <2> QED
    BY <2>1, <2>2
<1> HIDE DEF r, row
<1>5. Refs'
  <2>1. \A f \in Range(origin) : Names(f) => f \in Range(mirror)
    BY <1>1, <1>2 DEF Refs
  <2>2. r.made => \A f \in Range(mirror) \union Range(origin) : Names(f) => Held(r, f)
    BY <1>4, <2>1
  <2>3. writes # 0
    BY <1>1, <1>2 DEF Refs
  <2> QED
    BY <1>1, <1>2, <2>2, <2>3 DEF Refs
<1>6. Waiting' /\ Working'
  BY <1>1, <1>2, NobodyWaits
<1>7. Typed'
  BY <1>1, <1>2, <1>4 DEF Typed
<1>8. Unpushed'
  BY <1>1 DEF Inv, Unpushed
<1> QED
  BY <1>1, <1>5, <1>6, <1>7, <1>8 DEF Inv, MigratedWhole

LEMMA MigrateInv ==
    ASSUME Inv, Migrate
    PROVE  Inv' /\ IsPrefix(origin, origin')
<1> DEFINE truth == FactsFor(rows)
           m == Migrated(rows)
<1>1. /\ up = {} /\ rows.made /\ mirror' = m
      /\ \/ /\ origin = <<>> \/ Agrees(origin, truth)
            /\ origin' = m /\ verdict' = "migrated" /\ UNCHANGED refused
         \/ /\ origin = <<>> \/ Agrees(origin, truth)
            /\ refused' = TRUE /\ verdict' = "none" /\ UNCHANGED origin
         \/ /\ origin # <<>> /\ ~Agrees(origin, truth)
            /\ verdict' = "refused" /\ UNCHANGED <<origin, refused>>
      /\ diverged' = (diverged \/ mirror # origin)
      /\ UNCHANGED <<rows, pending, up, kept, cell, writes>>
  BY DEF Migrate
<1>2. Typed /\ Refs
  BY DEF Inv
<1>3. RefIs(mirror) /\ RefIs(origin) /\ Made(rows)
  BY <1>1, <1>2, RefsAre DEF Made, Typed
<1>4. ASSUME origin = <<>> \/ Agrees(origin, truth)
      PROVE  /\ Readable(m) /\ Carries(m, rows) /\ Range(origin) \subseteq Range(m)
             /\ IsPrefix(origin, m)
  <2>1. CASE origin = <<>>
    <3>1. m = FactsFor(rows) /\ m \in Seq(Facts)
      BY <1>3, <2>1, FactsForCarries DEF Migrated, Readable
    <3>2. IsPrefix(<<>>, m)
      BY <3>1, NoneFirst
    <3> QED
      BY <1>3, <2>1, <3>1, <3>2, NoneIs, FactsForCarries
  <2>2. CASE origin # <<>>
    <3> DEFINE t == TopUp(origin, rows)
    <3>1. m = origin \o t
      BY <1>4, <2>2 DEF Migrated
    <3>2. Readable(origin \o t) /\ Carries(origin \o t, rows) /\ Range(origin) \subseteq Range(origin \o t)
      BY <1>3, <1>4, <2>2, ToppedUpIs DEF RefIs
    <3>3. \A i \in 1 .. Len(origin) : i \in 1 .. Len(m) /\ m[i] = origin[i]
      <4>1. origin \in Seq(Facts) /\ t \in Seq(Facts)
        <5>1. RowIs(rows)
          BY <1>3 DEF Made
        <5> DEFINE had == Range(origin)
                   owed == Owed(rows, had)
                   g == Fact("state", rows.state)
        <5>2. owed \in Seq(Facts)
          BY <5>1, OwedIs DEF Adds, Sound
        <5>3. g \in Facts
          BY <5>1 DEF RowIs, RowShape, Fact, Facts, Kinds
        <5>4. t = owed \o (IF RecordState(origin \o owed) # rows.state THEN <<g>> ELSE <<>>)
          BY DEF TopUp, Owed
        <5> HIDE DEF owed, g, t
        <5> QED
          BY <1>3, <5>2, <5>3, <5>4 DEF RefIs
      <4> HIDE DEF t, m
      <4> QED
        BY <3>1, <4>1
    <3>4. Len(origin) <= Len(m)
      <4>1. Len(origin) \in Nat /\ (Len(origin) # 0 => Len(origin) \in 1 .. Len(origin))
        BY <1>3 DEF RefIs
      <4>2. m \in Seq(Facts)
        BY <3>1, <3>2 DEF Readable
      <4> HIDE DEF m, t
      <4>3. Len(m) \in Nat
        BY <4>2
      <4> QED
        BY <3>3, <4>1, <4>3
    <3>5. m \in Seq(Facts) /\ origin \in Seq(Facts)
      BY <1>3, <3>1, <3>2 DEF RefIs, Readable
    <3> HIDE DEF m, t
    <3>6. IsPrefix(origin, m)
      BY <3>3, <3>4, <3>5, PrefixIs
    <3> QED
      BY <3>1, <3>2, <3>6
  <2> QED
    BY <2>1, <2>2
<1>5. ASSUME ~(origin = <<>> \/ Agrees(origin, truth))
      PROVE  m = origin
  BY <1>5 DEF Migrated
<1>6. ASSUME origin = <<>> \/ Agrees(origin, truth)
      PROVE  /\ RefIs(m) /\ m # <<>> /\ \A f \in Range(m) : Held(rows, f)
             /\ Folded(m) = [rows EXCEPT !.pushed = Folded(m).pushed]
  BY <1>3, <1>4, <1>6, CarriedIs, CarriedFolds
<1> HIDE DEF m, truth
<1>7. writes # 0
  BY <1>1, <1>2 DEF Refs
<1>9. Refs' /\ mirror' \in Seq(Facts) /\ origin' \in Seq(Facts)
  <2>1. CASE origin = <<>> \/ Agrees(origin, truth)
    <3>1. RefIs(mirror') /\ \A f \in Range(mirror') : Held(rows', f)
      BY <1>1, <1>6, <2>1
    <3>2. RefIs(origin') /\ \A f \in Range(origin') : Names(f) => Held(rows', f) /\ f \in Range(mirror')
      <4>1. Range(origin) \subseteq Range(m)
        BY <1>4, <2>1
      <4> QED
        BY <1>1, <1>2, <1>3, <2>1, <3>1, <4>1 DEF Refs
    <3> QED
      BY <1>1, <1>7, <3>1, <3>2 DEF Refs, RefIs
  <2>2. CASE ~(origin = <<>> \/ Agrees(origin, truth))
    <3>1. mirror' = origin /\ origin' = origin
      BY <1>1, <1>5, <2>2
    <3> QED
      BY <1>1, <1>2, <1>3, <1>7, <3>1 DEF Refs, RefIs
  <2> QED
    BY <2>1, <2>2
<1>10. Waiting' /\ Working'
  BY <1>1, <1>2, NobodyWaits
<1>11. Typed'
  BY <1>1, <1>2, <1>9 DEF Typed
<1>12. Unpushed'
  <2>1. mirror' = origin' \/ refused'
    BY <1>1, <1>5
  <2> QED
    BY <1>9, <2>1, PrefixSelf DEF Unpushed
<1>13. MigratedWhole'
  <2>1. ASSUME verdict' = "migrated"
        PROVE  Folded(m) = [rows EXCEPT !.pushed = Folded(m).pushed]
    BY <1>1, <1>6, <2>1
  <2>2. \A p \in Procs : pending'[p] = <<>>
    BY <1>1, <1>2, NobodyIs
  <2> QED
    BY <1>1, <2>1, <2>2 DEF MigratedWhole
<1>14. IsPrefix(origin, origin')
  BY <1>1, <1>3, <1>4, PrefixSelf DEF RefIs
<1> QED
  BY <1>9, <1>10, <1>11, <1>12, <1>13, <1>14 DEF Inv
LEMMA HeadIs ==
    ASSUME NEW s \in Seq(Facts), s # <<>>
    PROVE  /\ Head(s) = s[1] /\ Head(s) \in Facts /\ 1 \in DOMAIN s /\ Tail(s) \in Seq(Facts)
           /\ Range(s) = {Head(s)} \union Range(Tail(s))
           /\ \A i \in DOMAIN Tail(s) : \E j \in DOMAIN s : j = i + 1 /\ j # 1 /\ Tail(s)[i] = s[j]
<1>1. /\ Head(s) = s[1] /\ Head(s) \in Facts /\ Tail(s) \in Seq(Facts) /\ Len(s) \in Nat \ {0}
      /\ DOMAIN s = 1 .. Len(s) /\ DOMAIN Tail(s) = 1 .. Len(s) - 1
      /\ \A i \in 1 .. Len(s) - 1 : Tail(s)[i] = s[i + 1]
  OBVIOUS
<1> DEFINE t == Tail(s)
<1> HIDE DEF t
<1>2. \A i \in DOMAIN t : \E j \in DOMAIN s : j = i + 1 /\ j # 1 /\ t[i] = s[j]
  <2>1. \A i \in 1 .. Len(s) - 1 : i + 1 \in 1 .. Len(s) /\ i + 1 # 1
    BY <1>1
  <2> QED
    BY <1>1, <2>1 DEF t
<1>3. Range(s) \subseteq {Head(s)} \union Range(t)
  <2>1. ASSUME NEW i \in DOMAIN s, i # 1 PROVE \E j \in DOMAIN t : t[j] = s[i]
    <3>1. i - 1 \in 1 .. Len(s) - 1 /\ i - 1 + 1 = i
      BY <1>1, <2>1
    <3>2. t[i - 1] = s[i - 1 + 1] /\ i - 1 \in DOMAIN t
      BY <1>1, <3>1 DEF t
    <3> QED
      BY <3>1, <3>2
  <2> QED
    BY <1>1, <2>1 DEF Range
<1>4. Range(t) \subseteq Range(s) /\ Head(s) \in Range(s)
  <2>1. 1 \in DOMAIN s
    BY <1>1
  <2> QED
    BY <1>1, <1>2, <2>1 DEF Range
<1>5. 1 \in DOMAIN s
  BY <1>1
<1> QED
  BY <1>1, <1>2, <1>3, <1>4, <1>5 DEF t

LEMMA AppendFactInv ==
    ASSUME Inv, NEW p \in Procs, AppendFact(p)
    PROVE  Inv'
<1> DEFINE f == Head(pending[p])
<1>1. PICK ref \in Recovered(f) : mirror' = Append(ref, f)
  BY DEF AppendFact
<1>2. /\ pending[p] # <<>> /\ pending' = [pending EXCEPT ![p] = Tail(@)] /\ kept' = kept \union {p}
      /\ refused' = FALSE /\ UNCHANGED <<rows, origin, up, cell, writes, diverged, verdict>>
  BY DEF AppendFact
<1>3. Typed /\ Refs /\ Waiting /\ Working
  BY DEF Inv
<1>4. RefIs(mirror) /\ RefIs(origin) /\ pending[p] \in Seq(Facts) /\ p \in up
  BY <1>2, <1>3, RefsAre DEF Typed
<1>5. /\ f = pending[p][1] /\ f \in Facts /\ 1 \in DOMAIN pending[p] /\ Tail(pending[p]) \in Seq(Facts)
      /\ Range(pending[p]) = {f} \union Range(Tail(pending[p]))
      /\ \A i \in DOMAIN Tail(pending[p]) :
            \E j \in DOMAIN pending[p] : j = i + 1 /\ j # 1 /\ Tail(pending[p])[i] = pending[p][j]
  BY <1>2, <1>4, HeadIs
<1> HIDE DEF f
<1>6. /\ rows.made /\ (Names(f) => OnlyHere(p, 1) /\ Held(rows, f))
      /\ f.kind = "created" => mirror = <<>> /\ origin = <<>>
      /\ Ground(f) \subseteq Range(mirror)
  BY <1>3, <1>5 DEF Waiting
<1>7. \/ ref = mirror /\ (mirror = <<>> => f.kind = "created" /\ origin = <<>>)
      \/ ref = origin /\ mirror = <<>> /\ origin # <<>> /\ f.kind # "created"
  BY <1>1, <1>6 DEF Recovered
<1>8. /\ RefIs(ref) /\ (ref = <<>> => f.kind = "created") /\ (Names(f) => f \notin Range(ref))
      /\ Ground(f) \subseteq Range(ref) /\ Range(mirror) \subseteq Range(ref)
  <2>1. Names(f) => f \notin Range(mirror) /\ f \notin Range(origin)
    BY <1>5, <1>6 DEF OnlyHere
  <2> QED
    BY <1>4, <1>6, <1>7, <2>1, NoneIs
<1>9. RefIs(mirror') /\ mirror' # <<>> /\ Range(mirror') = Range(ref) \union {f}
  BY <1>1, <1>5, <1>8, AppendedIs
<1>10. Range(ref) \subseteq Range(mirror) \union Range(origin)
  BY <1>7
<1>11. pending' \in [Procs -> Seq(Facts)] /\ pending'[p] = Tail(pending[p])
       /\ \A q \in Procs : q # p => pending'[q] = pending[q]
  BY <1>2, <1>3, <1>5 DEF Typed
<1>12. Refs'
  <2>1. \A e \in Range(origin) : Names(e) => e \in Range(mirror')
    BY <1>3, <1>7, <1>9, NoneIs DEF Refs
  <2>2. \A e \in Range(mirror') \union Range(origin) : Names(e) => Held(rows, e)
    BY <1>3, <1>6, <1>9, <1>10 DEF Refs
  <2>3. writes # 0
    BY <1>3, <1>6 DEF Refs
  <2> QED
    BY <1>2, <1>4, <1>9, <2>1, <2>2, <2>3 DEF Refs, RefIs
(* Every fact still pending was pending, and is not the one appended.      *)
<1>13. ASSUME NEW q \in Procs, NEW i \in DOMAIN pending'[q]
       PROVE  \E j \in DOMAIN pending[q] :
                 /\ pending'[q][i] = pending[q][j] /\ (q = p => j = i + 1 /\ j # 1) /\ (q # p => j = i)
  <2>1. CASE q = p
    BY <1>5, <1>11, <2>1
  <2>2. CASE q # p
    BY <1>11, <2>2
  <2> QED
    BY <2>1, <2>2
<1>14. ASSUME NEW q \in Procs, NEW i \in DOMAIN pending'[q]
       PROVE  /\ Names(pending'[q][i]) => OnlyHere(q, i)' /\ Held(rows, pending'[q][i])
              /\ pending'[q][i].kind # "created"
              /\ Ground(pending'[q][i]) \subseteq Range(mirror')
  <2> DEFINE e == pending'[q][i]
  <2>1. PICK j \in DOMAIN pending[q] :
           /\ e = pending[q][j] /\ (q = p => j = i + 1 /\ j # 1) /\ (q # p => j = i)
    BY <1>13
  <2> HIDE DEF e
  <2>2. /\ Names(e) => OnlyHere(q, j) /\ Held(rows, e)
        /\ e.kind = "created" => mirror = <<>> /\ origin = <<>>
        /\ Ground(e) \subseteq Range(mirror)
    BY <1>3, <2>1 DEF Waiting
  <2>3. ASSUME Names(e) PROVE e # f
    <3>1. OnlyHere(q, j)
      BY <2>2, <2>3
    <3>2. ASSUME e = f PROVE FALSE
      <4>1. pending[p][1] = pending[q][j]
        BY <1>5, <2>1, <3>2
      <4>2. p = q /\ 1 = j
        BY <1>5, <3>1, <4>1 DEF OnlyHere
      <4> QED
        BY <2>1, <4>2
    <3> QED
      BY <3>2
  <2>4. ASSUME Names(e) PROVE OnlyHere(q, i)'
    <3>1. OnlyHere(q, j)
      BY <2>2, <2>4
    <3>2. e \notin Range(mirror') /\ e \notin Range(origin')
      BY <1>2, <1>9, <1>10, <2>1, <2>3, <2>4, <3>1 DEF OnlyHere
    <3>3. ASSUME NEW b \in Procs, NEW k \in DOMAIN pending'[b], pending'[b][k] = e
          PROVE  b = q /\ k = i
      <4>1. PICK l \in DOMAIN pending[b] :
               /\ pending'[b][k] = pending[b][l] /\ (b = p => l = k + 1 /\ l # 1) /\ (b # p => l = k)
        BY <1>13
      <4>2. b = q /\ l = j
        BY <2>1, <3>1, <3>3, <4>1 DEF OnlyHere
      <4>3. i \in Nat /\ k \in Nat
        <5>1. pending'[q] \in Seq(Facts) /\ pending'[b] \in Seq(Facts)
          BY <1>11
        <5>2. \A s \in Seq(Facts) : DOMAIN s \subseteq Nat
          OBVIOUS
        <5> QED
          BY <5>1, <5>2
      <4> QED
        BY <2>1, <4>1, <4>2, <4>3
    <3> QED
      BY <3>2, <3>3 DEF OnlyHere, e
  <2>5. e.kind # "created"
    <3>1. ASSUME e.kind = "created" PROVE FALSE
      <4>1. f.kind = "created"
        BY <1>7, <2>2, <3>1
      <4>2. e \in Facts
        <5>1. pending[q] \in Seq(Facts)
          BY <1>3 DEF Typed
        <5> QED
          BY <2>1, <5>1
      <4>3. e = f
        BY <1>5, <3>1, <4>1, <4>2, FactsAre DEF FactOf, Facts
      <4> QED
        BY <2>3, <3>1, <4>3 DEF Names
    <3> QED
      BY <3>1
  <2> QED
    BY <1>8, <1>9, <2>2, <2>4, <2>5 DEF e
<1>15. Waiting'
  BY <1>2, <1>6, <1>14 DEF Waiting
<1>16. Working'
  <2>1. \A q \in Procs : Range(mirror) \union Range(pending[q]) \subseteq Range(mirror') \union Range(pending'[q])
    BY <1>5, <1>8, <1>9, <1>11
  <2> SUFFICES ASSUME NEW q \in Procs
               PROVE  LET to == Range(mirror') \union Range(pending'[q]) IN
                      /\ cell[q] # NoCell => rows.made
                      /\ cell[q].attempt # 0 => /\ cell[q].attempt \in rows.opened \ rows.closed
                                                /\ Fact("opened", cell[q].attempt) \in to
                      /\ cell[q].findings \subseteq 1 .. rows.findings
                      /\ \A n \in cell[q].findings : Fact("finding", n) \in to
                      /\ \A b \in Procs : (b # q /\ cell[q].attempt # 0)
                                             => cell[b].attempt # cell[q].attempt
    BY <1>2 DEF Working
  <2> QED
    BY <1>3, <2>1 DEF Working
<1>17. Typed'
  BY <1>2, <1>3, <1>4, <1>9, <1>11, NoneIs DEF Typed, RefIs
<1>18. Unpushed'
  BY <1>2 DEF Unpushed
<1>19. MigratedWhole'
  BY <1>2 DEF Inv, MigratedWhole
<1> QED
  BY <1>12, <1>15, <1>16, <1>17, <1>18, <1>19 DEF Inv
-----------------------------------------------------------------------------
(* Writes. *)

(* The facts can be applied to the rows, and are on no ref yet.            *)
Fresh(p, facts) ==
    /\ facts \in Seq(Facts) /\ Distinct(facts)
    /\ After(rows, facts).read = "ok" /\ After(rows, facts).made
    /\ \A i \in DOMAIN facts :
          /\ Names(facts[i]) => ~Held(rows, facts[i])
          /\ Ground(facts[i]) \subseteq Range(mirror)
          /\ facts[i].kind = "created" => mirror = <<>> /\ origin = <<>>
    /\ ~rows.made => mirror = <<>> /\ origin = <<>> /\ \A q \in Procs : pending[q] = <<>>

CellIs(c) == c \in [attempt : Nat, findings : SUBSET (Nat \ {0})]

(* What p then works on is the rows' and on its way, and no other's.       *)
Takes(p, facts, c) ==
    LET r  == After(rows, facts)
        to == Range(mirror) \union Range(facts)
    IN  /\ CellIs(c)
        /\ c.attempt # 0 => /\ c.attempt \in r.opened \ r.closed /\ Fact("opened", c.attempt) \in to
                            /\ \A q \in Procs : q # p => cell[q].attempt # c.attempt
        /\ c.findings \subseteq 1 .. r.findings
        /\ \A n \in c.findings : Fact("finding", n) \in to
        /\ \A q \in Procs : (q # p /\ cell[q].attempt # 0) => cell[q].attempt \notin r.closed

LEMMA CommitInv ==
    ASSUME Inv, NEW p \in Procs, NEW facts, NEW c, Free(p), Fresh(p, facts), Takes(p, facts, c),
           Commit(p, facts), cell' = [cell EXCEPT ![p] = c]
    PROVE  Inv'
<1> DEFINE r == After(rows, facts)
<1>1. /\ writes < MaxWrites /\ writes' = writes + 1 /\ rows' = r
      /\ pending' = [pending EXCEPT ![p] = facts] /\ verdict' = "none"
      /\ UNCHANGED <<mirror, origin, up, kept, diverged, refused>>
      /\ p \in up /\ pending[p] = <<>>
  BY DEF Commit, Free
<1>2. Typed /\ Refs /\ Waiting /\ Working
  BY DEF Inv
<1>3. RowIs(rows) /\ facts \in Seq(Facts) /\ r.read = "ok" /\ r.made
  BY <1>2 DEF Typed, Fresh
<1>4. /\ RowIs(r) /\ (\A f \in Range(facts) : Held(r, f))
      /\ \A f \in Facts : Held(rows, f) => Held(r, f)
  BY <1>3, AfterHolds
<1> HIDE DEF r
<1>5. /\ pending' \in [Procs -> Seq(Facts)] /\ pending'[p] = facts
      /\ \A q \in Procs : q # p => pending'[q] = pending[q]
  BY <1>1, <1>2, <1>3 DEF Typed
<1>6. /\ CellIs(c) /\ cell' \in [Procs -> [attempt : Nat, findings : SUBSET (Nat \ {0})]]
      /\ cell'[p] = c /\ \A q \in Procs : q # p => cell'[q] = cell[q] /\ CellIs(cell[q])
  BY <1>2 DEF Takes, CellIs, Typed
<1>7. \A f \in Range(mirror) \union Range(origin) : f \in Facts
  BY <1>2 DEF Typed, Range
<1>8. Refs'
  <2>1. \A f \in Range(mirror) \union Range(origin) : Names(f) => Held(r, f)
    <3>1. CASE rows.made
      BY <1>2, <1>4, <1>7, <3>1 DEF Refs
    <3>2. CASE ~rows.made
      BY <3>2, NoneIs DEF Fresh
    <3> QED
      BY <3>1, <3>2
  <2>2. writes' # 0
    BY <1>1, <1>2 DEF Typed
  <2> QED
    BY <1>1, <1>2, <2>1, <2>2 DEF Refs
(* What was held of the rows is none of the facts to come.                 *)
<1>9. ASSUME NEW i \in DOMAIN facts, Names(facts[i])
      PROVE  /\ facts[i] \notin Range(mirror) /\ facts[i] \notin Range(origin)
             /\ \A q \in Procs : \A j \in DOMAIN pending[q] : pending[q][j] # facts[i]
  <2>1. ~Held(rows, facts[i])
    BY <1>9 DEF Fresh
  <2>2. CASE rows.made
    BY <1>2, <1>9, <2>1, <2>2 DEF Refs, Waiting
  <2>3. CASE ~rows.made
    BY <2>3, NoneIs DEF Fresh
  <2> QED
    BY <2>2, <2>3
<1>10. ASSUME NEW q \in Procs, NEW i \in DOMAIN pending'[q]
       PROVE  /\ Names(pending'[q][i]) => OnlyHere(q, i)' /\ Held(r, pending'[q][i])
              /\ pending'[q][i].kind = "created" => mirror = <<>> /\ origin = <<>>
              /\ Ground(pending'[q][i]) \subseteq Range(mirror)
  <2>1. CASE q = p
    <3>1. i \in DOMAIN facts /\ pending'[q][i] = facts[i] /\ facts[i] \in Range(facts)
      BY <1>5, <2>1 DEF Range
    <3>2. ASSUME Names(facts[i]) PROVE OnlyHere(q, i)'
      <4>1. ASSUME NEW b \in Procs, NEW j \in DOMAIN pending'[b], pending'[b][j] = facts[i]
            PROVE  b = q /\ j = i
        <5>1. b = p
          BY <1>5, <1>9, <3>1, <3>2, <4>1
        <5>2. j \in DOMAIN facts /\ facts[j] = facts[i]
          BY <1>5, <4>1, <5>1
        <5> QED
          BY <2>1, <3>1, <3>2, <5>1, <5>2 DEF Fresh, Distinct
      <4> QED
        BY <1>1, <1>9, <3>1, <3>2, <4>1 DEF OnlyHere
    <3> QED
      BY <1>4, <3>1, <3>2 DEF Fresh
  <2>2. CASE q # p
    <3>1. i \in DOMAIN pending[q] /\ pending'[q][i] = pending[q][i] /\ pending'[q] = pending[q]
      BY <1>5, <2>2
    <3>2. /\ Names(pending[q][i]) => OnlyHere(q, i) /\ Held(rows, pending[q][i])
          /\ pending[q][i].kind = "created" => mirror = <<>> /\ origin = <<>>
          /\ Ground(pending[q][i]) \subseteq Range(mirror)
      BY <1>2, <3>1 DEF Waiting
    <3>3. pending[q][i] \in Facts
      <4>1. pending[q] \in Seq(Facts)
        BY <1>2 DEF Typed
      <4> QED
        BY <3>1, <4>1
    <3>4. ASSUME Names(pending[q][i]) PROVE OnlyHere(q, i)'
      <4>1. OnlyHere(q, i)
        BY <3>2, <3>4
      <4>2. ASSUME NEW b \in Procs, NEW j \in DOMAIN pending'[b], pending'[b][j] = pending[q][i]
            PROVE  b = q /\ j = i
        <5>1. CASE b = p
          <6>1. j \in DOMAIN facts /\ facts[j] = pending[q][i]
            BY <1>5, <4>2, <5>1
          <6> QED
            BY <1>9, <3>1, <3>4, <6>1
        <5>2. CASE b # p
          BY <1>5, <4>1, <4>2, <5>2 DEF OnlyHere
        <5> QED
          BY <5>1, <5>2
      <4> QED
        BY <1>1, <3>1, <4>1, <4>2 DEF OnlyHere
    <3> QED
      BY <1>4, <3>1, <3>2, <3>3, <3>4
  <2> QED
    BY <2>1, <2>2
<1>11. Waiting'
  BY <1>1, <1>3, <1>10 DEF Waiting
<1>12. Working'
  <2> SUFFICES ASSUME NEW q \in Procs
               PROVE  LET to == Range(mirror) \union Range(pending'[q]) IN
                      /\ cell'[q].attempt # 0 => /\ cell'[q].attempt \in r.opened \ r.closed
                                                /\ Fact("opened", cell'[q].attempt) \in to
                      /\ cell'[q].findings \subseteq 1 .. r.findings
                      /\ \A n \in cell'[q].findings : Fact("finding", n) \in to
                      /\ \A b \in Procs : (b # q /\ cell'[q].attempt # 0)
                                             => cell'[b].attempt # cell'[q].attempt
    BY <1>1, <1>3 DEF Working
  <2>1. /\ c.attempt # 0 => /\ c.attempt \in r.opened \ r.closed
                            /\ Fact("opened", c.attempt) \in Range(mirror) \union Range(facts)
                            /\ \A b \in Procs : b # p => cell[b].attempt # c.attempt
        /\ c.findings \subseteq 1 .. r.findings
        /\ \A n \in c.findings : Fact("finding", n) \in Range(mirror) \union Range(facts)
        /\ \A b \in Procs : (b # p /\ cell[b].attempt # 0) => cell[b].attempt \notin r.closed
    BY DEF Takes, r
  <2>2. CASE q = p
    BY <1>5, <1>6, <2>1, <2>2
  <2>3. CASE q # p
    <3>1. /\ cell[q].attempt # 0 => /\ cell[q].attempt \in rows.opened \ rows.closed
                                    /\ Fact("opened", cell[q].attempt) \in Range(mirror) \union Range(pending[q])
          /\ cell[q].findings \subseteq 1 .. rows.findings
          /\ \A n \in cell[q].findings : Fact("finding", n) \in Range(mirror) \union Range(pending[q])
          /\ \A b \in Procs : (b # q /\ cell[q].attempt # 0) => cell[b].attempt # cell[q].attempt
      BY <1>2 DEF Working
    <3>2. cell'[q] = cell[q] /\ pending'[q] = pending[q]
      BY <1>5, <1>6, <2>3
    <3>3. cell[q].attempt # 0 => cell[q].attempt \in r.opened
      <4>1. ASSUME cell[q].attempt # 0 PROVE cell[q].attempt \in r.opened
        <5> DEFINE f == Fact("opened", cell[q].attempt)
        <5>1. cell[q].attempt \in Nat \ {0} /\ "opened" \in Numbered
          BY <1>6, <2>3, <4>1 DEF CellIs, Numbered, Kinds
        <5>2. f \in Facts /\ f.kind = "opened" /\ f.n = cell[q].attempt
          BY <5>1, NumberedIs, FactIs
        <5> HIDE DEF f
        <5>3. Held(rows, f)
          BY <3>1, <4>1, <5>2 DEF Held
        <5> QED
          BY <1>4, <5>2, <5>3 DEF Held
      <4> QED
        BY <4>1
    <3>4. rows.findings \in Nat /\ r.findings \in Nat /\ rows.findings <= r.findings
      <4>1. rows.findings \in Nat /\ r.findings \in Nat
        BY <1>3, <1>4 DEF RowIs, RowShape
      <4>2. CASE rows.findings = 0
        BY <4>1, <4>2
      <4>3. CASE rows.findings # 0
        <5> DEFINE f == Fact("finding", rows.findings)
        <5>1. f \in Facts /\ f.kind = "finding" /\ f.n = rows.findings
          BY <4>1, <4>3, NumberedIs, FactIs DEF Numbered, Kinds
        <5> HIDE DEF f
        <5>2. Held(rows, f)
          BY <4>1, <5>1 DEF Held
        <5> QED
          BY <1>4, <4>1, <5>1, <5>2 DEF Held
      <4> QED
        BY <4>1, <4>2, <4>3
    <3>5. cell[q].findings \subseteq 1 .. r.findings
      BY <3>1, <3>4
    <3>6. \A b \in Procs : (b # q /\ cell[q].attempt # 0) => cell'[b].attempt # cell[q].attempt
      <4>1. ASSUME cell[q].attempt # 0 PROVE c.attempt # cell[q].attempt
        BY <2>1, <2>3, <4>1
      <4> QED
        BY <1>6, <3>1, <4>1
    <3> QED
      BY <2>1, <2>3, <3>1, <3>2, <3>3, <3>5, <3>6
  <2> QED
    BY <2>2, <2>3
<1>13. Typed'
  <2>1. writes' \in 0 .. MaxWrites
    BY <1>1, <1>2, MishapsAssumption DEF Typed
  <2>2. \A q \in Procs : (pending'[q] # <<>> \/ cell'[q] # NoCell) => q \in up'
    BY <1>1, <1>2, <1>5, <1>6 DEF Typed
  <2> QED
    BY <1>1, <1>2, <1>3, <1>4, <1>5, <1>6, <2>1, <2>2 DEF Typed
<1>14. Unpushed'
  BY <1>1 DEF Inv, Unpushed
<1>15. MigratedWhole'
  BY <1>1 DEF MigratedWhole
<1> QED
  BY <1>8, <1>11, <1>12, <1>13, <1>14, <1>15 DEF Inv
LEMMA AfterOne ==
    ASSUME NEW row \in RowShape, NEW f \in Facts
    PROVE  After(row, <<f>>) = Apply(row, f)
<1> DEFINE s == <<f>>
<1>1. s \in Seq(Facts) /\ s # <<>> /\ Head(s) = f /\ Tail(s) = <<>>
  OBVIOUS
<1>2. Apply(row, f) \in RowShape
  BY ApplyShape
<1> HIDE DEF s
<1>3. After(row, s) = After(Apply(row, f), <<>>)
  BY <1>1, AfterFirst
<1>4. After(Apply(row, f), <<>>) = Apply(row, f)
  BY <1>2, AfterNone
<1> QED
  BY <1>3, <1>4 DEF s

(* One fact that has its place in the rows and that they do not tell of.   *)
Next1(f) ==
    /\ f \in Facts /\ rows.made /\ Placed(rows, f) /\ (Names(f) => ~Held(rows, f))
    /\ Ground(f) \subseteq Range(mirror) /\ f.kind # "created"

LEMMA OneFresh ==
    ASSUME Typed, NEW p \in Procs, NEW f, Next1(f)
    PROVE  /\ Fresh(p, <<f>>) /\ Range(<<f>>) = {f}
           /\ Step(rows, f, After(rows, <<f>>)) /\ RowIs(After(rows, <<f>>))
<1>1. RowIs(rows) /\ rows \in RowShape /\ rows.read = "ok" /\ f \in Facts /\ Placed(rows, f)
  BY DEF Typed, RowIs, Next1
<1> DEFINE r == After(rows, <<f>>)
<1>2. Step(rows, f, r)
  BY <1>1, AfterOne, Applied
<1>3. <<f>> \in Seq(Facts) /\ DOMAIN <<f>> = {1} /\ <<f>>[1] = f /\ Range(<<f>>) = {f}
  BY <1>1, OneIs
<1>4. Distinct(<<f>>)
  BY <1>3 DEF Distinct
<1>5. r.read = "ok" /\ r.made
  BY <1>2 DEF Step
<1>6. RowIs(r)
  BY <1>1, <1>3, <1>5, AfterHolds
<1> HIDE DEF r
<1>7. Fresh(p, <<f>>)
  BY <1>3, <1>4, <1>5 DEF Fresh, Next1, r
<1> QED
  BY <1>2, <1>3, <1>6, <1>7 DEF r

LEMMA CellStands ==
    ASSUME Typed, NEW p \in Procs
    PROVE  /\ \A q \in Procs : CellIs(cell[q]) /\ cell[q].attempt \in Nat
           /\ cell = [cell EXCEPT ![p] = cell[p]]
  BY DEF Typed, CellIs

(* A write that leaves the command's work what it was.                     *)
LEMMA SameWork ==
    ASSUME Inv, NEW p \in Procs, NEW f, Free(p), Next1(f), f.kind # "closed",
           Commit(p, <<f>>), UNCHANGED cell
    PROVE  Inv'
<1>1. Typed /\ Working /\ pending[p] = <<>>
  BY DEF Inv, Free
<1>2. /\ Fresh(p, <<f>>) /\ Range(<<f>>) = {f}
      /\ Step(rows, f, After(rows, <<f>>)) /\ RowIs(After(rows, <<f>>))
  BY <1>1, OneFresh
<1> DEFINE r == After(rows, <<f>>)
           facts == <<f>>
<1>3. /\ r.closed = rows.closed /\ rows.opened \subseteq r.opened /\ rows.findings \in Nat
      /\ (r.findings = rows.findings \/ r.findings = rows.findings + 1)
  BY <1>1, <1>2 DEF Step, Next1, Placed, Typed, RowIs, RowShape
<1> HIDE DEF r, facts
<1>4. \A q \in Procs :
          /\ CellIs(cell[q])
          /\ cell[q].attempt # 0 => /\ cell[q].attempt \in rows.opened \ rows.closed
                                    /\ Fact("opened", cell[q].attempt) \in Range(mirror) \union Range(pending[q])
                                    /\ \A b \in Procs : b # q => cell[b].attempt # cell[q].attempt
          /\ cell[q].findings \subseteq 1 .. rows.findings
          /\ \A n \in cell[q].findings : Fact("finding", n) \in Range(mirror) \union Range(pending[q])
  BY <1>1, CellStands DEF Working
<1>5. cell[p].findings \subseteq 1 .. r.findings
  BY <1>3, <1>4
<1>6. Takes(p, facts, cell[p])
  BY <1>1, <1>3, <1>4, <1>5, NoneIs DEF Takes, r, facts
<1>7. cell' = [cell EXCEPT ![p] = cell[p]]
  BY <1>1, CellStands
<1> QED
  BY <1>2, <1>6, <1>7, CommitInv DEF facts

LEMMA CreateTaskInv ==
    ASSUME Inv, NEW p \in Procs, CreateTask(p)
    PROVE  Inv'
<1> DEFINE f == Fact("created", 0)
           facts == <<f>>
           r == After(rows, facts)
<1>1. /\ Free(p) /\ ~rows.made /\ mirror = <<>> /\ writes = 0 /\ Commit(p, facts) /\ UNCHANGED cell
      /\ Typed /\ Refs /\ Waiting /\ Working
  BY DEF CreateTask, Inv
<1>2. f \in Facts /\ f.kind = "created" /\ Ground(f) = {}
  BY FactIs DEF Fact, Facts, Kinds, Ground
<1> HIDE DEF f
<1>3. facts \in Seq(Facts) /\ DOMAIN facts = {1} /\ facts[1] = f /\ Range(facts) = {f}
  BY <1>2, OneIs
<1>4. rows \in RowShape /\ rows.read = "ok" /\ Placed(rows, f)
  BY <1>1, <1>2 DEF Typed, RowIs, Placed
<1>5. Step(rows, f, r)
  BY <1>2, <1>4, AfterOne, Applied
<1> HIDE DEF facts, r
<1>6. r.made /\ r.read = "ok" /\ r.closed = rows.closed
  BY <1>2, <1>5 DEF Step
<1>7. origin = <<>> /\ \A q \in Procs : pending[q] = <<>>
  <2>1. \A s \in Seq(Facts) : s # <<>> => 1 \in DOMAIN s
    OBVIOUS
  <2> QED
    BY <1>1, <2>1 DEF Refs, Waiting, Typed
<1>8. Distinct(facts)
  BY <1>3 DEF Distinct
<1>9. Fresh(p, facts)
  BY <1>1, <1>2, <1>3, <1>6, <1>7, <1>8 DEF Fresh, Held, r
<1>10. \A q \in Procs : cell[q] = NoCell
  BY <1>1 DEF Working
<1>11. Takes(p, facts, cell[p])
  <2>1. CellIs(NoCell)
    BY DEF CellIs, NoCell
  <2> QED
    BY <1>10, <2>1 DEF Takes, NoCell
<1>12. cell' = [cell EXCEPT ![p] = cell[p]]
  BY <1>1, CellStands
<1> QED
  BY <1>1, <1>9, <1>11, <1>12, CommitInv

LEMMA SetTaskStateInv ==
    ASSUME Inv, NEW p \in Procs, SetTaskState(p)
    PROVE  Inv'
<1>1. PICK s \in States : Commit(p, <<Fact("state", s)>>)
  BY DEF SetTaskState
<1> DEFINE f == Fact("state", s)
<1>2. f \in Facts /\ f.kind = "state" /\ Ground(f) = {} /\ ~Names(f)
  BY FactIs DEF Fact, Facts, Kinds, StateNames, Ground, Names
<1>3. Free(p) /\ rows.made /\ UNCHANGED cell
  BY DEF SetTaskState
<1> HIDE DEF f
<1>4. Next1(f)
  BY <1>2, <1>3 DEF Next1, Placed
<1> QED
  BY <1>1, <1>2, <1>3, <1>4, SameWork DEF f

LEMMA RecordPushInv ==
    ASSUME Inv, NEW p \in Procs, RecordPush(p)
    PROVE  Inv'
<1> DEFINE f == Fact("push", rows.pushed + 1)
<1>1. Free(p) /\ rows.made /\ UNCHANGED cell /\ Commit(p, <<f>>)
  BY DEF RecordPush
<1>2. rows.pushed + 1 \in Nat \ {0}
  BY DEF Inv, Typed, RowIs, RowShape
<1>3. f \in Facts /\ f.kind = "push" /\ Ground(f) = {} /\ ~Names(f)
  BY <1>2, NumberedIs, FactIs DEF Numbered, Kinds, Ground, Names
<1> HIDE DEF f
<1>4. Next1(f)
  BY <1>1, <1>3 DEF Next1, Placed
<1> QED
  BY <1>1, <1>3, <1>4, SameWork

LEMMA RecordSpecTextInv ==
    ASSUME Inv, NEW p \in Procs, RecordSpecText(p)
    PROVE  Inv'
<1> DEFINE n == NextText(rows)
           f == Fact("text", n)
<1>1. Free(p) /\ rows.made /\ n \notin rows.texts /\ UNCHANGED cell /\ Commit(p, <<f>>)
  BY DEF RecordSpecText
<1>2. n \in Nat \ {0}
  <2>1. IsFiniteSet(rows.texts)
    BY DEF Inv, Typed, RowIs
  <2>2. Cardinality(rows.texts) \in Nat
    BY <2>1, FS_CardinalityType
  <2> QED
    BY <2>2 DEF NextText
<1> HIDE DEF n
<1>3. f \in Facts /\ f.kind = "text" /\ f.n = n /\ Ground(f) = {}
  BY <1>2, NumberedIs, FactIs DEF Numbered, Kinds, Ground
<1> HIDE DEF f
<1>4. Next1(f)
  BY <1>1, <1>3 DEF Next1, Placed, Held
<1> QED
  BY <1>1, <1>3, <1>4, SameWork

LEMMA RecordRebuttalInv ==
    ASSUME Inv, NEW p \in Procs, RecordRebuttal(p)
    PROVE  Inv'
<1>1. PICK i \in cell[p].findings \ rows.rebutted : Commit(p, <<Fact("rebuttal", i)>>)
  BY DEF RecordRebuttal
<1> DEFINE f == Fact("rebuttal", i)
<1>2. Free(p) /\ UNCHANGED cell /\ Typed /\ Working /\ pending[p] = <<>>
  BY DEF RecordRebuttal, Inv, Free
<1>3. /\ rows.made /\ i \in 1 .. rows.findings /\ rows.findings \in Nat
      /\ Fact("finding", i) \in Range(mirror) \union Range(<<>>)
  BY <1>2 DEF Working, NoCell, Typed, RowIs, RowShape
<1>4. i \in Nat \ {0}
  BY <1>3
<1>5. f \in Facts /\ f.kind = "rebuttal" /\ f.n = i /\ Ground(f) = {Fact("finding", i)}
  BY <1>4, NumberedIs, FactIs DEF Numbered, Kinds, Ground
<1> HIDE DEF f
<1>6. Next1(f)
  BY <1>1, <1>3, <1>5, NoneIs DEF Next1, Placed, Held
<1> QED
  BY <1>1, <1>2, <1>5, <1>6, SameWork DEF f

LEMMA OpenAttemptInv ==
    ASSUME Inv, NEW p \in Procs, OpenAttempt(p)
    PROVE  Inv'
<1> DEFINE n == 1 + Max(rows.opened \union {0})
           f == Fact("opened", n)
           facts == <<f>>
           r == After(rows, facts)
           c == [cell[p] EXCEPT !.attempt = n]
<1>1. /\ Free(p) /\ rows.made /\ Commit(p, facts) /\ cell' = [cell EXCEPT ![p].attempt = n]
      /\ Typed /\ Working /\ pending[p] = <<>>
  BY DEF OpenAttempt, Inv, Free
<1>2. n \in Nat \ {0} /\ \A m \in rows.opened : m # n
  <2>1. rows.opened \subseteq Nat \ {0} /\ IsFiniteSet(rows.opened)
    BY <1>1 DEF Typed, RowIs, RowShape
  <2>2. Max(rows.opened \union {0}) \in Nat /\ rows.opened \subseteq 1 .. Max(rows.opened \union {0})
    BY <2>1, TopIs
  <2> QED
    BY <2>2
<1> HIDE DEF n
<1>3. f \in Facts /\ f.kind = "opened" /\ f.n = n /\ Ground(f) = {}
  BY <1>2, NumberedIs, FactIs DEF Numbered, Kinds, Ground
<1> HIDE DEF f
<1>4. Next1(f)
  BY <1>1, <1>2, <1>3 DEF Next1, Placed, Held
<1>5. Fresh(p, facts) /\ Range(facts) = {f} /\ Step(rows, f, r) /\ RowIs(r)
  BY <1>1, <1>4, OneFresh
<1> HIDE DEF facts, r
<1>6. /\ r.opened = rows.opened \union {n} /\ r.closed = rows.closed /\ r.findings = rows.findings
      /\ rows.closed \subseteq rows.opened
  BY <1>1, <1>3, <1>5 DEF Step, Typed, RowIs
<1>7. \A q \in Procs :
          /\ CellIs(cell[q])
          /\ cell[q].attempt # 0 => cell[q].attempt \in rows.opened \ rows.closed
          /\ cell[q].findings \subseteq 1 .. rows.findings
          /\ \A m \in cell[q].findings : Fact("finding", m) \in Range(mirror) \union Range(pending[q])
  BY <1>1, CellStands DEF Working
<1>8. CellIs(c) /\ c.attempt = n /\ c.findings = cell[p].findings /\ cell' = [cell EXCEPT ![p] = c]
  BY <1>1, <1>2, <1>7 DEF CellIs
<1> HIDE DEF c
<1>9. Takes(p, facts, c)
  <2>1. \A q \in Procs : cell[q].attempt # n
    BY <1>2, <1>7
  <2>2. n \in r.opened \ r.closed /\ Fact("opened", n) \in Range(facts)
    BY <1>2, <1>5, <1>6 DEF f
  <2>3. c.findings \subseteq 1 .. r.findings
    BY <1>6, <1>7, <1>8
  <2>4. \A m \in c.findings : Fact("finding", m) \in Range(mirror) \union Range(facts)
    BY <1>1, <1>7, <1>8, NoneIs
  <2>5. \A q \in Procs : (q # p /\ cell[q].attempt # 0) => cell[q].attempt \notin r.closed
    BY <1>6, <1>7
  <2> QED
    BY <1>8, <2>1, <2>2, <2>3, <2>4, <2>5 DEF Takes, r
<1> QED
  BY <1>1, <1>5, <1>8, <1>9, CommitInv

LEMMA CloseAttemptInv ==
    ASSUME Inv, NEW p \in Procs, CloseAttempt(p)
    PROVE  Inv'
<1> DEFINE n == cell[p].attempt
           f == Fact("closed", n)
           facts == <<f>>
           r == After(rows, facts)
           c == [cell[p] EXCEPT !.attempt = 0]
<1>1. /\ Free(p) /\ n # 0 /\ Commit(p, facts) /\ cell' = [cell EXCEPT ![p].attempt = 0]
      /\ Typed /\ Working /\ pending[p] = <<>>
  BY DEF CloseAttempt, Inv, Free
<1>2. \A q \in Procs :
          /\ CellIs(cell[q]) /\ (cell[q] # NoCell => rows.made)
          /\ cell[q].attempt # 0 => /\ cell[q].attempt \in rows.opened \ rows.closed
                                    /\ Fact("opened", cell[q].attempt) \in Range(mirror) \union Range(pending[q])
          /\ cell[q].findings \subseteq 1 .. rows.findings
          /\ \A m \in cell[q].findings : Fact("finding", m) \in Range(mirror) \union Range(pending[q])
          /\ \A b \in Procs : (b # q /\ cell[q].attempt # 0) => cell[b].attempt # cell[q].attempt
  BY <1>1, CellStands DEF Working
<1>3. CellIs(c) /\ c.attempt = 0 /\ c.findings = cell[p].findings /\ cell' = [cell EXCEPT ![p] = c]
  BY <1>1, <1>2 DEF CellIs
<1>4. n \in Nat \ {0} /\ rows.made /\ n \in rows.opened \ rows.closed /\ Fact("opened", n) \in Range(mirror)
  BY <1>1, <1>2, NoneIs DEF CellIs, NoCell
<1>5. \A q \in Procs : q # p => cell[q].attempt # n
  BY <1>1, <1>2
<1> HIDE DEF n, c
<1>6. f \in Facts /\ f.kind = "closed" /\ f.n = n /\ Ground(f) = {Fact("opened", n)}
  BY <1>4, NumberedIs, FactIs DEF Numbered, Kinds, Ground
<1> HIDE DEF f
<1>7. Next1(f)
  BY <1>4, <1>6 DEF Next1, Placed, Held
<1>8. Fresh(p, facts) /\ Range(facts) = {f} /\ Step(rows, f, r) /\ RowIs(r)
  BY <1>1, <1>7, OneFresh
<1> HIDE DEF facts, r
<1>9. r.closed = rows.closed \union {n} /\ r.findings = rows.findings
  BY <1>6, <1>8 DEF Step
<1>10. Takes(p, facts, c)
  <2>1. c.findings \subseteq 1 .. r.findings
    BY <1>2, <1>3, <1>9
  <2>2. \A m \in c.findings : Fact("finding", m) \in Range(mirror) \union Range(facts)
    BY <1>1, <1>2, <1>3, NoneIs
  <2>3. \A q \in Procs : (q # p /\ cell[q].attempt # 0) => cell[q].attempt \notin r.closed
    BY <1>2, <1>5, <1>9
  <2> QED
    BY <1>3, <2>1, <2>2, <2>3 DEF Takes, r
<1> QED
  BY <1>1, <1>3, <1>8, <1>10, CommitInv
(* The findings of one review, numbered on from the rows'.                 *)
Finds(k) == [i \in 1 .. k |-> Fact("finding", rows.findings + i)]

LEMMA FindsFresh ==
    ASSUME Typed, rows.made, NEW p \in Procs, NEW k \in 1 .. 2
    PROVE  /\ Fresh(p, Finds(k)) /\ RowIs(After(rows, Finds(k)))
           /\ After(rows, Finds(k)).closed = rows.closed
           /\ rows.opened \subseteq After(rows, Finds(k)).opened
           /\ After(rows, Finds(k)).findings = rows.findings + k
           /\ \A n \in rows.findings + 1 .. rows.findings + k : Fact("finding", n) \in Range(Finds(k))
<1> DEFINE s == Finds(k)
           r == After(rows, s)
           n == rows.findings
           f == Fact("finding", n + 1)
           g == Fact("finding", n + 2)
           x == Apply(rows, f)
           y == Apply(x, g)
<1>1. RowIs(rows) /\ rows \in RowShape /\ rows.read = "ok" /\ n \in Nat
  BY DEF Typed, RowIs, RowShape
<1>2. /\ f \in Facts /\ f.kind = "finding" /\ f.n = n + 1
      /\ g \in Facts /\ g.kind = "finding" /\ g.n = n + 2
  <2>1. n + 1 \in Nat \ {0} /\ n + 2 \in Nat \ {0} /\ "finding" \in Numbered
    BY <1>1 DEF Numbered, Kinds
  <2> QED
    BY <2>1, NumberedIs, FactIs
<1>3. Step(rows, f, x) /\ x \in RowShape
  BY <1>1, <1>2, Applied, ApplyShape DEF Placed
<1> HIDE DEF x
<1>4. /\ x.made /\ x.read = "ok" /\ x.findings = n + 1 /\ x.closed = rows.closed /\ x.opened = rows.opened
  BY <1>2, <1>3 DEF Step
<1>5. Step(x, g, y)
  <2>1. Placed(x, g)
    <3>1. n + 2 = n + 1 + 1
      BY <1>1
    <3> QED
      BY <1>2, <1>4, <3>1 DEF Placed
  <2> QED
    BY <1>2, <1>3, <1>4, <2>1, Applied
<1> HIDE DEF y
<1>6. /\ y.made /\ y.read = "ok" /\ y.findings = n + 2 /\ y.closed = rows.closed /\ y.opened = rows.opened
  BY <1>2, <1>4, <1>5 DEF Step
<1>7. /\ s \in Seq(Facts) /\ Len(s) = k /\ DOMAIN s = 1 .. k
      /\ \A i \in 1 .. k : s[i] = Fact("finding", n + i) /\ s[i] \in Facts
  <2>1. \A i \in 1 .. k : Fact("finding", n + i) \in Facts
    <3>1. \A i \in 1 .. k : n + i \in Nat \ {0}
      BY <1>1
    <3> QED
      BY <3>1, NumberedIs DEF Numbered, Kinds
  <2> QED
    BY <2>1 DEF Finds
<1>8. /\ r.made /\ r.read = "ok" /\ r.findings = n + k /\ r.closed = rows.closed
      /\ rows.opened \subseteq r.opened
  <2>1. CASE k = 1
    <3>1. s = <<f>>
      BY <1>7, <2>1
    <3>2. r = x
      BY <1>1, <1>2, <3>1, AfterOne DEF x
    <3> QED
      BY <1>4, <2>1, <3>2
  <2>2. CASE k = 2
    <3>1. <<f>> \in Seq(Facts)
      BY <1>2
    <3>2. s = Append(<<f>>, g)
      <4>1. s[1] = f /\ s[2] = g
        BY <1>7, <2>2
      <4>2. s = <<f, g>>
        <5> HIDE DEF s, f, g
        <5> QED
          BY <1>7, <2>2, <4>1
      <4> QED
        BY <4>2
    <3>3. After(rows, <<f>>) = x
      BY <1>1, <1>2, AfterOne DEF x
    <3>4. r = y
      BY <1>1, <1>2, <3>1, <3>2, <3>3, AfterLast DEF y
    <3> QED
      BY <1>6, <2>2, <3>4
  <2> QED
    BY <2>1, <2>2
<1> HIDE DEF r, s
<1>9. RowIs(r)
  BY <1>1, <1>7, <1>8, AfterHolds DEF r
<1>10. Distinct(s)
  <2>1. ASSUME NEW i \in 1 .. k, NEW j \in 1 .. k, i # j PROVE s[i] # s[j]
    <3>1. n + i # n + j
      BY <1>1, <2>1
    <3> QED
      BY <1>7, <3>1, FactIs
  <2> QED
    BY <1>7, <2>1 DEF Distinct
<1>11. ASSUME NEW i \in 1 .. k
       PROVE  ~Held(rows, s[i]) /\ Ground(s[i]) = {} /\ s[i].kind # "created"
  <2>1. s[i].kind = "finding" /\ s[i].n = n + i
    BY <1>7, FactIs
  <2>2. ~(n + i <= n)
    BY <1>1
  <2> QED
    BY <2>1, <2>2 DEF Held, Ground
<1>12. Fresh(p, s)
  BY <1>7, <1>8, <1>10, <1>11 DEF Fresh, r
<1>13. ASSUME NEW m \in n + 1 .. n + k PROVE Fact("finding", m) \in Range(s)
  <2>1. PICK i \in 1 .. k : m = n + i
    <3>1. m - n \in 1 .. k /\ m = n + (m - n)
      BY <1>1
    <3> QED
      BY <3>1
  <2>2. i \in DOMAIN s /\ s[i] = Fact("finding", m)
    BY <1>7, <2>1
  <2> QED
    BY <2>2 DEF Range
<1> QED
  BY <1>8, <1>9, <1>12, <1>13 DEF r, s

LEMMA RecordFindingsInv ==
    ASSUME Inv, NEW p \in Procs, RecordFindings(p)
    PROVE  Inv'
<1>1. PICK k \in 1 .. 2 :
         /\ Commit(p, Finds(k))
         /\ cell' = [cell EXCEPT ![p].findings = rows.findings + 1 .. rows.findings + k]
  BY DEF RecordFindings, Finds
<1>2. Free(p) /\ rows.made /\ Typed /\ Working /\ pending[p] = <<>> /\ rows.findings \in Nat
  BY DEF RecordFindings, Free, Inv, Typed, RowIs, RowShape
<1> DEFINE facts == Finds(k)
           r == After(rows, facts)
           new == rows.findings + 1 .. rows.findings + k
           c == [cell[p] EXCEPT !.findings = new]
<1>3. /\ Fresh(p, facts) /\ r.closed = rows.closed /\ rows.opened \subseteq r.opened
      /\ r.findings = rows.findings + k
      /\ \A n \in new : Fact("finding", n) \in Range(facts)
  BY <1>2, FindsFresh
<1> HIDE DEF facts, r
<1>4. \A q \in Procs :
          /\ CellIs(cell[q])
          /\ cell[q].attempt # 0 => /\ cell[q].attempt \in rows.opened \ rows.closed
                                    /\ Fact("opened", cell[q].attempt) \in Range(mirror) \union Range(pending[q])
          /\ \A b \in Procs : (b # q /\ cell[q].attempt # 0) => cell[b].attempt # cell[q].attempt
  BY <1>2, CellStands DEF Working
<1>5. new \subseteq Nat \ {0} /\ new \subseteq 1 .. rows.findings + k
  BY <1>2
<1> HIDE DEF new
<1>6. CellIs(c) /\ c.attempt = cell[p].attempt /\ c.findings = new /\ cell' = [cell EXCEPT ![p] = c]
  BY <1>1, <1>2, <1>4, <1>5 DEF CellIs, new
<1> HIDE DEF c
<1>7. Takes(p, facts, c)
  BY <1>2, <1>3, <1>4, <1>5, <1>6, NoneIs DEF Takes, r
<1> QED
  BY <1>1, <1>2, <1>3, <1>6, <1>7, CommitInv DEF facts
-----------------------------------------------------------------------------
(* Every step keeps the invariant, and the origin's ref only grows.        *)

LEMMA WriteInv ==
    ASSUME Inv, NEW p \in Procs, Write(p)
    PROVE  Inv' /\ origin' = origin
<1>1. Inv'
  BY CreateTaskInv, SetTaskStateInv, OpenAttemptInv, CloseAttemptInv, RecordFindingsInv,
     RecordRebuttalInv, RecordSpecTextInv, RecordPushInv DEF Write
<1>2. origin' = origin
  BY DEF Write, CreateTask, SetTaskState, OpenAttempt, CloseAttempt, RecordFindings,
     RecordRebuttal, RecordSpecText, RecordPush, Commit
<1> QED
  BY <1>1, <1>2

LEMMA PushedOn ==
    ASSUME Typed, Pushed
    PROVE  IsPrefix(origin, origin')
  BY PrefixSelf DEF Typed, Pushed

(* The inductive invariant, of any number of commands.                     *)
THEOREM Inductive == Inv /\ [Next]_vars => Inv' /\ IsPrefix(origin, origin')
<1> SUFFICES ASSUME Inv, [Next]_vars PROVE Inv' /\ IsPrefix(origin, origin')
  OBVIOUS
<1>1. Typed /\ origin \in Seq(Facts)
  BY DEF Inv, Typed
<1>2. origin' = origin => IsPrefix(origin, origin')
  BY <1>1, PrefixSelf
<1>3. ASSUME NEW p \in Procs, Write(p) PROVE Inv' /\ IsPrefix(origin, origin')
  BY <1>2, <1>3, WriteInv
<1>4. ASSUME NEW p \in Procs, AppendFact(p) PROVE Inv' /\ IsPrefix(origin, origin')
  BY <1>2, <1>4, AppendFactInv DEF AppendFact
<1>5. ASSUME NEW p \in Procs, AppendRaises(p) PROVE Inv' /\ IsPrefix(origin, origin')
  BY <1>2, <1>5, AppendRaisesInv DEF AppendRaises
<1>6. ASSUME NEW p \in Procs, PushRecord(p) PROVE Inv' /\ IsPrefix(origin, origin')
  BY <1>1, <1>6, PushRecordInv, PushedOn DEF PushRecord
<1>7. ASSUME NEW p \in Procs, Start(p) PROVE Inv' /\ IsPrefix(origin, origin')
  BY <1>2, <1>7, StartInv DEF Start
<1>8. ASSUME NEW p \in Procs, Exit(p) PROVE Inv' /\ IsPrefix(origin, origin')
  BY <1>1, <1>2, <1>8, ExitInv, PushedOn DEF Exit
<1>9. ASSUME NEW p \in Procs, Crash(p) PROVE Inv' /\ IsPrefix(origin, origin')
  BY <1>2, <1>9, CrashInv DEF Crash
<1>10. CASE EnsureMirror \/ UNCHANGED vars
  BY <1>2, <1>10, EnsureMirrorInv DEF EnsureMirror, vars
<1>11. CASE LoseMirror
  BY <1>2, <1>11, LoseMirrorInv DEF LoseMirror
<1>12. CASE Elsewhere
  BY <1>12, ElsewhereInv
<1>13. CASE LoseLedgerAndFold
  BY <1>2, <1>13, LoseLedgerInv DEF LoseLedgerAndFold
<1>14. CASE Migrate
  BY <1>14, MigrateInv
<1> QED
  BY <1>3, <1>4, <1>5, <1>6, <1>7, <1>8, <1>9, <1>10, <1>11, <1>12, <1>13, <1>14 DEF Next

LEMMA Always == Spec => []Inv
<1>1. Inv /\ [Next]_vars => Inv'
  BY Inductive
<1> QED
  BY InitInv, <1>1, PTL DEF Spec

(* Nothing the task's rows or its commands hold is ever out of shape: an   *)
(* attempt is closed only once opened, a rebuttal answers a finding there  *)
(* is, and only a running command has facts to append or work open.        *)
THEOREM TypeCorrect == Spec => []TypeOK
<1>1. Inv => TypeOK
  BY DEF Inv, Typed, TypeOK, RowIs, RowShape
<1> QED
  BY <1>1, Always, PTL

(* main pushes what its command appended before the command is gone: with  *)
(* none running, a fact of the mirror's that the origin lacks was refused  *)
(* a push or its command was killed.                                       *)
THEOREM NothingUnpushed == Spec => []ExitLeavesNothingUnpushed
<1>1. Inv => ExitLeavesNothingUnpushed
  BY DEF Inv, Typed, Unpushed, ExitLeavesNothingUnpushed
<1> QED
  BY <1>1, Always, PTL

(* What migrate calls migrated folds to the rows it read, whatever ref it  *)
(* found and topped up, and still does until something else moves.         *)
THEOREM MigratedFolds == Spec => []MigratedIsWholeButForThePush
<1>1. Inv => MigratedIsWholeButForThePush
  BY DEF Inv, MigratedWhole, MigratedIsWholeButForThePush
<1> QED
  BY <1>1, Always, PTL

(* A ref opens on its task's creation, names nothing twice, and no push,   *)
(* migration or other host rewinds the origin's.                           *)
THEOREM RefsAreHistories == Spec => RefIsAHistory
<1> DEFINE First == mirror # <<>> => Head(mirror).kind = "created"
           Second == origin # <<>> => Head(origin).kind = "created"
           Third == \A i, j \in 1 .. Len(mirror) :
                       (i # j /\ mirror[i].kind = mirror[j].kind /\ mirror[i].n = mirror[j].n)
                           => mirror[i].kind \in {"state", "push"}
           Grows == IsPrefix(origin, origin')
<1>1. Inv => First /\ Second
  <2> SUFFICES ASSUME Inv PROVE First /\ Second
    OBVIOUS
  <2>1. mirror \in Seq(Facts) /\ origin \in Seq(Facts) /\ Opens(mirror) /\ Opens(origin)
    BY DEF Inv, Typed, Refs
  <2>2. \A s \in Seq(Facts) : s # <<>> => Head(s) = s[1]
    OBVIOUS
  <2> QED
    BY <2>1, <2>2 DEF Opens
<1>2. Inv => Third
  <2> SUFFICES ASSUME Inv, NEW i \in 1 .. Len(mirror), NEW j \in 1 .. Len(mirror), i # j,
                      mirror[i].kind = mirror[j].kind, mirror[i].n = mirror[j].n
               PROVE  mirror[i].kind \in {"state", "push"}
    OBVIOUS
  <2>1. mirror \in Seq(Facts) /\ Distinct(mirror)
    BY DEF Inv, Typed, Refs
  <2>2. i \in DOMAIN mirror /\ j \in DOMAIN mirror /\ mirror[i] \in Facts /\ mirror[j] \in Facts
    BY <2>1
  <2>3. mirror[i] = mirror[j]
    BY <2>2, FactsAre DEF FactOf
  <2> QED
    BY <2>1, <2>2, <2>3 DEF Distinct, Names
<1>3. Inv /\ [Next]_vars => [Grows]_vars
  BY Inductive
<1> HIDE DEF First, Second, Third, Grows
<1>4. Spec => []First /\ []Second /\ []Third
  BY <1>1, <1>2, Always, PTL
<1>5. Spec => [][Grows]_vars
  BY <1>3, Always, PTL DEF Spec
<1> QED
  BY <1>4, <1>5 DEF RefIsAHistory, First, Second, Third, Grows
-----------------------------------------------------------------------------
(* Nothing is lost of a task that one command writes.                      *)

LEMMA AfterShape ==
    ASSUME NEW row \in RowShape, NEW s \in Seq(Facts)
    PROVE  After(row, s) \in RowShape
<1>1. PICK g : StepsFrom(g, row, s) /\ After(row, s) = g[Len(s)]
  BY AfterIs
<1>2. Len(s) \in 0 .. Len(s)
  OBVIOUS
<1> QED
  BY <1>1, <1>2 DEF StepsFrom

LEMMA FoldedIs ==
    ASSUME NEW s \in Seq(Facts)
    PROVE  Folded(s) \in RowShape
  BY NoRowIs, AfterShape DEF Folded, RowIs

(* A ref that agrees with the rows and folds to them is owed nothing.      *)
LEMMA OwedNothing ==
    ASSUME NEW row, Made(row), NEW o, RefIs(o), Agrees(o, FactsFor(row)), Folded(o) = row
    PROVE  o \o TopUp(o, row) = o
<1>1. o \in Seq(Facts) /\ o # <<>> /\ RowIs(row) /\ row.findings \in Nat
  BY AgreesTells DEF RefIs, Made, RowIs, RowShape
<1>2. PICK k : FirstFindings(o, row, k)
  BY <1>1, AgreesTells
<1>3. Numbering(o)
  <2> DEFINE t == OfKind(o, "finding")
  <2>1. t \in Seq(Facts) /\ Len(t) = k /\ \A j \in 1 .. k : t[j].n = j
    BY <1>1, <1>2, OfKindIn DEF FirstFindings
  <2> HIDE DEF t
  <2>2. \A j \in DOMAIN t : t[j].n = j
    BY <2>1
  <2> QED
    BY <2>2 DEF Numbering, t
<1>4. Readable(o)
  BY <1>1, <1>3 DEF Readable, RefIs, Opens
<1>5. Told(o, row)
  BY <1>4, ReadableFolds
<1>6. k = row.findings
  BY <1>2, <1>5 DEF Told, FirstFindings
<1>7. \A n \in 1 .. row.findings : Fact("finding", n) \in Range(o)
  BY <1>1, <1>2, <1>6 DEF FirstFindings
<1>8. RowFacts(row) \subseteq Range(o)
  <2>1. ASSUME NEW f \in RowFacts(row) PROVE f \in Range(o)
    BY <1>5, <1>7, RowFactsAre DEF Told
  <2> QED
    BY <2>1
<1> DEFINE e == Owed(row, Range(o))
<1>9. e \in Seq(Facts) /\ Range(e) = {}
  <2>1. Adds(e, Range(o), RowFacts(row))
    BY <1>1, OwedIs
  <2> HIDE DEF e
  <2> QED
    BY <1>8, <2>1 DEF Adds, Sound
<1>10. e = <<>>
  <2> HIDE DEF e
  <2>1. DOMAIN e = {}
    BY <1>9 DEF Range
  <2>2. Len(e) = 0
    BY <1>9, <2>1
  <2> QED
    BY <1>9, <2>2, EmptySeq
<1>11. TopUp(o, row) = e \o (IF RecordState(o \o e) # row.state THEN <<Fact("state", row.state)>> ELSE <<>>)
  BY DEF TopUp, Owed
<1> HIDE DEF e
<1>12. o \o e = o /\ o \o <<>> = o /\ <<>> \o <<>> = <<>>
  BY <1>1, <1>10, ConcatEmptySeq
<1>13. RecordState(o) = row.state
  BY <1>5 DEF Told
<1>14. TopUp(o, row) = <<>>
  BY <1>10, <1>11, <1>12, <1>13
<1> QED
  BY <1>12, <1>14

LEMMA KeptInit == Init => Kept
<1> SUFFICES ASSUME Init PROVE Kept
  OBVIOUS
<1>1. rows = NoRow /\ Ref = <<>> /\ \A p \in Procs : pending[p] = <<>>
  BY DEF Init, Ref
<1>2. Folded(<<>>) = NoRow
  BY NoRowIs, AfterNone DEF Folded, RowIs
<1> QED
  BY <1>1, <1>2 DEF Kept

(* Steps that leave the ref, the rows and what is pending as they are.     *)
LEMMA KeptStays ==
    ASSUME Kept, ~diverged' => ~diverged /\ Ref' = Ref /\ rows' = rows
                                /\ \A p \in Procs : pending'[p] = pending[p]
    PROVE  Kept'
<1> SUFFICES ASSUME ~diverged'
             PROVE  /\ Idle' => Folded(Ref') = rows'
                    /\ \A p \in Procs : pending'[p] # <<>> => After(Folded(Ref'), pending'[p]) = rows'
  BY DEF Kept
<1>1. ~diverged /\ Ref' = Ref /\ rows' = rows /\ \A p \in Procs : pending'[p] = pending[p]
  OBVIOUS
<1>2. Idle' = Idle
  BY <1>1 DEF Idle
<1> QED
  BY <1>1, <1>2 DEF Kept

LEMMA KeptWrite ==
    ASSUME OneCommand, Typed, Kept, NEW p \in Procs, NEW facts, facts # <<>>, Free(p), Commit(p, facts)
    PROVE  Kept'
<1>1. /\ pending[p] = <<>> /\ rows' = After(rows, facts) /\ pending' = [pending EXCEPT ![p] = facts]
      /\ UNCHANGED <<mirror, origin, diverged>> /\ pending'[p] = facts
  BY DEF Commit, Free, Typed
<1>2. Idle /\ Ref' = Ref /\ ~Idle'
  BY <1>1 DEF OneCommand, Idle, Ref
<1>3. \A q \in Procs : pending'[q] = facts
  BY <1>1 DEF OneCommand
<1> SUFFICES ASSUME ~diverged
             PROVE  \A q \in Procs : pending'[q] # <<>> => After(Folded(Ref'), pending'[q]) = rows'
  BY <1>1, <1>2 DEF Kept
<1>4. Folded(Ref) = rows
  BY <1>2 DEF Kept
<1> QED
  BY <1>1, <1>2, <1>3, <1>4

LEMMA KeptWrites ==
    ASSUME OneCommand, Typed, Kept, NEW p \in Procs, Write(p)
    PROVE  Kept'
<1>1. ASSUME NEW f, Free(p), Commit(p, <<f>>) PROVE Kept'
  <2>1. <<f>> # <<>>
    OBVIOUS
  <2> QED
    BY <1>1, <2>1, KeptWrite
<1>2. ASSUME RecordFindings(p) PROVE Kept'
  <2>1. PICK k \in 1 .. 2 : Commit(p, [i \in 1 .. k |-> Fact("finding", rows.findings + i)])
    BY <1>2 DEF RecordFindings
  <2> DEFINE s == [i \in 1 .. k |-> Fact("finding", rows.findings + i)]
  <2>2. s # <<>>
    <3>1. 1 \in DOMAIN s /\ DOMAIN <<>> = {}
      OBVIOUS
    <3> QED
      BY <3>1
  <2> HIDE DEF s
  <2> QED
    BY <1>2, <2>1, <2>2, KeptWrite DEF RecordFindings, s
<1>3. CASE CreateTask(p)
  BY <1>1, <1>3 DEF CreateTask
<1>4. CASE SetTaskState(p)
  BY <1>1, <1>4 DEF SetTaskState
<1>5. CASE OpenAttempt(p)
  BY <1>1, <1>5 DEF OpenAttempt
<1>6. CASE CloseAttempt(p)
  BY <1>1, <1>6 DEF CloseAttempt
<1>7. CASE RecordRebuttal(p)
  BY <1>1, <1>7 DEF RecordRebuttal
<1>8. CASE RecordSpecText(p)
  BY <1>1, <1>8 DEF RecordSpecText
<1>9. CASE RecordPush(p)
  BY <1>1, <1>9 DEF RecordPush
<1> QED
  BY <1>2, <1>3, <1>4, <1>5, <1>6, <1>7, <1>8, <1>9 DEF Write

LEMMA KeptAppend ==
    ASSUME OneCommand, Inv, Kept, NEW p \in Procs, AppendFact(p)
    PROVE  Kept'
<1> DEFINE f == Head(pending[p])
           t == Tail(pending[p])
<1>1. PICK ref \in Recovered(f) : mirror' = Append(ref, f)
  BY DEF AppendFact
<1>2. Typed /\ Refs /\ Waiting /\ pending[p] # <<>> /\ pending[p] \in Seq(Facts)
  BY DEF Inv, AppendFact, Typed
<1>3. f = pending[p][1] /\ f \in Facts /\ 1 \in DOMAIN pending[p] /\ t \in Seq(Facts)
  BY <1>2, HeadIs
<1>4. rows' = rows /\ diverged' = diverged /\ pending'[p] = t /\ \A q \in Procs : q = p
  BY <1>2 DEF AppendFact, OneCommand, Typed
<1> HIDE DEF t
<1>5. ref = Ref
  <2>1. f.kind = "created" => mirror = <<>> /\ origin = <<>>
    BY <1>2, <1>3 DEF Waiting
  <2> HIDE DEF f
  <2> QED
    BY <1>1, <2>1 DEF Recovered, Ref
<1>6. Ref \in Seq(Facts) /\ Folded(Ref) \in RowShape
  <2>1. Ref \in Seq(Facts)
    BY <1>2 DEF Ref, Typed
  <2> QED
    BY <2>1, FoldedIs
<1>7. Ref' = Append(Ref, f)
  BY <1>1, <1>3, <1>5, <1>6 DEF Ref
<1>8. Folded(Ref') = Apply(Folded(Ref), f)
  BY <1>3, <1>6, <1>7, AfterLast, NoRowIs DEF Folded, RowIs
<1>9. After(Folded(Ref), pending[p]) = After(Apply(Folded(Ref), f), t)
  BY <1>2, <1>6, AfterFirst DEF t
<1> SUFFICES ASSUME ~diverged
             PROVE  /\ Idle' => Folded(Ref') = rows
                    /\ \A q \in Procs : pending'[q] # <<>> => After(Folded(Ref'), pending'[q]) = rows
  BY <1>4 DEF Kept
<1>10. After(Folded(Ref'), t) = rows
  BY <1>2, <1>8, <1>9 DEF Kept
<1>11. Apply(Folded(Ref), f) \in RowShape
  BY <1>3, <1>6, ApplyShape
<1>12. t = <<>> => Folded(Ref') = rows
  BY <1>8, <1>10, <1>11, AfterNone
<1> QED
  BY <1>4, <1>10, <1>12 DEF Idle

LEMMA KeptMigrate ==
    ASSUME Inv, Kept, Migrate
    PROVE  Kept'
<1>1. /\ up = {} /\ rows.made /\ mirror' = Migrated(rows)
      /\ origin' = mirror' \/ origin' = origin
      /\ diverged' = (diverged \/ mirror # origin) /\ UNCHANGED <<rows, pending>>
  BY DEF Migrate
<1>2. Typed /\ Refs
  BY DEF Inv
<1>3. RefIs(mirror) /\ RefIs(origin) /\ Made(rows) /\ Idle
  BY <1>1, <1>2, RefsAre, NobodyIs DEF Made, Typed, Idle
<1>4. ASSUME ~diverged' PROVE ~diverged /\ Ref' = Ref
  <2>1. ~diverged /\ mirror = origin /\ Folded(origin) = rows
    BY <1>1, <1>3, <1>4 DEF Kept, Ref
  <2>2. origin # <<>>
    <3>1. Folded(<<>>) = NoRow
      BY NoRowIs, AfterNone DEF Folded, RowIs
    <3> QED
      BY <1>1, <2>1, <3>1, NoRowIs
  <2>3. mirror' = origin
    BY <1>1, <1>3, <2>1, <2>2, OwedNothing DEF Migrated
  <2> QED
    BY <1>1, <2>1, <2>2, <2>3 DEF Ref
<1> QED
  BY <1>1, <1>4, KeptStays

LEMMA KeptStep ==
    ASSUME OneCommand, Inv, Kept, [Next]_vars
    PROVE  Kept'
<1>1. Typed
  BY DEF Inv
<1>2. ASSUME NEW p \in Procs, AppendRaises(p) PROVE Kept'
  BY <1>2 DEF AppendRaises, Kept
<1>3. ASSUME NEW p \in Procs, PushRecord(p) PROVE Kept'
  <2>1. UNCHANGED <<rows, mirror, pending, diverged>> /\ ((origin' = mirror /\ mirror # <<>>) \/ origin' = origin)
    BY <1>3 DEF PushRecord, Pushed
  <2> QED
    BY <2>1, KeptStays DEF Ref
<1>4. ASSUME NEW p \in Procs, Start(p) PROVE Kept'
  BY <1>4, KeptStays DEF Start, Ref
<1>5. ASSUME NEW p \in Procs, Exit(p) PROVE Kept'
  <2>1. UNCHANGED <<rows, mirror, pending, diverged>> /\ ((origin' = mirror /\ mirror # <<>>) \/ origin' = origin)
    BY <1>5 DEF Exit, Pushed
  <2> QED
    BY <2>1, KeptStays DEF Ref
<1>6. ASSUME NEW p \in Procs, Crash(p) PROVE Kept'
  <2>1. /\ UNCHANGED <<rows, mirror, origin>> /\ diverged' = (diverged \/ pending[p] # <<>>)
        /\ pending' = [pending EXCEPT ![p] = <<>>]
    BY <1>6 DEF Crash
  <2>2. ~diverged' => \A q \in Procs : pending'[q] = pending[q]
    BY <1>1, <2>1 DEF Typed
  <2> QED
    BY <2>1, <2>2, KeptStays DEF Ref
<1>7. CASE EnsureMirror \/ UNCHANGED vars
  BY <1>7, KeptStays DEF EnsureMirror, vars, Ref
<1>8. CASE LoseMirror
  <2>1. /\ UNCHANGED <<rows, origin, pending>> /\ diverged' = (diverged \/ mirror # origin)
        /\ mirror' = <<>>
    BY <1>8 DEF LoseMirror
  <2> QED
    BY <2>1, KeptStays DEF Ref
<1>9. CASE Elsewhere
  BY <1>9 DEF Elsewhere, Kept
<1>10. CASE LoseLedgerAndFold
  <2> DEFINE row == Folded(mirror)
  <2>1. /\ up = {} /\ mirror # <<>> /\ diverged' = ~(row.read = "ok" /\ row.made)
        /\ rows' = IF row.read = "ok" /\ row.made THEN row ELSE NoRow
        /\ UNCHANGED <<mirror, origin, pending>>
    BY <1>10 DEF LoseLedgerAndFold
  <2>2. \A p \in Procs : pending'[p] = <<>>
    BY <1>1, <2>1, NobodyIs
  <2>3. Ref' = mirror
    BY <2>1 DEF Ref
  <2> HIDE DEF row
  <2>4. ~diverged' => rows' = row
    BY <2>1
  <2> QED
    BY <2>2, <2>3, <2>4 DEF Kept, row
<1> QED
  BY <1>1, <1>2, <1>3, <1>4, <1>5, <1>6, <1>7, <1>8, <1>9, <1>10, KeptWrites, KeptAppend, KeptMigrate
     DEF Next

(* While one command writes the task, and nothing has gone wrong between   *)
(* its ledger and its record, what is committed is what the ref folds to:  *)
(* after lost mirrors, rebuilt ledgers, refused pushes and migrations too. *)
THEOREM NothingLost ==
    ASSUME OneCommand
    PROVE  Spec => []NothingLostRebuilds
<1>1. Init => Inv /\ Kept
  BY InitInv, KeptInit
<1>2. Inv /\ Kept /\ [Next]_vars => (Inv /\ Kept)'
  BY KeptStep, Inductive
<1>3. Inv /\ Kept => NothingLostRebuilds
  BY DEF Kept, Ref, NothingLostRebuilds, Whole
<1> QED
  BY <1>1, <1>2, <1>3, PTL DEF Spec
=============================================================================
