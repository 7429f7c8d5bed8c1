----------------------------- MODULE NightProofs -----------------------------
(***************************************************************************)
(* What holds of every night of `saffron batch`, whatever the repository,  *)
(* the prices, the operator and the cells run beside it.  NightInv is      *)
(* inductive.  From it follow that every run is counted, that a live row   *)
(* is left alone, that a night which drained was sound, and that a night   *)
(* implements Batch; and, from what the last two sections add to it, that  *)
(* of two specs a removal sets against each other one waits alone, and     *)
(* that a child is cut over its open parents.                              *)
(***************************************************************************)
EXTENDS Night, SequenceTheorems, FiniteSetTheorems, WellFoundedInduction, TLAPS

Statuses == {"RUNNING", "COMPLETE", "ABORTED"}
Run      == [batch : Nat, cost : Nat, status : Statuses, by : Nat]

RowFields      == {"id", "spec", "text", "state", "pushed", "pushedIn", "pr", "tree"}
DriveFields    == {"started", "pending", "aborts", "inFlight", "unpackaged", "highWater"}
AttendedFields == {"at", "spec", "row"}

IsSeq(q) == q \in Seq({q[i] : i \in DOMAIN q})

IsRow(r) == /\ DOMAIN r = RowFields /\ r = [f \in RowFields |-> r[f]]
            /\ r.spec \in Ids
            /\ r.pr # 0 => r.pushed # 0

IsDrive(d) == /\ DOMAIN d = DriveFields
              /\ d.pending \subseteq Ids
              /\ d.aborts \in Nat /\ d.highWater \in Nat

IsAttended(a) == /\ DOMAIN a = AttendedFields
                 /\ a.at \in {"none", "asked", "cell"}
                 /\ a.at = "asked" => a.spec \in Ids

Closed == {"DRAINED", "BUDGET", "UNTIL", "INFRASTRUCTURE", "INCOMPLETE"}

Shape ==
    /\ repo \in Repos
    /\ "live" \in DOMAIN main /\ main.live \subseteq Ids /\ base.live \subseteq Ids
    /\ pc \in {"idle", "reconcile", "scan", "loop", "cell"}
    /\ batches \in Seq({"open"} \union Closed)
    /\ runs \in Seq(Run)
    /\ IsSeq(rows) /\ Len(rows) = Len(runs) /\ \A i \in 1 .. Len(rows) : IsRow(rows[i])
    /\ IsSeq(commits) /\ IsSeq(prs)
    /\ IsDrive(drive)
    /\ cell \in Nat
    /\ IsAttended(attended)

(* The rows and runs that the night and the cell beside it work on.        *)
Places ==
    /\ pc = "idle" => drive.started = {}
    /\ pc = "cell" <=> cell # 0
    /\ pc = "cell" => /\ cell \in 1 .. Len(runs)
                      /\ runs[cell].by = Tonight /\ runs[cell].batch = 0
                      /\ runs[cell].cost = 0 /\ drive.started # {}
    /\ Running => Tonight # 0 /\ batches[Tonight] = "open"
    /\ attended.at = "cell" => /\ attended.row \in 1 .. Len(runs)
                               /\ runs[attended.row].by = 0
                               /\ rows[attended.row].state \in {"IMPLEMENTING", "ORPHANED"}
    /\ \A i \in 1 .. Len(runs) : runs[i].by <= Tonight

(* The runs of the night whose cells are done.                             *)
Done == NightRuns \ {cell}

Counted ==
    /\ Running => \A i \in Done : runs[i].batch = Tonight
    /\ pc = "cell" => drive.highWater < cell /\ \A i \in Done : i <= drive.highWater

(* What the cell that runs may still cost was held back for it.            *)
Funded == pc = "cell" => Cost(NightRuns) + Declared(rows[cell].spec).budget <= Budget

InFlightAt(i)   == rows[i].state \in InFlightStates

(* What the loop keeps of the cells it ran covers what their rows say.     *)
Standing ==
    Running => \A i \in Done : /\ InFlightAt(i) => rows[i].spec \in drive.inFlight
                               /\ Unpackaged(i) => rows[i].spec \in drive.unpackaged

LastOf(i, S) == i \in S /\ \A j \in S : j <= i

Breaks ==
    Running => /\ \A i \in Done : LastOf(i, Done) /\ Aborted(i) => drive.aborts >= 1
               /\ \A i, k \in Done :
                     LastOf(i, Done) /\ LastOf(k, Done \ {i}) /\ Aborted(i) /\ Aborted(k)
                        => drive.aborts >= 2

NightInv == Shape /\ Places /\ Counted /\ Funded /\ Standing /\ Breaks
-----------------------------------------------------------------------------
(* Least and greatest elements, and the first spec in the queue's order.   *)

LEMMA LeastIs ==
    ASSUME NEW S, S \subseteq Nat, S # {}
    PROVE  \E x \in S : \A y \in S : x <= y
<1>1. PICK n \in S : TRUE
  OBVIOUS
<1> DEFINE T == {0 .. i : i \in {i \in S : i <= n}}
<1>2. T # {} /\ T \subseteq SUBSET (0 .. n)
  BY <1>1
<1>3. IsFiniteSet(0 .. n)
  BY <1>1, FS_Interval
<1>4. IsWellFoundedOn(StrictSubsetOrdering(0 .. n), SUBSET (0 .. n))
  BY <1>3, FS_StrictSubsetOrderingWellFounded, FS_FiniteSubsetsOfFinite
<1>5. PICK m \in T : \A y \in T : ~ (<<y, m>> \in StrictSubsetOrdering(0 .. n))
  BY <1>2, <1>4, WFMin
<1>6. PICK x \in S : x <= n /\ m = 0 .. x
  OBVIOUS
<1>7. ASSUME NEW y \in S, ~(x <= y)
      PROVE  FALSE
  <2>1. y <= n /\ y < x /\ y \in Nat /\ x \in Nat
    BY <1>1, <1>6, <1>7
  <2>2. 0 .. y \in T /\ 0 .. y \subseteq 0 .. x /\ x \notin 0 .. y /\ x \in 0 .. x
    BY <2>1
  <2>3. <<0 .. y, 0 .. x>> \in StrictSubsetOrdering(0 .. n)
    BY <2>2, <1>2, <1>6 DEF StrictSubsetOrdering
  <2> QED
    BY <2>2, <2>3, <1>5, <1>6
<1> QED
  BY <1>7

LEMMA MinIs ==
    ASSUME NEW S, S \subseteq Nat, S # {}
    PROVE  Min(S) \in S /\ \A y \in S : Min(S) <= y
  BY LeastIs DEF Min

(* Every finite set of numbers has a greatest: the set of those above an   *)
(* element shrinks with the element.                                       *)
LEMMA MaxIs ==
    ASSUME NEW S, S \subseteq Nat, IsFiniteSet(S), S # {}
    PROVE  Max(S) \in S /\ \A y \in S : y <= Max(S)
<1> DEFINE Above(x) == {y \in S : y > x}
           T == {Above(x) : x \in S}
<1>1. T # {} /\ T \subseteq SUBSET S
  OBVIOUS
<1>2. IsWellFoundedOn(StrictSubsetOrdering(S), SUBSET S)
  BY FS_StrictSubsetOrderingWellFounded, FS_FiniteSubsetsOfFinite
<1>3. PICK m \in T : \A y \in T : ~ (<<y, m>> \in StrictSubsetOrdering(S))
  BY <1>1, <1>2, WFMin
<1>4. PICK x \in S : m = Above(x)
  OBVIOUS
<1>5. ASSUME NEW y \in S, ~(x >= y)
      PROVE  FALSE
  <2>1. Above(y) \subseteq Above(x) /\ y \in Above(x) /\ y \notin Above(y)
    <3>1. \A a, b, z \in Nat : ~(a >= b) => (z > b => z > a) /\ b > a /\ ~(b > b)
      OBVIOUS
    <3>2. x \in Nat /\ y \in Nat /\ S \subseteq Nat
      OBVIOUS
    <3>3. \A z \in S : z > y => z > x
      BY <3>1, <3>2, <1>5
    <3> QED
      BY <3>1, <3>2, <3>3, <1>5
  <2>2. <<Above(y), Above(x)>> \in StrictSubsetOrdering(S)
    BY <2>1 DEF StrictSubsetOrdering
  <2> QED
    BY <2>2, <1>3, <1>4
<1>6. \A y \in S : x >= y
  BY <1>5
<1>7. Max(S) \in S /\ \A y \in S : Max(S) >= y
  BY <1>6 DEF Max
<1> QED
  BY <1>7

LEMMA FirstIs ==
    ASSUME repo \in Repos, NEW S, S \subseteq Ids, S # {}
    PROVE  First(S) \in S
<1>1. /\ IsFiniteSet(Ids) /\ Ids \subseteq Nat
      /\ \A s \in Ids : Declared(s).priority \in Int
  BY QueueAssumption DEF Ids, Declared
<1>2. IsFiniteSet(S)
  BY <1>1, FS_Subset
<1> DEFINE Ahead(s) == {o \in S : Before(o, s)}
           T == {Ahead(s) : s \in S}
<1>3. T # {} /\ T \subseteq SUBSET S
  OBVIOUS
<1>4. IsWellFoundedOn(StrictSubsetOrdering(S), SUBSET S)
  BY <1>2, FS_StrictSubsetOrderingWellFounded, FS_FiniteSubsetsOfFinite
<1>5. PICK m \in T : \A y \in T : ~ (<<y, m>> \in StrictSubsetOrdering(S))
  BY <1>3, <1>4, WFMin
<1>6. PICK s \in S : m = Ahead(s)
  OBVIOUS
<1>7. ASSUME NEW o \in S \ {s}
      PROVE  Before(s, o)
  <2>1. s \in Ids /\ o \in Ids
    OBVIOUS
  <2>2. CASE ~Before(s, o)
    <3>1. Before(o, s) /\ ~Before(o, o)
      BY <1>1, <1>7, <2>1, <2>2 DEF Before
    <3>2. \A z \in S : Before(z, o) => Before(z, s)
      BY <1>1, <2>1, <3>1 DEF Before
    <3>3. Ahead(o) \subseteq Ahead(s) /\ o \in Ahead(s) /\ o \notin Ahead(o)
      BY <3>1, <3>2
    <3>4. <<Ahead(o), Ahead(s)>> \in StrictSubsetOrdering(S)
      BY <3>3 DEF StrictSubsetOrdering
    <3> QED
      BY <3>4, <1>5, <1>6
  <2> QED
    BY <2>2
<1>8. \E x \in S : \A o \in S \ {x} : Before(x, o)
  BY <1>7
<1> QED
  BY <1>8 DEF First
-----------------------------------------------------------------------------
(* Sums over a sequence of amounts.                                        *)

Amounts(n) == [1 .. n -> Nat]

(* g holds the partial sums of `amount`.                                   *)
SumsUp(g, amount, n) ==
    g = [k \in 0 .. n |-> IF k = 0 THEN 0 ELSE g[k - 1] + amount[k]]

LEMMA SumsAreNats ==
    ASSUME NEW n \in Nat, NEW amount \in Amounts(n), NEW g, SumsUp(g, amount, n)
    PROVE  \A k \in 0 .. n : g[k] \in Nat
<1> DEFINE Bad == {k \in 0 .. n : g[k] \notin Nat}
<1>1. ASSUME Bad # {}
      PROVE  FALSE
  <2>0. Bad \subseteq Nat
    OBVIOUS
  <2>1. PICK k \in Bad : \A j \in Bad : k <= j
    BY <1>1, <2>0, LeastIs
  <2>2. k # 0
    BY <2>1 DEF SumsUp
  <2>3. k - 1 \in 0 .. n /\ k \in 1 .. n /\ ~(k <= k - 1)
    BY <2>1, <2>2
  <2>4. g[k - 1] \in Nat /\ amount[k] \in Nat
    BY <2>1, <2>3 DEF Amounts
  <2>5. g[k] = g[k - 1] + amount[k]
    BY <2>2, <2>3 DEF SumsUp
  <2> QED
    BY <2>1, <2>4, <2>5
<1> QED
  BY <1>1

LEMMA SumsExist ==
    ASSUME NEW n \in Nat, NEW amount \in Amounts(n)
    PROVE  \E g : SumsUp(g, amount, n)
<1> DEFINE Bad == {m \in 0 .. n : ~ \E g : SumsUp(g, amount, m)}
<1>1. ASSUME Bad # {}
      PROVE  FALSE
  <2>0. Bad \subseteq Nat
    OBVIOUS
  <2>1. PICK m \in Bad : \A j \in Bad : m <= j
    BY <1>1, <2>0, LeastIs
  <2>2. m # 0
    <3>1. SumsUp([k \in 0 .. 0 |-> 0], amount, 0)
      BY DEF SumsUp
    <3> QED
      BY <2>1, <3>1
  <2>3. m - 1 \in 0 .. n /\ m \in 1 .. n /\ m - 1 \notin Bad
    BY <2>1, <2>2
  <2>4. PICK g : SumsUp(g, amount, m - 1)
    BY <2>3
  <2> DEFINE h == [k \in 0 .. m |-> IF k = m THEN g[m - 1] + amount[m] ELSE g[k]]
  <2>5. ASSUME NEW k \in 0 .. m
        PROVE  h[k] = IF k = 0 THEN 0 ELSE h[k - 1] + amount[k]
    <3>1. CASE k = m
      <4>1. h[k] = g[m - 1] + amount[m] /\ h[k - 1] = g[m - 1] /\ k # 0
        BY <2>2, <2>3, <3>1
      <4> QED
        BY <3>1, <4>1
    <3>2. CASE k # m
      <4>1. k \in 0 .. m - 1 /\ h[k] = g[k]
        BY <2>3, <3>2
      <4>2. g[k] = IF k = 0 THEN 0 ELSE g[k - 1] + amount[k]
        BY <4>1, <2>4 DEF SumsUp
      <4>3. k # 0 => h[k - 1] = g[k - 1]
        BY <4>1, <2>3
      <4> QED
        BY <4>1, <4>2, <4>3
    <3> QED
      BY <3>1, <3>2
  <2>6. SumsUp(h, amount, m)
    BY <2>5 DEF SumsUp
  <2> QED
    BY <2>1, <2>6
<1>2. n \notin Bad
  BY <1>1
<1> QED
  BY <1>2

LEMMA TotalIs ==
    ASSUME NEW n \in Nat, NEW amount \in Amounts(n)
    PROVE  \E g : SumsUp(g, amount, n) /\ TotalOf(amount, n) = g[n]
<1> DEFINE f == CHOOSE g : g = [k \in 0 .. n |-> IF k = 0 THEN 0 ELSE g[k - 1] + amount[k]]
<1>1. SumsUp(f, amount, n)
  BY SumsExist DEF SumsUp
<1>2. TotalOf(amount, n) = f[n]
  BY DEF TotalOf
<1> QED
  BY <1>1, <1>2

LEMMA TotalIsNat ==
    ASSUME NEW n \in Nat, NEW amount \in Amounts(n)
    PROVE  TotalOf(amount, n) \in Nat
<1>1. PICK g : SumsUp(g, amount, n) /\ TotalOf(amount, n) = g[n]
  BY TotalIs
<1> QED
  BY <1>1, SumsAreNats

LEMMA TotalOfNothing ==
    ASSUME NEW n \in Nat, NEW amount \in Amounts(n), \A k \in 1 .. n : amount[k] = 0
    PROVE  TotalOf(amount, n) = 0
<1>1. PICK g : SumsUp(g, amount, n) /\ TotalOf(amount, n) = g[n]
  BY TotalIs
<1> DEFINE Bad == {k \in 0 .. n : g[k] # 0}
<1>2. ASSUME Bad # {}
      PROVE  FALSE
  <2>0. Bad \subseteq Nat
    OBVIOUS
  <2>1. PICK k \in Bad : \A j \in Bad : k <= j
    BY <1>2, <2>0, LeastIs
  <2>2. k # 0
    BY <1>1, <2>1 DEF SumsUp
  <2>3. k - 1 \in 0 .. n /\ k \in 1 .. n /\ ~(k <= k - 1)
    BY <2>1, <2>2
  <2>4. g[k - 1] = 0 /\ g[k] = g[k - 1] + amount[k]
    BY <1>1, <2>1, <2>2, <2>3 DEF SumsUp
  <2> QED
    BY <2>1, <2>3, <2>4
<1>3. n \in 0 .. n
  OBVIOUS
<1> QED
  BY <1>1, <1>2, <1>3

LEMMA TotalGrows ==
    ASSUME NEW n \in Nat, NEW a \in Amounts(n), NEW b \in Amounts(n),
           \A k \in 1 .. n : a[k] <= b[k]
    PROVE  TotalOf(a, n) <= TotalOf(b, n)
<1>1. PICK g : SumsUp(g, a, n) /\ TotalOf(a, n) = g[n]
  BY TotalIs
<1>2. PICK h : SumsUp(h, b, n) /\ TotalOf(b, n) = h[n]
  BY TotalIs
<1>3. \A k \in 0 .. n : g[k] \in Nat /\ h[k] \in Nat
  BY <1>1, <1>2, SumsAreNats
<1> DEFINE Bad == {k \in 0 .. n : ~(g[k] <= h[k])}
<1>4. ASSUME Bad # {}
      PROVE  FALSE
  <2>0. Bad \subseteq Nat
    OBVIOUS
  <2>1. PICK k \in Bad : \A j \in Bad : k <= j
    BY <1>4, <2>0, LeastIs
  <2>2. k # 0
    BY <1>1, <1>2, <2>1 DEF SumsUp
  <2>3. k - 1 \in 0 .. n /\ k \in 1 .. n /\ ~(k <= k - 1)
    BY <2>1, <2>2
  <2>4. g[k - 1] <= h[k - 1]
    BY <2>1, <2>3
  <2>5. g[k] = g[k - 1] + a[k] /\ h[k] = h[k - 1] + b[k]
    BY <1>1, <1>2, <2>2, <2>3 DEF SumsUp
  <2>6. a[k] \in Nat /\ b[k] \in Nat /\ a[k] <= b[k]
    BY <2>3 DEF Amounts
  <2> QED
    BY <1>3, <2>1, <2>3, <2>4, <2>5, <2>6
<1>5. n \in 0 .. n
  OBVIOUS
<1> QED
  BY <1>1, <1>2, <1>4, <1>5

LEMMA TotalRises ==
    ASSUME NEW n \in Nat, NEW a \in Amounts(n), NEW b \in Amounts(n),
           NEW c \in 1 .. n, NEW d \in Nat, b[c] = a[c] + d,
           \A k \in (1 .. n) \ {c} : a[k] = b[k]
    PROVE  TotalOf(b, n) = TotalOf(a, n) + d
<1>1. PICK g : SumsUp(g, a, n) /\ TotalOf(a, n) = g[n]
  BY TotalIs
<1>2. PICK h : SumsUp(h, b, n) /\ TotalOf(b, n) = h[n]
  BY TotalIs
<1>3. \A k \in 0 .. n : g[k] \in Nat /\ h[k] \in Nat
  BY <1>1, <1>2, SumsAreNats
<1> DEFINE Bad == {k \in 0 .. n : h[k] # g[k] + (IF k < c THEN 0 ELSE d)}
<1>4. ASSUME Bad # {}
      PROVE  FALSE
  <2>0. Bad \subseteq Nat
    OBVIOUS
  <2>1. PICK k \in Bad : \A j \in Bad : k <= j
    BY <1>4, <2>0, LeastIs
  <2>2. k # 0
    BY <1>1, <1>2, <2>1 DEF SumsUp
  <2>3. k - 1 \in 0 .. n /\ k \in 1 .. n /\ ~(k <= k - 1)
    BY <2>1, <2>2
  <2>4. h[k - 1] = g[k - 1] + (IF k - 1 < c THEN 0 ELSE d)
    BY <2>1, <2>3
  <2>5. g[k] = g[k - 1] + a[k] /\ h[k] = h[k - 1] + b[k]
    BY <1>1, <1>2, <2>2, <2>3 DEF SumsUp
  <2>6. a[k] \in Nat /\ b[k] \in Nat /\ g[k - 1] \in Nat
    BY <1>3, <2>3 DEF Amounts
  <2>7. CASE k = c
    <3>1. h[k - 1] = g[k - 1] /\ b[k] = a[k] + d /\ ~(k < c)
      BY <2>3, <2>4, <2>7, <2>6
    <3> QED
      BY <2>1, <2>5, <2>6, <3>1
  <2>8. CASE k # c
    <3>1. b[k] = a[k] /\ (k < c <=> k - 1 < c)
      BY <2>3, <2>8
    <3> QED
      BY <2>1, <2>4, <2>5, <2>6, <3>1
  <2> QED
    BY <2>7, <2>8
<1>5. n \in 0 .. n /\ ~(n < c)
  OBVIOUS
<1> QED
  BY <1>1, <1>2, <1>4, <1>5

LEMMA TotalExtends ==
    ASSUME NEW n \in Nat, NEW a \in Amounts(n), NEW b \in Amounts(n + 1), b[n + 1] = 0,
           \A k \in 1 .. n : a[k] = b[k]
    PROVE  TotalOf(b, n + 1) = TotalOf(a, n)
<1>1. PICK g : SumsUp(g, a, n) /\ TotalOf(a, n) = g[n]
  BY TotalIs
<1>2. PICK h : SumsUp(h, b, n + 1) /\ TotalOf(b, n + 1) = h[n + 1]
  BY TotalIs
<1>3. \A k \in 0 .. n + 1 : h[k] \in Nat
  BY <1>2, SumsAreNats
<1> DEFINE Bad == {k \in 0 .. n : h[k] # g[k]}
<1>4. ASSUME Bad # {}
      PROVE  FALSE
  <2>0. Bad \subseteq Nat
    OBVIOUS
  <2>1. PICK k \in Bad : \A j \in Bad : k <= j
    BY <1>4, <2>0, LeastIs
  <2>2. k # 0
    BY <1>1, <1>2, <2>1 DEF SumsUp
  <2>3. k - 1 \in 0 .. n /\ k \in 1 .. n /\ k \in 0 .. n + 1 /\ ~(k <= k - 1)
    BY <2>1, <2>2
  <2>4. h[k - 1] = g[k - 1] /\ a[k] = b[k]
    BY <2>1, <2>3
  <2>5. g[k] = g[k - 1] + a[k] /\ h[k] = h[k - 1] + b[k]
    BY <1>1, <1>2, <2>2, <2>3 DEF SumsUp
  <2> QED
    BY <2>1, <2>4, <2>5
<1>5. n \in 0 .. n /\ n \in 0 .. n + 1 /\ n + 1 \in 0 .. n + 1 /\ n + 1 # 0 /\ (n + 1) - 1 = n
  OBVIOUS
<1>6. h[n + 1] = h[n] + b[n + 1]
  BY <1>2, <1>5 DEF SumsUp
<1>7. h[n] = g[n] /\ h[n] \in Nat
  BY <1>3, <1>4, <1>5
<1> QED
  BY <1>1, <1>2, <1>6, <1>7
-----------------------------------------------------------------------------
(* Sequences whose elements are not typed.                                 *)

LEMMA SeqIs ==
    ASSUME NEW q, IsSeq(q)
    PROVE  Len(q) \in Nat /\ DOMAIN q = 1 .. Len(q)
  BY DEF IsSeq

LEMMA SameLength ==
    ASSUME NEW q, IsSeq(q), NEW f, f = [i \in DOMAIN q |-> f[i]]
    PROVE  IsSeq(f) /\ Len(f) = Len(q) /\ DOMAIN f = 1 .. Len(q)
<1>1. Len(q) \in Nat /\ DOMAIN q = 1 .. Len(q)
  BY SeqIs
<1>2. DOMAIN f = 1 .. Len(q)
  BY <1>1
<1> DEFINE S == {f[i] : i \in DOMAIN f}
<1>3. f \in [1 .. Len(q) -> S]
  BY <1>1, <1>2
<1>4. f \in Seq(S)
  BY <1>1, <1>3, SeqDef
<1>5. Len(f) = Len(q)
  BY <1>1, <1>2, <1>4, LenProperties
<1> QED
  BY <1>2, <1>4, <1>5 DEF IsSeq

LEMMA OneLonger ==
    ASSUME NEW q, IsSeq(q), NEW e
    PROVE  /\ IsSeq(Append(q, e)) /\ Len(Append(q, e)) = Len(q) + 1
           /\ \A i \in 1 .. Len(q) : Append(q, e)[i] = q[i]
           /\ Append(q, e)[Len(q) + 1] = e
<1> DEFINE S == {q[i] : i \in DOMAIN q} \union {e}
           p == Append(q, e)
<1>1. q \in Seq(S) /\ e \in S
  BY DEF IsSeq
<1>2. /\ p \in Seq(S) /\ Len(p) = Len(q) + 1 /\ Len(q) \in Nat
      /\ \A i \in 1 .. Len(q) : p[i] = q[i]
      /\ p[Len(q) + 1] = e
  BY <1>1, AppendProperties
<1> HIDE DEF p
<1>3. IsSeq(p)
  <2>1. DOMAIN p = 1 .. Len(p) /\ Len(p) \in Nat /\ p \in [1 .. Len(p) -> S]
    BY <1>2, LenProperties
  <2> DEFINE R == {p[i] : i \in DOMAIN p}
  <2>2. p \in [1 .. Len(p) -> R]
    BY <2>1
  <2>3. p \in Seq(R)
    BY <2>1, <2>2, SeqDef
  <2> QED
    BY <2>3 DEF IsSeq
<1> QED
  BY <1>2, <1>3 DEF p

-----------------------------------------------------------------------------
(* What the runs of a night cost.                                          *)

Amount(q, t) == [i \in DOMAIN q |-> IF t # 0 /\ q[i].by = t THEN q[i].cost ELSE 0]

Spent(q, t) == TotalOf(Amount(q, t), Len(q))

LEMMA NightCost ==
    /\ Cost(NightRuns) = Spent(runs, Tonight)
    /\ Cost(NightRuns)' = Spent(runs', Tonight')
<1>1. [i \in DOMAIN runs |-> IF i \in NightRuns THEN runs[i].cost ELSE 0] = Amount(runs, Tonight)
  BY DEF NightRuns, Amount
<1>2. [i \in DOMAIN runs' |-> IF i \in NightRuns' THEN runs'[i].cost ELSE 0]
        = Amount(runs', Tonight')
  BY DEF NightRuns, Amount
<1> QED
  BY <1>1, <1>2 DEF Cost, Spent

LEMMA AmountIs ==
    ASSUME NEW q \in Seq(Run), NEW t
    PROVE  Len(q) \in Nat /\ Amount(q, t) \in Amounts(Len(q))
<1>1. Len(q) \in Nat /\ DOMAIN q = 1 .. Len(q) /\ \A i \in 1 .. Len(q) : q[i] \in Run
  BY LenProperties
<1>2. \A i \in 1 .. Len(q) : q[i].cost \in Nat
  BY <1>1 DEF Run
<1> QED
  BY <1>1, <1>2 DEF Amount, Amounts

LEMMA SpentIsNat ==
    ASSUME NEW q \in Seq(Run), NEW t
    PROVE  Spent(q, t) \in Nat
  BY AmountIs, TotalIsNat DEF Spent

LEMMA SpentStays ==
    ASSUME NEW q \in Seq(Run), NEW r \in Seq(Run), NEW t \in Nat, Len(r) = Len(q),
           \A i \in 1 .. Len(q) : r[i].by = q[i].by /\ (t # 0 /\ q[i].by = t => r[i].cost = q[i].cost)
    PROVE  Spent(r, t) = Spent(q, t)
<1>1. DOMAIN q = 1 .. Len(q) /\ DOMAIN r = 1 .. Len(q)
  OBVIOUS
<1>2. Amount(r, t) = Amount(q, t)
  BY <1>1 DEF Amount
<1> QED
  BY <1>2 DEF Spent

LEMMA SpentOfNewRun ==
    ASSUME NEW q \in Seq(Run), NEW e \in Run, e.cost = 0, NEW t \in Nat
    PROVE  Spent(Append(q, e), t) = Spent(q, t)
<1> DEFINE p == Append(q, e)
<1>1. /\ p \in Seq(Run) /\ Len(p) = Len(q) + 1 /\ Len(q) \in Nat
      /\ \A i \in 1 .. Len(q) : p[i] = q[i]
      /\ p[Len(q) + 1] = e
  BY AppendProperties
<1> HIDE DEF p
<1>2. Amount(q, t) \in Amounts(Len(q)) /\ Amount(p, t) \in Amounts(Len(q) + 1)
  BY <1>1, AmountIs
<1>3. DOMAIN p = 1 .. Len(q) + 1 /\ DOMAIN q = 1 .. Len(q)
  BY <1>1
<1>4. Len(q) + 1 \in DOMAIN p
  BY <1>1, <1>3
<1>5. Amount(p, t)[Len(q) + 1] = 0
  BY <1>1, <1>4 DEF Amount
<1>6. \A k \in 1 .. Len(q) : Amount(q, t)[k] = Amount(p, t)[k]
  <2>1. \A k \in 1 .. Len(q) : k \in DOMAIN p /\ k \in DOMAIN q
    BY <1>1, <1>3
  <2> QED
    BY <1>1, <2>1 DEF Amount
<1>7. TotalOf(Amount(p, t), Len(q) + 1) = TotalOf(Amount(q, t), Len(q))
  BY <1>1, <1>2, <1>5, <1>6, TotalExtends
<1> QED
  BY <1>1, <1>7 DEF Spent, p

LEMMA SpentRises ==
    ASSUME NEW q \in Seq(Run), NEW r \in Seq(Run), NEW t \in Nat \ {0}, Len(r) = Len(q),
           NEW c \in 1 .. Len(q), q[c].by = t, NEW d \in Nat, q[c].cost = 0, r[c].cost = d,
           \A i \in 1 .. Len(q) : r[i].by = q[i].by,
           \A i \in (1 .. Len(q)) \ {c} : r[i].cost = q[i].cost
    PROVE  Spent(r, t) = Spent(q, t) + d
<1>1. DOMAIN q = 1 .. Len(q) /\ DOMAIN r = 1 .. Len(q) /\ Len(q) \in Nat
  OBVIOUS
<1>2. Amount(q, t) \in Amounts(Len(q)) /\ Amount(r, t) \in Amounts(Len(q))
  BY AmountIs
<1>3. Amount(r, t)[c] = Amount(q, t)[c] + d
  BY <1>1 DEF Amount
<1>4. \A k \in (1 .. Len(q)) \ {c} : Amount(q, t)[k] = Amount(r, t)[k]
  BY <1>1 DEF Amount
<1> QED
  BY <1>1, <1>2, <1>3, <1>4, TotalRises DEF Spent

LEMMA SpentOfNone ==
    ASSUME NEW q \in Seq(Run), NEW t \in Nat, \A i \in 1 .. Len(q) : t = 0 \/ q[i].by # t
    PROVE  Spent(q, t) = 0
<1>1. DOMAIN q = 1 .. Len(q) /\ Len(q) \in Nat
  OBVIOUS
<1>2. \A k \in 1 .. Len(q) : Amount(q, t)[k] = 0
  BY <1>1 DEF Amount
<1> QED
  BY <1>1, <1>2, AmountIs, TotalOfNothing DEF Spent

(* The budget gate weighs no less than the night's own runs cost, once     *)
(* each of them is stamped.                                                *)
LEMMA SpendCovers ==
    ASSUME runs \in Seq(Run), \A i \in NightRuns : runs[i].batch = Tonight
    PROVE  Cost(NightRuns) <= BatchSpend(Tonight) /\ BatchSpend(Tonight) \in Nat
<1> DEFINE n == Len(runs)
           stamped == [i \in DOMAIN runs |->
                         IF i \in {j \in DOMAIN runs : runs[j].batch = Tonight}
                         THEN runs[i].cost ELSE 0]
<1>0. n \in Nat /\ DOMAIN runs = 1 .. n /\ \A i \in 1 .. n : runs[i] \in Run
  BY LenProperties
<1>1. n \in Nat /\ DOMAIN runs = 1 .. n /\ \A i \in 1 .. n : runs[i].cost \in Nat
  BY <1>0 DEF Run
<1>2. stamped \in Amounts(n)
  BY <1>1 DEF Amounts
<1>3. Amount(runs, Tonight) \in Amounts(n)
  BY AmountIs
<1>4. \A k \in 1 .. n : Amount(runs, Tonight)[k] <= stamped[k]
  BY <1>1 DEF Amount, NightRuns
<1>5. TotalOf(Amount(runs, Tonight), n) <= TotalOf(stamped, n) /\ TotalOf(stamped, n) \in Nat
  BY <1>1, <1>2, <1>3, <1>4, TotalGrows, TotalIsNat
<1>6. BatchSpend(Tonight) = TotalOf(stamped, n)
  BY DEF BatchSpend, Cost
<1> QED
  BY <1>5, <1>6, NightCost DEF Spent
-----------------------------------------------------------------------------
(* What a reconcile does to a row.                                         *)

Decisions == {"MERGED", "REJECTED", "CHANGES_REQUESTED", "APPROVED"}

LEMMA NextStateIs ==
    ASSUME NEW r, NEW asked \in BOOLEAN
    PROVE  \/ NextState(r, asked) = r.state
           \/ /\ r.pr # 0 /\ r.state \in Pending \union MergeOnly
              /\ NextState(r, asked) \in Decisions
  BY DEF NextState, Decisions

LEMMA ReconciledRows ==
    ASSUME Shape, NEW specs, NEW asked \in BOOLEAN, NEW stamp \in BOOLEAN,
           NEW found, found = Reconciled(specs, asked, stamp)
    PROVE  /\ IsSeq(found) /\ Len(found) = Len(rows)
           /\ \A i \in 1 .. Len(rows) :
                 /\ IsRow(found[i])
                 /\ found[i].spec = rows[i].spec /\ found[i].pushed = rows[i].pushed
                 /\ found[i].pr = rows[i].pr
                 /\ \/ found[i] = rows[i]
                    \/ /\ stamp /\ rows[i].state \in InFlightStates
                       /\ found[i].state = "ORPHANED"
                    \/ /\ rows[i].pr # 0 /\ rows[i].state \in Pending \union MergeOnly
                       /\ found[i].state \in Decisions
<1>1. IsSeq(rows) /\ Len(rows) \in Nat /\ DOMAIN rows = 1 .. Len(rows)
  BY SeqIs DEF Shape
<1>2. /\ found = [i \in DOMAIN rows |-> found[i]]
      /\ \A i \in 1 .. Len(rows) :
            \/ found[i] = rows[i]
            \/ /\ stamp /\ rows[i].state \in InFlightStates
               /\ found[i] = [rows[i] EXCEPT !.state = "ORPHANED"]
            \/ found[i] = [rows[i] EXCEPT !.state = NextState(rows[i], asked)]
  BY <1>1 DEF Reconciled
<1>3. IsSeq(found) /\ Len(found) = Len(rows)
  BY <1>1, <1>2, SameLength
<1>4. ASSUME NEW i \in 1 .. Len(rows)
      PROVE  /\ IsRow(found[i])
             /\ found[i].spec = rows[i].spec /\ found[i].pushed = rows[i].pushed
             /\ found[i].pr = rows[i].pr
             /\ \/ found[i] = rows[i]
                \/ /\ stamp /\ rows[i].state \in InFlightStates
                   /\ found[i].state = "ORPHANED"
                \/ /\ rows[i].pr # 0 /\ rows[i].state \in Pending \union MergeOnly
                   /\ found[i].state \in Decisions
  <2>1. IsRow(rows[i])
    BY DEF Shape
  <2>2. PICK r : r = rows[i]
    OBVIOUS
  <2>3. DOMAIN r = RowFields /\ r = [f \in RowFields |-> r[f]] /\ IsRow(r)
    BY <2>1, <2>2 DEF IsRow
  <2>4. ASSUME NEW state, NEW e, e = [r EXCEPT !.state = state]
        PROVE  /\ IsRow(e) /\ e.spec = r.spec /\ e.pushed = r.pushed /\ e.pr = r.pr
               /\ e.state = state
    BY <2>3, <2>4 DEF IsRow, RowFields
  <2>5. [r EXCEPT !.state = r.state] = r
    BY <2>3 DEF RowFields
  <2>6. CASE found[i] = rows[i]
    BY <2>1, <2>6
  <2>7. CASE stamp /\ rows[i].state \in InFlightStates
             /\ found[i] = [rows[i] EXCEPT !.state = "ORPHANED"]
    <3>1. PICK e, state : /\ e = found[i] /\ state = "ORPHANED"
                          /\ e = [r EXCEPT !.state = state]
      BY <2>2, <2>7
    <3>2. /\ IsRow(e) /\ e.spec = r.spec /\ e.pushed = r.pushed
          /\ e.pr = r.pr /\ e.state = "ORPHANED"
      BY <2>3, <3>1 DEF IsRow, RowFields
    <3> QED
      BY <2>2, <2>7, <3>1, <3>2
  <2>8. CASE found[i] = [rows[i] EXCEPT !.state = NextState(rows[i], asked)]
    <3>1. PICK state : state = NextState(r, asked)
      OBVIOUS
    <3>2. \/ state = r.state
          \/ r.pr # 0 /\ r.state \in Pending \union MergeOnly /\ state \in Decisions
      BY <3>1, NextStateIs
    <3>3. found[i] = [r EXCEPT !.state = state]
      BY <2>2, <2>8, <3>1
    <3>4. CASE state = r.state
      BY <2>2, <2>3, <2>5, <3>3, <3>4
    <3>5. CASE r.pr # 0 /\ r.state \in Pending \union MergeOnly /\ state \in Decisions
      <4>1. /\ IsRow(found[i]) /\ found[i].spec = r.spec /\ found[i].pushed = r.pushed
            /\ found[i].pr = r.pr /\ found[i].state = state
        BY <2>4, <3>3
      <4> QED
        BY <2>2, <3>5, <4>1
    <3> QED
      BY <3>2, <3>4, <3>5
  <2> QED
    BY <1>2, <2>6, <2>7, <2>8
<1> QED
  BY <1>3, <1>4

-----------------------------------------------------------------------------
(* A step that starts, ends and opens nothing of the night's own: what the *)
(* loop keeps may grow, and the rows of others may change.                 *)

Steady ==
    /\ batches' = batches /\ cell' = cell /\ repo' = repo
    /\ Running' => Running
    /\ pc' = "cell" => pc = "cell" /\ drive'.highWater = drive.highWater
    /\ drive'.inFlight = drive.inFlight /\ drive'.unpackaged = drive.unpackaged
    /\ drive.aborts <= drive'.aborts
    /\ Len(runs) <= Len(runs')
    /\ \A i \in 1 .. Len(runs) : runs'[i].by = runs[i].by
    /\ \A i \in 1 .. Len(runs') : i > Len(runs) => runs'[i].by = 0
    /\ \A i \in NightRuns : /\ runs'[i] = runs[i] /\ rows'[i].spec = rows[i].spec
                            /\ InFlightAt(i)' => InFlightAt(i)
                            /\ Unpackaged(i)' => Unpackaged(i)
                            /\ Running => (InFlightAt(i) => InFlightAt(i)')
                            /\ Running => (Unpackaged(i) => Unpackaged(i)')
                            /\ Running => (Aborted(i)' => Aborted(i))
    /\ Cost(NightRuns)' = Cost(NightRuns)

LEMMA SteadyNight ==
    ASSUME NightInv, Shape', Steady
    PROVE  NightRuns' = NightRuns /\ Done' = Done
<1>1. Tonight' = Tonight /\ cell' = cell
  BY DEF Steady, Tonight
<1>2. /\ DOMAIN runs = 1 .. Len(runs) /\ DOMAIN runs' = 1 .. Len(runs')
      /\ Len(runs) \in Nat /\ Len(runs') \in Nat
  BY LenProperties DEF NightInv, Shape
<1>3. \A i \in 1 .. Len(runs') : i \in 1 .. Len(runs) \/ i > Len(runs)
  BY <1>2
<1>4. 1 .. Len(runs) \subseteq 1 .. Len(runs')
  BY <1>2 DEF Steady
<1>5. NightRuns' = NightRuns
  BY <1>1, <1>2, <1>3, <1>4 DEF Steady, NightRuns
<1> QED
  BY <1>1, <1>5 DEF Done

LEMMA SteadyKeeps ==
    ASSUME NightInv, Shape', Places', Steady
    PROVE  Counted' /\ Funded' /\ Standing' /\ Breaks'
<1>1. NightRuns' = NightRuns /\ Done' = Done /\ Tonight' = Tonight
  BY SteadyNight DEF Steady, Tonight
<1>2. Done \subseteq NightRuns
  BY DEF Done
<1>3. Counted'
  <2>1. Running' => \A i \in Done : runs'[i].batch = Tonight
    BY <1>2 DEF NightInv, Counted, Steady
  <2>2. pc' = "cell" => drive'.highWater < cell' /\ \A i \in Done : i <= drive'.highWater
    BY DEF NightInv, Counted, Steady
  <2> QED
    BY <1>1, <2>1, <2>2 DEF Counted
<1>4. Funded'
  <2>1. ASSUME pc' = "cell"
        PROVE  Cost(NightRuns)' + Declared(rows[cell].spec)'.budget <= Budget
    <3>1. pc = "cell" /\ cell \in NightRuns
      BY <2>1, LenProperties DEF Steady, NightInv, Places, Shape, NightRuns, Running, Tonight
    <3>2. rows'[cell'].spec = rows[cell].spec /\ repo' = repo
      BY <3>1 DEF Steady
    <3> QED
      BY <3>1, <3>2 DEF Steady, NightInv, Funded, Declared
  <2> QED
    BY <2>1 DEF Funded
<1>5. Standing'
  <2>1. ASSUME Running', NEW i \in Done
        PROVE  /\ InFlightAt(i)' => rows'[i].spec \in drive'.inFlight
               /\ Unpackaged(i)' => rows'[i].spec \in drive'.unpackaged
    BY <1>2, <2>1 DEF Steady, NightInv, Standing
  <2> QED
    BY <1>1, <2>1 DEF Standing
<1>6. Breaks'
  <2>1. drive.aborts \in Nat /\ drive'.aborts \in Nat /\ drive.aborts <= drive'.aborts
    BY DEF NightInv, Shape, IsDrive, Steady
  <2>2. Running' => \A i \in Done : Aborted(i)' => Aborted(i)
    BY <1>2 DEF Steady
  <2>3. ASSUME Running'
        PROVE  /\ \A i \in Done : LastOf(i, Done) /\ Aborted(i)' => drive'.aborts >= 1
               /\ \A i, k \in Done :
                     LastOf(i, Done) /\ LastOf(k, Done \ {i}) /\ Aborted(i)' /\ Aborted(k)'
                        => drive'.aborts >= 2
    <3>1. Running
      BY <2>3 DEF Steady
    <3>2. ASSUME NEW i \in Done, LastOf(i, Done), Aborted(i)'
          PROVE  drive'.aborts >= 1
      <4>1. drive.aborts >= 1
        BY <2>2, <2>3, <3>1, <3>2 DEF NightInv, Breaks
      <4> QED
        BY <2>1, <4>1
    <3>3. ASSUME NEW i \in Done, NEW k \in Done, LastOf(i, Done), LastOf(k, Done \ {i}),
                 Aborted(i)', Aborted(k)'
          PROVE  drive'.aborts >= 2
      <4>1. drive.aborts >= 2
        BY <2>2, <2>3, <3>1, <3>3 DEF NightInv, Breaks
      <4> QED
        BY <2>1, <4>1
    <3> QED
      BY <3>2, <3>3
  <2> QED
    BY <1>1, <2>3 DEF Breaks, LastOf
<1> QED
  BY <1>3, <1>4, <1>5, <1>6
-----------------------------------------------------------------------------
(* The steps that are steady.                                              *)

LEMMA ShapeIs ==
    ASSUME Shape
    PROVE  /\ DOMAIN runs = 1 .. Len(runs) /\ Len(runs) \in Nat
           /\ DOMAIN rows = 1 .. Len(runs) /\ Len(rows) = Len(runs)
           /\ Tonight \in Nat /\ Len(commits) \in Nat
           /\ DOMAIN prs = 1 .. Len(prs) /\ Len(prs) \in Nat
           /\ \A i \in 1 .. Len(runs) : /\ runs[i] \in Run /\ IsRow(rows[i])
                                        /\ runs[i].by \in Nat /\ runs[i].cost \in Nat
<1>1. /\ DOMAIN runs = 1 .. Len(runs) /\ Len(runs) \in Nat
      /\ \A i \in 1 .. Len(runs) : runs[i] \in Run
  BY LenProperties DEF Shape
<1>2. \A i \in 1 .. Len(runs) : runs[i].by \in Nat /\ runs[i].cost \in Nat
  BY <1>1 DEF Run
<1>3. DOMAIN rows = 1 .. Len(runs) /\ Len(rows) = Len(runs)
  BY SeqIs DEF Shape
<1>4. \A i \in 1 .. Len(runs) : IsRow(rows[i])
  BY <1>3 DEF Shape
<1>5. Tonight \in Nat /\ Len(commits) \in Nat
  BY SeqIs, LenProperties DEF Shape, Tonight
<1>6. DOMAIN prs = 1 .. Len(prs) /\ Len(prs) \in Nat
  BY SeqIs DEF Shape
<1> QED
  BY <1>1, <1>2, <1>3, <1>4, <1>5, <1>6

LEMMA NightRunsAre ==
    ASSUME Shape
    PROVE  NightRuns = {i \in 1 .. Len(runs) : Tonight # 0 /\ runs[i].by = Tonight}
  BY ShapeIs DEF NightRuns

(* Nothing of the ledger moves.                                            *)
Still ==
    /\ repo' = repo /\ rows' = rows /\ runs' = runs /\ commits' = commits
    /\ IsSeq(prs')
    /\ batches' = batches /\ cell' = cell /\ attended' = attended
    /\ "live" \in DOMAIN main' /\ main'.live \subseteq Ids /\ base'.live \subseteq Ids
    /\ pc' \in {"idle", "reconcile", "scan", "loop", "cell"}
    /\ IsDrive(drive)'
    /\ drive'.inFlight = drive.inFlight /\ drive'.unpackaged = drive.unpackaged
    /\ drive.aborts <= drive'.aborts
    /\ pc' = "idle" => drive'.started = {}
    /\ pc' = "cell" <=> pc = "cell"
    /\ pc' = "cell" => drive'.highWater = drive.highWater /\ drive'.started = drive.started
    /\ Running' => Running

LEMMA StillIsSteady ==
    ASSUME NightInv, Still
    PROVE  Shape' /\ Places' /\ Steady
<1>1. Shape'
  <2>1. \A i \in 1 .. Len(rows) : IsRow(rows[i])'
    BY DEF NightInv, Shape, Still, IsRow, Ids
  <2>2. IsAttended(attended)'
    BY DEF NightInv, Shape, Still, IsAttended, Ids
  <2>3. IsSeq(prs)'
    BY DEF Still, IsSeq
  <2> QED
    BY <2>1, <2>2, <2>3 DEF NightInv, Shape, Still, Ids
<1>2. Places'
  BY DEF NightInv, Places, Still, Tonight
<1>3. \A i \in 1 .. Len(runs) : ~(i > Len(runs))
  BY ShapeIs DEF NightInv
<1>4. Len(runs) <= Len(runs)
  BY ShapeIs DEF NightInv
<1>5. Cost(NightRuns)' = Cost(NightRuns)
  BY NightCost DEF Still, Tonight
<1>6. Steady
  BY <1>3, <1>4, <1>5 DEF Still, Steady, InFlightAt, Unpackaged, Aborted
<1> QED
  BY <1>1, <1>2, <1>6

LEMMA OperatorLive ==
    ASSUME Shape, OperatorMoves
    PROVE  "live" \in DOMAIN main' /\ main'.live \subseteq main.live
<1>1. CASE \E k \in DOMAIN prs, d \in {"ready", "changes"} : Decide(k, d)
  BY <1>1 DEF Decide, Shape
<1>2. CASE \E k \in DOMAIN prs, deleted \in BOOLEAN : Merge(k, deleted)
  BY <1>2 DEF Merge, Shape
<1>3. CASE \E s \in Ids : Abandon(s)
  BY <1>3 DEF Abandon, Shape
<1>4. CASE \E s \in Ids : EditSpec(s)
  BY <1>4 DEF EditSpec, Shape
<1>5. CASE \E s \in Ids : RetireSpec(s)
  BY <1>5 DEF RetireSpec, Shape
<1> QED
  BY <1>1, <1>2, <1>3, <1>4, <1>5 DEF OperatorMoves, Moves

LEMMA OperatorPrs ==
    ASSUME Shape, OperatorMoves
    PROVE  IsSeq(prs') /\ Len(prs') = Len(prs)
<1>1. IsSeq(prs)
  BY DEF Shape
<1>2. ASSUME prs' = prs \/ prs' = [k \in DOMAIN prs |-> prs'[k]]
      PROVE  IsSeq(prs') /\ Len(prs') = Len(prs)
  BY <1>1, <1>2, SameLength
<1>3. CASE \E k \in DOMAIN prs, d \in {"ready", "changes"} : Decide(k, d)
  BY <1>2, <1>3 DEF Decide
<1>4. CASE \E k \in DOMAIN prs, deleted \in BOOLEAN : Merge(k, deleted)
  BY <1>2, <1>4 DEF Merge
<1>5. CASE \E s \in Ids : Abandon(s)
  BY <1>2, <1>5 DEF Abandon
<1>6. CASE \E s \in Ids : EditSpec(s) \/ RetireSpec(s)
  BY <1>2, <1>6 DEF EditSpec, RetireSpec
<1> QED
  BY <1>3, <1>4, <1>5, <1>6 DEF OperatorMoves, Moves

LEMMA QueueIsOfIds ==
    ASSUME Shape, NEW open
    PROVE  BuildQueue(open) \subseteq Ids
  BY DEF BuildQueue, Kept, Candidates, Shape

LEMMA StillSteps ==
    ASSUME NightInv,
           \/ Readiness \/ RefuseCell \/ RaiseEarly \/ Operator \/ UNCHANGED vars
           \/ \E answers \in BOOLEAN : Scan(answers) /\ ~Opening
    PROVE  Shape' /\ Places' /\ Steady
<1>0. Shape /\ Places
  BY DEF NightInv
<1>1. CASE Readiness
  <2>1. pc' = "reconcile" /\ Opening'
    BY <1>0, <1>1 DEF Readiness, Places, Opening
  <2>2. IsDrive(drive)'
    BY <1>0, <1>1 DEF Readiness, Shape, IsDrive, Ids
  <2>3. drive.aborts <= drive.aborts
    BY <1>0 DEF Shape, IsDrive
  <2>4. Still
    BY <1>0, <1>1, <2>1, <2>2, <2>3 DEF Readiness, Still, Shape, Running, Places
  <2> QED
    BY <2>4, StillIsSteady
<1>2. CASE RefuseCell \/ RaiseEarly
  <2>1. PICK more \in {0, 1} : drive' = [Begun EXCEPT !.aborts = @ + more]
    <3>1. drive.aborts + 0 = drive.aborts
      BY <1>0 DEF Shape, IsDrive
    <3>2. [Begun EXCEPT !.aborts = @ + 0] = Begun
      BY <1>0, <3>1 DEF Begun, Shape, IsDrive, DriveFields
    <3>3. CASE RefuseCell
      BY <3>2, <3>3 DEF RefuseCell
    <3>4. CASE RaiseEarly
      BY <3>4 DEF RaiseEarly
    <3> QED
      BY <1>2, <3>3, <3>4
  <2>2. /\ IsDrive(drive') /\ drive.aborts <= drive'.aborts
        /\ drive'.inFlight = drive.inFlight /\ drive'.unpackaged = drive.unpackaged
        /\ drive'.started # {}
    <3>1. IsDrive(drive) /\ drive.aborts + more \in Nat /\ drive.aborts <= drive.aborts + more
      BY <1>0 DEF Shape, IsDrive
    <3>2. Len(runs) \in Nat
      BY <1>0, ShapeIs
    <3> QED
      BY <2>1, <3>1, <3>2 DEF Begun, IsDrive, DriveFields
  <2>3. /\ repo' = repo /\ rows' = rows /\ runs' = runs /\ commits' = commits
        /\ batches' = batches /\ cell' = cell /\ attended' = attended
        /\ main' = main /\ base' = base /\ pc = "loop" /\ pc' = "reconcile" /\ prs' = prs
    BY <1>2 DEF RefuseCell, RaiseEarly, Admitted, queueVars
  <2>4. IsDrive(drive)'
    BY <2>2, <2>3 DEF IsDrive, Ids
  <2>5. Still
    BY <1>0, <2>2, <2>3, <2>4 DEF Still, Shape, Running
  <2> QED
    BY <2>5, StillIsSteady
<1>3. CASE Operator
  <2>1. /\ UNCHANGED nightVars /\ repo' = repo /\ base' = base /\ rows' = rows
        /\ commits' = commits
    BY <1>3 DEF Operator, OperatorMoves, Moves
  <2>2. "live" \in DOMAIN main' /\ main'.live \subseteq Ids
    BY <1>0, <1>3, OperatorLive DEF Operator, Shape
  <2>3. IsDrive(drive)' /\ drive.aborts <= drive.aborts
    BY <1>0, <2>1 DEF Shape, IsDrive, Ids, nightVars
  <2>4. Still
    BY <1>0, <1>3, <2>1, <2>2, <2>3, OperatorPrs
       DEF Still, Shape, Places, Running, Opening, nightVars, Operator
  <2> QED
    BY <2>4, StillIsSteady
<1>4. CASE UNCHANGED vars
  <2>1. IsDrive(drive)' /\ drive.aborts <= drive.aborts
    BY <1>0, <1>4 DEF Shape, IsDrive, Ids, nightVars, queueVars, vars
  <2>2. Still
    BY <1>0, <1>4, <2>1 DEF Still, Shape, Places, Running, Opening, nightVars, queueVars, vars
  <2> QED
    BY <2>2, StillIsSteady
<1>5. ASSUME NEW answers \in BOOLEAN, Scan(answers), ~Opening
      PROVE  Shape' /\ Places' /\ Steady
  <2>1. PICK queue : queue = BuildQueue(OpenPrs(answers))
    OBVIOUS
  <2>2. queue \subseteq Ids
    BY <1>0, <2>1, QueueIsOfIds
  <2>3. drive' = [drive EXCEPT !.pending = queue] /\ pc = "scan" /\ pc' = "loop"
    BY <1>5, <2>1 DEF Scan
  <2>4. /\ IsDrive(drive') /\ drive.aborts <= drive'.aborts
        /\ drive'.inFlight = drive.inFlight /\ drive'.unpackaged = drive.unpackaged
    BY <1>0, <2>2, <2>3 DEF Shape, IsDrive, DriveFields
  <2>5. /\ repo' = repo /\ rows' = rows /\ runs' = runs /\ commits' = commits
        /\ batches' = batches /\ cell' = cell /\ attended' = attended
        /\ main' = main /\ base' = base /\ prs' = prs
    BY <1>5 DEF Scan, queueVars
  <2>6. IsDrive(drive)'
    BY <2>4, <2>5 DEF IsDrive, Ids
  <2>7. Still
    BY <1>0, <1>5, <2>3, <2>4, <2>5, <2>6 DEF Still, Shape, Running
  <2> QED
    BY <2>7, StillIsSteady
<1> QED
  BY <1>1, <1>2, <1>3, <1>4, <1>5
-----------------------------------------------------------------------------
(* A reconcile, by the loop or by the cell beside it.                      *)

LEMMA ReconcilesSteadily ==
    ASSUME NightInv, NEW specs, NEW asked \in BOOLEAN, NEW stamp \in BOOLEAN,
           stamp => ~Running, rows' = Reconciled(specs, asked, stamp),
           UNCHANGED <<repo, main, base, commits, prs, batches, runs, drive, cell>>,
           IsAttended(attended)', attended'.at = "cell" => attended' = attended,
           \/ pc = "reconcile" /\ pc' = "scan"
           \/ pc # "idle" /\ pc' = pc
    PROVE  /\ Shape' /\ Places' /\ Steady
           /\ ~stamp /\ attended.at = "cell" => rows'[attended.row] = rows[attended.row]
<1>0. Shape /\ Places
  BY DEF NightInv
<1>1. /\ IsSeq(rows') /\ Len(rows') = Len(rows)
      /\ \A i \in 1 .. Len(rows) :
            /\ IsRow(rows'[i])
            /\ rows'[i].spec = rows[i].spec /\ rows'[i].pushed = rows[i].pushed
            /\ \/ rows'[i] = rows[i]
               \/ /\ stamp /\ rows[i].state \in InFlightStates
                  /\ rows'[i].state = "ORPHANED"
               \/ /\ rows[i].pr # 0 /\ rows[i].state \in Pending \union MergeOnly
                  /\ rows'[i].state \in Decisions
  BY <1>0, ReconciledRows
<1>2. Len(rows) = Len(runs) /\ Len(runs) \in Nat /\ DOMAIN runs = 1 .. Len(runs)
  BY <1>0, ShapeIs
<1>3. IsDrive(drive)' /\ drive.aborts <= drive.aborts
  BY <1>0 DEF Shape, IsDrive, Ids
<1>4. Shape'
  <2>1. \A i \in 1 .. Len(rows) : IsRow(rows[i])'
    BY <1>1 DEF IsRow, Ids
  <2>2. IsSeq(rows)' /\ IsSeq(commits)' /\ IsSeq(prs)'
    BY <1>0, <1>1 DEF IsSeq, Shape
  <2> QED
    BY <1>0, <1>1, <1>3, <2>1, <2>2 DEF Shape, Ids
<1>5. Running' <=> Running
  BY DEF Running, Opening
<1>6. ASSUME attended'.at = "cell"
      PROVE  /\ attended' = attended /\ attended.row \in 1 .. Len(runs)
             /\ runs[attended.row].by = 0
             /\ rows'[attended.row].state \in {"IMPLEMENTING", "ORPHANED"}
             /\ ~stamp => rows'[attended.row] = rows[attended.row]
  <2>1. /\ attended' = attended /\ attended.row \in 1 .. Len(runs) /\ runs[attended.row].by = 0
        /\ rows[attended.row].state \in {"IMPLEMENTING", "ORPHANED"}
    BY <1>0, <1>6 DEF Places
  <2>2. rows[attended.row].state \notin Pending \union MergeOnly
    BY <2>1 DEF Pending, MergeOnly
  <2> QED
    BY <1>1, <1>2, <2>1, <2>2
<1>7. Places'
  BY <1>0, <1>5, <1>6 DEF Places, Tonight
<1>8. ASSUME NEW i \in NightRuns
      PROVE  /\ runs'[i] = runs[i] /\ rows'[i].spec = rows[i].spec
             /\ InFlightAt(i)' => InFlightAt(i)
             /\ Unpackaged(i)' => Unpackaged(i)
             /\ Running => (InFlightAt(i) => InFlightAt(i)')
             /\ Running => (Unpackaged(i) => Unpackaged(i)')
             /\ Running => (Aborted(i)' => Aborted(i))
  <2>1. i \in 1 .. Len(runs) /\ runs' = runs
    BY <1>2 DEF NightRuns
  <2>4. CASE rows'[i] = rows[i]
    BY <2>1, <2>4 DEF InFlightAt, Unpackaged, Aborted
  <2>5. CASE rows'[i] # rows[i]
    <3>1. /\ rows'[i].state \in {"ORPHANED"} \union Decisions
          /\ Running => /\ rows[i].pr # 0 /\ rows[i].state \in Pending \union MergeOnly
                        /\ rows'[i].state \in Decisions
          /\ rows'[i].spec = rows[i].spec
      BY <1>1, <1>2, <2>1, <2>5
    <3>2. ~InFlightAt(i)' /\ ~Unpackaged(i)'
      BY <3>1 DEF InFlightAt, Unpackaged, InFlightStates, Decisions
    <3>3. Running => ~InFlightAt(i) /\ ~Unpackaged(i) /\ ~Aborted(i)'
      BY <3>1 DEF InFlightAt, Unpackaged, Aborted, InFlightStates, Pending, MergeOnly,
                        AbortStates, Decisions
    <3> QED
      BY <2>1, <3>1, <3>2, <3>3
  <2> QED
    BY <2>4, <2>5
<1>9. Cost(NightRuns)' = Cost(NightRuns)
  BY NightCost DEF Tonight
<1>10. Steady
  <2>1. \A i \in 1 .. Len(runs) : ~(i > Len(runs))
    BY <1>2
  <2> QED
    BY <1>2, <1>3, <1>5, <1>8, <1>9, <2>1 DEF Steady
<1>11. ~stamp /\ attended.at = "cell" => rows'[attended.row] = rows[attended.row]
  <2>1. attended.at = "cell" => /\ attended.row \in 1 .. Len(runs)
                                /\ rows[attended.row].state \in {"IMPLEMENTING", "ORPHANED"}
    BY <1>0 DEF Places
  <2>2. attended.at = "cell" => rows[attended.row].state \notin Pending \union MergeOnly
    BY <2>1 DEF Pending, MergeOnly
  <2> QED
    BY <1>1, <1>2, <2>1, <2>2
<1> QED
  BY <1>4, <1>7, <1>10, <1>11

-----------------------------------------------------------------------------
(* A cell settles its row.                                                 *)

LEMMA ReachIs ==
    ASSUME NEW end
    PROVE  /\ Links(end) => Opens(end) /\ Records(end)
           /\ Opens(end) => Records(end)
           /\ Records(end) => Pushes(end)
  BY DEF Links, Opens, Records, Pushes

(* The pull request a cell's branch gets.                                  *)
LEMMA PrIs ==
    ASSUME Shape, NEW s, NEW pr, pr = IF PrOf(s) # {} THEN Min(PrOf(s)) ELSE Len(prs) + 1
    PROVE  pr \in 1 .. Len(prs) + 1
<1>1. DOMAIN prs = 1 .. Len(prs) /\ Len(prs) \in Nat
  BY ShapeIs
<1>2. CASE PrOf(s) # {}
  <2>1. PrOf(s) \subseteq 1 .. Len(prs) /\ PrOf(s) \subseteq Nat
    BY <1>1 DEF PrOf
  <2>2. Min(PrOf(s)) \in PrOf(s)
    BY <1>2, <2>1, MinIs
  <2> QED
    BY <1>1, <1>2, <2>1, <2>2
<1>3. CASE PrOf(s) = {}
  BY <1>1, <1>3
<1> QED
  BY <1>2, <1>3

LEMMA SettleIs ==
    ASSUME Shape, NEW id \in 1 .. Len(runs), NEW end, CellSettles(id, end)
    PROVE  /\ IsSeq(rows') /\ Len(rows') = Len(rows) /\ IsSeq(commits') /\ IsSeq(prs')
           /\ \A i \in (1 .. Len(runs)) \ {id} : rows'[i] = rows[i]
           /\ IsRow(rows'[id]) /\ rows'[id].spec = rows[id].spec
           /\ rows'[id].state = end.state
           /\ rows'[id].pushed # 0 \/ rows'[id].pushed = rows[id].pushed
           /\ Links(end) => rows'[id].pr # 0
<1>1. /\ IsSeq(rows) /\ DOMAIN rows = 1 .. Len(runs) /\ Len(rows) = Len(runs)
      /\ Len(commits) \in Nat /\ IsRow(rows[id]) /\ IsSeq(commits) /\ IsSeq(prs)
  BY ShapeIs DEF Shape
<1>2. PICK commit, pr : /\ commit = Len(commits) + 1
                        /\ pr = IF PrOf(rows[id].spec) # {} THEN Min(PrOf(rows[id].spec))
                                ELSE Len(prs) + 1
                        /\ rows' = [rows EXCEPT
                              ![id] = [rows[id] EXCEPT
                                 !.state = end.state,
                                 !.pushed = IF Records(end) THEN commit ELSE rows[id].pushed,
                                 !.pushedIn = IF Records(end) THEN end.state
                                              ELSE rows[id].pushedIn,
                                 !.pr = IF Links(end) THEN pr ELSE rows[id].pr]]
                        /\ prs' = CASE ~Opens(end) -> prs
                                    [] Opens(end) /\ pr > Len(prs) ->
                                          Append(prs, [spec |-> rows[id].spec,
                                                       state |-> "draft", decided |-> FALSE])
                                    [] OTHER -> [prs EXCEPT ![pr].state = "draft"]
  BY DEF CellSettles
<1>3. IsSeq(commits')
  <2>1. CASE Pushes(end)
    <3>1. PICK e : commits' = Append(commits, e)
      BY <2>1 DEF CellSettles
    <3> QED
      BY <1>1, <3>1, OneLonger
  <2>2. CASE ~Pushes(end)
    <3>1. commits' = commits
      BY <2>2 DEF CellSettles
    <3> QED
      BY <1>1, <3>1
  <2> QED
    BY <2>1, <2>2
<1>4. IsSeq(prs')
  <2>1. PICK e : \/ prs' = prs \/ prs' = Append(prs, e)
                 \/ prs' = [k \in DOMAIN prs |-> prs'[k]]
    BY <1>2
  <2>2. IsSeq(Append(prs, e))
    BY <1>1, OneLonger
  <2>3. PICK f : f = prs'
    OBVIOUS
  <2>4. CASE f = [k \in DOMAIN prs |-> f[k]]
    BY <1>1, <2>3, <2>4, SameLength
  <2> QED
    BY <1>1, <2>1, <2>2, <2>3, <2>4
<1>5. IsSeq(rows') /\ Len(rows') = Len(rows)
  <2>1. rows' = [i \in DOMAIN rows |-> rows'[i]]
    BY <1>2
  <2> QED
    BY <1>1, <2>1, SameLength
<1>6. PICK r : r = rows[id]
  OBVIOUS
<1>7. PICK e : /\ e = rows'[id]
               /\ e = [r EXCEPT !.state = end.state,
                                !.pushed = IF Records(end) THEN commit ELSE r.pushed,
                                !.pushedIn = IF Records(end) THEN end.state ELSE r.pushedIn,
                                !.pr = IF Links(end) THEN pr ELSE r.pr]
  <2>1. PICK e : e = [rows[id] EXCEPT
                        !.state = end.state,
                        !.pushed = IF Records(end) THEN commit ELSE rows[id].pushed,
                        !.pushedIn = IF Records(end) THEN end.state ELSE rows[id].pushedIn,
                        !.pr = IF Links(end) THEN pr ELSE rows[id].pr]
    OBVIOUS
  <2>2. rows' = [rows EXCEPT ![id] = e]
    BY <1>2, <2>1
  <2>3. rows'[id] = e
    BY <1>1, <2>2
  <2> QED
    BY <1>6, <2>1, <2>3
<1>8. /\ DOMAIN r = RowFields /\ r.spec \in Ids /\ (r.pr # 0 => r.pushed # 0)
  BY <1>1, <1>6 DEF IsRow
<1>9. /\ DOMAIN e = RowFields /\ e = [f \in RowFields |-> e[f]] /\ e.spec = r.spec
      /\ e.state = end.state
      /\ e.pushed = (IF Records(end) THEN commit ELSE r.pushed)
      /\ e.pr = (IF Links(end) THEN pr ELSE r.pr)
  BY <1>7, <1>8 DEF RowFields
<1>10. commit # 0 /\ pr # 0
  <2>1. pr \in 1 .. Len(prs) + 1 /\ Len(prs) \in Nat
    BY <1>2, PrIs, ShapeIs
  <2> QED
    BY <1>1, <1>2, <2>1
<1>11. Links(end) => Records(end)
  BY ReachIs
<1>12. /\ IsRow(e) /\ (Links(end) => e.pr # 0)
       /\ e.pushed # 0 \/ e.pushed = r.pushed
  BY <1>8, <1>9, <1>10, <1>11 DEF IsRow
<1>13. \A i \in (1 .. Len(runs)) \ {id} : rows'[i] = rows[i]
  BY <1>1, <1>2
<1> QED
  BY <1>3, <1>4, <1>5, <1>6, <1>7, <1>9, <1>12, <1>13

(* What a cell ends as.                                                    *)
LEMMA ReturnedIs ==
    ASSUME NEW end \in Returned
    PROVE  /\ end.status = "COMPLETE" /\ end.state \in repo.ends
           /\ end.state = "READY_FOR_REVIEW" => Links(end)
  BY DEF Returned, Ways

LEMMA RaisedIs ==
    ASSUME NEW end \in Raised
    PROVE  /\ end.status \in {"COMPLETE", "ABORTED"} /\ end.state \notin InFlightStates
           /\ end.state \in {"ORPHANED", "READY_FOR_REVIEW"} \union repo.ends
<1>1. CASE end \in RaisedInCell
  BY <1>1 DEF RaisedInCell, Ways, InFlightStates
<1>2. CASE end \in RaisedInPackage
  BY <1>2 DEF RaisedInPackage, Ways, InFlightStates
<1>3. CASE end \in RaisedSettled
  BY <1>3 DEF RaisedSettled, Ways
<1> QED
  BY <1>1, <1>2, <1>3 DEF Raised

LEMMA CutShortIs ==
    ASSUME NEW id, NEW end \in CutShort(id)
    PROVE  end.status = "RUNNING" /\ end.state = rows[id].state
  BY DEF CutShort, Ways

(* GitHub's states are never what a cell ends in.                          *)
LEMMA EndsAre ==
    ASSUME Shape, NEW id, NEW end \in Returned \union Raised \union CutShort(id)
    PROVE  /\ end.status \in Statuses
           /\ end.state \in Decisions => end.state = rows[id].state
<1>1. repo.ends \intersect Decisions = {}
  BY NightAssumption DEF Shape, Decisions
<1>2. CASE end \in Returned
  BY <1>1, <1>2, ReturnedIs DEF Statuses
<1>3. CASE end \in Raised
  BY <1>1, <1>3, RaisedIs DEF Statuses, Decisions
<1>4. CASE end \in CutShort(id)
  BY <1>4, CutShortIs DEF Statuses
<1> QED
  BY <1>2, <1>3, <1>4

LEMMA EndedIs ==
    ASSUME Shape, NEW id \in 1 .. Len(runs), NEW cost \in Nat,
           NEW end, end.status \in Statuses, NEW found, found = Ended(id, cost, end)
    PROVE  /\ found \in Seq(Run) /\ Len(found) = Len(runs)
           /\ \A i \in (1 .. Len(runs)) \ {id} : found[i] = runs[i]
           /\ found[id].by = runs[id].by /\ found[id].batch = runs[id].batch
           /\ found[id].cost = cost /\ found[id].status = end.status
<1>1. /\ DOMAIN runs = 1 .. Len(runs) /\ Len(runs) \in Nat
      /\ \A i \in 1 .. Len(runs) : runs[i] \in Run
  BY ShapeIs
<1>2. PICK status \in Statuses : status = end.status
  OBVIOUS
<1>3. PICK e : e = [runs[id] EXCEPT !.cost = cost, !.status = status]
  OBVIOUS
<1>4. found = [runs EXCEPT ![id] = e]
  BY <1>2, <1>3 DEF Ended
<1>5. /\ e \in Run /\ e.by = runs[id].by /\ e.batch = runs[id].batch
      /\ e.cost = cost /\ e.status = status
  <2>1. runs[id] \in Run
    BY <1>1
  <2> QED
    BY <1>3, <2>1 DEF Run
<1>6. found \in [1 .. Len(runs) -> Run] /\ found[id] = e
      /\ \A i \in (1 .. Len(runs)) \ {id} : found[i] = runs[i]
  BY <1>1, <1>4, <1>5
<1>7. found \in Seq(Run) /\ Len(found) = Len(runs)
  <2>1. found \in Seq(Run)
    BY <1>1, <1>6, SeqDef
  <2>2. DOMAIN found = 1 .. Len(runs) /\ DOMAIN found = 1 .. Len(found) /\ Len(found) \in Nat
    BY <1>6, <2>1, LenProperties
  <2> QED
    BY <1>1, <2>1, <2>2
<1> QED
  BY <1>2, <1>5, <1>6, <1>7
-----------------------------------------------------------------------------
(* The cell beside the night.                                              *)

LEMMA AttendedStartsSteadily ==
    ASSUME NightInv, AttendedStarts
    PROVE  Shape' /\ Places' /\ Steady
<1>0. Shape /\ Places
  BY DEF NightInv
<1>1. /\ attended.at = "asked" /\ attended.spec \in Ids
      /\ UNCHANGED <<repo, main, base, commits, remote, prs, moves, pc, batches, drive, cell>>
  BY <1>0 DEF AttendedStarts, Shape, IsAttended
<1>2. IsDrive(drive)' /\ drive.aborts <= drive.aborts
  BY <1>0, <1>1 DEF Shape, IsDrive, Ids
<1>3. Running' <=> Running
  BY <1>1 DEF Running, Opening
<1>4. CASE attended' = NoCell /\ UNCHANGED <<rows, runs>>
  <2>1. IsAttended(attended)' /\ attended'.at = "none"
    BY <1>4 DEF IsAttended, NoCell, AttendedFields
  <2>2. \A i \in 1 .. Len(rows) : IsRow(rows[i])'
    BY <1>0, <1>1, <1>4 DEF Shape, IsRow, Ids
  <2>3. Shape'
    BY <1>0, <1>1, <1>2, <1>4, <2>1, <2>2 DEF Shape, Ids, IsSeq
  <2>4. Places'
    BY <1>0, <1>1, <1>3, <1>4, <2>1 DEF Places, Tonight
  <2>5. \A i \in 1 .. Len(runs) : ~(i > Len(runs))
    BY <1>0, ShapeIs
  <2>6. Len(runs) <= Len(runs)
    BY <1>0, ShapeIs
  <2>7. Cost(NightRuns)' = Cost(NightRuns)
    BY <1>1, <1>4, NightCost DEF Tonight
  <2>8. Steady
    BY <1>1, <1>2, <1>3, <1>4, <2>5, <2>6, <2>7 DEF Steady, InFlightAt, Unpackaged, Aborted
  <2> QED
    BY <2>3, <2>4, <2>8
<1>5. CASE ~(attended' = NoCell /\ UNCHANGED <<rows, runs>>)
  <2>1. PICK head : /\ rows' = Append(rows, NewRow(attended.spec, main, head))
                    /\ runs' = Append(runs, NewRun(0))
                    /\ attended' = [attended EXCEPT !.at = "cell", !.row = Len(rows) + 1]
    BY <1>5 DEF AttendedStarts
  <2>2. PICK r : /\ r = NewRow(attended.spec, main, head)
                 /\ rows' = Append(rows, r)
    BY <2>1
  <2>3. IsRow(r) /\ r.state = "IMPLEMENTING"
    BY <1>1, <2>2 DEF NewRow, IsRow, RowFields
  <2>4. PICK e : /\ e \in Run /\ e.by = 0 /\ e.cost = 0 /\ runs' = Append(runs, e)
    BY <2>1 DEF NewRun, Run, Statuses
  <2>5. /\ IsSeq(rows') /\ Len(rows') = Len(runs) + 1
        /\ \A i \in 1 .. Len(runs) : rows'[i] = rows[i]
        /\ rows'[Len(runs) + 1] = r
    BY <1>0, <2>2, ShapeIs, OneLonger DEF Shape
  <2>6. /\ runs' \in Seq(Run) /\ Len(runs') = Len(runs) + 1
        /\ \A i \in 1 .. Len(runs) : runs'[i] = runs[i]
        /\ runs'[Len(runs) + 1] = e /\ Len(runs) \in Nat
    BY <1>0, <2>4, AppendProperties DEF Shape
  <2>7. \A i \in 1 .. Len(runs) + 1 : i \in 1 .. Len(runs) \/ i = Len(runs) + 1
    BY <2>6
  <2>8. \A i \in 1 .. Len(runs) : i \in 1 .. Len(runs) + 1 /\ ~(i > Len(runs))
    BY <2>6
  <2>9. /\ IsAttended(attended)' /\ attended'.at = "cell"
        /\ attended'.row = Len(runs) + 1 /\ Len(runs) + 1 \in 1 .. Len(runs) + 1
    BY <1>0, <2>1, <2>6, ShapeIs DEF Shape, IsAttended, AttendedFields
  <2>10. Shape'
    <3>1. \A i \in 1 .. Len(rows') : IsRow(rows'[i])
      BY <1>0, <2>3, <2>5, <2>7, ShapeIs
    <3>2. \A i \in 1 .. Len(rows') : IsRow(rows[i])'
      BY <1>1, <3>1 DEF IsRow, Ids
    <3>3. IsSeq(rows)' /\ IsSeq(commits)' /\ IsSeq(prs)'
      BY <1>0, <1>1, <2>5 DEF Shape, IsSeq
    <3> QED
      BY <1>0, <1>1, <1>2, <2>5, <2>6, <2>9, <3>2, <3>3 DEF Shape, Ids
  <2>11. Places'
    <3>1. Tonight' = Tonight /\ Tonight \in Nat
      BY <1>0, <1>1, ShapeIs DEF Tonight
    <3>2. \A i \in 1 .. Len(runs') : runs'[i].by <= Tonight
      BY <1>0, <2>4, <2>6, <2>7, <3>1 DEF Places
    <3>3. runs'[attended'.row].by = 0 /\ rows'[attended'.row].state = "IMPLEMENTING"
      BY <2>3, <2>4, <2>5, <2>6, <2>9
    <3>4. pc = "cell" => /\ cell \in 1 .. Len(runs') /\ runs'[cell] = runs[cell]
      BY <1>0, <2>6, <2>8 DEF Places
    <3> QED
      BY <1>0, <1>1, <1>3, <2>6, <2>9, <3>1, <3>2, <3>3, <3>4 DEF Places
  <2>12. Cost(NightRuns)' = Cost(NightRuns)
    <3>1. Spent(runs', Tonight) = Spent(runs, Tonight)
      BY <1>0, <2>4, ShapeIs, SpentOfNewRun DEF Shape
    <3> QED
      BY <1>1, <3>1, NightCost DEF Tonight
  <2>13. ASSUME NEW i \in NightRuns
         PROVE  rows'[i] = rows[i] /\ runs'[i] = runs[i]
    BY <1>0, <2>5, <2>6, NightRunsAre
  <2>14. Steady
    <3>1. Len(runs) <= Len(runs') /\ \A i \in 1 .. Len(runs') : i > Len(runs) => runs'[i].by = 0
      BY <2>4, <2>6, <2>7, <2>8
    <3> QED
      BY <1>1, <1>2, <1>3, <2>6, <2>12, <2>13, <3>1
         DEF Steady, InFlightAt, Unpackaged, Aborted
  <2> QED
    BY <2>10, <2>11, <2>14
<1> QED
  BY <1>4, <1>5

LEMMA AttendedEndsSteadily ==
    ASSUME NightInv, NEW end \in Returned \union Raised \union CutShort(attended.row),
           AttendedEnds(end, Min(Costs))
    PROVE  Shape' /\ Places' /\ Steady
<1>0. Shape /\ Places
  BY DEF NightInv
<1>1. /\ attended.at = "cell" /\ CellSettles(attended.row, end)
      /\ UNCHANGED <<repo, main, base, moves, pc, batches, drive, cell>>
      /\ runs' = Ended(attended.row, Min(Costs), end) /\ attended' = NoCell
  BY DEF AttendedEnds
<1>2. PICK id \in 1 .. Len(runs) : id = attended.row /\ runs[id].by = 0
  BY <1>0, <1>1 DEF Places
<1>3. PICK cost \in Nat : cost = Min(Costs)
  BY NightAssumption, MinIs
<1>4. /\ IsSeq(rows') /\ Len(rows') = Len(rows) /\ IsSeq(commits') /\ IsSeq(prs')
      /\ \A i \in (1 .. Len(runs)) \ {id} : rows'[i] = rows[i]
      /\ IsRow(rows'[id])
  BY <1>0, <1>1, <1>2, SettleIs
<1>5. /\ runs' \in Seq(Run) /\ Len(runs') = Len(runs)
      /\ \A i \in (1 .. Len(runs)) \ {id} : runs'[i] = runs[i]
      /\ runs'[id].by = 0
  <2>1. end.status \in Statuses
    BY <1>0, EndsAre
  <2> QED
    BY <1>0, <1>1, <1>2, <1>3, <2>1, EndedIs
<1>6. IsDrive(drive)' /\ drive.aborts <= drive.aborts
  BY <1>0, <1>1 DEF Shape, IsDrive, Ids
<1>7. Running' <=> Running
  BY <1>1 DEF Running, Opening
<1>8. IsAttended(attended)' /\ attended'.at = "none"
  BY <1>1 DEF IsAttended, NoCell, AttendedFields
<1>9. Len(rows) = Len(runs) /\ Len(runs) \in Nat
  BY <1>0, ShapeIs
<1>10. Shape'
  <2>1. \A i \in 1 .. Len(rows') : IsRow(rows'[i])
    BY <1>0, <1>4, <1>9, ShapeIs
  <2>2. \A i \in 1 .. Len(rows') : IsRow(rows[i])'
    BY <1>1, <2>1 DEF IsRow, Ids
  <2>3. IsSeq(rows)' /\ IsSeq(commits)' /\ IsSeq(prs)'
    BY <1>4 DEF IsSeq
  <2> QED
    BY <1>0, <1>1, <1>4, <1>5, <1>6, <1>8, <1>9, <2>2, <2>3 DEF Shape, Ids
<1>11. Tonight' = Tonight /\ Tonight \in Nat
  BY <1>0, <1>1, ShapeIs DEF Tonight
<1>12. ASSUME NEW i \in NightRuns
       PROVE  i \in (1 .. Len(runs)) \ {id}
  BY <1>0, <1>2, <1>12, NightRunsAre
<1>13. Places'
  <2>1. \A i \in 1 .. Len(runs') : runs'[i].by <= Tonight
    BY <1>0, <1>5, <1>11 DEF Places
  <2>2. pc = "cell" => cell \in NightRuns
    BY <1>0, NightRunsAre DEF Places, Running
  <2>3. pc = "cell" => runs'[cell] = runs[cell]
    BY <1>5, <1>12, <2>2
  <2> QED
    BY <1>0, <1>1, <1>5, <1>7, <1>8, <1>11, <2>1, <2>3 DEF Places
<1>14. Cost(NightRuns)' = Cost(NightRuns)
  <2>1. \A i \in 1 .. Len(runs) :
           runs'[i].by = runs[i].by
           /\ (Tonight # 0 /\ runs[i].by = Tonight => runs'[i].cost = runs[i].cost)
    BY <1>2, <1>5
  <2>2. Spent(runs', Tonight) = Spent(runs, Tonight)
    BY <1>0, <1>5, <1>11, <2>1, SpentStays DEF Shape
  <2> QED
    BY <1>11, <2>2, NightCost
<1>15. Steady
  <2>1. \A i \in NightRuns : rows'[i] = rows[i] /\ runs'[i] = runs[i]
    BY <1>4, <1>5, <1>12
  <2>2. \A i \in 1 .. Len(runs) : runs'[i].by = runs[i].by /\ ~(i > Len(runs))
    BY <1>2, <1>5, <1>9
  <2>3. Len(runs) <= Len(runs)
    BY <1>9
  <2> QED
    BY <1>1, <1>5, <1>6, <1>7, <1>14, <2>1, <2>2, <2>3
       DEF Steady, InFlightAt, Unpackaged, Aborted
<1> QED
  BY <1>10, <1>13, <1>15

SteadyStep == \/ Readiness \/ RefuseCell \/ RaiseEarly \/ Beside \/ UNCHANGED vars
              \/ \E asked \in BOOLEAN : Reconcile(asked) \/ (Scan(asked) /\ ~Opening)

LEMMA SteadySteps ==
    ASSUME NightInv, SteadyStep
    PROVE  Shape' /\ Places' /\ Steady
<1>0. Shape
  BY DEF NightInv
<1>1. CASE Readiness \/ RefuseCell \/ RaiseEarly \/ UNCHANGED vars
           \/ \E asked \in BOOLEAN : Scan(asked) /\ ~Opening
  BY <1>1, StillSteps
<1>2. CASE \E asked \in BOOLEAN : Reconcile(asked)
  <2>1. PICK asked \in BOOLEAN : Reconcile(asked)
    BY <1>2
  <2>2. PICK stamp \in BOOLEAN : stamp = Opening
    BY DEF Opening
  <2>3. stamp => ~Running
    BY <2>1, <2>2 DEF Reconcile, Running
  <2>4. /\ rows' = Reconciled(Ids, asked, stamp) /\ pc = "reconcile" /\ pc' = "scan"
        /\ UNCHANGED <<repo, main, base, commits, prs, batches, runs, drive, cell>>
        /\ attended' = attended
    BY <2>1, <2>2 DEF Reconcile
  <2>5. IsAttended(attended)'
    BY <1>0, <2>4 DEF Shape, IsAttended, Ids
  <2> QED
    BY <2>3, <2>4, <2>5, ReconcilesSteadily
<1>3. CASE \E s \in repo.attended, asked \in BOOLEAN : AttendedAsks(s, asked)
  <2>1. PICK s \in repo.attended, asked \in BOOLEAN : AttendedAsks(s, asked)
    BY <1>3
  <2>2. /\ rows' = Reconciled(ToSet(Declared(s).deps), asked, FALSE)
        /\ UNCHANGED <<repo, main, base, commits, prs, batches, runs, drive, cell>>
        /\ pc # "idle" /\ pc' = pc
    BY <2>1 DEF AttendedAsks
  <2>3. attended'.at = "asked" /\ IsAttended(attended)'
    BY <1>0, <2>1 DEF AttendedAsks, IsAttended, AttendedFields, Shape, Ids
  <2> QED
    BY <2>2, <2>3, ReconcilesSteadily
<1>4. CASE Operator
  BY <1>4, StillSteps
<1>5. CASE AttendedStarts
  BY <1>5, AttendedStartsSteadily
<1>6. CASE \E end \in Returned \union Raised \union CutShort(attended.row) :
              AttendedEnds(end, Min(Costs))
  BY <1>6, AttendedEndsSteadily
<1> QED
  BY <1>1, <1>2, <1>3, <1>4, <1>5, <1>6 DEF SteadyStep, Beside
-----------------------------------------------------------------------------
(* The steps that end a night, or never open one.                          *)

LEMMA PromotedIs ==
    ASSUME NEW reason \in {"DRAINED", "BUDGET", "UNTIL", "INFRASTRUCTURE"}
    PROVE  /\ Promoted(reason) \in Closed
           /\ Promoted(reason) \in {"DRAINED", "BUDGET", "UNTIL"}
                 => /\ drive.inFlight = {} /\ drive.unpackaged = {}
                    /\ Promoted(reason) = reason
  BY DEF Promoted, Closed

(* The process is gone: nothing of the loop is kept, the ledger is.        *)
Idles ==
    /\ pc' = "idle" /\ drive'.started = {} /\ IsDrive(drive)' /\ cell' = 0
    /\ UNCHANGED <<repo, main, base, attended>>
    /\ IsSeq(commits') /\ IsSeq(prs')
    /\ batches' \in Seq({"open"} \union Closed) /\ Len(batches) <= Len(batches')
    /\ runs' \in Seq(Run) /\ Len(runs') = Len(runs)
    /\ \A i \in 1 .. Len(runs) : runs'[i].by = runs[i].by
    /\ IsSeq(rows') /\ Len(rows') = Len(rows)
    /\ \A i \in 1 .. Len(rows) : IsRow(rows'[i])
    /\ attended.at = "cell" => rows'[attended.row] = rows[attended.row]

LEMMA IdlesKeeps ==
    ASSUME NightInv, Idles
    PROVE  NightInv'
<1>0. Shape /\ Places
  BY DEF NightInv
<1>1. ~Running' /\ pc' # "cell"
  BY DEF Idles, Running, Opening
<1>2. Shape'
  <2>1. \A i \in 1 .. Len(rows') : IsRow(rows[i])'
    BY DEF Idles, IsRow, Ids
  <2>2. IsSeq(rows)' /\ IsSeq(commits)' /\ IsSeq(prs)' /\ IsAttended(attended)'
    BY <1>0 DEF Shape, Idles, IsSeq, IsAttended, Ids
  <2> QED
    BY <1>0, <2>1, <2>2 DEF Shape, Idles, Ids
<1>3. Places'
  <2>1. Tonight \in Nat /\ Tonight' \in Nat /\ Tonight <= Tonight'
    BY <1>0, LenProperties DEF Shape, Tonight, Idles
  <2>2. \A i \in 1 .. Len(runs') : runs'[i].by <= Tonight'
    <3>1. \A i \in 1 .. Len(runs) : runs[i].by <= Tonight /\ runs[i].by \in Nat
      BY <1>0, ShapeIs DEF Places
    <3>2. \A i \in 1 .. Len(runs) : runs[i].by <= Tonight'
      BY <2>1, <3>1
    <3> QED
      BY <3>2 DEF Idles
  <2> QED
    BY <1>0, <1>1, <2>2 DEF Places, Idles
<1>4. Counted' /\ Funded' /\ Standing' /\ Breaks'
  BY <1>1 DEF Counted, Funded, Standing, Breaks
<1> QED
  BY <1>2, <1>3, <1>4 DEF NightInv

(* The night ends with its cell cut short: closed, or killed.              *)
Cuts(end, cost) == \/ end \in Raised /\ Interrupted(end, cost)
                   \/ /\ end \in Returned \union Raised \union CutShort(cell)
                      /\ pc = "cell" /\ KilledInCell(end, cost)

Ending == \/ NotReady \/ ScanRaises \/ Drained \/ Until \/ OutOfBudget \/ Breaker \/ Kill
          \/ \E end \in Returned \union Raised \union CutShort(cell), cost \in Costs :
                Cuts(end, cost)

LEMMA FreshIs == IsDrive(Fresh) /\ Fresh.started = {}
  BY DEF IsDrive, Fresh, DriveFields

LEMMA StopIs ==
    ASSUME Shape, Places, Running,
           NEW reason \in {"DRAINED", "BUDGET", "UNTIL", "INFRASTRUCTURE"}, Stop(reason)
    PROVE  /\ batches' \in Seq({"open"} \union Closed) /\ Len(batches') = Len(batches)
           /\ batches'[Tonight] = Promoted(reason)
           /\ pc' = "idle" /\ cell' = 0 /\ drive' = Fresh
<1>1. batches' = [batches EXCEPT ![Tonight] = Promoted(reason)]
  BY DEF Stop
<1>2. Tonight \in 1 .. Len(batches) /\ Promoted(reason) \in Closed
  BY PromotedIs, LenProperties DEF Places, Tonight, Shape
<1>3. /\ batches' \in Seq({"open"} \union Closed) /\ Len(batches') = Len(batches)
      /\ batches'[Tonight] = Promoted(reason)
  BY <1>1, <1>2 DEF Shape
<1> QED
  BY <1>3 DEF Stop, Exits

(* Where a night is stopped, and why.                                      *)
LEMMA EndsBy ==
    ASSUME Drained \/ Until \/ OutOfBudget \/ Breaker
    PROVE  /\ \E reason \in {"DRAINED", "BUDGET", "UNTIL", "INFRASTRUCTURE"} :
                 /\ Stop(reason)
                 /\ reason = "DRAINED" => Offered = {} /\ ~Tripped
           /\ pc = "loop" /\ UNCHANGED <<queueVars, runs, attended>>
<1>1. CASE Drained
  <2>1. PICK reason \in {"DRAINED", "INFRASTRUCTURE"} :
           reason = IF Tripped THEN "INFRASTRUCTURE" ELSE "DRAINED"
    OBVIOUS
  <2> QED
    BY <1>1, <2>1 DEF Drained, Ends
<1>2. CASE Until
  BY <1>2 DEF Until, Ends
<1>3. CASE OutOfBudget
  BY <1>3 DEF OutOfBudget, Ends
<1>4. CASE Breaker
  BY <1>4 DEF Breaker, Ends
<1> QED
  BY <1>1, <1>2, <1>3, <1>4

LEMMA CutsAre ==
    ASSUME NightInv, NEW end, NEW cost \in Costs, Cuts(end, cost)
    PROVE  /\ Running /\ pc = "cell" /\ cell \in 1 .. Len(runs) /\ cell \in NightRuns
           /\ CellSettles(cell, end) /\ runs' = Ended(cell, cost, end) /\ cost \in Nat
           /\ end.status \in Statuses
           /\ end.state \in Decisions => end.state = rows[cell].state
           /\ pc' = "idle" /\ cell' = 0 /\ drive' = Fresh
           /\ UNCHANGED <<repo, main, base, moves, attended>>
           /\ batches' \in Seq({"open"} \union Closed) /\ Len(batches') = Len(batches)
           /\ \/ batches' = batches
              \/ /\ batches'[Tonight] = Promoted("INFRASTRUCTURE")
                 /\ end.state \notin InFlightStates
<1>0. Shape /\ Places
  BY DEF NightInv
<1>1. cost \in Nat
  BY NightAssumption
<1>2. /\ pc = "cell" /\ CellSettles(cell, end) /\ runs' = Ended(cell, cost, end)
      /\ UNCHANGED <<repo, main, base, moves, attended>>
  BY DEF Cuts, Interrupted, KilledInCell
<1>3. Running /\ cell \in 1 .. Len(runs) /\ cell \in NightRuns
  BY <1>0, <1>2, NightRunsAre DEF Running, Places
<1>4. /\ end.status \in Statuses
      /\ end.state \in Decisions => end.state = rows[cell].state
  BY <1>0, EndsAre DEF Cuts
<1>5. CASE end \in Raised /\ Interrupted(end, cost)
  <2>1. Stop("INFRASTRUCTURE") /\ end.state \notin InFlightStates
    BY <1>5, RaisedIs DEF Interrupted
  <2>2. /\ batches' \in Seq({"open"} \union Closed) /\ Len(batches') = Len(batches)
        /\ batches'[Tonight] = Promoted("INFRASTRUCTURE")
        /\ pc' = "idle" /\ cell' = 0 /\ drive' = Fresh
    BY <1>0, <1>3, <2>1, StopIs
  <2> QED
    BY <1>1, <1>2, <1>3, <1>4, <2>1, <2>2
<1>6. CASE KilledInCell(end, cost)
  <2>1. pc' = "idle" /\ cell' = 0 /\ drive' = Fresh /\ batches' = batches
    BY <1>6 DEF KilledInCell, Exits
  <2> QED
    BY <1>0, <1>1, <1>2, <1>3, <1>4, <2>1 DEF Shape
<1> QED
  BY <1>5, <1>6 DEF Cuts

LEMMA CutsIdle ==
    ASSUME NightInv, NEW end, NEW cost \in Costs, Cuts(end, cost)
    PROVE  Idles
<1>0. Shape /\ Places
  BY DEF NightInv
<1>1. /\ cell \in 1 .. Len(runs) /\ cell \in NightRuns /\ Running /\ cost \in Nat
      /\ CellSettles(cell, end) /\ runs' = Ended(cell, cost, end) /\ end.status \in Statuses
      /\ pc' = "idle" /\ cell' = 0 /\ drive' = Fresh
      /\ UNCHANGED <<repo, main, base, moves, attended>>
      /\ batches' \in Seq({"open"} \union Closed) /\ Len(batches') = Len(batches)
  BY CutsAre
<1>2. /\ runs' \in Seq(Run) /\ Len(runs') = Len(runs)
      /\ \A i \in 1 .. Len(runs) : runs'[i].by = runs[i].by
  <2>1. /\ runs' \in Seq(Run) /\ Len(runs') = Len(runs)
        /\ \A i \in (1 .. Len(runs)) \ {cell} : runs'[i] = runs[i]
        /\ runs'[cell].by = runs[cell].by
    BY <1>0, <1>1, EndedIs
  <2> QED
    BY <2>1
<1>3. /\ IsSeq(rows') /\ Len(rows') = Len(rows) /\ IsSeq(commits') /\ IsSeq(prs')
      /\ \A i \in (1 .. Len(runs)) \ {cell} : rows'[i] = rows[i]
      /\ IsRow(rows'[cell])
  BY <1>0, <1>1, SettleIs
<1>4. Len(rows) = Len(runs) /\ \A i \in 1 .. Len(rows) : IsRow(rows'[i])
  BY <1>0, <1>3, ShapeIs
<1>5. attended.at = "cell" => rows'[attended.row] = rows[attended.row]
  <2>1. attended.at = "cell" => attended.row \in 1 .. Len(runs) /\ attended.row # cell
    BY <1>0, <1>1 DEF Places, NightRuns
  <2> QED
    BY <1>3, <2>1
<1>6. IsDrive(drive)' /\ drive'.started = {} /\ Len(batches) <= Len(batches)
  BY <1>0, <1>1, FreshIs, ShapeIs DEF IsDrive, Ids, Tonight
<1> QED
  BY <1>1, <1>2, <1>3, <1>4, <1>5, <1>6 DEF Idles

LEMMA EndingSteps ==
    ASSUME NightInv, Ending
    PROVE  Idles
<1>0. Shape /\ Places
  BY DEF NightInv
<1>1. /\ Len(runs) \in Nat /\ Len(rows) = Len(runs) /\ Len(batches) \in Nat
      /\ Len(batches) <= Len(batches) /\ runs \in Seq(Run)
  BY <1>0, ShapeIs DEF Tonight, Shape
<1>2. \A i \in 1 .. Len(rows) : IsRow(rows[i])
  BY <1>0 DEF Shape
<1>3. drive' = Fresh /\ repo' = repo => IsDrive(drive)' /\ drive'.started = {}
  BY FreshIs DEF IsDrive, Ids
<1>4. ASSUME NEW e \in Closed
      PROVE  /\ Append(batches, e) \in Seq({"open"} \union Closed)
             /\ Len(batches) <= Len(Append(batches, e))
  BY <1>0, <1>1 DEF Shape
<1>5. CASE NotReady
  <2>1. pc = "idle" /\ cell = 0 /\ drive.started = {}
    BY <1>0, <1>5 DEF NotReady, Places
  <2>2. IsDrive(drive)'
    BY <1>0, <1>5 DEF NotReady, Shape, IsDrive, Ids, queueVars
  <2>3. /\ batches' \in Seq({"open"} \union Closed) /\ Len(batches) <= Len(batches')
    BY <1>4, <1>5 DEF NotReady, Closed
  <2> QED
    BY <1>0, <1>1, <1>2, <1>5, <2>1, <2>2, <2>3 DEF NotReady, Idles, Shape, queueVars
<1>6. CASE ScanRaises /\ Opening
  <2>1. /\ batches' \in Seq({"open"} \union Closed) /\ Len(batches) <= Len(batches')
    BY <1>4, <1>6 DEF ScanRaises, Closed
  <2>2. /\ pc' = "idle" /\ cell' = 0 /\ drive' = Fresh /\ UNCHANGED <<queueVars, runs, attended>>
    BY <1>6 DEF ScanRaises, Exits
  <2> QED
    BY <1>0, <1>1, <1>2, <1>3, <2>1, <2>2 DEF Idles, Shape, queueVars
<1>7. CASE ScanRaises /\ ~Opening
  <2>1. Running /\ Stop("INFRASTRUCTURE") /\ UNCHANGED <<queueVars, runs, attended>>
    BY <1>7 DEF ScanRaises, Running
  <2>2. /\ batches' \in Seq({"open"} \union Closed) /\ Len(batches') = Len(batches)
        /\ pc' = "idle" /\ cell' = 0 /\ drive' = Fresh
    BY <1>0, <2>1, StopIs
  <2> QED
    BY <1>0, <1>1, <1>2, <1>3, <2>1, <2>2 DEF Idles, Shape, queueVars
<1>8. CASE Drained \/ Until \/ OutOfBudget \/ Breaker
  <2>1. Running /\ UNCHANGED <<queueVars, runs, attended>>
    BY <1>8, EndsBy DEF Running
  <2>2. /\ batches' \in Seq({"open"} \union Closed) /\ Len(batches') = Len(batches)
        /\ pc' = "idle" /\ cell' = 0 /\ drive' = Fresh
    BY <1>0, <1>8, <2>1, EndsBy, StopIs
  <2> QED
    BY <1>0, <1>1, <1>2, <1>3, <2>1, <2>2 DEF Idles, Shape, queueVars
<1>9. CASE \E end \in Returned \union Raised \union CutShort(cell), cost \in Costs :
          Cuts(end, cost)
  BY <1>9, CutsIdle
<1>10. CASE Kill
  <2>1. /\ pc' = "idle" /\ cell' = 0 /\ drive' = Fresh
        /\ UNCHANGED <<queueVars, batches, runs, attended>>
    BY <1>10 DEF Kill, Exits
  <2> QED
    BY <1>0, <1>1, <1>2, <1>3, <2>1 DEF Idles, Shape, queueVars
<1> QED
  BY <1>5, <1>6, <1>7, <1>8, <1>9, <1>10 DEF Ending
-----------------------------------------------------------------------------
(* The night opens.                                                        *)

LEMMA OpeningKeeps ==
    ASSUME NightInv, NEW answers \in BOOLEAN, Scan(answers), Opening
    PROVE  NightInv' /\ NightRuns' = {}
<1>0. Shape /\ Places
  BY DEF NightInv
<1>1. PICK queue : queue = BuildQueue(OpenPrs(answers))
  OBVIOUS
<1>2. queue \subseteq Ids
  BY <1>0, <1>1, QueueIsOfIds
<1>3. /\ drive' = [drive EXCEPT !.pending = queue] /\ pc = "scan" /\ pc' = "loop"
      /\ batches' = Append(batches, "open")
      /\ UNCHANGED <<queueVars, runs, cell, attended>>
  BY <1>1 DEF Scan
<1>4. IsDrive(drive')
  BY <1>0, <1>2, <1>3 DEF Shape, IsDrive, DriveFields
<1>5. IsDrive(drive)' /\ IsAttended(attended)'
  BY <1>0, <1>3, <1>4 DEF Shape, IsDrive, IsAttended, Ids, queueVars
<1>6. /\ batches' \in Seq({"open"} \union Closed) /\ Tonight' = Tonight + 1
      /\ batches'[Tonight'] = "open" /\ Tonight \in Nat
  BY <1>0, <1>3, AppendProperties DEF Shape, Tonight
<1>7. \A i \in 1 .. Len(runs) : runs[i].by <= Tonight /\ runs[i].by \in Nat
  BY <1>0, ShapeIs DEF Places
<1>8. \A i \in 1 .. Len(runs) : runs[i].by # Tonight + 1 /\ runs[i].by <= Tonight + 1
  BY <1>6, <1>7
<1>9. NightRuns' = {}
  <2>1. DOMAIN runs = 1 .. Len(runs)
    BY <1>0, ShapeIs
  <2> QED
    BY <1>3, <1>6, <1>8, <2>1 DEF NightRuns
<1>10. Shape'
  <2>1. \A i \in 1 .. Len(rows) : IsRow(rows[i])'
    BY <1>0, <1>3 DEF Shape, IsRow, Ids, queueVars
  <2> QED
    BY <1>0, <1>3, <1>5, <1>6, <2>1 DEF Shape, Ids, IsSeq, queueVars
<1>11. Places'
  <2>1. /\ runs' = runs /\ rows' = rows /\ cell' = cell /\ attended' = attended
        /\ cell = 0 /\ Tonight + 1 # 0
    BY <1>0, <1>3, <1>6 DEF Places, queueVars
  <2>2. \A i \in 1 .. Len(runs') : runs'[i].by <= Tonight'
    BY <1>6, <1>8, <2>1
  <2> QED
    BY <1>0, <1>3, <1>6, <2>1, <2>2 DEF Places
<1>12. Counted' /\ Funded' /\ Standing' /\ Breaks'
  BY <1>3, <1>9 DEF Counted, Funded, Standing, Breaks, Done
<1> QED
  BY <1>9, <1>10, <1>11, <1>12 DEF NightInv

-----------------------------------------------------------------------------
(* A cell starts.                                                          *)

StartsAt(c) == /\ c = Len(runs) + 1 /\ cell' = c /\ Done' = Done /\ c \notin Done
               /\ NightRuns' = NightRuns \union {c} /\ Done = NightRuns
               /\ Cost(NightRuns)' = Cost(NightRuns)
               /\ \A i \in Done : rows'[i] = rows[i] /\ runs'[i] = runs[i]

LEMMA StartKeeps ==
    ASSUME NightInv, StartCell
    PROVE  NightInv' /\ \E c : StartsAt(c)
<1>0. Shape /\ Places
  BY DEF NightInv
<1>1. /\ pc = "loop" /\ pc' = "cell" /\ cell' = Len(rows) + 1 /\ drive' = Begun
      /\ UNCHANGED <<repo, main, base, commits, remote, prs, moves, batches, attended>>
      /\ Offered # {} /\ ~OverBudget
  BY DEF StartCell, Admitted
<1>2. /\ Running /\ Tonight # 0 /\ batches[Tonight] = "open" /\ cell = 0 /\ Tonight \in Nat
      /\ Tonight' = Tonight
  BY <1>0, <1>1, ShapeIs DEF Running, Places, Tonight
<1>3. PICK head : /\ rows' = Append(rows, NewRow(Chosen, base, head))
                  /\ runs' = Append(runs, NewRun(Tonight))
  BY DEF StartCell
<1>4. Chosen \in Ids
  BY <1>0, <1>1, FirstIs DEF Shape, IsDrive, Offered, Chosen
<1>5. PICK r : r = NewRow(Chosen, base, head) /\ rows' = Append(rows, r)
  BY <1>3
<1>6. IsRow(r) /\ r.spec = Chosen
  BY <1>4, <1>5 DEF NewRow, IsRow, RowFields
<1>7. PICK e : /\ e \in Run /\ e.by = Tonight /\ e.cost = 0 /\ e.batch = 0
               /\ runs' = Append(runs, e)
  BY <1>2, <1>3 DEF NewRun, Run, Statuses
<1>8. Len(rows) = Len(runs) /\ Len(runs) \in Nat /\ DOMAIN runs = 1 .. Len(runs)
  BY <1>0, ShapeIs
<1>9. PICK c : c = Len(runs) + 1
  OBVIOUS
<1>10. /\ IsSeq(rows') /\ Len(rows') = c
       /\ \A i \in 1 .. Len(runs) : rows'[i] = rows[i]
       /\ rows'[c] = r
  BY <1>0, <1>5, <1>8, <1>9, OneLonger DEF Shape
<1>11. /\ runs' \in Seq(Run) /\ Len(runs') = c
       /\ \A i \in 1 .. Len(runs) : runs'[i] = runs[i]
       /\ runs'[c] = e /\ DOMAIN runs' = 1 .. c
  BY <1>0, <1>7, <1>9, AppendProperties, LenProperties DEF Shape
<1>12. /\ \A i \in 1 .. c : i \in 1 .. Len(runs) \/ i = c
       /\ \A i \in 1 .. Len(runs) : i \in 1 .. c /\ i <= Len(runs)
       /\ c \in 1 .. c /\ c \notin 1 .. Len(runs) /\ c \in Nat /\ c # 0 /\ Len(runs) < c
  BY <1>8, <1>9
<1>13. Done = NightRuns /\ NightRuns \subseteq 1 .. Len(runs)
  BY <1>2, <1>8, <1>12 DEF Done, NightRuns
<1>14. NightRuns' = NightRuns \union {c}
  BY <1>2, <1>7, <1>8, <1>11, <1>12 DEF NightRuns
<1>15. Done' = Done /\ c \notin Done
  BY <1>1, <1>8, <1>9, <1>12, <1>13, <1>14 DEF Done
<1>16. Cost(NightRuns)' = Cost(NightRuns)
  <2>1. Spent(runs', Tonight) = Spent(runs, Tonight)
    BY <1>0, <1>2, <1>7, SpentOfNewRun DEF Shape
  <2> QED
    BY <1>2, <2>1, NightCost
<1>17. \A i \in Done : rows'[i] = rows[i] /\ runs'[i] = runs[i] /\ i <= Len(runs)
  BY <1>10, <1>11, <1>12, <1>13
<1>18. /\ IsDrive(drive)' /\ drive'.highWater = Len(runs) /\ drive'.started # {}
       /\ drive'.inFlight = drive.inFlight /\ drive'.unpackaged = drive.unpackaged
       /\ drive'.aborts = drive.aborts
  <2>1. /\ IsDrive(drive') /\ drive'.highWater = Len(runs) /\ drive'.started # {}
        /\ drive'.inFlight = drive.inFlight /\ drive'.unpackaged = drive.unpackaged
        /\ drive'.aborts = drive.aborts
    BY <1>0, <1>1, <1>8 DEF Begun, Shape, IsDrive, DriveFields
  <2> QED
    BY <1>1, <2>1 DEF IsDrive, Ids
<1>19. Shape'
  <2>1. \A i \in 1 .. Len(rows') : IsRow(rows'[i])
    BY <1>0, <1>6, <1>10, <1>12, ShapeIs
  <2>2. \A i \in 1 .. Len(rows') : IsRow(rows[i])'
    BY <1>1, <2>1 DEF IsRow, Ids
  <2>3. IsSeq(rows)' /\ IsSeq(commits)' /\ IsSeq(prs)' /\ IsAttended(attended)'
    BY <1>0, <1>1, <1>10 DEF Shape, IsSeq, IsAttended, Ids
  <2> QED
    BY <1>0, <1>1, <1>8, <1>9, <1>10, <1>11, <1>12, <1>18, <2>2, <2>3 DEF Shape, Ids
<1>20. Places'
  <2>1. Tonight <= Tonight
    BY <1>2
  <2>2. \A i \in 1 .. Len(runs') : runs'[i].by <= Tonight
    BY <1>0, <1>7, <1>11, <1>12, <2>1 DEF Places
  <2>3. attended.at = "cell" => /\ attended.row \in 1 .. Len(runs')
                                /\ runs'[attended.row] = runs[attended.row]
                                /\ rows'[attended.row] = rows[attended.row]
    BY <1>0, <1>10, <1>11, <1>12 DEF Places
  <2> QED
    BY <1>0, <1>1, <1>2, <1>7, <1>8, <1>9, <1>11, <1>12, <1>18, <2>2, <2>3 DEF Places
<1>21. Counted'
  <2>1. \A i \in Done : runs[i].batch = Tonight
    BY <1>2 DEF NightInv, Counted
  <2> QED
    BY <1>1, <1>2, <1>8, <1>9, <1>12, <1>15, <1>17, <1>18, <2>1 DEF Counted
<1>22. Funded'
  <2>1. Declared(Chosen).budget \in Nat /\ Budget \in Nat
    BY <1>0, <1>4, QueueAssumption, NightAssumption DEF Shape, Ids, Declared
  <2>2. \A i \in NightRuns : runs[i].batch = Tonight
    BY <1>2, <1>13 DEF NightInv, Counted
  <2>3. /\ Cost(NightRuns) <= BatchSpend(Tonight) /\ BatchSpend(Tonight) \in Nat
        /\ Cost(NightRuns) \in Nat
    BY <1>0, <2>2, SpendCovers, SpentIsNat, NightCost DEF Shape
  <2>4. ~(Declared(Chosen).budget > Budget - BatchSpend(Tonight))
    BY <1>1 DEF OverBudget
  <2>5. Cost(NightRuns) + Declared(Chosen).budget <= Budget
    BY <2>1, <2>3, <2>4
  <2>6. Declared(rows[cell].spec)' = Declared(Chosen)
    BY <1>1, <1>6, <1>8, <1>9, <1>10 DEF Declared
  <2> QED
    BY <1>16, <2>5, <2>6 DEF Funded
<1>23. Standing'
  BY <1>2, <1>15, <1>17, <1>18 DEF NightInv, Standing, InFlightAt, Unpackaged
<1>24. Breaks'
  BY <1>2, <1>15, <1>17, <1>18 DEF NightInv, Breaks, LastOf, Aborted, Unpackaged
<1>25. StartsAt(c)
  BY <1>1, <1>8, <1>9, <1>13, <1>14, <1>15, <1>16, <1>17 DEF StartsAt
<1> QED
  BY <1>19, <1>20, <1>21, <1>22, <1>23, <1>24, <1>25 DEF NightInv
-----------------------------------------------------------------------------
(* A cell returns or raises.                                               *)

CellOver(cost) ==
    /\ pc = "cell" /\ pc' = "reconcile" /\ cell' = 0
    /\ UNCHANGED <<repo, main, base, batches, attended>>
    /\ IsSeq(commits') /\ IsSeq(prs') /\ IsSeq(rows') /\ Len(rows') = Len(rows)
    /\ \A i \in (1 .. Len(runs)) \ {cell} : rows'[i] = rows[i]
    /\ IsRow(rows'[cell]) /\ rows'[cell].spec = rows[cell].spec
    /\ runs' \in Seq(Run) /\ Len(runs') = Len(runs)
    /\ \A i \in 1 .. Len(runs) : runs'[i].by = runs[i].by
    /\ \A i \in (1 .. Len(runs)) \ {cell} : /\ runs'[i].cost = runs[i].cost
                                            /\ runs'[i].status = runs[i].status
    /\ runs'[cell].cost = cost
    /\ \A i \in NightRuns : runs'[i].batch = Tonight
    /\ IsDrive(drive') /\ drive'.started = drive.started
    /\ drive.inFlight \subseteq drive'.inFlight /\ drive.unpackaged \subseteq drive'.unpackaged
    /\ rows'[cell].state \in InFlightStates => rows[cell].spec \in drive'.inFlight
    /\ rows'[cell].state = "READY_FOR_REVIEW" /\ rows'[cell].pr = 0
          => rows[cell].spec \in drive'.unpackaged
    /\ \/ rows'[cell].state \in AbortStates
       \/ rows'[cell].state = "ORPHANED" /\ runs'[cell].status = "ABORTED"
       \/ rows'[cell].state = "READY_FOR_REVIEW" /\ rows'[cell].pr = 0
       => drive'.aborts = drive.aborts + 1

(* Primed operators at the old cell, spelled out.                          *)
OverAt(c) == /\ c = cell /\ c \in 1 .. Len(runs) /\ c \in NightRuns
             /\ NightRuns' = NightRuns /\ Done' = Done \union {c} /\ c \notin Done
             /\ \A i \in Done : /\ i < c /\ rows'[i] = rows[i]
                                /\ runs'[i].status = runs[i].status

LEMMA OverIs ==
    ASSUME NightInv, NEW cost \in Nat, CellOver(cost)
    PROVE  \E c : OverAt(c)
<1>0. Shape /\ Places
  BY DEF NightInv
<1>1. PICK c : c = cell
  OBVIOUS
<1>2. /\ c \in 1 .. Len(runs) /\ runs[c].by = Tonight /\ Tonight # 0 /\ Running
  BY <1>0, <1>1 DEF Places, CellOver, Running
<1>3. /\ DOMAIN runs = 1 .. Len(runs) /\ DOMAIN runs' = 1 .. Len(runs)
      /\ Len(runs) \in Nat /\ Tonight' = Tonight
  BY <1>0, ShapeIs, LenProperties DEF CellOver, Tonight
<1>4. NightRuns' = NightRuns
  BY <1>3 DEF NightRuns, CellOver
<1>5. c \in NightRuns /\ 0 \notin NightRuns
  BY <1>2, <1>3 DEF NightRuns
<1>6. Done' = Done \union {c} /\ c \notin Done
  BY <1>1, <1>4, <1>5 DEF Done, CellOver
<1>7. ASSUME NEW i \in Done
      PROVE  i < c /\ rows'[i] = rows[i] /\ runs'[i].status = runs[i].status
  <2>1. i \in (1 .. Len(runs)) \ {cell}
    BY <1>1, <1>3, <1>6 DEF Done, NightRuns
  <2>2. i <= drive.highWater /\ drive.highWater < c
    BY <1>1 DEF NightInv, Counted, CellOver
  <2>3. i \in Nat /\ c \in Nat /\ drive.highWater \in Nat
    BY <1>0, <1>2, <1>3, <2>1 DEF Shape, IsDrive
  <2> QED
    BY <2>1, <2>2, <2>3 DEF CellOver
<1> QED
  BY <1>1, <1>2, <1>4, <1>5, <1>6, <1>7 DEF OverAt

LEMMA OverCosts ==
    ASSUME NightInv, NEW cost \in Nat, CellOver(cost)
    PROVE  Cost(NightRuns)' = Cost(NightRuns) + cost
<1>0. Shape /\ Places
  BY DEF NightInv
<1>1. PICK c : OverAt(c)
  BY OverIs
<1>2. /\ c \in 1 .. Len(runs) /\ runs[c].by = Tonight /\ runs[c].cost = 0
      /\ Tonight \in Nat \ {0} /\ Tonight' = Tonight
  BY <1>0, <1>1, ShapeIs DEF OverAt, Places, CellOver, Running, Tonight
<1>3. /\ runs' \in Seq(Run) /\ runs \in Seq(Run) /\ Len(runs') = Len(runs)
      /\ \A i \in 1 .. Len(runs) : runs'[i].by = runs[i].by
      /\ \A i \in (1 .. Len(runs)) \ {c} : runs'[i].cost = runs[i].cost
      /\ runs'[c].cost = cost
  BY <1>0, <1>1 DEF OverAt, CellOver, Shape
<1>4. Spent(runs', Tonight) = Spent(runs, Tonight) + cost
  BY <1>2, <1>3, SpentRises
<1> QED
  BY <1>2, <1>4, NightCost

LEMMA OverKeeps ==
    ASSUME NightInv, NEW cost \in Nat, CellOver(cost)
    PROVE  NightInv'
<1>0. Shape /\ Places
  BY DEF NightInv
<1>1. PICK c : OverAt(c)
  BY OverIs
<1>2. Running /\ Tonight' = Tonight /\ pc' # "cell"
  BY DEF CellOver, Running, Tonight
<1>3. Shape'
  <2>1. \A i \in 1 .. Len(rows') : IsRow(rows'[i])
    <3>1. \A i \in 1 .. Len(runs) : i = cell \/ i \in (1 .. Len(runs)) \ {cell}
      OBVIOUS
    <3> QED
      BY <1>0, <3>1, ShapeIs DEF CellOver
  <2>2. \A i \in 1 .. Len(rows') : IsRow(rows[i])'
    BY <2>1 DEF IsRow, Ids, CellOver
  <2>3. /\ IsSeq(rows)' /\ IsSeq(commits)' /\ IsSeq(prs)' /\ IsAttended(attended)' /\ IsDrive(drive)'
    BY <1>0 DEF CellOver, Shape, IsSeq, IsAttended, IsDrive, Ids
  <2> QED
    BY <1>0, <2>2, <2>3 DEF Shape, CellOver, Ids
<1>4. Places'
  <2>1. \A i \in 1 .. Len(runs') : runs'[i].by <= Tonight
    BY <1>0 DEF Places, CellOver
  <2>2. attended.at = "cell" => /\ attended.row \in (1 .. Len(runs)) \ {cell}
                                /\ runs[attended.row].by = 0
                                /\ rows[attended.row].state \in {"IMPLEMENTING", "ORPHANED"}
    BY <1>0, <1>2 DEF Places, CellOver
  <2>3. attended.at = "cell" => /\ attended.row \in 1 .. Len(runs')
                                /\ runs'[attended.row].by = 0
                                /\ rows'[attended.row].state \in {"IMPLEMENTING", "ORPHANED"}
    BY <2>2 DEF CellOver
  <2> QED
    BY <1>0, <1>2, <2>1, <2>3 DEF Places, CellOver
<1>5. Counted'
  <2>1. \A i \in NightRuns : runs'[i].batch = Tonight
    BY DEF CellOver
  <2>2. Done' \subseteq NightRuns
    BY <1>1 DEF OverAt, Done
  <2> QED
    BY <1>2, <2>1, <2>2 DEF Counted
<1>6. Funded'
  BY <1>2 DEF Funded
<1>7. Standing'
  <2>1. ASSUME NEW i \in Done
        PROVE  /\ InFlightAt(i)' => rows'[i].spec \in drive'.inFlight
               /\ Unpackaged(i)' => rows'[i].spec \in drive'.unpackaged
    BY <1>1, <1>2 DEF OverAt, CellOver, NightInv, Standing, InFlightAt, Unpackaged
  <2>2. /\ InFlightAt(c)' => rows'[c].spec \in drive'.inFlight
        /\ Unpackaged(c)' => rows'[c].spec \in drive'.unpackaged
    <3>1. c = cell /\ rows'[c].spec = rows[c].spec
      BY <1>1 DEF OverAt, CellOver
    <3>2. /\ rows'[c].state \in InFlightStates => rows[c].spec \in drive'.inFlight
          /\ rows'[c].state = "READY_FOR_REVIEW" /\ rows'[c].pr = 0
                => rows[c].spec \in drive'.unpackaged
      BY <3>1 DEF CellOver, InFlightAt, Unpackaged
    <3> QED
      BY <3>1, <3>2 DEF InFlightAt, Unpackaged
  <2> QED
    BY <1>1, <2>1, <2>2 DEF Standing, OverAt
<1>8. Breaks'
  <2>1. drive.aborts \in Nat /\ drive'.aborts \in Nat
    BY <1>0 DEF Shape, IsDrive, CellOver
  <2>2. ASSUME NEW i \in Done', LastOf(i, Done')
        PROVE  i = c
    <3>1. c <= i /\ (i = c \/ i \in Done)
      BY <1>1, <2>2 DEF LastOf, OverAt
    <3>2. i \in Done => i < c /\ i \in 1 .. Len(runs)
      BY <1>0, <1>1, NightRunsAre DEF OverAt, Done
    <3>3. c \in 1 .. Len(runs) /\ Len(runs) \in Nat
      BY <1>0, <1>1, ShapeIs DEF OverAt
    <3> QED
      BY <3>1, <3>2, <3>3
  <2>3. Aborted(c)' => drive'.aborts = drive.aborts + 1
    BY <1>1 DEF OverAt, CellOver, Aborted, Unpackaged
  <2>4. Done' \ {c} = Done /\ \A k \in Done : Aborted(k)' => Aborted(k)
    BY <1>1 DEF OverAt, Aborted, Unpackaged
  <2>5. ASSUME NEW i \in Done', LastOf(i, Done'), Aborted(i)'
        PROVE  drive'.aborts >= 1
    BY <2>1, <2>2, <2>3, <2>5
  <2>6. ASSUME NEW i \in Done', NEW k \in Done', LastOf(i, Done'), LastOf(k, Done' \ {i}),
               Aborted(i)', Aborted(k)'
        PROVE  drive'.aborts >= 2
    <3>1. i = c /\ drive'.aborts = drive.aborts + 1
      BY <2>2, <2>3, <2>6
    <3>2. k \in Done /\ LastOf(k, Done) /\ Aborted(k)
      BY <2>4, <2>6, <3>1 DEF LastOf
    <3>3. drive.aborts >= 1
      BY <1>2, <3>2 DEF NightInv, Breaks
    <3> QED
      BY <2>1, <3>1, <3>3
  <2> QED
    BY <2>5, <2>6 DEF Breaks, LastOf
<1> QED
  BY <1>3, <1>4, <1>5, <1>6, <1>7, <1>8 DEF NightInv

LEMMA ReturnIsOver ==
    ASSUME NightInv, NEW end \in Returned, NEW cost \in Nat, CellReturns(end, cost)
    PROVE  CellOver(cost)
<1>0. Shape /\ Places
  BY DEF NightInv
<1>1. /\ pc = "cell" /\ CellSettles(cell, end) /\ cell' = 0 /\ pc' = "reconcile"
      /\ UNCHANGED <<repo, main, base, moves, batches, attended>>
  BY DEF CellReturns
<1>2. /\ cell \in 1 .. Len(runs) /\ Running /\ Tonight # 0 /\ Tonight \in Nat
  BY <1>0, <1>1, ShapeIs DEF Places, Running
<1>3. /\ IsSeq(rows') /\ Len(rows') = Len(rows) /\ IsSeq(commits') /\ IsSeq(prs')
      /\ \A i \in (1 .. Len(runs)) \ {cell} : rows'[i] = rows[i]
      /\ IsRow(rows'[cell]) /\ rows'[cell].spec = rows[cell].spec
      /\ rows'[cell].state = end.state
      /\ end.state = "READY_FOR_REVIEW" => rows'[cell].pr # 0
  BY <1>0, <1>1, <1>2, SettleIs, ReturnedIs
<1>4. PICK found : found = Ended(cell, cost, end)
  OBVIOUS
<1>5. /\ found \in Seq(Run) /\ Len(found) = Len(runs)
      /\ \A i \in (1 .. Len(runs)) \ {cell} : found[i] = runs[i]
      /\ found[cell].by = runs[cell].by /\ found[cell].cost = cost
      /\ found[cell].status = "COMPLETE"
  <2>1. end.status = "COMPLETE" /\ end.status \in Statuses
    BY ReturnedIs DEF Statuses
  <2> QED
    BY <1>0, <1>2, <1>4, <2>1, EndedIs
<1>6. PICK e : e = [found[cell] EXCEPT !.batch = Tonight]
  OBVIOUS
<1>7. runs' = [found EXCEPT ![cell] = e]
  BY <1>4, <1>6 DEF CellReturns
<1>8. /\ e \in Run /\ e.batch = Tonight /\ e.by = runs[cell].by /\ e.cost = cost
      /\ e.status = "COMPLETE"
  <2>1. found[cell] \in Run
    BY <1>2, <1>5, LenProperties
  <2> QED
    BY <1>2, <1>5, <1>6, <2>1 DEF Run
<1>9. /\ runs' \in Seq(Run) /\ Len(runs') = Len(runs) /\ runs'[cell] = e
      /\ \A i \in (1 .. Len(runs)) \ {cell} : runs'[i] = runs[i]
  BY <1>2, <1>5, <1>7, <1>8
<1>10. \A i \in NightRuns : runs'[i].batch = Tonight
  <2>1. \A i \in Done : runs[i].batch = Tonight
    BY <1>2 DEF NightInv, Counted
  <2>2. \A i \in NightRuns : i = cell \/ (i \in Done /\ i \in (1 .. Len(runs)) \ {cell})
    BY <1>0, NightRunsAre DEF Done
  <2> QED
    BY <1>8, <1>9, <2>1, <2>2
<1>11. PICK aborts, inFlight :
          /\ aborts = IF end.state \in AbortStates THEN drive.aborts + 1 ELSE 0
          /\ inFlight = IF end.state \in InFlightStates
                        THEN drive.inFlight \union {rows[cell].spec} ELSE drive.inFlight
          /\ drive' = [drive EXCEPT !.aborts = aborts, !.inFlight = inFlight]
  BY DEF CellReturns
<1>12. aborts \in Nat /\ drive.inFlight \subseteq inFlight
  BY <1>0, <1>11 DEF Shape, IsDrive
<1>13. /\ IsDrive(drive') /\ drive'.aborts = aborts /\ drive'.inFlight = inFlight
       /\ drive'.unpackaged = drive.unpackaged /\ drive'.started = drive.started
  BY <1>0, <1>11, <1>12 DEF Shape, IsDrive, DriveFields
<1>14. /\ rows'[cell].state \in InFlightStates => rows[cell].spec \in drive'.inFlight
       /\ ~(rows'[cell].state = "READY_FOR_REVIEW" /\ rows'[cell].pr = 0)
       /\ ~(runs'[cell].status = "ABORTED")
       /\ rows'[cell].state \in AbortStates => drive'.aborts = drive.aborts + 1
  BY <1>3, <1>8, <1>9, <1>11, <1>13
<1>15. \A i \in 1 .. Len(runs) : runs'[i].by = runs[i].by
  BY <1>8, <1>9
<1> QED
  BY <1>1, <1>3, <1>8, <1>9, <1>10, <1>12, <1>13, <1>14, <1>15 DEF CellOver

LEMMA RaiseIsOver ==
    ASSUME NightInv, NEW end \in Raised, NEW cost \in Nat, CellRaises(end, cost)
    PROVE  CellOver(cost)
<1>0. Shape /\ Places
  BY DEF NightInv
<1>1. /\ pc = "cell" /\ CellSettles(cell, end) /\ cell' = 0 /\ pc' = "reconcile"
      /\ UNCHANGED <<repo, main, base, moves, batches, attended>>
  BY DEF CellRaises
<1>2. /\ cell \in 1 .. Len(runs) /\ Running /\ Tonight # 0 /\ Tonight \in Nat
      /\ runs[cell].batch = 0 /\ drive.highWater < cell
  BY <1>0, <1>1, ShapeIs DEF NightInv, Counted, Places, Running
<1>3. /\ IsSeq(rows') /\ Len(rows') = Len(rows) /\ IsSeq(commits') /\ IsSeq(prs')
      /\ \A i \in (1 .. Len(runs)) \ {cell} : rows'[i] = rows[i]
      /\ IsRow(rows'[cell]) /\ rows'[cell].spec = rows[cell].spec
      /\ rows'[cell].state = end.state
  BY <1>0, <1>1, <1>2, SettleIs
<1>4. end.status \in Statuses /\ end.state \notin InFlightStates
  BY RaisedIs DEF Statuses
<1>5. PICK found : found = Ended(cell, cost, end)
  OBVIOUS
<1>8. /\ found \in Seq(Run) /\ Len(found) = Len(runs)
      /\ \A i \in (1 .. Len(runs)) \ {cell} : found[i] = runs[i]
      /\ found[cell].by = runs[cell].by /\ found[cell].batch = runs[cell].batch
      /\ found[cell].cost = cost
  <2>1. PICK c \in 1 .. Len(runs) : c = cell /\ found = Ended(c, cost, end)
    BY <1>2, <1>5
  <2> QED
    BY <1>0, <1>4, <2>1, EndedIs
<1>9. runs' = WithOrphans(found)
  BY <1>5 DEF CellRaises
<1>10. /\ DOMAIN found = 1 .. Len(runs) /\ \A i \in 1 .. Len(runs) : found[i] \in Run
       /\ Len(runs) \in Nat
  BY <1>0, <1>8, ShapeIs, LenProperties
<1>11. ASSUME NEW i \in 1 .. Len(runs)
       PROVE  /\ runs'[i] \in Run /\ runs'[i].by = found[i].by /\ runs'[i].cost = found[i].cost
              /\ runs'[i].status = found[i].status
              /\ i > drive.highWater /\ found[i].batch = 0 => runs'[i].batch = Tonight
              /\ found[i].batch # 0 => runs'[i].batch = found[i].batch
  <2>1. PICK f : f = found[i] /\ f \in Run
    BY <1>10
  <2>2. PICK e : e = [f EXCEPT !.batch = Tonight]
    OBVIOUS
  <2>3. /\ e \in Run /\ e.by = f.by /\ e.cost = f.cost /\ e.status = f.status
        /\ e.batch = Tonight
    BY <1>2, <2>1, <2>2 DEF Run
  <2>4. runs'[i] = IF i > drive.highWater /\ f.batch = 0 THEN e ELSE f
    BY <1>9, <1>10, <2>1, <2>2 DEF WithOrphans
  <2> QED
    BY <2>1, <2>3, <2>4
<1>12. runs' \in Seq(Run) /\ Len(runs') = Len(runs)
  <2>1. runs' = [i \in 1 .. Len(runs) |-> runs'[i]]
    BY <1>9, <1>10 DEF WithOrphans
  <2>2. runs' \in [1 .. Len(runs) -> Run]
    BY <1>11, <2>1
  <2>3. runs' \in Seq(Run)
    BY <1>10, <2>2, SeqDef
  <2>4. DOMAIN runs' = 1 .. Len(runs) /\ DOMAIN runs' = 1 .. Len(runs') /\ Len(runs') \in Nat
    BY <2>1, <2>3, LenProperties
  <2> QED
    BY <1>10, <2>3, <2>4
<1>13. \A i \in NightRuns : runs'[i].batch = Tonight
  <2>1. \A i \in Done : runs[i].batch = Tonight
    BY <1>2 DEF NightInv, Counted
  <2>2. \A i \in NightRuns : i = cell \/ (i \in Done /\ i \in (1 .. Len(runs)) \ {cell})
    BY <1>0, NightRunsAre DEF Done
  <2>3. cell > drive.highWater
    BY <1>0, <1>2, <1>10 DEF Shape, IsDrive
  <2>4. runs'[cell].batch = Tonight
    BY <1>2, <1>8, <1>11, <2>3
  <2>5. ASSUME NEW i \in Done, i \in (1 .. Len(runs)) \ {cell}
        PROVE  runs'[i].batch = Tonight
    BY <1>2, <1>8, <1>11, <2>1, <2>5
  <2> QED
    BY <2>2, <2>4, <2>5
<1>14. PICK aborts, unpackaged :
          /\ aborts = drive.aborts + 1
          /\ unpackaged = IF end.state = "READY_FOR_REVIEW"
                          THEN drive.unpackaged \union {rows[cell].spec}
                          ELSE drive.unpackaged
          /\ drive' = [drive EXCEPT !.aborts = aborts, !.unpackaged = unpackaged]
  BY DEF CellRaises
<1>15. aborts \in Nat /\ drive.unpackaged \subseteq unpackaged
  BY <1>0, <1>14 DEF Shape, IsDrive
<1>16. /\ IsDrive(drive') /\ drive'.aborts = aborts /\ drive'.inFlight = drive.inFlight
       /\ drive'.unpackaged = unpackaged /\ drive'.started = drive.started
  BY <1>0, <1>14, <1>15 DEF Shape, IsDrive, DriveFields
<1>17. /\ rows'[cell].state \notin InFlightStates
       /\ rows'[cell].state = "READY_FOR_REVIEW" => rows[cell].spec \in drive'.unpackaged
       /\ drive'.aborts = drive.aborts + 1
  BY <1>3, <1>4, <1>14, <1>16
<1>18. /\ \A i \in 1 .. Len(runs) : runs'[i].by = runs[i].by
       /\ \A i \in (1 .. Len(runs)) \ {cell} : /\ runs'[i].cost = runs[i].cost
                                               /\ runs'[i].status = runs[i].status
       /\ runs'[cell].cost = cost
  BY <1>2, <1>8, <1>11
<1> QED
  BY <1>1, <1>3, <1>12, <1>13, <1>15, <1>16, <1>17, <1>18 DEF CellOver
-----------------------------------------------------------------------------
(* The steps of Next, by what they do to the night.                        *)

Over == \E cost \in Costs : CellOver(cost)

LEMMA StepsAre ==
    ASSUME NightInv, [Next]_vars
    PROVE  \/ SteadyStep \/ Ending \/ StartCell \/ Over
           \/ \E answers \in BOOLEAN : Scan(answers) /\ Opening
<1>0. Costs \subseteq Nat
  BY NightAssumption
<1>1. ASSUME NEW cost \in Costs, NEW end \in Returned, CellReturns(end, cost)
      PROVE  Over
  BY <1>0, <1>1, ReturnIsOver DEF Over
<1>2. ASSUME NEW cost \in Costs, NEW end \in Raised, CellRaises(end, cost)
      PROVE  Over
  BY <1>0, <1>2, RaiseIsOver DEF Over
<1>3. CASE Loop
  <2>1. ASSUME NEW cost \in Costs, NEW end \in Raised, Interrupted(end, cost)
        PROVE  Ending
    BY <2>1 DEF Ending, Cuts
  <2> QED
    BY <1>1, <1>2, <1>3, <2>1 DEF Loop, SteadyStep, Ending
<1>4. CASE Killed
  <2>1. ASSUME pc = "cell", NEW end \in Returned \union RaisedSettled \union CutShort(cell),
               NEW cost \in Costs, KilledInCell(end, cost)
        PROVE  Ending
    BY <2>1 DEF Ending, Cuts, Raised
  <2> QED
    BY <1>4, <2>1 DEF Killed, Ending
<1> QED
  BY <1>3, <1>4 DEF Next, SteadyStep, Ending

LEMMA StepKeeps ==
    ASSUME NightInv, [Next]_vars
    PROVE  NightInv'
<1>1. CASE SteadyStep
  BY <1>1, SteadySteps, SteadyKeeps DEF NightInv
<1>2. CASE Ending
  BY <1>2, EndingSteps, IdlesKeeps
<1>3. CASE StartCell
  BY <1>3, StartKeeps
<1>4. CASE Over
  <2>1. PICK cost \in Nat : CellOver(cost)
    BY <1>4, NightAssumption DEF Over
  <2> QED
    BY <2>1, OverKeeps
<1>5. CASE \E answers \in BOOLEAN : Scan(answers) /\ Opening
  BY <1>5, OpeningKeeps
<1> QED
  BY <1>1, <1>2, <1>3, <1>4, <1>5, StepsAre

LEMMA NothingYet ==
    ASSUME NEW S
    PROVE  <<>> \in Seq(S) /\ Len(<<>>) = 0 /\ IsSeq(<<>>)
  BY DEF IsSeq

LEMMA NightStarts == Init => NightInv
<1> SUFFICES ASSUME Init PROVE NightInv
  OBVIOUS
<1>1. /\ pc = "idle" /\ batches = <<>> /\ runs = <<>> /\ drive = Fresh /\ cell = 0
      /\ attended = NoCell /\ rows = <<>> /\ commits = <<>> /\ prs = <<>>
      /\ repo \in Repos
  BY DEF Init, QueueInit
<1>2. /\ "live" \in DOMAIN main /\ main.live \subseteq Ids /\ base.live \subseteq Ids
  BY QueueAssumption DEF Init, QueueInit, Ids
<1>3. IsAttended(attended)
  BY <1>1 DEF IsAttended, NoCell, AttendedFields
<1>4. ~Running /\ Tonight = 0
  BY <1>1 DEF Running, Tonight
<1>5. Len(runs) = 0 /\ Len(rows) = 0 /\ 1 .. 0 = {}
  BY <1>1
<1>6. Shape
  BY <1>1, <1>2, <1>3, <1>5, NothingYet, FreshIs DEF Shape
<1>7. Places
  BY <1>1, <1>4, <1>5 DEF Places, NoCell, Fresh
<1> QED
  BY <1>1, <1>4, <1>6, <1>7 DEF NightInv, Counted, Funded, Standing, Breaks

(* NightInv holds throughout: the loop's places, what its runs were        *)
(* charged and stamped, what it keeps of the cells that did not finish and *)
(* the breaker's count agree with what the ledger says of the night.       *)
THEOREM NightStands == Spec => []NightInv
<1>1. Init => NightInv
  BY NightStarts
<1>2. NightInv /\ [Next]_vars => NightInv'
  BY StepKeeps
<1> QED
  BY <1>1, <1>2, PTL DEF Spec
-----------------------------------------------------------------------------
(* What follows of every night.                                            *)

(* While the loop chooses, no cell runs: every run of the night is done.   *)
LEMMA AllAreDone ==
    ASSUME NightInv, pc = "loop"
    PROVE  Running /\ Done = NightRuns /\ cell = 0
<1>1. Running /\ cell = 0
  BY DEF NightInv, Places, Running
<1>2. 0 \notin NightRuns
  BY NightRunsAre DEF NightInv
<1> QED
  BY <1>1, <1>2 DEF Done

(* EveryRunIsCounted: when the next spec is weighed, every run the night   *)
(* minted carries its batch, the ones whose cell raised too.               *)
THEOREM RunsAreCounted == Spec => []EveryRunIsCounted
<1>1. NightInv => EveryRunIsCounted
  BY AllAreDone DEF EveryRunIsCounted, NightInv, Counted
<1> QED
  BY <1>1, NightStands, PTL

LEMMA LiveRowStays ==
    ASSUME NightInv, [Next]_vars, attended.at = "cell", attended' = attended,
           ~(pc = "reconcile" /\ Opening)
    PROVE  rows'[attended.row] = rows[attended.row]
<1>0. Shape /\ Places
  BY DEF NightInv
<1>1. attended.row \in 1 .. Len(runs) /\ runs[attended.row].by = 0
  BY <1>0 DEF Places
<1>2. CASE SteadyStep
  <2>1. CASE Readiness \/ RefuseCell \/ RaiseEarly \/ Operator \/ UNCHANGED vars
             \/ \E asked \in BOOLEAN : Scan(asked)
    BY <2>1 DEF Readiness, RefuseCell, RaiseEarly, Operator, OperatorMoves, Moves, Scan,
                vars, queueVars
  <2>2. CASE \E asked \in BOOLEAN : Reconcile(asked)
    <3>1. PICK asked \in BOOLEAN : Reconcile(asked)
      BY <2>2
    <3>2. PICK stamp \in BOOLEAN : stamp = Opening /\ ~stamp
      BY <3>1 DEF Opening, Reconcile
    <3>3. /\ rows' = Reconciled(Ids, asked, stamp) /\ pc = "reconcile" /\ pc' = "scan"
          /\ UNCHANGED <<repo, main, base, commits, prs, batches, runs, drive, cell>>
      BY <3>1, <3>2 DEF Reconcile
    <3>4. IsAttended(attended)'
      BY <1>0, <3>3 DEF Shape, IsAttended, Ids
    <3> QED
      BY <3>2, <3>3, <3>4, ReconcilesSteadily
  <2>3. CASE AttendedStarts \/ \E s \in repo.attended, asked \in BOOLEAN : AttendedAsks(s, asked)
    <3>1. ~AttendedStarts
      BY DEF AttendedStarts
    <3>2. attended # NoCell
      BY DEF NoCell
    <3>3. \A s, asked : AttendedAsks(s, asked) => attended = NoCell
      BY DEF AttendedAsks
    <3> QED
      BY <2>3, <3>1, <3>2, <3>3
  <2>4. CASE \E end \in Returned \union Raised \union CutShort(attended.row) :
                AttendedEnds(end, Min(Costs))
    BY <2>4 DEF AttendedEnds, NoCell
  <2> QED
    BY <1>2, <2>1, <2>2, <2>3, <2>4 DEF SteadyStep, Beside
<1>3. CASE Ending
  BY <1>3, EndingSteps DEF Idles
<1>4. CASE StartCell
  <2>1. PICK r : rows' = Append(rows, r)
    BY <1>4 DEF StartCell
  <2> QED
    BY <1>0, <1>1, <2>1, ShapeIs, OneLonger DEF Shape
<1>5. CASE Over
  <2>1. PICK cost \in Costs : CellOver(cost)
    BY <1>5 DEF Over
  <2>2. runs[cell].by # 0
    BY <1>0, <2>1 DEF CellOver, Places, Running
  <2> QED
    BY <1>1, <2>1, <2>2 DEF CellOver
<1>6. CASE \E answers \in BOOLEAN : Scan(answers) /\ Opening
  BY <1>6 DEF Scan, queueVars
<1> QED
  BY <1>2, <1>3, <1>4, <1>5, <1>6, StepsAre

(* LiveRowStands: no step of a night but its opening scan changes the row  *)
(* of the `saffron cell` that runs beside it.                              *)
THEOREM LiveRowIsLeft == Spec => LiveRowStands
<1>1. NightInv /\ [Next]_vars
        => [attended.at = "cell" /\ attended' = attended
              => \/ rows'[attended.row] = rows[attended.row]
                 \/ pc = "reconcile" /\ Opening]_vars
  BY LiveRowStays
<1> QED
  BY <1>1, NightStands, PTL DEF Spec, LiveRowStands

(* Only the loop, its queue empty and its breaker not tripped, drains.     *)
LEMMA OnlyDrainedDrains ==
    ASSUME NightInv, [Next]_vars, pc = "loop", Tonight = Len(batches'),
           batches'[Tonight] = "DRAINED"
    PROVE  Offered = {} /\ ~Tripped
<1>0. Shape /\ Places /\ Running
  BY AllAreDone DEF NightInv
<1>1. batches[Tonight] = "open"
  BY <1>0 DEF Places
<1>2. ~SteadyStep
  BY <1>1, SteadySteps DEF Steady
<1>3. ~StartCell
  BY <1>1 DEF StartCell
<1>4. ~Over /\ ~(\E answers \in BOOLEAN : Scan(answers) /\ Opening)
  BY DEF Over, CellOver, Scan
<1>5. Ending
  BY <1>2, <1>3, <1>4, StepsAre
<1>6. Drained \/ Until \/ OutOfBudget \/ Breaker
  BY <1>1, <1>5 DEF Ending, NotReady, ScanRaises, Kill, Cuts, Interrupted, KilledInCell
<1>7. PICK reason \in {"DRAINED", "BUDGET", "UNTIL", "INFRASTRUCTURE"} :
         /\ Stop(reason)
         /\ reason = "DRAINED" => Offered = {} /\ ~Tripped
  BY <1>6, EndsBy
<1>8. Promoted(reason) = "DRAINED"
  BY <1>0, <1>7, StopIs
<1> QED
  BY <1>7, <1>8, PromotedIs

LEMMA GreatestIs ==
    ASSUME Shape, NEW S, S \subseteq NightRuns
    PROVE  /\ Max(S \union {0}) \in S \union {0}
           /\ \A j \in S : j <= Max(S \union {0})
<1>1. NightRuns \subseteq 1 .. Len(runs) /\ Len(runs) \in Nat
  BY ShapeIs, NightRunsAre
<1>2. S \union {0} \subseteq 0 .. Len(runs) /\ S \union {0} \subseteq Nat
  BY <1>1
<1>3. IsFiniteSet(S \union {0})
  <2>1. IsFiniteSet(0 .. Len(runs))
    BY <1>1, FS_Interval
  <2> QED
    BY <1>2, <2>1, FS_Subset
<1> QED
  BY <1>2, <1>3, MaxIs

LEMMA DrainsSoundly ==
    ASSUME NightInv, pc = "loop", Offered = {}, ~Tripped,
           NEW last, last = Max(NightRuns \union {0}),
           NEW prev, prev = Max((NightRuns \ {last}) \union {0})
    PROVE  /\ drive.pending \subseteq drive.started
           /\ last # 0 /\ prev # 0 => ~(Aborted(last) /\ Aborted(prev))
<1>0. Shape /\ Running /\ Done = NightRuns
  BY AllAreDone DEF NightInv
<1>1. drive.pending \subseteq drive.started
  BY DEF Offered
<1>2. ASSUME last # 0, prev # 0, Aborted(last), Aborted(prev)
      PROVE  FALSE
  <2>1. LastOf(last, Done)
    BY <1>0, <1>2, GreatestIs DEF LastOf
  <2>2. LastOf(prev, Done \ {last})
    BY <1>0, <1>2, GreatestIs DEF LastOf
  <2>3. last \in Done /\ prev \in Done
    BY <2>1, <2>2 DEF LastOf
  <2>4. drive.aborts >= 2
    BY <1>0, <1>2, <2>1, <2>2, <2>3 DEF NightInv, Breaks
  <2> QED
    BY <2>4 DEF Tripped, BreakerThreshold
<1> QED
  BY <1>1, <1>2

(* DrainedNightWasSound: a night that says DRAINED offered nothing it had  *)
(* not started, and its last two tasks were not both aborted.              *)
THEOREM DrainedIsSound == Spec => DrainedNightWasSound
<1>1. NightInv /\ [Next]_vars
        => [(pc = "loop" /\ Tonight = Len(batches') /\ batches'[Tonight] = "DRAINED")
              => LET last == Max(NightRuns \union {0})
                     prev == Max((NightRuns \ {last}) \union {0})
                 IN  /\ drive.pending \subseteq drive.started
                     /\ last # 0 /\ prev # 0 => ~(Aborted(last) /\ Aborted(prev))]_vars
  BY OnlyDrainedDrains, DrainsSoundly
<1> QED
  BY <1>1, NightStands, PTL DEF Spec, DrainedNightWasSound
-----------------------------------------------------------------------------
(* A night keeps the promise of every night.                               *)

LEMMA LeftIs ==
    /\ Left = {i \in Done : InFlightAt(i) \/ Unpackaged(i)}
    /\ Left' = {i \in Done' : InFlightAt(i)' \/ Unpackaged(i)'}
  BY DEF Left, Done, InFlightAt, Unpackaged

LEMMA StatusIs ==
    ASSUME NightInv
    PROVE  /\ Running => Status = "open"
           /\ ~Running => Status # "open"
  BY DEF NightInv, Places, Status

LEMMA CostIsNat ==
    ASSUME NightInv
    PROVE  Cost(NightRuns) \in Nat
  BY NightCost, SpentIsNat DEF NightInv, Shape

(* A cell costs no more than its spec declared and one overshoot.          *)
LEMMA OvershootCovers ==
    ASSUME repo \in Repos, NEW s \in Ids, NEW cost \in Costs
    PROVE  /\ Declared(s).budget \in Nat /\ Overshoot \in Int
           /\ cost <= Declared(s).budget + Overshoot
<1> DEFINE Budgets == UNION {{r.specs[t].budget : t \in DOMAIN r.specs} : r \in Repos}
<1>1. Budgets \subseteq Nat /\ Declared(s).budget \in Budgets
  BY QueueAssumption DEF Ids, Declared
<1>2. Min(Budgets) \in Nat /\ Min(Budgets) <= Declared(s).budget
  <2> HIDE DEF Budgets
  <2> QED
    BY <1>1, MinIs
<1>3. Max(Costs) \in Nat /\ cost <= Max(Costs) /\ cost \in Nat
  BY NightAssumption, MaxIs
<1>4. Overshoot = Max(Costs) - Min(Budgets)
  BY DEF Overshoot
<1>5. PICK most \in Nat, least \in Nat, budget \in Nat :
         /\ Overshoot = most - least /\ least <= budget /\ cost <= most
         /\ budget = Declared(s).budget
  <2> HIDE DEF Budgets
  <2> QED
    BY <1>1, <1>2, <1>3, <1>4
<1>6. \A m, l, b, c \in Nat : l <= b /\ c <= m => m - l \in Int /\ c <= b + (m - l)
  OBVIOUS
<1> QED
  BY <1>3, <1>5, <1>6

LEMMA SteadyGoesOn ==
    ASSUME NightInv, SteadyStep, Running
    PROVE  Running'
<1>1. CASE RefuseCell \/ RaiseEarly
  <2>1. drive'.started # {} /\ pc' = "reconcile"
    BY <1>1 DEF RefuseCell, RaiseEarly, Begun, NightInv, Shape, IsDrive, DriveFields
  <2> QED
    BY <2>1 DEF Running, Opening
<1>2. CASE \E asked \in BOOLEAN : Scan(asked) /\ ~Opening
  BY <1>2 DEF Scan, Running
<1>3. CASE \E asked \in BOOLEAN : Reconcile(asked)
  BY <1>3 DEF Reconcile, Running, Opening
<1>4. CASE Readiness
  BY <1>4 DEF Readiness, Running
<1>5. CASE UNCHANGED <<pc, drive>>
  BY <1>5 DEF Running, Opening
<1>6. CASE Beside \/ UNCHANGED vars
  BY <1>5, <1>6 DEF Beside, Operator, AttendedAsks, AttendedStarts, AttendedEnds, vars, nightVars
<1> QED
  BY <1>1, <1>2, <1>3, <1>4, <1>6 DEF SteadyStep

LEMMA PromiseSteady ==
    ASSUME NightInv, SteadyStep
    PROVE  Promise!Next \/ UNCHANGED <<Status, Cost(NightRuns), Left>>
<1>1. Shape' /\ Steady
  BY SteadySteps
<1>2. Running' <=> Running
  BY <1>1, SteadyGoesOn DEF Steady
<1>3. Status' = Status /\ Cost(NightRuns)' = Cost(NightRuns)
  BY <1>1, <1>2 DEF Steady, Status, Tonight
<1>4. Done' = Done /\ Done \subseteq NightRuns
  BY <1>1, SteadyNight DEF Done
<1>5. Left' \subseteq Left /\ (Running => Left' = Left)
  BY <1>1, <1>4, LeftIs DEF Steady
<1> QED
  BY <1>2, <1>3, <1>5, StatusIs DEF Promise!Next, Promise!Settle

LEMMA PromiseStarts ==
    ASSUME NightInv, StartCell
    PROVE  UNCHANGED <<Status, Cost(NightRuns), Left>>
<1>1. PICK c : StartsAt(c)
  BY StartKeeps
<1>2. Running /\ Running' /\ NightInv'
  BY StartKeeps DEF StartCell, Admitted, Running
<1>3. Status' = Status
  BY <1>2, StatusIs DEF StartCell, Status, Tonight
<1>4. Left' = Left
  BY <1>1, LeftIs DEF StartsAt, InFlightAt, Unpackaged
<1> QED
  BY <1>1, <1>3, <1>4 DEF StartsAt

(* One more cell's cost stays within the budget and one overshoot.         *)
LEMMA OneMoreCell ==
    ASSUME NightInv, pc = "cell", NEW cost \in Costs,
           Cost(NightRuns)' = Cost(NightRuns) + cost
    PROVE  Promise!Spends
<1>1. PICK budget : budget = Declared(rows[cell].spec).budget
  OBVIOUS
<1>2. Cost(NightRuns) + budget <= Budget
  BY <1>1 DEF NightInv, Funded
<1>3. repo \in Repos /\ rows[cell].spec \in Ids
  <2>1. cell \in 1 .. Len(runs) /\ Shape
    BY DEF NightInv, Places
  <2>2. IsRow(rows[cell])
    BY <2>1, ShapeIs
  <2> QED
    BY <2>1, <2>2 DEF Shape, IsRow
<1>4. budget \in Nat /\ Overshoot \in Int /\ cost <= budget + Overshoot
  BY <1>1, <1>3, OvershootCovers
<1>5. Budget \in Nat /\ cost \in Nat /\ Cost(NightRuns) \in Nat
  BY NightAssumption, CostIsNat
<1>6. \A b, d, s, e \in Nat, over \in Int :
         s + d <= b /\ e <= d + over => s + e \in s .. b + over
  OBVIOUS
<1>7. PICK spent \in Nat, after \in Nat, over \in Int, most \in Nat :
         /\ spent = Cost(NightRuns) /\ after = Cost(NightRuns)' /\ over = Overshoot
         /\ most = Budget /\ after = spent + cost
  BY <1>4, <1>5
<1>8. spent + cost \in spent .. most + over
  BY <1>2, <1>4, <1>5, <1>6, <1>7
<1>9. Cost(NightRuns)' \in Cost(NightRuns) .. Budget + Overshoot
  BY <1>7, <1>8
<1> QED
  BY <1>9 DEF Promise!Spends

LEMMA PromiseCharges ==
    ASSUME NightInv, Over
    PROVE  Promise!Next
<1>1. PICK cost \in Costs : CellOver(cost) /\ cost \in Nat
  BY NightAssumption DEF Over
<1>2. PICK c : OverAt(c)
  BY <1>1, OverIs
<1>3. Cost(NightRuns)' = Cost(NightRuns) + cost /\ pc = "cell"
  BY <1>1, OverCosts DEF CellOver
<1>4. Promise!Spends
  BY <1>1, <1>3, OneMoreCell
<1>5. Running /\ Status' = Status
  <2>1. Running /\ Running' /\ Tonight' = Tonight /\ batches' = batches
    BY <1>1 DEF CellOver, Running, Opening, Tonight, NightInv, Places
  <2> QED
    BY <2>1 DEF Status
<1>6. Left \subseteq Left'
  BY <1>2, LeftIs DEF OverAt, InFlightAt, Unpackaged
<1> QED
  BY <1>4, <1>5, <1>6, StatusIs DEF Promise!Next, Promise!Charge

LEMMA PromiseOpens ==
    ASSUME NightInv, ~Running, NEW status \in {"open", "INFRASTRUCTURE"},
           batches' = Append(batches, status), runs' = runs,
           status = "open" => Running', status = "INFRASTRUCTURE" => ~Running'
    PROVE  Promise!Next
<1>0. Shape /\ Places
  BY DEF NightInv
<1>1. /\ Tonight \in Nat /\ Tonight' = Tonight + 1 /\ batches'[Tonight'] = status
  <2>1. batches \in Seq({"open"} \union Closed) /\ status \in {"open"} \union Closed
    BY <1>0 DEF Shape, Closed
  <2> QED
    BY <1>0, <2>1, AppendProperties, ShapeIs DEF Tonight
<1>2. Status' = status
  BY <1>1 DEF Status
<1>3. \A i \in 1 .. Len(runs) : runs[i].by # Tonight'
  <2>1. \A i \in 1 .. Len(runs) : runs[i].by <= Tonight /\ runs[i].by \in Nat
    BY <1>0, ShapeIs DEF Places
  <2> QED
    BY <1>1, <2>1
<1>4. NightRuns' = {}
  <2>1. DOMAIN runs = 1 .. Len(runs)
    BY <1>0, ShapeIs
  <2> QED
    BY <1>3, <2>1 DEF NightRuns
<1>5. Left' = {}
  BY <1>4 DEF Left, Unpackaged
<1>6. Cost(NightRuns)' = 0
  <2>1. runs' \in Seq(Run) /\ Tonight' \in Nat
    BY <1>0, <1>1 DEF Shape
  <2>2. Spent(runs', Tonight') = 0
    BY <1>3, <2>1, SpentOfNone
  <2> QED
    BY <2>2, NightCost
<1> QED
  BY <1>2, <1>5, <1>6, StatusIs DEF Promise!Next, Promise!Open

(* A stopped night: the ledger says what the loop kept of it.              *)
LEMMA PromiseEnds ==
    ASSUME NightInv, Running, NEW reason \in {"DRAINED", "BUDGET", "UNTIL", "INFRASTRUCTURE"},
           Stop(reason), cell = 0, Cost(NightRuns)' = Cost(NightRuns), NightRuns' = NightRuns,
           \A i \in Done : rows'[i] = rows[i]
    PROVE  Promise!Next
<1>0. Shape /\ Places
  BY DEF NightInv
<1>1. /\ Len(batches') = Len(batches) /\ batches'[Tonight] = Promoted(reason)
      /\ pc' = "idle" /\ cell' = 0
  BY <1>0, StopIs
<1>2. /\ Status' = Promoted(reason) /\ Promoted(reason) \in Closed
      /\ Promoted(reason) \in Promise!Reasons
  <2>1. Promoted(reason) \in Closed /\ Tonight' = Tonight /\ Tonight # 0
    BY <1>0, <1>1, PromotedIs DEF Tonight, Places
  <2> QED
    BY <1>1, <2>1 DEF Status, Closed, Promise!Reasons, Promise!Ordinary
<1>3. Left' = Left
  <2>1. 0 \notin NightRuns
    BY <1>0, NightRunsAre
  <2>2. Done' = NightRuns /\ Done = NightRuns
    BY <1>1, <2>1 DEF Done
  <2>4. \A i \in Done : (InFlightAt(i)' <=> InFlightAt(i)) /\ (Unpackaged(i)' <=> Unpackaged(i))
    BY DEF InFlightAt, Unpackaged
  <2> QED
    BY <2>2, <2>4, LeftIs
<1>4. Promoted(reason) \in Promise!Ordinary => Left = {}
  BY PromotedIs, LeftIs DEF NightInv, Standing, Promise!Ordinary
<1> QED
  BY <1>2, <1>3, <1>4, StatusIs DEF Promise!Next, Promise!End, Promise!Spends

(* A cell cut short is charged, and what the night left stays left.        *)
LEMMA CutsCost ==
    ASSUME NightInv, NEW end, NEW cost \in Costs, Cuts(end, cost)
    PROVE  /\ NightRuns' = NightRuns /\ Left \subseteq Left'
           /\ Cost(NightRuns)' = Cost(NightRuns) + cost
<1>0. Shape /\ Places
  BY DEF NightInv
<1>1. /\ Running /\ pc = "cell" /\ cell \in 1 .. Len(runs) /\ CellSettles(cell, end)
      /\ runs' = Ended(cell, cost, end) /\ cost \in Nat /\ end.status \in Statuses
      /\ cell' = 0 /\ Len(batches') = Len(batches)
  BY CutsAre
<1>2. PICK c \in 1 .. Len(runs) : c = cell /\ runs[c].by = Tonight /\ runs[c].cost = 0
  BY <1>0, <1>1 DEF Places
<1>3. /\ runs \in Seq(Run) /\ runs' \in Seq(Run) /\ Len(runs') = Len(runs)
      /\ \A i \in (1 .. Len(runs)) \ {c} : runs'[i] = runs[i]
      /\ runs'[c].by = runs[c].by /\ runs'[c].cost = cost
  <2>1. PICK found : found = runs' /\ found = Ended(c, cost, end)
    BY <1>1, <1>2
  <2>2. /\ found \in Seq(Run) /\ Len(found) = Len(runs)
        /\ \A i \in (1 .. Len(runs)) \ {c} : found[i] = runs[i]
        /\ found[c].by = runs[c].by /\ found[c].cost = cost
    BY <1>0, <1>1, <2>1, EndedIs
  <2> QED
    BY <1>0, <2>1, <2>2 DEF Shape
<1>4. /\ Tonight' = Tonight /\ Tonight \in Nat \ {0}
      /\ DOMAIN runs = 1 .. Len(runs) /\ DOMAIN runs' = 1 .. Len(runs)
  BY <1>0, <1>1, <1>3, ShapeIs, LenProperties DEF Tonight, Places
<1>5. /\ \A i \in 1 .. Len(runs) : runs'[i].by = runs[i].by
      /\ \A i \in (1 .. Len(runs)) \ {c} : runs'[i].cost = runs[i].cost
  BY <1>3
<1>6. NightRuns' = NightRuns
  BY <1>4, <1>5 DEF NightRuns
<1>7. Cost(NightRuns)' = Cost(NightRuns) + cost
  <2>1. Spent(runs', Tonight) = Spent(runs, Tonight) + cost
    <3>1. PICK q \in Seq(Run), r \in Seq(Run), t \in Nat \ {0} :
             q = runs /\ r = runs' /\ t = Tonight
      BY <1>3, <1>4
    <3>2. PICK d \in Nat : d = cost
      BY <1>1
    <3>3. /\ Len(r) = Len(q) /\ c \in 1 .. Len(q) /\ q[c].by = t
          /\ q[c].cost = 0 /\ r[c].cost = d
          /\ \A i \in 1 .. Len(q) : r[i].by = q[i].by
          /\ \A i \in (1 .. Len(q)) \ {c} : r[i].cost = q[i].cost
      BY <1>2, <1>3, <1>5, <3>1, <3>2
    <3>4. Spent(r, t) = Spent(q, t) + d
      BY <3>3, SpentRises
    <3> QED
      BY <3>1, <3>2, <3>4
  <2> QED
    BY <1>4, <2>1, NightCost
<1>8. Left \subseteq Left'
  <2>1. Done \subseteq (1 .. Len(runs)) \ {cell} /\ Done \subseteq Done'
    BY <1>0, <1>1, <1>6, NightRunsAre DEF Done
  <2>2. \A i \in Done : rows'[i] = rows[i]
    BY <1>0, <1>1, <2>1, SettleIs
  <2>3. \A i \in Done : (InFlightAt(i)' <=> InFlightAt(i)) /\ (Unpackaged(i)' <=> Unpackaged(i))
    BY <2>2 DEF InFlightAt, Unpackaged
  <2> QED
    BY <2>1, <2>3, LeftIs
<1> QED
  BY <1>6, <1>7, <1>8

LEMMA PromiseCuts ==
    ASSUME NightInv, NEW end, NEW cost \in Costs, Cuts(end, cost)
    PROVE  Promise!Next
<1>0. Places
  BY DEF NightInv
<1>1. /\ Running /\ pc = "cell" /\ pc' = "idle" /\ Len(batches') = Len(batches)
      /\ \/ batches' = batches
         \/ batches'[Tonight] = Promoted("INFRASTRUCTURE")
  BY CutsAre
<1>2. Left \subseteq Left' /\ Promise!Spends
  BY <1>1, CutsCost, OneMoreCell
<1>3. /\ Status = "open" /\ Tonight' = Tonight /\ Tonight # 0 /\ batches[Tonight] = "open"
      /\ ~Running'
  BY <1>0, <1>1, StatusIs DEF Places, Tonight, Running
<1>4. CASE batches' = batches
  <2>1. Status' = "killed"
    BY <1>3, <1>4 DEF Status
  <2> QED
    BY <1>2, <1>3, <2>1 DEF Promise!Next, Promise!Killed
<1>5. CASE batches'[Tonight] = Promoted("INFRASTRUCTURE")
  <2>1. Status' = "INFRASTRUCTURE"
    BY <1>3, <1>5 DEF Status, Promoted
  <2> QED
    BY <1>2, <1>3, <2>1 DEF Promise!Next, Promise!End, Promise!Reasons, Promise!Ordinary
<1> QED
  BY <1>1, <1>4, <1>5

LEMMA PromiseEnding ==
    ASSUME NightInv, Ending
    PROVE  Promise!Next \/ UNCHANGED <<Status, Cost(NightRuns), Left>>
<1>0. Shape /\ Places
  BY DEF NightInv
<1>1. CASE NotReady
  <2>1. ~Running /\ ~Running' /\ batches' = Append(batches, "INFRASTRUCTURE") /\ runs' = runs
    BY <1>1 DEF NotReady, Running
  <2> QED
    BY <2>1, PromiseOpens
<1>2. CASE ScanRaises /\ Opening
  <2>1. ~Running /\ ~Running' /\ batches' = Append(batches, "INFRASTRUCTURE") /\ runs' = runs
    BY <1>2 DEF ScanRaises, Exits, Running
  <2> QED
    BY <2>1, PromiseOpens
<1>3. CASE (ScanRaises /\ ~Opening) \/ Drained \/ Until \/ OutOfBudget \/ Breaker
  <2>1. PICK reason \in {"DRAINED", "BUDGET", "UNTIL", "INFRASTRUCTURE"} : Stop(reason)
    BY <1>3, EndsBy DEF ScanRaises
  <2>2. Running /\ cell = 0 /\ UNCHANGED <<queueVars, runs, attended>>
    BY <1>0, <1>3, EndsBy DEF ScanRaises, Running, Places
  <2>3. Tonight' = Tonight
    BY <1>0, <2>1, <2>2, StopIs DEF Tonight
  <2>4. NightRuns' = NightRuns /\ Cost(NightRuns)' = Cost(NightRuns)
    BY <2>2, <2>3, NightCost DEF NightRuns
  <2>5. \A i \in Done : rows'[i] = rows[i]
    BY <2>2 DEF queueVars
  <2> QED
    BY <1>3, <2>1, <2>2, <2>4, <2>5, PromiseEnds DEF Ending
<1>4. CASE \E end \in Returned \union Raised \union CutShort(cell), cost \in Costs :
          Cuts(end, cost)
  BY <1>4, PromiseCuts
<1>5. CASE Kill
  <2>1. /\ pc' = "idle" /\ cell' = 0 /\ UNCHANGED <<queueVars, batches, runs>>
        /\ Tonight' = Tonight /\ cell = 0
    BY <1>0, <1>5 DEF Kill, Exits, Tonight, Places
  <2>2. NightRuns' = NightRuns /\ Cost(NightRuns)' = Cost(NightRuns) /\ ~Running'
    BY <2>1, NightCost DEF NightRuns, Running
  <2>3. Left' = Left
    BY <2>1, <2>2, LeftIs DEF Done, InFlightAt, Unpackaged, queueVars
  <2>4. CASE Running
    <3>1. Status = "open" /\ Status' = "killed"
      BY <1>0, <2>1, <2>2, <2>4, StatusIs DEF Status, Places
    <3> QED
      BY <2>2, <2>3, <3>1 DEF Promise!Next, Promise!Killed, Promise!Spends
  <2>5. CASE ~Running
    <3>1. Status' = Status
      BY <1>0, <2>1, <2>2, <2>5 DEF Status, Places, Running
    <3> QED
      BY <2>2, <2>3, <3>1
  <2> QED
    BY <2>4, <2>5
<1> QED
  BY <1>1, <1>2, <1>3, <1>4, <1>5 DEF Ending

LEMMA PromiseSteps ==
    ASSUME NightInv, [Next]_vars
    PROVE  [Promise!Next]_<<Status, Cost(NightRuns), Left>>
<1>1. CASE \E answers \in BOOLEAN : Scan(answers) /\ Opening
  <2>1. ~Running /\ Running' /\ batches' = Append(batches, "open") /\ runs' = runs
    BY <1>1 DEF Scan, Running
  <2> QED
    BY <2>1, PromiseOpens
<1> QED
  BY <1>1, StepsAre, PromiseSteady, PromiseStarts, PromiseCharges, PromiseEnding

LEMMA PromiseBegins == Init => Promise!Init
<1> SUFFICES ASSUME Init PROVE Promise!Init
  OBVIOUS
<1>1. NightInv /\ Tonight = 0
  BY NightStarts DEF Init, Tonight
<1>2. NightRuns = {} /\ Left = {} /\ Status = "none"
  BY <1>1 DEF NightRuns, Left, Unpackaged, Status
<1>3. Cost(NightRuns) = 0
  <2>1. runs \in Seq(Run) /\ 0 \in Nat
    BY <1>1 DEF NightInv, Shape
  <2>2. Spent(runs, 0) = 0
    BY <2>1, SpentOfNone
  <2> QED
    BY <1>1, <2>2, NightCost
<1> QED
  BY <1>2, <1>3 DEF Promise!Init

(* KeepsItsPromise: a night implements Batch.  Its cells cost no more than *)
(* the budget and one overshoot, its row closes once, and for an ordinary  *)
(* reason only when the ledger holds nothing of its own in flight and      *)
(* nothing reviewed that no pull request was recorded for.                 *)
THEOREM NightIsABatch == Spec => KeepsItsPromise
<1>1. Init => Promise!Init
  BY PromiseBegins
<1>2. NightInv /\ [Next]_vars => [Promise!Next]_<<Status, Cost(NightRuns), Left>>
  BY PromiseSteps
<1> QED
  BY <1>1, <1>2, NightStands, PTL DEF Spec, KeepsItsPromise, Promise!Spec, Promise!vars
-----------------------------------------------------------------------------
(* A walk of depends_on reaches no less where more specs are found.        *)

WalksUp(g, s, at, n) ==
    g = [k \in 0 .. n |-> IF k = 0 THEN DependsOn(s, at)
                          ELSE g[k - 1] \union UNION {DependsOn(d, at) : d \in g[k - 1]}]

LEMMA WalksExist ==
    ASSUME NEW n \in Nat, NEW s, NEW at
    PROVE  \E g : WalksUp(g, s, at, n)
<1> DEFINE From(t) == t \union UNION {DependsOn(d, at) : d \in t}
           Bad == {m \in 0 .. n : ~ \E g : WalksUp(g, s, at, m)}
<1>0. \A g, m : WalksUp(g, s, at, m)
                  <=> g = [k \in 0 .. m |-> IF k = 0 THEN DependsOn(s, at) ELSE From(g[k - 1])]
  BY DEF WalksUp
<1> HIDE DEF From
<1>1. ASSUME Bad # {}
      PROVE  FALSE
  <2>0. Bad \subseteq Nat
    OBVIOUS
  <2>1. PICK m \in Bad : \A j \in Bad : m <= j
    BY <1>1, <2>0, LeastIs
  <2>2. m # 0
    <3>1. [k \in 0 .. 0 |-> DependsOn(s, at)]
            = [k \in 0 .. 0 |-> IF k = 0 THEN DependsOn(s, at)
                                ELSE From([j \in 0 .. 0 |-> DependsOn(s, at)][k - 1])]
      OBVIOUS
    <3>2. WalksUp([k \in 0 .. 0 |-> DependsOn(s, at)], s, at, 0)
      BY <1>0, <3>1
    <3> QED
      BY <2>1, <3>2
  <2>3. m - 1 \in 0 .. n /\ m \in 1 .. n /\ m - 1 \notin Bad
    BY <2>1, <2>2
  <2>4. PICK g : WalksUp(g, s, at, m - 1)
    BY <2>3
  <2> DEFINE h == [k \in 0 .. m |-> IF k = m THEN From(g[m - 1]) ELSE g[k]]
  <2>5. ASSUME NEW k \in 0 .. m
        PROVE  h[k] = IF k = 0 THEN DependsOn(s, at) ELSE From(h[k - 1])
    <3>1. CASE k = m
      <4>1. h[k] = From(g[m - 1]) /\ h[k - 1] = g[m - 1] /\ k # 0
        BY <2>2, <2>3, <3>1
      <4> QED
        BY <4>1
    <3>2. CASE k # m
      <4>1. k \in 0 .. m - 1 /\ h[k] = g[k]
        BY <2>3, <3>2
      <4>2. g[k] = IF k = 0 THEN DependsOn(s, at) ELSE From(g[k - 1])
        BY <4>1, <2>4, <1>0
      <4>3. k # 0 => h[k - 1] = g[k - 1]
        BY <4>1, <2>3
      <4> QED
        BY <4>1, <4>2, <4>3
    <3> QED
      BY <3>1, <3>2
  <2>6. WalksUp(h, s, at, m)
    <3>1. h = [k \in 0 .. m |-> IF k = 0 THEN DependsOn(s, at) ELSE From(h[k - 1])]
      BY <2>5
    <3> QED
      BY <1>0, <3>1
  <2> QED
    BY <2>1, <2>6
<1>2. n \notin Bad
  BY <1>1
<1> QED
  BY <1>2

LEMMA ReachableIs ==
    ASSUME repo \in Repos, NEW s, NEW at
    PROVE  \E g : /\ WalksUp(g, s, at, Cardinality(Ids))
                  /\ Reachable(s, at) = g[Cardinality(Ids)] \ {s}
<1>1. Cardinality(Ids) \in Nat
  BY QueueAssumption, FS_CardinalityType DEF Ids
<1> DEFINE n == Cardinality(Ids)
           f == CHOOSE g : g = [k \in 0 .. n |->
                    IF k = 0 THEN DependsOn(s, at)
                    ELSE g[k - 1] \union UNION {DependsOn(d, at) : d \in g[k - 1]}]
<1>2. WalksUp(f, s, at, n)
  <2>1. \E g : WalksUp(g, s, at, n)
    BY <1>1, WalksExist
  <2>2. f = CHOOSE g : WalksUp(g, s, at, n)
    BY DEF WalksUp
  <2> QED
    BY <2>1, <2>2
<1>3. Reachable(s, at) = f[n] \ {s}
  BY DEF Reachable
<1> QED
  BY <1>2, <1>3

LEMMA ReachesMore ==
    ASSUME repo \in Repos, NEW s, NEW at, NEW more, at.live \subseteq more.live
    PROVE  Reachable(s, at) \subseteq Reachable(s, more)
<1>0. Cardinality(Ids) \in Nat
  BY QueueAssumption, FS_CardinalityType DEF Ids
<1>1. PICK n \in Nat : n = Cardinality(Ids)
  BY <1>0
<1>2. PICK g : WalksUp(g, s, at, n) /\ Reachable(s, at) = g[n] \ {s}
  BY <1>1, ReachableIs
<1>3. PICK h : WalksUp(h, s, more, n) /\ Reachable(s, more) = h[n] \ {s}
  BY <1>1, ReachableIs
<1>4. \A d : DependsOn(d, at) \subseteq DependsOn(d, more)
  BY DEF DependsOn
<1> DEFINE Bad == {k \in 0 .. n : ~(g[k] \subseteq h[k])}
<1>5. ASSUME Bad # {}
      PROVE  FALSE
  <2>0. Bad \subseteq Nat
    OBVIOUS
  <2>1. PICK k \in Bad : \A j \in Bad : k <= j
    BY <1>5, <2>0, LeastIs
  <2>2. k # 0
    BY <1>2, <1>3, <1>4, <2>1 DEF WalksUp
  <2>3. k - 1 \in 0 .. n /\ k \in 1 .. n /\ ~(k <= k - 1)
    BY <2>1, <2>2
  <2>4. g[k - 1] \subseteq h[k - 1]
    BY <2>1, <2>3
  <2>5. /\ g[k] = g[k - 1] \union UNION {DependsOn(d, at) : d \in g[k - 1]}
        /\ h[k] = h[k - 1] \union UNION {DependsOn(d, more) : d \in h[k - 1]}
    BY <1>2, <1>3, <2>2, <2>3 DEF WalksUp
  <2>6. UNION {DependsOn(d, at) : d \in g[k - 1]} \subseteq UNION {DependsOn(d, more) : d \in h[k - 1]}
    BY <1>4, <2>4
  <2> QED
    BY <2>1, <2>4, <2>5, <2>6
<1>6. n \in 0 .. n
  OBVIOUS
<1> QED
  BY <1>2, <1>3, <1>5, <1>6
-----------------------------------------------------------------------------
(* A removal waits alone.  While the loop holds a queue, no spec in it is  *)
(* a stranger to one of the night's rows that waits; while a cell runs,    *)
(* its spec is none.                                                       *)

BranchFields == {"text", "live", "retired", "holds"}
Pull         == {p \in [spec : Ids, state : {"draft", "ready", "changes", "merged", "closed"},
                        decided : BOOLEAN] : ~p.decided => p.state = "draft"}

IsBranch(b) == DOMAIN b = BranchFields /\ b.text \in [Ids -> Nat]

(* A text only grows newer, and a spec that left the branch stays away.    *)
Texts == /\ IsBranch(main) /\ IsBranch(base) /\ main.live \subseteq base.live
         /\ \A s \in Ids : base.text[s] <= main.text[s]

Pulled == prs \in Seq(Pull) /\ \A i \in 1 .. Len(runs) : rows[i].pr \in 0 .. Len(prs)

OfTheirTime == \A i \in 1 .. Len(runs) :
                  runs[i].by # 0 => /\ rows[i].text \in Nat
                                    /\ rows[i].text <= base.text[rows[i].spec]

Apart(s) == \A o \in Waiting : ~Strangers(s, o)

HeldBack == /\ pc = "loop" => \A s \in drive.pending : Apart(s)
            /\ pc = "cell" => \A s \in {rows[cell].spec} : Apart(s)

RemovalInv == Texts /\ Pulled /\ OfTheirTime /\ HeldBack /\ RemovalWaitsAlone

(* What a step of the rows leaves: each row its spec, and nothing newly    *)
(* waiting but the row c.                                                  *)
RowsGoOn(c) == /\ Pulled' /\ OfTheirTime'
               /\ \A i \in 1 .. Len(runs) : rows'[i].spec = rows[i].spec
               /\ NightWaits' \subseteq NightWaits \union {c}
               /\ NightWaits' \subseteq 1 .. Len(runs)

LEMMA SeqIsSeq ==
    ASSUME NEW S, NEW q \in Seq(S)
    PROVE  IsSeq(q)
<1>1. Len(q) \in Nat /\ q \in [1 .. Len(q) -> S]
  BY LenProperties
<1>2. q = [i \in 1 .. Len(q) |-> q[i]]
  BY <1>1
<1>3. DOMAIN q = 1 .. Len(q) /\ q \in Seq({q[i] : i \in DOMAIN q})
  <2>1. DOMAIN q = 1 .. Len(q) /\ q \in [1 .. Len(q) -> {q[i] : i \in DOMAIN q}]
    BY <1>1, <1>2
  <2> QED
    BY <1>1, <2>1, SeqDef
<1> QED
  BY <1>3 DEF IsSeq

LEMMA PullsAre ==
    ASSUME Pulled
    PROVE  /\ Len(prs) \in Nat /\ DOMAIN prs = 1 .. Len(prs)
           /\ \A k \in 1 .. Len(prs) : prs[k] \in Pull
  BY LenProperties DEF Pulled

LEMMA NightWaitsAre ==
    ASSUME Shape
    PROVE  /\ NightWaits \subseteq 1 .. Len(runs)
           /\ \A i \in NightWaits : rows[i].spec \in Ids /\ runs[i].by # 0
  BY ShapeIs DEF NightWaits, IsRow

LEMMA StrangersBoth ==
    ASSUME NEW a, NEW b, Strangers(a, b)
    PROVE  Strangers(b, a)
  BY DEF Strangers, Clash

LEMMA StrangersStay ==
    ASSUME repo \in Repos, repo' = repo, DOMAIN base = BranchFields,
           DOMAIN base' = BranchFields, NEW a, NEW b
    PROVE  Strangers(a, b)' <=> Strangers(a, b)
<1> DEFINE old == [base EXCEPT !.live = Ids]
           new == [base' EXCEPT !.live = Ids]
<1>1. old.live = Ids /\ new.live = Ids
  BY DEF BranchFields
<1>2. PICK o, n : o = old /\ n = new
  OBVIOUS
<1>3. ASSUME NEW s
      PROVE  Reachable(s, n) = Reachable(s, o)
  <2>1. o.live \subseteq n.live /\ n.live \subseteq o.live
    BY <1>1, <1>2
  <2>2. Reachable(s, o) \subseteq Reachable(s, n) /\ Reachable(s, n) \subseteq Reachable(s, o)
    BY <2>1, ReachesMore
  <2> QED
    BY <2>2
<1>4. Clash(a, b, n) <=> Clash(a, b, o)
  BY <1>3 DEF Clash
<1>5. Strangers(a, b)' <=> a # b /\ Clash(a, b, n)
  BY <1>2 DEF Strangers, Clash, Reachable, DependsOn, Declared, Ids
<1> QED
  BY <1>2, <1>4, <1>5 DEF Strangers

LEMMA StrangersClash ==
    ASSUME Shape, Texts, NEW a, NEW b, Strangers(a, b)
    PROVE  a # b /\ Clash(a, b, base)
<1> DEFINE whole == [base EXCEPT !.live = Ids]
<1>1. base.live \subseteq whole.live
  BY DEF Texts, IsBranch, BranchFields, Shape
<1>2. Reachable(a, base) \subseteq Reachable(a, whole) /\ Reachable(b, base) \subseteq Reachable(b, whole)
  BY <1>1, ReachesMore DEF Shape
<1>3. Clash(a, b, whole) /\ a # b
  BY DEF Strangers
<1> QED
  BY <1>2, <1>3 DEF Clash
(* What a reconcile lets wait was waiting.                                 *)
LEMMA ReconciledWaits ==
    ASSUME NEW r, NEW asked \in BOOLEAN, NextState(r, asked) \in WaitingStates,
           r.pr # 0 => prs[r.pr] \in Pull /\ ~prs[r.pr].decided
    PROVE  r.state \in WaitingStates
<1>1. NextState(r, asked) = r.state
  BY DEF NextState, Pull
<1> QED
  BY <1>1

LEMMA ReconcilesOn ==
    ASSUME NightInv, RemovalInv, NEW specs, NEW asked \in BOOLEAN, NEW stamp \in BOOLEAN,
           rows' = Reconciled(specs, asked, stamp), UNCHANGED <<repo, base, prs, runs>>
    PROVE  RowsGoOn(0)
<1>0. Shape /\ Pulled /\ OfTheirTime
  BY DEF NightInv, RemovalInv
<1>1. /\ DOMAIN rows = 1 .. Len(runs) /\ DOMAIN rows' = 1 .. Len(runs)
      /\ \A i \in 1 .. Len(runs) : IsRow(rows[i])
  BY <1>0, ShapeIs DEF Reconciled
<1>2. ASSUME NEW i \in 1 .. Len(runs)
      PROVE  /\ rows'[i].spec = rows[i].spec /\ rows'[i].text = rows[i].text
             /\ rows'[i].pr = rows[i].pr
             /\ rows'[i].state \in WaitingStates /\ (rows[i].pr # 0 => ~prs[rows[i].pr].decided)
                  => rows[i].state \in WaitingStates
  <2>1. PICK r : r = rows[i] /\ (r.pr # 0 => prs[r.pr] \in Pull)
    <3>1. rows[i].pr \in 0 .. Len(prs) /\ Len(prs) \in Nat
      BY <1>0, PullsAre DEF Pulled
    <3>2. rows[i].pr # 0 => rows[i].pr \in 1 .. Len(prs)
      BY <3>1
    <3> QED
      BY <1>0, <3>2, PullsAre
  <2>2. DOMAIN r = RowFields
    BY <1>1, <2>1 DEF IsRow
  <2>3. ASSUME NEW state, NEW e, e = [r EXCEPT !.state = state]
        PROVE  e.spec = r.spec /\ e.text = r.text /\ e.pr = r.pr /\ e.state = state
    BY <2>2, <2>3 DEF RowFields
  <2>4. \/ rows'[i] = r
        \/ rows'[i] = [r EXCEPT !.state = "ORPHANED"]
        \/ rows'[i] = [r EXCEPT !.state = NextState(r, asked)]
    BY <1>1, <2>1 DEF Reconciled
  <2>5. "ORPHANED" \notin WaitingStates
    BY DEF WaitingStates
  <2>6. CASE rows'[i] = r
    BY <2>1, <2>6
  <2>7. CASE rows'[i] = [r EXCEPT !.state = "ORPHANED"]
    BY <2>1, <2>3, <2>5, <2>7
  <2>8. CASE rows'[i] = [r EXCEPT !.state = NextState(r, asked)]
    <3>1. PICK state : state = NextState(r, asked)
      OBVIOUS
    <3>2. /\ rows'[i].spec = r.spec /\ rows'[i].text = r.text /\ rows'[i].pr = r.pr
          /\ rows'[i].state = state
      BY <2>3, <2>8, <3>1
    <3>3. state \in WaitingStates /\ (r.pr # 0 => ~prs[r.pr].decided)
            => r.state \in WaitingStates
      BY <2>1, <3>1, ReconciledWaits
    <3> QED
      BY <2>1, <3>2, <3>3
  <2> QED
    BY <2>4, <2>6, <2>7, <2>8
<1>3. NightWaits' \subseteq NightWaits /\ NightWaits' \subseteq 1 .. Len(runs)
  BY <1>1, <1>2 DEF NightWaits
<1>4. Pulled' /\ OfTheirTime'
  <2>1. Pull' = Pull
    BY DEF Pull, Ids
  <2> QED
    BY <1>0, <1>2, <2>1 DEF Pulled, OfTheirTime
<1> QED
  BY <1>2, <1>3, <1>4 DEF RowsGoOn

LEMMA MintsOn ==
    ASSUME NightInv, RemovalInv, NEW s \in Ids, NEW head, NEW by, NEW at, by # 0 => at = base,
           rows' = Append(rows, NewRow(s, at, head)), runs' = Append(runs, NewRun(by)),
           UNCHANGED <<repo, base, prs>>
    PROVE  RowsGoOn(0) /\ rows'[Len(rows) + 1].spec = s
<1>0. Shape /\ Pulled /\ OfTheirTime /\ Texts
  BY DEF NightInv, RemovalInv
<1>1. PICK r : r = NewRow(s, at, head) /\ rows' = Append(rows, r)
  OBVIOUS
<1>2. /\ r.spec = s /\ r.text = at.text[s] /\ r.pr = 0 /\ r.state = "IMPLEMENTING"
  BY <1>1 DEF NewRow
<1>3. PICK e : e = NewRun(by) /\ runs' = Append(runs, e)
  OBVIOUS
<1>4. Len(rows) = Len(runs) /\ Len(runs) \in Nat
  BY <1>0, ShapeIs
<1>5. PICK c : c = Len(runs) + 1
  OBVIOUS
<1>6. /\ DOMAIN rows' = 1 .. c /\ rows'[c] = r
      /\ \A i \in 1 .. Len(runs) : rows'[i] = rows[i]
  BY <1>0, <1>1, <1>4, <1>5, OneLonger, SeqIs DEF Shape
<1>7. /\ Len(runs') = c /\ runs'[c] = e
      /\ \A i \in 1 .. Len(runs) : runs'[i] = runs[i]
  <2>1. IsSeq(runs)
    BY <1>0, SeqIsSeq DEF Shape
  <2> QED
    BY <1>3, <1>5, <2>1, OneLonger
<1>8. /\ \A i \in 1 .. c : i \in 1 .. Len(runs) \/ i = c
      /\ \A i \in 1 .. Len(runs) : i \in 1 .. c
  BY <1>4, <1>5
<1>9. NightWaits' \subseteq NightWaits /\ NightWaits' \subseteq 1 .. Len(runs)
  <2>1. "IMPLEMENTING" \notin WaitingStates
    BY DEF WaitingStates
  <2>2. NightWaits' \subseteq 1 .. Len(runs)
    BY <1>2, <1>6, <1>8, <2>1 DEF NightWaits
  <2>3. DOMAIN rows = 1 .. Len(runs)
    BY <1>0, ShapeIs
  <2> QED
    BY <1>6, <1>7, <2>2, <2>3 DEF NightWaits
<1>10. Pulled'
  <2>1. Pull' = Pull
    BY DEF Pull, Ids
  <2>2. 0 \in 0 .. Len(prs)
    BY <1>0, PullsAre
  <2> QED
    BY <1>0, <1>2, <1>6, <1>7, <1>8, <2>1, <2>2 DEF Pulled
<1>11. OfTheirTime'
  <2>1. by # 0 => r.text \in Nat /\ r.text <= base.text[r.spec]
    BY <1>0, <1>2 DEF Texts, IsBranch
  <2>2. e.by = by
    BY <1>3 DEF NewRun
  <2> QED
    BY <1>0, <1>6, <1>7, <1>8, <2>1, <2>2 DEF OfTheirTime
<1> QED
  BY <1>2, <1>4, <1>5, <1>6, <1>9, <1>10, <1>11 DEF RowsGoOn

LEMMA SettlesOn ==
    ASSUME NightInv, RemovalInv, NEW id \in 1 .. Len(runs), NEW end,
           CellSettles(id, end), Len(runs') = Len(runs),
           \A i \in 1 .. Len(runs) : runs'[i].by = runs[i].by,
           UNCHANGED <<repo, base>>
    PROVE  RowsGoOn(id)
<1>0. Shape /\ Pulled /\ OfTheirTime
  BY DEF NightInv, RemovalInv
<1>1. /\ DOMAIN rows = 1 .. Len(runs) /\ IsRow(rows[id])
      /\ Len(prs) \in Nat /\ DOMAIN prs = 1 .. Len(prs) /\ \A k \in 1 .. Len(prs) : prs[k] \in Pull
      /\ prs \in Seq(Pull)
  BY <1>0, ShapeIs, PullsAre DEF Pulled
<1>2. PICK r : r = rows[id]
  OBVIOUS
<1>3. PICK pr : pr = IF PrOf(r.spec) # {} THEN Min(PrOf(r.spec)) ELSE Len(prs) + 1
  OBVIOUS
<1>4. PICK e : /\ rows' = [rows EXCEPT ![id] = e]
               /\ e = [r EXCEPT !.state = end.state,
                                !.pushed = IF Records(end) THEN Len(commits) + 1 ELSE r.pushed,
                                !.pushedIn = IF Records(end) THEN end.state ELSE r.pushedIn,
                                !.pr = IF Links(end) THEN pr ELSE r.pr]
  BY <1>2, <1>3 DEF CellSettles
<1>5. DOMAIN r = RowFields /\ r.spec \in Ids
  BY <1>1, <1>2 DEF IsRow
<1>6. e.spec = r.spec /\ e.text = r.text /\ e.pr = IF Links(end) THEN pr ELSE r.pr
  BY <1>4, <1>5 DEF RowFields
<1>7. /\ DOMAIN rows' = 1 .. Len(runs) /\ rows'[id] = e
      /\ \A i \in (1 .. Len(runs)) \ {id} : rows'[i] = rows[i]
  BY <1>1, <1>4
<1>8. pr \in 1 .. Len(prs) + 1 /\ (Links(end) => Opens(end))
  BY <1>0, <1>3, PrIs, ReachIs
<1>9. /\ prs' \in Seq(Pull) /\ Len(prs) <= Len(prs') /\ Len(prs') \in Nat
      /\ Opens(end) => pr <= Len(prs')
      /\ \A k \in 1 .. Len(prs) : prs'[k].decided = prs[k].decided
  <2>1. prs' = CASE ~Opens(end) -> prs
                 [] Opens(end) /\ pr > Len(prs) ->
                       Append(prs, [spec |-> r.spec, state |-> "draft", decided |-> FALSE])
                 [] OTHER -> [prs EXCEPT ![pr].state = "draft"]
    BY <1>2, <1>3 DEF CellSettles
  <2>2. CASE Opens(end) /\ pr > Len(prs)
    <3>1. [spec |-> r.spec, state |-> "draft", decided |-> FALSE] \in Pull
      BY <1>5 DEF Pull
    <3>2. PICK p \in Pull : prs' = Append(prs, p)
      BY <2>1, <2>2, <3>1
    <3>3. /\ prs' \in Seq(Pull) /\ Len(prs') = Len(prs) + 1
          /\ \A k \in 1 .. Len(prs) : prs'[k] = prs[k]
      BY <1>1, <3>2, AppendProperties
    <3> QED
      BY <1>1, <1>8, <3>3
  <2>3. CASE Opens(end) /\ ~(pr > Len(prs))
    <3>1. pr \in 1 .. Len(prs)
      BY <1>1, <1>8, <2>3
    <3>2. PICK p : p = [prs[pr] EXCEPT !.state = "draft"]
      OBVIOUS
    <3>3. p \in Pull /\ p.decided = prs[pr].decided
      BY <1>1, <3>1, <3>2 DEF Pull
    <3>4. prs' = [prs EXCEPT ![pr] = p]
      BY <2>1, <2>3, <3>2
    <3>5. /\ prs' \in Seq(Pull) /\ Len(prs') = Len(prs) /\ prs'[pr] = p
          /\ \A k \in (1 .. Len(prs)) \ {pr} : prs'[k] = prs[k]
      BY <1>1, <3>1, <3>3, <3>4
    <3> QED
      BY <1>1, <3>1, <3>3, <3>5
  <2>4. CASE ~Opens(end)
    <3>1. prs' = prs
      BY <2>1, <2>4
    <3> QED
      BY <1>1, <2>4, <3>1
  <2> QED
    BY <2>2, <2>3, <2>4
<1>10. Pulled'
  <2>1. Pull' = Pull
    BY DEF Pull, Ids
  <2>2. ASSUME NEW i \in 1 .. Len(runs)
        PROVE  rows'[i].pr \in 0 .. Len(prs')
    <3>1. rows[i].pr \in 0 .. Len(prs)
      BY <1>0 DEF Pulled
    <3>2. rows[i].pr \in 0 .. Len(prs')
      BY <1>1, <1>9, <3>1
    <3>3. Links(end) => pr \in 0 .. Len(prs')
      BY <1>1, <1>8, <1>9
    <3> QED
      BY <1>2, <1>6, <1>7, <3>2, <3>3
  <2> QED
    BY <1>9, <2>1, <2>2 DEF Pulled
<1>11. OfTheirTime'
  BY <1>0, <1>2, <1>6, <1>7 DEF OfTheirTime
<1>12. \A i \in 1 .. Len(runs) : rows'[i].spec = rows[i].spec
  BY <1>2, <1>6, <1>7
<1>13. NightWaits' \subseteq NightWaits \union {id} /\ NightWaits' \subseteq 1 .. Len(runs)
  <2>1. NightWaits' \subseteq 1 .. Len(runs)
    BY <1>7 DEF NightWaits
  <2>2. ASSUME NEW i \in NightWaits', i # id
        PROVE  i \in NightWaits
    <3>1. i \in 1 .. Len(runs) /\ rows'[i] = rows[i] /\ rows[i].pr \in 0 .. Len(prs)
      BY <1>0, <1>7, <2>1, <2>2 DEF Pulled
    <3>2. rows[i].pr # 0 => rows[i].pr \in 1 .. Len(prs)
      BY <1>1, <3>1
    <3>3. rows[i].pr # 0 => prs'[rows[i].pr].decided = prs[rows[i].pr].decided
      BY <1>9, <3>2
    <3> QED
      BY <1>1, <2>2, <3>1, <3>3 DEF NightWaits
  <2> QED
    BY <2>1, <2>2
<1> QED
  BY <1>10, <1>11, <1>12, <1>13 DEF RowsGoOn
(* The scan offers no stranger of a row that waits.                        *)
LEMMA OfferedAreApart ==
    ASSUME NightInv, Texts, NEW open, NEW s \in BuildQueue(open)
    PROVE  Apart(s)
<1>0. Shape
  BY DEF NightInv
<1>1. s \in Candidates /\ s \notin RemovedNameHeld(Candidates)
  BY DEF BuildQueue, Kept
<1>2. SUFFICES ASSUME NEW i \in NightWaits, Strangers(s, rows[i].spec)
               PROVE  FALSE
  BY DEF Apart, Waiting
<1>3. PICK o : o = rows[i].spec
  OBVIOUS
<1>4. s # o /\ Clash(s, o, base)
  BY <1>0, <1>2, <1>3, StrangersClash
<1>5. o \in base.live /\ i \in RowsNow(o) /\ rows[i].state \in WaitingStates
  BY <1>3 DEF NightWaits, RowsNow, RowsOf
<1>6. Some(RowsNow(o), WaitingStates) /\ Some(RowsNow(o), DoneStates)
  <2>1. WaitingStates \subseteq DoneStates
    BY DEF WaitingStates, DoneStates
  <2> QED
    BY <1>5, <2>1 DEF Some, InStates
<1>7. o \notin Candidates
  BY <1>6 DEF Candidates
<1> QED
  BY <1>1, <1>4, <1>5, <1>6, <1>7 DEF RemovedNameHeld

(* No edit, retirement or move of the pin makes strangers of two specs, or *)
(* unmakes them.                                                           *)
LEMMA SameStrangers ==
    ASSUME NightInv, Texts, repo' = repo, Texts'
    PROVE  \A a, b : Strangers(a, b)' <=> Strangers(a, b)
<1>1. repo \in Repos /\ DOMAIN base = BranchFields /\ DOMAIN base' = BranchFields
  BY DEF NightInv, Shape, Texts, IsBranch, BranchFields
<1> QED
  BY <1>1, StrangersStay

LEMMA WaitingIs ==
    ASSUME NEW c, RowsGoOn(c)
    PROVE  /\ Waiting' \subseteq Waiting \union {rows[i].spec : i \in {c} \intersect NightWaits'}
           /\ NightWaits' \subseteq NightWaits => Waiting' \subseteq Waiting
<1>1. \A i \in NightWaits' : rows'[i].spec = rows[i].spec /\ (i \in NightWaits \/ i = c)
  BY DEF RowsGoOn
<1> QED
  BY <1>1 DEF Waiting

LEMMA ApartStays ==
    ASSUME NightInv, RemovalInv, repo' = repo, Texts', Waiting' \subseteq Waiting,
           NEW s, Apart(s)
    PROVE  \A o \in Waiting' : ~Strangers(s, o)'
<1>1. \A o \in Waiting' : ~Strangers(s, o)
  BY DEF Apart
<1>2. \A a, b : Strangers(a, b)' <=> Strangers(a, b)
  BY SameStrangers DEF RemovalInv
<1> QED
  BY <1>1, <1>2

LEMMA AloneStays ==
    ASSUME NightInv, RemovalInv, NEW c, RowsGoOn(c), repo' = repo, Texts',
           c \in NightWaits' /\ c \notin NightWaits => pc = "cell" /\ c = cell
    PROVE  RemovalWaitsAlone'
<1>1. \A a, b : Strangers(a, b)' <=> Strangers(a, b)
  BY SameStrangers DEF RemovalInv
<1>2. \A a, b \in Waiting : ~Strangers(a, b)
  BY DEF RemovalInv, RemovalWaitsAlone
<1>3. PICK new : new = rows[c].spec
  OBVIOUS
<1>4. CASE c \in NightWaits' /\ c \notin NightWaits
  <2>1. \A o \in Waiting : ~Strangers(new, o)
    BY <1>3, <1>4 DEF RemovalInv, HeldBack, Apart
  <2>2. \A o \in Waiting : ~Strangers(o, new)
    BY <2>1, StrangersBoth
  <2>3. ~Strangers(new, new)
    BY DEF Strangers
  <2>4. Waiting' \subseteq Waiting \union {new}
    BY <1>3, WaitingIs
  <2>5. \A a, b \in Waiting' : ~Strangers(a, b)
    BY <1>2, <2>1, <2>2, <2>3, <2>4
  <2>6. \A a, b \in Waiting' : ~Strangers(a, b)'
    BY <1>1, <2>5
  <2> QED
    BY <2>6 DEF RemovalWaitsAlone
<1>5. CASE ~(c \in NightWaits' /\ c \notin NightWaits)
  <2>1. NightWaits' \subseteq NightWaits
    BY <1>5 DEF RowsGoOn
  <2>2. Waiting' \subseteq Waiting
    BY <2>1, WaitingIs
  <2>3. \A a, b \in Waiting' : ~Strangers(a, b)'
    BY <1>1, <1>2, <2>2
  <2> QED
    BY <2>3 DEF RemovalWaitsAlone
<1> QED
  BY <1>4, <1>5
LEMMA RemovalGoesOn ==
    ASSUME NightInv, RemovalInv, NEW c, RowsGoOn(c), repo' = repo, Texts',
           c \in NightWaits' /\ c \notin NightWaits => pc = "cell" /\ c = cell,
           pc' = "loop" => /\ pc = "loop" /\ drive'.pending = drive.pending
                           /\ NightWaits' \subseteq NightWaits,
           pc' = "cell" => /\ pc = "cell" /\ cell' = cell
                           /\ NightWaits' \subseteq NightWaits
    PROVE  RemovalInv'
<1>1. RemovalWaitsAlone'
  BY AloneStays
<1>2. Pulled' /\ OfTheirTime' /\ \A i \in 1 .. Len(runs) : rows'[i].spec = rows[i].spec
  BY DEF RowsGoOn
<1>3. CASE pc' = "loop"
  <2>1. Waiting' \subseteq Waiting
    BY <1>3, WaitingIs
  <2>2. \A s \in drive'.pending : \A o \in Waiting' : ~Strangers(s, o)'
    BY <1>3, <2>1, ApartStays DEF RemovalInv, HeldBack
  <2>3. HeldBack'
    BY <1>3, <2>2 DEF HeldBack, Apart
  <2> QED
    BY <1>1, <1>2, <2>3 DEF RemovalInv
<1>4. CASE pc' = "cell"
  <2>1. cell \in 1 .. Len(runs)
    BY <1>4 DEF NightInv, Places
  <2>2. PICK s : s = rows[cell].spec
    OBVIOUS
  <2>3. Waiting' \subseteq Waiting
    BY <1>4, WaitingIs
  <2>4. \A o \in Waiting' : ~Strangers(s, o)'
    BY <1>4, <2>2, <2>3, ApartStays DEF RemovalInv, HeldBack
  <2>5. rows'[cell'].spec = s
    BY <1>2, <1>4, <2>1, <2>2
  <2>6. HeldBack'
    BY <1>4, <2>4, <2>5 DEF HeldBack, Apart
  <2> QED
    BY <1>1, <1>2, <2>6 DEF RemovalInv
<1>5. CASE pc' # "loop" /\ pc' # "cell"
  BY <1>1, <1>2, <1>5 DEF RemovalInv, HeldBack
<1> QED
  BY <1>3, <1>4, <1>5

LEMMA TextsStay ==
    ASSUME Texts, UNCHANGED <<repo, main, base>>
    PROVE  Texts'
  BY DEF Texts, IsBranch, Ids

LEMMA QuietGoesOn ==
    ASSUME NightInv, RemovalInv, UNCHANGED <<repo, base, rows, runs, prs>>
    PROVE  RowsGoOn(0) /\ NightWaits' = NightWaits
<1>1. NightWaits' = NightWaits /\ NightWaits \subseteq 1 .. Len(runs)
  BY NightWaitsAre DEF NightWaits, NightInv
<1>2. Pulled' /\ OfTheirTime'
  BY DEF RemovalInv, Pulled, OfTheirTime, Pull, Ids
<1> QED
  BY <1>1, <1>2 DEF RowsGoOn

(* The loop's steps that touch no row.                                     *)
LEMMA RemovalUntouched ==
    ASSUME NightInv, RemovalInv,
           \/ NotReady \/ ScanRaises \/ Drained \/ Until \/ OutOfBudget \/ Breaker \/ Kill
           \/ RefuseCell \/ RaiseEarly \/ UNCHANGED vars
    PROVE  RemovalInv'
<1>1. UNCHANGED <<repo, main, base, rows, runs, prs>>
  BY DEF NotReady, ScanRaises, Drained, Until, OutOfBudget, Breaker, Ends, Kill, RefuseCell,
         RaiseEarly, vars, queueVars, nightVars
<1>2. \/ pc' \notin {"loop", "cell"}
      \/ pc' = pc /\ drive' = drive /\ cell' = cell
  BY DEF NotReady, ScanRaises, Drained, Until, OutOfBudget, Breaker, Ends, Stop, Exits, Kill,
         RefuseCell, RaiseEarly, vars, queueVars, nightVars
<1>3. Texts'
  BY <1>1, TextsStay DEF RemovalInv
<1>4. RowsGoOn(0) /\ NightWaits' = NightWaits
  BY <1>1, QuietGoesOn
<1> QED
  BY <1>1, <1>2, <1>3, <1>4, RemovalGoesOn

LEMMA RemovalPinned ==
    ASSUME NightInv, RemovalInv, Readiness
    PROVE  RemovalInv'
<1>0. Texts /\ Pulled /\ OfTheirTime /\ RemovalWaitsAlone /\ Shape
  BY DEF NightInv, RemovalInv
<1>1. /\ base' = main /\ pc' = "reconcile"
      /\ UNCHANGED <<repo, main, rows, runs, prs>>
  BY DEF Readiness
<1>2. Texts'
  <2>1. \A s \in Ids : main.text[s] <= main.text[s]
    BY <1>0 DEF Texts, IsBranch
  <2> QED
    BY <1>0, <1>1, <2>1 DEF Texts, IsBranch, Ids
<1>3. Pulled'
  BY <1>0, <1>1 DEF Pulled, Pull, Ids
<1>4. \A i \in 1 .. Len(runs) : rows[i].spec \in Ids
  BY <1>0, ShapeIs DEF IsRow
<1>5. \A s \in Ids : /\ base.text[s] \in Nat /\ main.text[s] \in Nat
                     /\ base.text[s] <= main.text[s]
  BY <1>0 DEF Texts, IsBranch
<1>6. OfTheirTime'
  BY <1>0, <1>1, <1>4, <1>5 DEF OfTheirTime
<1>7. NightWaits' \subseteq NightWaits
  <2>1. ASSUME NEW i \in NightWaits'
        PROVE  i \in NightWaits
    <3>1. /\ i \in 1 .. Len(runs) /\ runs[i].by # 0 /\ rows[i].spec \in main.live
          /\ rows[i].text = main.text[rows[i].spec]
          /\ rows[i].state \in WaitingStates
          /\ rows[i].pr # 0 => ~prs[rows[i].pr].decided
      BY <1>0, <1>1, ShapeIs DEF NightWaits
    <3>2. rows[i].text <= base.text[rows[i].spec]
      BY <1>0, <3>1 DEF OfTheirTime
    <3>3. rows[i].text = base.text[rows[i].spec]
      BY <1>4, <1>5, <3>1, <3>2
    <3>4. rows[i].spec \in base.live
      BY <1>0, <3>1 DEF Texts
    <3> QED
      BY <1>0, <3>1, <3>3, <3>4, ShapeIs DEF NightWaits
  <2> QED
    BY <2>1
<1>8. RemovalWaitsAlone'
  <2>1. \A a, b : Strangers(a, b)' <=> Strangers(a, b)
    BY <1>0, <1>1, <1>2, SameStrangers
  <2>2. Waiting' \subseteq Waiting
    BY <1>1, <1>7 DEF Waiting
  <2>3. \A a, b \in Waiting' : ~Strangers(a, b)'
    BY <1>0, <2>1, <2>2 DEF RemovalWaitsAlone
  <2> QED
    BY <2>3 DEF RemovalWaitsAlone
<1> QED
  BY <1>1, <1>2, <1>3, <1>6, <1>8 DEF RemovalInv, HeldBack

(* A pull request an operator decided on stays decided on.                 *)
LEMMA OperatorDecides ==
    ASSUME Shape, Texts, Pulled, OperatorMoves
    PROVE  /\ Texts' /\ prs' \in Seq(Pull) /\ Len(prs') = Len(prs)
           /\ \A k \in 1 .. Len(prs) : prs[k].decided => prs'[k].decided
<1>0. /\ Len(prs) \in Nat /\ DOMAIN prs = 1 .. Len(prs) /\ \A k \in 1 .. Len(prs) : prs[k] \in Pull
      /\ UNCHANGED <<repo, base>>
  BY PullsAre DEF OperatorMoves, Moves
<1>1. ASSUME NEW k \in 1 .. Len(prs), NEW state \in {"ready", "changes", "merged", "closed"},
             NEW p, p = Decided(prs[k], state)
      PROVE  p \in Pull /\ p.decided
  BY <1>0, <1>1 DEF Pull, Decided
<1>2. ASSUME prs' = [k \in DOMAIN prs |-> prs'[k]],
             \A k \in 1 .. Len(prs) :
                \/ prs'[k] = prs[k]
                \/ \E state \in {"ready", "changes", "merged", "closed"} :
                      prs'[k] = Decided(prs[k], state)
      PROVE  /\ prs' \in Seq(Pull) /\ Len(prs') = Len(prs)
             /\ \A k \in 1 .. Len(prs) : prs[k].decided => prs'[k].decided
  <2>1. \A k \in 1 .. Len(prs) :
           prs'[k] \in Pull /\ (prs[k].decided => prs'[k].decided)
    BY <1>0, <1>1, <1>2
  <2>2. prs' \in [1 .. Len(prs) -> Pull]
    BY <1>0, <1>2, <2>1
  <2>3. prs' \in Seq(Pull)
    BY <1>0, <2>2, SeqDef
  <2>4. Len(prs') = Len(prs)
    BY <1>0, <2>2, <2>3, LenProperties
  <2> QED
    BY <2>1, <2>3, <2>4
<1>3. ASSUME prs' = prs
      PROVE  /\ prs' \in Seq(Pull) /\ Len(prs') = Len(prs)
             /\ \A k \in 1 .. Len(prs) : prs[k].decided => prs'[k].decided
  BY <1>3 DEF Pulled
<1>4. ASSUME main' = main
      PROVE  Texts'
  BY <1>0, <1>4, TextsStay
<1>5. IsBranch(main) /\ IsBranch(base) /\ Ids' = Ids
  BY <1>0 DEF Texts, Ids
<1>6. CASE \E k \in DOMAIN prs, d \in {"ready", "changes"} : Decide(k, d)
  <2>1. PICK k \in DOMAIN prs, d \in {"ready", "changes"} : Decide(k, d)
    BY <1>6
  <2> QED
    BY <1>0, <1>2, <1>4, <2>1 DEF Decide
<1>7. CASE \E k \in DOMAIN prs, deleted \in BOOLEAN : Merge(k, deleted)
  <2>1. PICK k \in DOMAIN prs, deleted \in BOOLEAN : Merge(k, deleted)
    BY <1>7
  <2>2. PICK head : main' = [main EXCEPT !.holds = @ \union {head}]
    BY <2>1 DEF Merge
  <2>3. DOMAIN main' = BranchFields /\ main'.text = main.text /\ main'.live = main.live
    BY <1>5, <2>2 DEF IsBranch, BranchFields
  <2>4. Texts'
    BY <1>0, <1>5, <2>3 DEF Texts, IsBranch
  <2> QED
    BY <1>0, <1>2, <2>1, <2>4 DEF Merge
<1>8. CASE \E s \in Ids : Abandon(s)
  <2>1. PICK s \in Ids : Abandon(s)
    BY <1>8
  <2> QED
    BY <1>0, <1>2, <1>4, <2>1 DEF Abandon
<1>9. CASE \E s \in Ids : EditSpec(s)
  <2>1. PICK s \in Ids : EditSpec(s)
    BY <1>9
  <2>2. main' = [main EXCEPT !.text[s] = @ + 1] /\ prs' = prs
    BY <2>1 DEF EditSpec
  <2>3. /\ DOMAIN main' = BranchFields /\ main'.live = main.live
        /\ main'.text = [main.text EXCEPT ![s] = @ + 1]
    BY <1>5, <2>2 DEF IsBranch, BranchFields
  <2>4. main.text \in [Ids -> Nat] /\ base.text \in [Ids -> Nat]
    BY <1>5 DEF IsBranch
  <2>5. /\ main'.text \in [Ids -> Nat]
        /\ \A t \in Ids : main.text[t] <= main'.text[t]
    BY <2>3, <2>4
  <2>6. \A t \in Ids : base.text[t] <= main'.text[t]
    BY <2>4, <2>5 DEF Texts
  <2>7. Texts'
    BY <1>0, <1>5, <2>3, <2>5, <2>6 DEF Texts, IsBranch
  <2> QED
    BY <1>3, <2>2, <2>7
<1>10. CASE \E s \in Ids : RetireSpec(s)
  <2>1. PICK s \in Ids : RetireSpec(s)
    BY <1>10
  <2>2. /\ main' = [main EXCEPT !.live = @ \ {s}, !.retired = @ \union {s}]
        /\ prs' = prs
    BY <2>1 DEF RetireSpec
  <2>3. /\ DOMAIN main' = BranchFields /\ main'.text = main.text /\ main'.live \subseteq main.live
    BY <1>5, <2>2 DEF IsBranch, BranchFields
  <2>4. Texts'
    BY <1>0, <1>5, <2>3 DEF Texts, IsBranch
  <2> QED
    BY <1>3, <2>2, <2>4
<1> QED
  BY <1>6, <1>7, <1>8, <1>9, <1>10 DEF OperatorMoves, Moves

LEMMA RemovalOperated ==
    ASSUME NightInv, RemovalInv, Operator
    PROVE  RemovalInv'
<1>0. Texts /\ Pulled /\ OfTheirTime /\ Shape
  BY DEF NightInv, RemovalInv
<1>1. UNCHANGED <<repo, base, rows, runs, pc, drive, cell>>
  BY DEF Operator, OperatorMoves, Moves, nightVars
<1>2. /\ Texts' /\ prs' \in Seq(Pull) /\ Len(prs') = Len(prs)
      /\ \A k \in 1 .. Len(prs) : prs[k].decided => prs'[k].decided
  BY <1>0, OperatorDecides DEF Operator
<1>3. Pulled' /\ OfTheirTime'
  BY <1>0, <1>1, <1>2 DEF Pulled, OfTheirTime, Pull, Ids
<1>4. NightWaits' \subseteq NightWaits /\ NightWaits' \subseteq 1 .. Len(runs)
  <2>1. ASSUME NEW i \in NightWaits'
        PROVE  i \in NightWaits /\ i \in 1 .. Len(runs)
    <3>1. i \in 1 .. Len(runs)
      BY <1>0, <1>1, ShapeIs DEF NightWaits
    <3>2. rows[i].pr # 0 => rows[i].pr \in 1 .. Len(prs)
      BY <1>0, <3>1, PullsAre DEF Pulled
    <3>3. rows[i].pr # 0 => ~prs[rows[i].pr].decided
      BY <1>1, <1>2, <3>2 DEF NightWaits
    <3> QED
      BY <1>1, <3>1, <3>3 DEF NightWaits
  <2> QED
    BY <2>1
<1>5. RowsGoOn(0)
  BY <1>1, <1>3, <1>4 DEF RowsGoOn
<1> QED
  BY <1>1, <1>2, <1>4, <1>5, RemovalGoesOn
LEMMA RemovalScanned ==
    ASSUME NightInv, RemovalInv, NEW answers \in BOOLEAN, Scan(answers)
    PROVE  RemovalInv'
<1>1. /\ UNCHANGED <<repo, main, base, rows, runs, prs>> /\ pc' = "loop"
      /\ drive' = [drive EXCEPT !.pending = BuildQueue(OpenPrs(answers))]
  BY DEF Scan, queueVars
<1>2. drive'.pending = BuildQueue(OpenPrs(answers))
  BY <1>1 DEF NightInv, Shape, IsDrive, DriveFields
<1>3. RowsGoOn(0) /\ NightWaits' = NightWaits /\ Texts'
  BY <1>1, QuietGoesOn, TextsStay DEF RemovalInv
<1>4. \A s \in drive'.pending : \A o \in Waiting' : ~Strangers(s, o)'
  <2>1. \A s \in drive'.pending : Apart(s)
    BY <1>2, OfferedAreApart DEF RemovalInv
  <2>2. Waiting' \subseteq Waiting
    BY <1>3, WaitingIs
  <2> QED
    BY <1>1, <1>3, <2>1, <2>2, ApartStays
<1>5. HeldBack'
  BY <1>1, <1>4 DEF HeldBack, Apart
<1>6. 0 \notin NightWaits'
  BY <1>3, NightWaitsAre DEF NightInv
<1>7. RemovalWaitsAlone'
  BY <1>1, <1>3, <1>6, AloneStays
<1> QED
  BY <1>3, <1>5, <1>7 DEF RemovalInv, RowsGoOn

LEMMA RemovalReconciled ==
    ASSUME NightInv, RemovalInv, NEW specs, NEW asked \in BOOLEAN, NEW stamp \in BOOLEAN,
           rows' = Reconciled(specs, asked, stamp),
           UNCHANGED <<repo, main, base, prs, runs, drive, cell>>,
           pc' \in {pc, "scan"}
    PROVE  RemovalInv'
<1>1. RowsGoOn(0) /\ Texts'
  BY ReconcilesOn, TextsStay DEF RemovalInv
<1>2. 0 \notin NightWaits'
  BY <1>1 DEF RowsGoOn
<1>3. NightWaits' \subseteq NightWaits
  BY <1>1, <1>2 DEF RowsGoOn
<1> QED
  BY <1>1, <1>2, <1>3, RemovalGoesOn

LEMMA RemovalStarted ==
    ASSUME NightInv, RemovalInv, StartCell
    PROVE  RemovalInv'
<1>0. Shape
  BY DEF NightInv
<1>1. /\ pc = "loop" /\ pc' = "cell" /\ cell' = Len(rows) + 1
      /\ UNCHANGED <<repo, main, base, prs>> /\ Offered # {}
  BY DEF StartCell, Admitted
<1>2. Chosen \in drive.pending /\ Chosen \in Ids
  BY <1>0, <1>1, FirstIs DEF Shape, IsDrive, Offered, Chosen
<1>3. PICK head : /\ rows' = Append(rows, NewRow(Chosen, base, head))
                  /\ runs' = Append(runs, NewRun(Tonight))
  BY DEF StartCell
<1>4. PICK s \in Ids : s = Chosen
  BY <1>2
<1>5. PICK by : by = Tonight
  OBVIOUS
<1>6. RowsGoOn(0) /\ rows'[Len(rows) + 1].spec = s
  BY <1>1, <1>3, <1>4, <1>5, MintsOn
<1>7. Texts'
  BY <1>1, TextsStay DEF RemovalInv
<1>8. 0 \notin NightWaits' /\ NightWaits' \subseteq NightWaits
  BY <1>6 DEF RowsGoOn
<1>9. \A o \in Waiting' : ~Strangers(s, o)'
  <2>1. Apart(s)
    BY <1>1, <1>2, <1>4 DEF RemovalInv, HeldBack
  <2>2. Waiting' \subseteq Waiting
    BY <1>6, <1>8, WaitingIs
  <2> QED
    BY <1>1, <1>7, <2>1, <2>2, ApartStays
<1>10. HeldBack'
  <2>1. rows'[cell'].spec = s
    BY <1>1, <1>6
  <2> QED
    BY <1>1, <1>9, <2>1 DEF HeldBack, Apart
<1>11. RemovalWaitsAlone'
  BY <1>1, <1>6, <1>7, <1>8, AloneStays
<1> QED
  BY <1>6, <1>7, <1>10, <1>11 DEF RemovalInv, RowsGoOn

LEMMA RemovalAttended ==
    ASSUME NightInv, RemovalInv, AttendedStarts
    PROVE  RemovalInv'
<1>0. Shape
  BY DEF NightInv
<1>1. /\ attended.at = "asked" /\ attended.spec \in Ids
      /\ UNCHANGED <<repo, main, base, prs, pc, drive, cell>>
  BY <1>0 DEF AttendedStarts, Shape, IsAttended
<1>2. Texts'
  BY <1>1, TextsStay DEF RemovalInv
<1>3. CASE UNCHANGED <<rows, runs>>
  <2>1. RowsGoOn(0) /\ NightWaits' = NightWaits
    BY <1>1, <1>3, QuietGoesOn
  <2> QED
    BY <1>1, <1>2, <2>1, RemovalGoesOn
<1>4. CASE ~UNCHANGED <<rows, runs>>
  <2>1. PICK head : /\ rows' = Append(rows, NewRow(attended.spec, main, head))
                    /\ runs' = Append(runs, NewRun(0))
    BY <1>4 DEF AttendedStarts
  <2>2. PICK s \in Ids : s = attended.spec
    BY <1>1
  <2>3. PICK at : at = main
    OBVIOUS
  <2>4. RowsGoOn(0)
    BY <1>1, <2>1, <2>2, <2>3, MintsOn
  <2>5. 0 \notin NightWaits' /\ NightWaits' \subseteq NightWaits
    BY <2>4 DEF RowsGoOn
  <2> QED
    BY <1>1, <1>2, <2>4, <2>5, RemovalGoesOn
<1> QED
  BY <1>3, <1>4

LEMMA RemovalAttendedEnds ==
    ASSUME NightInv, RemovalInv,
           NEW end \in Returned \union Raised \union CutShort(attended.row),
           AttendedEnds(end, Min(Costs))
    PROVE  RemovalInv'
<1>0. Shape /\ Places
  BY DEF NightInv
<1>1. /\ attended.at = "cell" /\ CellSettles(attended.row, end)
      /\ UNCHANGED <<repo, main, base, moves, pc, batches, drive, cell>>
      /\ runs' = Ended(attended.row, Min(Costs), end)
  BY DEF AttendedEnds
<1>2. PICK id \in 1 .. Len(runs) : id = attended.row /\ runs[id].by = 0
  BY <1>0, <1>1 DEF Places
<1>3. PICK cost \in Nat : cost = Min(Costs) /\ end.status \in Statuses
  BY <1>0, NightAssumption, MinIs, EndsAre
<1>4. Len(runs') = Len(runs) /\ \A i \in 1 .. Len(runs) : runs'[i].by = runs[i].by
  <2>1. /\ Len(runs') = Len(runs) /\ runs'[id].by = runs[id].by
        /\ \A i \in (1 .. Len(runs)) \ {id} : runs'[i] = runs[i]
    BY <1>0, <1>1, <1>2, <1>3, EndedIs
  <2> QED
    BY <2>1
<1>5. RowsGoOn(id)
  BY <1>1, <1>2, <1>4, SettlesOn
<1>6. id \notin NightWaits'
  BY <1>2, <1>4 DEF NightWaits
<1>7. NightWaits' \subseteq NightWaits
  BY <1>5, <1>6 DEF RowsGoOn
<1>8. Texts'
  BY <1>1, TextsStay DEF RemovalInv
<1> QED
  BY <1>1, <1>5, <1>6, <1>7, <1>8, RemovalGoesOn

(* The night's own cell ends: its row, and no other, may begin to wait.    *)
LEMMA RemovalOver ==
    ASSUME NightInv, RemovalInv,
           NEW end, NEW cost \in Costs,
           \/ end \in Returned /\ CellReturns(end, cost)
           \/ end \in Raised /\ CellRaises(end, cost)
           \/ Cuts(end, cost)
    PROVE  RemovalInv'
<1>0. Shape /\ Places /\ cost \in Nat
  BY NightAssumption DEF NightInv
<1>1. /\ pc = "cell" /\ pc' \notin {"loop", "cell"} /\ UNCHANGED <<repo, main, base>>
      /\ CellSettles(cell, end)
  BY DEF CellReturns, CellRaises, Cuts, Interrupted, KilledInCell, Stop, Exits
<1>2. cell \in 1 .. Len(runs)
  BY <1>0, <1>1 DEF Places
<1>3. Texts'
  BY <1>1, TextsStay DEF RemovalInv
<1>4. Len(runs') = Len(runs) /\ \A i \in 1 .. Len(runs) : runs'[i].by = runs[i].by
  <2>1. CASE end \in Returned /\ CellReturns(end, cost)
    BY <1>0, <2>1, ReturnIsOver DEF CellOver
  <2>2. CASE end \in Raised /\ CellRaises(end, cost)
    BY <1>0, <2>2, RaiseIsOver DEF CellOver
  <2>3. CASE Cuts(end, cost)
    BY <2>3, CutsIdle DEF Idles
  <2> QED
    BY <2>1, <2>2, <2>3
<1>5. RowsGoOn(cell)
  BY <1>1, <1>2, <1>4, SettlesOn
<1> QED
  BY <1>1, <1>3, <1>5, RemovalGoesOn

LEMMA RemovalKeeps ==
    ASSUME NightInv, RemovalInv, [Next]_vars
    PROVE  RemovalInv'
<1>1. ASSUME NEW asked \in BOOLEAN, Reconcile(asked)
      PROVE  RemovalInv'
  <2>1. PICK stamp \in BOOLEAN : stamp = Opening
    BY DEF Opening
  <2>2. /\ rows' = Reconciled(Ids, asked, stamp) /\ pc' = "scan"
        /\ UNCHANGED <<repo, main, base, prs, runs, drive, cell>>
    BY <1>1, <2>1 DEF Reconcile
  <2> QED
    BY <2>2, RemovalReconciled
<1>2. ASSUME NEW s, NEW asked \in BOOLEAN, AttendedAsks(s, asked)
      PROVE  RemovalInv'
  <2>1. PICK specs : specs = ToSet(Declared(s).deps)
    OBVIOUS
  <2>2. /\ rows' = Reconciled(specs, asked, FALSE) /\ pc' = pc
        /\ UNCHANGED <<repo, main, base, prs, runs, drive, cell>>
    BY <1>2, <2>1 DEF AttendedAsks
  <2> QED
    BY <2>2, RemovalReconciled
<1>3. CASE Loop
  BY <1>1, <1>3, RemovalScanned, RemovalUntouched, RemovalStarted, RemovalOver DEF Loop, Cuts
<1>4. CASE Beside
  BY <1>2, <1>4, RemovalOperated, RemovalAttended, RemovalAttendedEnds DEF Beside
<1>5. CASE Killed
  BY <1>5, RemovalUntouched, RemovalOver DEF Killed, Cuts, Raised
<1> QED
  BY <1>3, <1>4, <1>5, RemovalPinned, RemovalUntouched DEF Next

LEMMA RemovalStarts == Init => RemovalInv
<1> SUFFICES ASSUME Init PROVE RemovalInv
  OBVIOUS
<1>1. /\ pc = "idle" /\ runs = <<>> /\ rows = <<>> /\ prs = <<>> /\ base = main
      /\ main = [text |-> [s \in Ids |-> 1], live |-> repo.live, retired |-> repo.retired,
                 holds |-> {}]
  BY DEF Init, QueueInit
<1>2. Texts
  BY <1>1 DEF Texts, IsBranch, BranchFields
<1>3. Len(runs) = 0 /\ 1 .. 0 = {} /\ DOMAIN rows = {}
  BY <1>1
<1>4. Pulled /\ OfTheirTime
  BY <1>1, <1>3, NothingYet DEF Pulled, OfTheirTime
<1>5. RemovalWaitsAlone
  BY <1>3 DEF RemovalWaitsAlone, Waiting, NightWaits
<1> QED
  BY <1>1, <1>2, <1>4, <1>5 DEF RemovalInv, HeldBack

(* RemovalWaitsAlone: of two specs that clash over a removed name and that *)
(* no chain of depends_on joins, a night's task of each does not wait on   *)
(* the operator, whatever the operator edits, retires and decides, however *)
(* many nights were killed, and whoever else runs a cell.                  *)
THEOREM RemovalIsAlone == Spec => []RemovalWaitsAlone
<1>1. Init => NightInv /\ RemovalInv
  BY NightStarts, RemovalStarts
<1>2. NightInv /\ RemovalInv /\ [Next]_vars => NightInv' /\ RemovalInv'
  BY StepKeeps, RemovalKeeps
<1>3. NightInv /\ RemovalInv => RemovalWaitsAlone
  BY DEF RemovalInv
<1> QED
  BY <1>1, <1>2, <1>3, PTL DEF Spec
-----------------------------------------------------------------------------
(* A child is cut over its open parents.  Only GitHub sends work back, and *)
(* only work that has a pull request, so what was sent back was pushed.    *)

Sent == \A i \in 1 .. Len(runs) : rows[i].state = "CHANGES_REQUESTED" => rows[i].pushed # 0

LEMMA NewestIs ==
    ASSUME Shape, NEW d, NEW states, Some(RowsOf(d), states)
    PROVE  \E k \in 1 .. Len(runs) :
              /\ Newest(RowsOf(d), states) = rows[k]
              /\ rows[k].spec = d /\ rows[k].state \in states
              /\ \A j \in RowsOf(d) : rows[j].state \in states => j <= k
<1> DEFINE S == InStates(RowsOf(d), states)
<1>1. Len(runs) \in Nat /\ DOMAIN rows = 1 .. Len(runs)
  BY ShapeIs
<1>2. S \subseteq 1 .. Len(runs) /\ S # {}
  BY <1>1 DEF Some, InStates, RowsOf
<1>3. IsFiniteSet(S) /\ S \subseteq Nat
  <2>1. IsFiniteSet(1 .. Len(runs))
    BY <1>1, FS_Interval
  <2> QED
    BY <1>1, <1>2, <2>1, FS_Subset
<1>4. Max(S) \in S /\ \A y \in S : y <= Max(S)
  BY <1>2, <1>3, MaxIs
<1>5. Newest(RowsOf(d), states) = rows[Max(S)]
  BY DEF Newest
<1> QED
  BY <1>2, <1>4, <1>5 DEF InStates, RowsOf

(* A parent that waits with a push and a branch is fetched at that branch, *)
(* whichever of its rows is looked at.                                     *)
LEMMA HeadsAgree ==
    ASSUME Shape, Sent, NEW d, NEW asksGh \in BOOLEAN, Some(RowsOf(d), WaitingStates),
           FetchParentHead(Newest(RowsOf(d), WaitingStates)) # 0
    PROVE  /\ Some(RowsOf(d), Stackable(asksGh)) /\ remote[d] # 0
           /\ FetchParentHead(Newest(RowsOf(d), Stackable(asksGh))) = remote[d]
<1>1. PICK k \in 1 .. Len(runs) :
         /\ Newest(RowsOf(d), WaitingStates) = rows[k]
         /\ rows[k].spec = d /\ rows[k].state \in WaitingStates
         /\ \A j \in RowsOf(d) : rows[j].state \in WaitingStates => j <= k
  BY NewestIs
<1>2. rows[k].pushed # 0 /\ remote[d] # 0
  BY <1>1 DEF FetchParentHead
<1>3. DOMAIN rows = 1 .. Len(runs) /\ Len(runs) \in Nat
  BY ShapeIs
<1>4. k \in RowsOf(d) /\ rows[k].state \in Stackable(asksGh)
  BY <1>1, <1>3 DEF RowsOf, Stackable
<1>5. Some(RowsOf(d), Stackable(asksGh))
  BY <1>4 DEF Some, InStates
<1>6. PICK m \in 1 .. Len(runs) :
         /\ Newest(RowsOf(d), Stackable(asksGh)) = rows[m]
         /\ rows[m].spec = d /\ rows[m].state \in Stackable(asksGh)
         /\ \A j \in RowsOf(d) : rows[j].state \in Stackable(asksGh) => j <= m
  BY <1>5, NewestIs
<1>7. rows[m].pushed # 0
  <2>1. CASE rows[m].state \in WaitingStates
    <3>1. m <= k /\ k <= m
      BY <1>1, <1>3, <1>4, <1>6, <2>1 DEF RowsOf
    <3> QED
      BY <1>2, <1>3, <3>1
  <2>2. CASE rows[m].state = "CHANGES_REQUESTED"
    BY <2>2 DEF Sent
  <2> QED
    BY <1>6, <2>1, <2>2 DEF Stackable
<1> QED
  BY <1>2, <1>5, <1>6, <1>7 DEF FetchParentHead

LEMMA OneParentIsUnder ==
    ASSUME Shape, Sent, NEW s \in Ids, NEW at, NEW asksGh \in BOOLEAN,
           NEW d \in OpenParentsAt(s, at, asksGh), ~ResolveOneParent(d, at, asksGh).refused
    PROVE  ResolveOneParent(d, at, asksGh).head = remote[d] /\ remote[d] # 0
<1>1. /\ ~ParentLanded(d, at) /\ Some(RowsOf(d), WaitingStates)
      /\ asksGh => rows[Max(RowsOf(d))].state # "REJECTED"
      /\ FetchParentHead(Newest(RowsOf(d), WaitingStates)) # 0
  BY DEF OpenParentsAt
<1>2. /\ Some(RowsOf(d), Stackable(asksGh)) /\ remote[d] # 0
      /\ FetchParentHead(Newest(RowsOf(d), Stackable(asksGh))) = remote[d]
  BY <1>1, HeadsAgree
<1>3. rows[Max(RowsOf(d))].state # "MERGED"
  <2> DEFINE S == RowsOf(d)
  <2>1. DOMAIN rows = 1 .. Len(runs) /\ Len(runs) \in Nat
    BY ShapeIs
  <2>2. S \subseteq 1 .. Len(runs) /\ S # {}
    BY <1>1, <2>1 DEF RowsOf, Some, InStates
  <2>3. IsFiniteSet(S) /\ S \subseteq Nat
    <3>1. IsFiniteSet(1 .. Len(runs))
      BY <2>1, FS_Interval
    <3> QED
      BY <2>1, <2>2, <3>1, FS_Subset
  <2>4. Max(S) \in S
    BY <2>2, <2>3, MaxIs
  <2> QED
    BY <1>1, <2>4 DEF ParentLanded, Some, InStates
<1>4. ~(asksGh /\ rows[Max(RowsOf(d))].state \in {"MERGED", "REJECTED"})
  BY <1>1, <1>3
<1>5. ~(StaleUnjudged(Newest(RowsOf(d), Stackable(asksGh))) /\ ~ParentLanded(d, at))
  BY <1>2, <1>4 DEF ResolveOneParent, StackingRefused
<1> QED
  BY <1>2, <1>4, <1>5 DEF ResolveOneParent

LEMMA DeepestIs ==
    ASSUME repo \in Repos, NEW S, S \subseteq Ids, S # {}, NEW at
    PROVE  DeepestOpenParent(S, S, at) \in S
<1>1. IsFiniteSet(S) /\ S \subseteq Nat
  BY QueueAssumption, FS_Subset DEF Ids
<1> DEFINE reach(s) == Cardinality(OnChain(s, S, at))
           Spans   == {reach(s) : s \in S}
<1>2. Cardinality(S) \in Nat /\ \A s : reach(s) \in 0 .. Cardinality(S)
  <2>1. \A s : OnChain(s, S, at) \subseteq S
    BY DEF OnChain
  <2> QED
    BY <1>1, <2>1, FS_Subset, FS_CardinalityType
<1> HIDE DEF reach
<1>3. IsFiniteSet(Spans) /\ Spans \subseteq Nat /\ Spans # {}
  <2>1. IsFiniteSet(0 .. Cardinality(S))
    BY <1>2, FS_Interval
  <2>2. Spans \subseteq 0 .. Cardinality(S) /\ 0 .. Cardinality(S) \subseteq Nat
    BY <1>2
  <2>3. IsFiniteSet(Spans)
    BY <2>1, <2>2, FS_Subset
  <2>4. Spans # {}
    OBVIOUS
  <2> QED
    BY <2>2, <2>3, <2>4
<1>4. PICK m \in Spans : \A y \in Spans : y <= m
  BY <1>3, MaxIs
<1> DEFINE Far == {s \in S : reach(s) = m}
<1>5. Far \subseteq Nat /\ Far # {}
  BY <1>1, <1>4
<1>6. PICK s \in Far : \A y \in Far : s <= y
  BY <1>5, LeastIs
<1>7. ASSUME NEW o \in S
      PROVE  reach(s) > reach(o) \/ (reach(s) = reach(o) /\ s <= o)
  <2>1. reach(s) = m /\ reach(o) <= m /\ m \in Nat /\ reach(o) \in Nat
    BY <1>2, <1>3, <1>4, <1>6, <1>7
  <2>2. CASE reach(o) = m
    BY <1>6, <2>1, <2>2
  <2>3. CASE reach(o) # m
    BY <2>1, <2>3
  <2> QED
    BY <2>2, <2>3
<1>8. \E x \in S : \A o \in S : LET mine   == Cardinality(OnChain(x, S, at))
                                    theirs == Cardinality(OnChain(o, S, at))
                                IN  mine > theirs \/ (mine = theirs /\ x <= o)
  BY <1>6, <1>7 DEF reach
<1> QED
  BY <1>8 DEF DeepestOpenParent
LEMMA ManyParentsAreUnder ==
    ASSUME Shape, Sent, NEW s \in Ids, NEW at, NEW asksGh \in BOOLEAN,
           NEW deps, deps = ToSet(Declared(s).deps), deps \subseteq Ids,
           NEW cut, cut = ResolveManyParents(deps, at, asksGh), ~cut.refused
    PROVE  \/ \A d \in OpenParentsAt(s, at, asksGh) : remote[d] \in Holds(cut.head)
           \/ TopIsGone(s, OpenParentsAt(s, at, asksGh), at, asksGh)
<1> DEFINE open   == {d \in deps : ~ParentLanded(d, at) /\ Some(RowsOf(d), Stackable(asksGh))}
           row(d) == Newest(RowsOf(d), Stackable(asksGh))
           chosen == DeepestOpenParent(open, open, at)
           head   == FetchParentHead(row(chosen))
           apart  == {d \in open : FetchParentHead(row(d)) \notin Holds(head) \union {0}}
           parents == OpenParentsAt(s, at, asksGh)
<1>1. ASSUME NEW d \in parents
      PROVE  d \in open /\ FetchParentHead(row(d)) = remote[d] /\ remote[d] # 0
  <2>1. /\ d \in deps /\ ~ParentLanded(d, at) /\ Some(RowsOf(d), WaitingStates)
        /\ FetchParentHead(Newest(RowsOf(d), WaitingStates)) # 0
    BY <1>1 DEF OpenParentsAt
  <2> QED
    BY <2>1, HeadsAgree
<1>2. CASE open = {}
  BY <1>1, <1>2
<1>3. CASE open # {}
  <2>1. chosen \in open
    BY <1>3, DeepestIs DEF Shape
  <2>2. cut = IF \/ \E d \in open : StaleUnjudged(row(d))
                 \/ OffChain(chosen, open, at) # {}
                 \/ head # 0 /\ apart # {}
              THEN StackingRefused ELSE [refused |-> FALSE, head |-> head]
    BY <1>3 DEF ResolveManyParents
  <2>3. /\ cut.head = head /\ OffChain(chosen, open, at) = {}
        /\ head # 0 => apart = {}
    <3>1. StackingRefused.refused
      BY DEF StackingRefused
    <3> HIDE DEF open, row, chosen, head, apart
    <3> QED
      BY <2>2, <3>1
  <2>4. CASE head # 0
    <3>1. ASSUME NEW d \in parents
          PROVE  remote[d] \in Holds(head)
      <4>1. d \in open /\ d \notin apart /\ FetchParentHead(row(d)) = remote[d] /\ remote[d] # 0
        BY <1>1, <2>3, <2>4
      <4> QED
        BY <4>1
    <3> QED
      BY <2>3, <3>1
  <2>5. CASE head = 0
    <3>1. /\ chosen \in deps /\ Some(RowsOf(chosen), Stackable(asksGh))
          /\ ~ParentLanded(chosen, at) /\ FetchParentHead(row(chosen)) = 0
      BY <2>1, <2>5
    <3>2. chosen \notin parents
      BY <1>1, <3>1
    <3>3. parents \subseteq open
      BY <1>1
    <3>4. open \subseteq {chosen} \union Reachable(chosen, at)
      BY <2>3 DEF OffChain, OnChain
    <3>5. parents \subseteq Reachable(chosen, at)
      BY <3>2, <3>3, <3>4
    <3>6. PICK c : c = chosen
      OBVIOUS
    <3>7. /\ c \in deps /\ Some(RowsOf(c), Stackable(asksGh)) /\ ~ParentLanded(c, at)
          /\ FetchParentHead(Newest(RowsOf(c), Stackable(asksGh))) = 0
          /\ parents \subseteq Reachable(c, at)
      BY <3>1, <3>5, <3>6
    <3> QED
      BY <3>7 DEF TopIsGone
  <2> QED
    BY <2>4, <2>5
<1> QED
  BY <1>2, <1>3

LEMMA CutIsOver ==
    ASSUME Shape, Sent, NEW s \in Ids, NEW at, NEW asksGh \in BOOLEAN,
           NEW cut, cut = ResolveStackedOn(s, at, asksGh), ~cut.refused
    PROVE  \/ \A d \in OpenParentsAt(s, at, asksGh) : remote[d] \in Holds(cut.head)
           \/ TopIsGone(s, OpenParentsAt(s, at, asksGh), at, asksGh)
<1>1. PICK deps : deps = ToSet(Declared(s).deps)
  OBVIOUS
<1>2. OpenParentsAt(s, at, asksGh) \subseteq deps
  BY <1>1 DEF OpenParentsAt
<1>3. deps \subseteq Ids
  <2>1. Declared(s).deps \in Seq(Ids)
    BY QueueAssumption DEF Shape, Ids, Declared
  <2> QED
    BY <1>1, <2>1, LenProperties DEF ToSet
<1>4. CASE deps = {}
  BY <1>2, <1>4
<1>5. CASE deps # {} /\ Cardinality(deps) = 1
  <2>1. IsFiniteSet(deps)
    BY <1>3, QueueAssumption, FS_Subset DEF Shape, Ids
  <2>2. PICK x : deps = {x}
    BY <1>5, <2>1, FS_Singleton
  <2>3. cut = ResolveOneParent(x, at, asksGh)
    <3>1. (CHOOSE d \in deps : TRUE) = x
      BY <2>2
    <3> QED
      BY <1>1, <1>5, <3>1 DEF ResolveStackedOn
  <2>4. ASSUME NEW d \in OpenParentsAt(s, at, asksGh)
        PROVE  remote[d] \in Holds(cut.head)
    <3>1. d = x
      BY <1>2, <2>2
    <3>2. cut.head = remote[d] /\ remote[d] # 0
      BY <2>3, <3>1, OneParentIsUnder
    <3> QED
      BY <3>2 DEF Holds
  <2> QED
    BY <2>4
<1>6. CASE deps # {} /\ Cardinality(deps) # 1
  <2>1. cut = ResolveManyParents(deps, at, asksGh)
    BY <1>1, <1>6 DEF ResolveStackedOn
  <2> QED
    BY <1>1, <1>3, <2>1, ManyParentsAreUnder
<1> QED
  BY <1>4, <1>5, <1>6

LEMMA MintIsOver ==
    ASSUME Shape, Sent, NEW s \in Ids, NEW at, NEW asksGh \in BOOLEAN,
           NEW cut, cut = ResolveStackedOn(s, at, asksGh), ~cut.refused,
           rows' = Append(rows, NewRow(s, at, cut.head))
    PROVE  \A i \in DOMAIN rows' \ DOMAIN rows :
              /\ i = Len(rows) + 1 /\ rows'[i].spec = s
              /\ \/ \A d \in OpenParentsAt(s, at, asksGh) : remote[d] \in rows'[i].tree
                 \/ TopIsGone(s, OpenParentsAt(s, at, asksGh), at, asksGh)
<1>1. PICK r : r = NewRow(s, at, cut.head) /\ rows' = Append(rows, r)
  OBVIOUS
<1>2. r.spec = s /\ r.tree = at.holds \union Holds(cut.head)
  BY <1>1 DEF NewRow
<1>3. Len(rows) \in Nat /\ DOMAIN rows = 1 .. Len(rows)
  BY ShapeIs
<1>4. DOMAIN rows' = 1 .. Len(rows) + 1 /\ rows'[Len(rows) + 1] = r
  BY <1>1, OneLonger, SeqIs DEF Shape
<1>5. \A i \in DOMAIN rows' \ DOMAIN rows : i = Len(rows) + 1
  BY <1>3, <1>4
<1>6. \/ \A d \in OpenParentsAt(s, at, asksGh) : remote[d] \in Holds(cut.head)
      \/ TopIsGone(s, OpenParentsAt(s, at, asksGh), at, asksGh)
  BY CutIsOver
<1> QED
  BY <1>2, <1>4, <1>5, <1>6
LEMMA SentKeeps ==
    ASSUME NightInv, Sent, [Next]_vars
    PROVE  Sent'
<1>0. /\ Shape /\ Places /\ Len(rows) = Len(runs) /\ Len(runs) \in Nat
      /\ DOMAIN rows = 1 .. Len(runs) /\ Costs \subseteq Nat
  BY ShapeIs, NightAssumption DEF NightInv
<1>1. ASSUME UNCHANGED <<rows, runs>>
      PROVE  Sent'
  BY <1>1 DEF Sent
<1>2. ASSUME NEW specs, NEW asked \in BOOLEAN, NEW stamp \in BOOLEAN,
             rows' = Reconciled(specs, asked, stamp), runs' = runs
      PROVE  Sent'
  <2>1. ASSUME NEW i \in 1 .. Len(runs), rows'[i].state = "CHANGES_REQUESTED"
        PROVE  rows'[i].pushed # 0
    <3>1. /\ rows'[i].pushed = rows[i].pushed
          /\ \/ rows'[i] = rows[i]
             \/ rows'[i].state = "ORPHANED"
             \/ rows[i].pr # 0
      BY <1>0, <1>2, ReconciledRows
    <3>2. rows[i].pr # 0 => rows[i].pushed # 0
      BY <1>0 DEF Shape, IsRow
    <3> QED
      BY <2>1, <3>1, <3>2 DEF Sent
  <2> QED
    BY <1>2, <2>1 DEF Sent
<1>3. ASSUME NEW s, NEW at, NEW head, NEW by,
             rows' = Append(rows, NewRow(s, at, head)), runs' = Append(runs, NewRun(by))
      PROVE  Sent'
  <2>1. PICK r : r = NewRow(s, at, head) /\ rows' = Append(rows, r)
    BY <1>3
  <2>2. PICK e : runs' = Append(runs, e)
    BY <1>3
  <2>3. IsSeq(runs)
    BY <1>0, SeqIsSeq DEF Shape
  <2>4. /\ Len(runs') = Len(runs) + 1 /\ rows'[Len(runs) + 1] = r
        /\ \A i \in 1 .. Len(runs) : rows'[i] = rows[i]
    BY <1>0, <2>1, <2>2, <2>3, OneLonger DEF Shape
  <2>5. r.state = "IMPLEMENTING"
    BY <2>1 DEF NewRow
  <2>6. \A i \in 1 .. Len(runs) + 1 : i \in 1 .. Len(runs) \/ i = Len(runs) + 1
    BY <1>0
  <2> QED
    BY <2>4, <2>5, <2>6 DEF Sent
<1>4. ASSUME NEW id \in 1 .. Len(runs), Len(runs') = Len(runs),
             \A i \in (1 .. Len(runs)) \ {id} : rows'[i] = rows[i],
             rows'[id].state = "CHANGES_REQUESTED" => rows'[id].pushed # 0
      PROVE  Sent'
  BY <1>4 DEF Sent
<1>5. ASSUME NEW id \in 1 .. Len(runs), Len(runs') = Len(runs),
             NEW end, end.state \in Decisions => end.state = rows[id].state,
             CellSettles(id, end)
      PROVE  Sent'
  <2>1. /\ \A i \in (1 .. Len(runs)) \ {id} : rows'[i] = rows[i]
        /\ rows'[id].state = end.state
        /\ rows'[id].pushed # 0 \/ rows'[id].pushed = rows[id].pushed
    BY <1>0, <1>5, SettleIs
  <2>2. rows'[id].state = "CHANGES_REQUESTED" => rows'[id].pushed # 0
    BY <1>5, <2>1 DEF Sent, Decisions
  <2> QED
    BY <1>4, <1>5, <2>1, <2>2
<1>6. CASE \/ NotReady \/ ScanRaises \/ Drained \/ Until \/ OutOfBudget \/ Breaker \/ Kill
           \/ RefuseCell \/ RaiseEarly \/ Readiness \/ Operator \/ UNCHANGED vars
           \/ \E answers \in BOOLEAN : Scan(answers)
  <2>1. UNCHANGED <<rows, runs>>
    BY <1>6 DEF NotReady, ScanRaises, Drained, Until, OutOfBudget, Breaker, Ends, Kill,
                RefuseCell, RaiseEarly, Readiness, Operator, OperatorMoves, Moves, Scan, vars,
                queueVars, nightVars
  <2> QED
    BY <1>1, <2>1
<1>7. CASE \E asked \in BOOLEAN : Reconcile(asked)
  <2>1. PICK asked \in BOOLEAN, stamp \in BOOLEAN : Reconcile(asked) /\ stamp = Opening
    BY <1>7 DEF Opening
  <2>2. rows' = Reconciled(Ids, asked, stamp) /\ runs' = runs
    BY <2>1 DEF Reconcile
  <2> QED
    BY <1>2, <2>2
<1>8. CASE \E s \in repo.attended, asked \in BOOLEAN : AttendedAsks(s, asked)
  <2>1. PICK s \in repo.attended, asked \in BOOLEAN : AttendedAsks(s, asked)
    BY <1>8
  <2>2. PICK specs : specs = ToSet(Declared(s).deps)
    OBVIOUS
  <2>3. rows' = Reconciled(specs, asked, FALSE) /\ runs' = runs
    BY <2>1, <2>2 DEF AttendedAsks
  <2> QED
    BY <1>2, <2>3
<1>9. CASE StartCell
  <2>1. PICK head, s, at, by :
           rows' = Append(rows, NewRow(s, at, head)) /\ runs' = Append(runs, NewRun(by))
    BY <1>9 DEF StartCell
  <2> QED
    BY <1>3, <2>1
<1>10. CASE AttendedStarts
  <2>1. CASE UNCHANGED <<rows, runs>>
    BY <1>1, <2>1
  <2>2. CASE ~UNCHANGED <<rows, runs>>
    <3>1. PICK head, s, at, by :
             rows' = Append(rows, NewRow(s, at, head)) /\ runs' = Append(runs, NewRun(by))
      BY <1>10, <2>2 DEF AttendedStarts
    <3> QED
      BY <1>3, <3>1
  <2> QED
    BY <2>1, <2>2
<1>11. ASSUME NEW end \in Returned \union Raised \union CutShort(attended.row),
              AttendedEnds(end, Min(Costs))
       PROVE  Sent'
  <2>1. /\ attended.row \in 1 .. Len(runs) /\ CellSettles(attended.row, end)
        /\ runs' = Ended(attended.row, Min(Costs), end)
    BY <1>0, <1>11 DEF AttendedEnds, Places
  <2>2. PICK id \in 1 .. Len(runs) : id = attended.row
    BY <2>1
  <2>3. PICK cost \in Nat : cost = Min(Costs)
    BY NightAssumption, MinIs
  <2>4. /\ end.status \in Statuses
        /\ end.state \in Decisions => end.state = rows[id].state
    BY <1>0, <2>2, EndsAre
  <2>5. Len(runs') = Len(runs)
    BY <1>0, <2>1, <2>2, <2>3, <2>4, EndedIs
  <2> QED
    BY <1>5, <2>1, <2>2, <2>4, <2>5
<1>12. ASSUME NEW cost \in Costs, NEW end,
              \/ end \in Returned /\ CellReturns(end, cost)
              \/ end \in Raised /\ CellRaises(end, cost)
       PROVE  Sent'
  <2>1. CellSettles(cell, end) /\ cell \in 1 .. Len(runs)
    BY <1>0, <1>12 DEF CellReturns, CellRaises, Places
  <2>2. Len(runs') = Len(runs)
    BY <1>0, <1>12, ReturnIsOver, RaiseIsOver DEF CellOver
  <2>3. end.state \in Decisions => end.state = rows[cell].state
    BY <1>0, <1>12, EndsAre
  <2> QED
    BY <1>5, <2>1, <2>2, <2>3
<1>13. ASSUME NEW cost \in Costs, NEW end, Cuts(end, cost)
       PROVE  Sent'
  <2>1. /\ CellSettles(cell, end) /\ cell \in 1 .. Len(runs)
        /\ end.state \in Decisions => end.state = rows[cell].state
    BY <1>13, CutsAre
  <2>2. Len(runs') = Len(runs)
    BY <1>13, CutsIdle DEF Idles
  <2> QED
    BY <1>5, <2>1, <2>2
<1>14. CASE Loop
  BY <1>6, <1>7, <1>9, <1>12, <1>13, <1>14 DEF Loop, Cuts
<1>15. CASE Beside
  BY <1>6, <1>8, <1>10, <1>11, <1>15 DEF Beside
<1>16. CASE Killed
  BY <1>6, <1>13, <1>16 DEF Killed, Cuts, Raised
<1> QED
  BY <1>6, <1>14, <1>15, <1>16 DEF Next

(* The rows a step adds, and who adds them.                                *)
LEMMA MintsAre ==
    ASSUME NightInv, [Next]_vars, NEW i \in DOMAIN rows' \ DOMAIN rows
    PROVE  StartCell \/ (AttendedStarts /\ ~UNCHANGED <<rows, runs>>)
<1>0. /\ Shape /\ Places /\ Len(rows) = Len(runs) /\ DOMAIN rows = 1 .. Len(runs)
      /\ Costs \subseteq Nat
  BY ShapeIs, NightAssumption DEF NightInv
<1>1. ASSUME IsSeq(rows'), Len(rows') = Len(rows)
      PROVE  FALSE
  BY <1>0, <1>1, SeqIs
<1>2. rows' # rows
  OBVIOUS
<1>3. CASE Ending
  BY <1>1, <1>3, EndingSteps DEF Idles
<1>4. CASE Over
  BY <1>1, <1>4 DEF Over, CellOver
<1>5. CASE \E answers \in BOOLEAN : Scan(answers)
  BY <1>2, <1>5 DEF Scan, queueVars
<1>6. CASE Readiness \/ RefuseCell \/ RaiseEarly \/ Operator \/ UNCHANGED vars
  BY <1>2, <1>6 DEF Readiness, RefuseCell, RaiseEarly, Operator, OperatorMoves, Moves, vars,
                    queueVars
<1>7. \A specs, asked, stamp : rows' # Reconciled(specs, asked, stamp)
  BY DEF Reconciled
<1>8. CASE \/ \E asked \in BOOLEAN : Reconcile(asked)
           \/ \E s \in repo.attended, asked \in BOOLEAN : AttendedAsks(s, asked)
  <2>1. CASE \E asked \in BOOLEAN : Reconcile(asked)
    <3>1. PICK asked, stamp : rows' = Reconciled(Ids, asked, stamp)
      BY <2>1 DEF Reconcile
    <3> QED
      BY <1>7, <3>1
  <2>2. CASE \E s \in repo.attended, asked \in BOOLEAN : AttendedAsks(s, asked)
    <3>1. PICK specs, asked, stamp : rows' = Reconciled(specs, asked, stamp)
      BY <2>2 DEF AttendedAsks
    <3> QED
      BY <1>7, <3>1
  <2> QED
    BY <1>8, <2>1, <2>2
<1>9. CASE \E end \in Returned \union Raised \union CutShort(attended.row) :
              AttendedEnds(end, Min(Costs))
  <2>1. PICK end \in Returned \union Raised \union CutShort(attended.row) :
           AttendedEnds(end, Min(Costs))
    BY <1>9
  <2>2. CellSettles(attended.row, end) /\ attended.row \in 1 .. Len(runs)
    BY <1>0, <2>1 DEF AttendedEnds, Places
  <2>3. PICK id \in 1 .. Len(runs) : id = attended.row
    BY <2>2
  <2> QED
    BY <1>0, <1>1, <2>2, <2>3, SettleIs
<1>10. CASE SteadyStep /\ ~AttendedStarts
  BY <1>5, <1>6, <1>8, <1>9, <1>10 DEF SteadyStep, Beside
<1> QED
  BY <1>2, <1>3, <1>4, <1>5, <1>10, StepsAre

LEMMA ChildIsOver ==
    ASSUME NightInv, Sent, [Next]_vars, NEW i \in DOMAIN rows' \ DOMAIN rows
    PROVE  LET s      == rows'[i].spec
               asksGh == cell' # i
               at     == IF asksGh THEN main ELSE base
               open   == OpenParentsAt(s, at, asksGh)
           IN  \/ \A d \in open : remote[d] \in rows'[i].tree
               \/ TopIsGone(s, open, at, asksGh)
<1>0. /\ Shape /\ Places /\ Len(rows) = Len(runs) /\ Len(rows) \in Nat
  BY ShapeIs DEF NightInv
<1>1. CASE StartCell
  <2>1. Chosen \in Ids /\ cell' = Len(rows) + 1
    BY <1>0, <1>1, FirstIs DEF StartCell, Admitted, Shape, IsDrive, Offered, Chosen
  <2>2. PICK s \in Ids : s = Chosen
    BY <2>1
  <2>3. PICK at : at = base
    OBVIOUS
  <2>4. PICK cut : /\ cut = ResolveStackedOn(s, at, FALSE) /\ ~cut.refused
                   /\ rows' = Append(rows, NewRow(s, at, cut.head))
    BY <1>1, <2>2, <2>3 DEF StartCell
  <2>5. /\ i = Len(rows) + 1 /\ rows'[i].spec = s
        /\ \/ \A d \in OpenParentsAt(s, at, FALSE) : remote[d] \in rows'[i].tree
           \/ TopIsGone(s, OpenParentsAt(s, at, FALSE), at, FALSE)
    BY <1>0, <2>4, MintIsOver
  <2>6. (cell' # i) = FALSE
    BY <2>1, <2>5
  <2> QED
    BY <2>3, <2>5, <2>6
<1>2. CASE AttendedStarts /\ ~UNCHANGED <<rows, runs>>
  <2>1. attended.spec \in Ids /\ cell' = cell
    BY <1>0, <1>2 DEF AttendedStarts, Shape, IsAttended
  <2>2. PICK s \in Ids : s = attended.spec
    BY <2>1
  <2>3. PICK at : at = main
    OBVIOUS
  <2>4. PICK cut : /\ cut = ResolveStackedOn(s, at, TRUE) /\ ~cut.refused
                   /\ rows' = Append(rows, NewRow(s, at, cut.head))
    BY <1>2, <2>2, <2>3 DEF AttendedStarts
  <2>5. /\ i = Len(rows) + 1 /\ rows'[i].spec = s
        /\ \/ \A d \in OpenParentsAt(s, at, TRUE) : remote[d] \in rows'[i].tree
           \/ TopIsGone(s, OpenParentsAt(s, at, TRUE), at, TRUE)
    BY <1>0, <2>4, MintIsOver
  <2>6. (cell' # i) = TRUE
    <3>1. cell = 0 \/ cell \in 1 .. Len(rows)
      BY <1>0 DEF Places
    <3> QED
      BY <1>0, <2>1, <2>5, <3>1
  <2> QED
    BY <2>3, <2>5, <2>6
<1> QED
  BY <1>1, <1>2, MintsAre

(* ChildIsOverItsParents: a cell, the night's or the operator's, is cut    *)
(* over every parent of its spec that waits with a push and a branch, or   *)
(* the branch of one above them all is gone; no chain of parents is too    *)
(* long and no order of pushes, merges and deletions breaks it.            *)
THEOREM ChildrenAreOver == Spec => ChildIsOverItsParents
<1>1. Init => NightInv /\ Sent
  <2>1. Init => Sent
    BY DEF Init, QueueInit, Sent
  <2> QED
    BY <2>1, NightStarts
<1>2. NightInv /\ Sent /\ [Next]_vars => NightInv' /\ Sent'
  BY StepKeeps, SentKeeps
<1>3. NightInv /\ Sent /\ [Next]_vars
        => [\A i \in DOMAIN rows' \ DOMAIN rows :
              LET s      == rows'[i].spec
                  asksGh == cell' # i
                  at     == IF asksGh THEN main ELSE base
                  open   == OpenParentsAt(s, at, asksGh)
              IN  \/ \A d \in open : remote[d] \in rows'[i].tree
                  \/ TopIsGone(s, open, at, asksGh)]_vars
  BY ChildIsOver
<1> QED
  BY <1>1, <1>2, <1>3, PTL DEF Spec, ChildIsOverItsParents
=============================================================================
