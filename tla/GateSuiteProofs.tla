--------------------------- MODULE GateSuiteProofs ---------------------------
(***************************************************************************)
(* Proofs about GateSuite, for every task of its assumption and any number *)
(* of failing commands and lost answers: no gate overwrites an edit, what  *)
(* a task is blamed for is its own doing, a green comparison is sound, and *)
(* a probe's answer is about its own edit.                                 *)
(*                                                                         *)
(* A gate's answer is read as what the tests say of one tree: the head of  *)
(* a suite says one thing throughout, because no step makes or unmakes an  *)
(* edit, and whatever leaves a mutant or the base's source behind leaves   *)
(* an error in the suite with it.                                          *)
(***************************************************************************)
EXTENDS GateSuite, FiniteSetTheorems, SequenceTheorems, TLAPS

Gates == Declared \union CoreGates

Members(s) == {s[i] : i \in DOMAIN s}
-----------------------------------------------------------------------------
(* Selected, along a sequence. *)

LEMMA LeastIs ==
    ASSUME NEW S, S \subseteq Nat, S # {}
    PROVE  \E x \in S : \A y \in S : x <= y
<1>1. PICK n \in S : TRUE
  OBVIOUS
<1> DEFINE T == {0 .. i : i \in {i \in S : i <= n}}
<1>2. T # {} /\ T \subseteq SUBSET (0 .. n)
  BY <1>1
<1>3. IsFiniteSet(0 .. n)
  BY <1>1, FS_Interval
<1>4. IsWellFoundedOn(StrictSubsetOrdering(0 .. n), SUBSET (0 .. n))
  BY <1>3, FS_StrictSubsetOrderingWellFounded, FS_FiniteSubsetsOfFinite
<1>5. PICK m \in T : \A y \in T : ~ (<<y, m>> \in StrictSubsetOrdering(0 .. n))
  BY <1>2, <1>4, WFMin
<1>6. PICK x \in S : x <= n /\ m = 0 .. x
  OBVIOUS
<1>7. ASSUME NEW y \in S, ~(x <= y)
      PROVE  FALSE
  <2>1. y <= n /\ y < x /\ y \in Nat /\ x \in Nat
    BY <1>1, <1>6, <1>7
  <2>2. 0 .. y \in T /\ 0 .. y \subseteq 0 .. x /\ x \notin 0 .. y /\ x \in 0 .. x
    BY <2>1
  <2>3. <<0 .. y, 0 .. x>> \in StrictSubsetOrdering(0 .. n)
    BY <2>2, <1>2, <1>6 DEF StrictSubsetOrdering
  <2> QED
    BY <2>2, <2>3, <1>5, <1>6
<1> QED
  BY <1>7

StepFns(n, D) == [(1 .. n) \X D -> D]

Recursion(g, n, D, x, step) ==
    g \in [0 .. n -> D] /\ g[0] = x /\ \A i \in 1 .. n : g[i] = step[<<i, g[i - 1]>>]

LEMMA RecursionExists ==
    ASSUME NEW n \in Nat, NEW D, NEW x \in D, NEW step \in StepFns(n, D)
    PROVE  \E g : Recursion(g, n, D, x, step)
<1>0. step \in [(1 .. n) \X D -> D]
  BY DEF StepFns
<1> DEFINE Ok(m) == \E g \in [0 .. m -> D] : g[0] = x /\ \A i \in 1 .. m : g[i] = step[<<i, g[i - 1]>>]
           Bad == {m \in 0 .. n : ~Ok(m)}
<1>1. ASSUME Bad # {}
      PROVE  FALSE
  <2>0. Bad \subseteq Nat
    OBVIOUS
  <2>1. PICK m \in Bad : \A j \in Bad : m <= j
    BY <1>1, <2>0, LeastIs
  <2>2. m # 0
    <3> DEFINE g == [k \in 0 .. 0 |-> x]
    <3>1. g \in [0 .. 0 -> D] /\ g[0] = x /\ \A i \in 1 .. 0 : g[i] = step[<<i, g[i - 1]>>]
      OBVIOUS
    <3> HIDE DEF g
    <3>2. Ok(0)
      BY <3>1
    <3> QED
      BY <2>1, <3>2
  <2>3. m - 1 \in 0 .. n /\ m \in 1 .. n /\ m - 1 \notin Bad
    BY <2>1, <2>2
  <2>4. PICK g \in [0 .. m - 1 -> D] : g[0] = x /\ \A i \in 1 .. m - 1 : g[i] = step[<<i, g[i - 1]>>]
    BY <2>3
  <2> DEFINE h == [k \in 0 .. m |-> IF k = m THEN step[<<m, g[m - 1]>>] ELSE g[k]]
  <2>5. g[m - 1] \in D /\ step[<<m, g[m - 1]>>] \in D
    BY <1>0, <2>3, <2>4
  <2>6. h \in [0 .. m -> D]
    <3>1. ASSUME NEW k \in 0 .. m, k # m PROVE k \in 0 .. m - 1
      BY <2>3, <3>1
    <3> QED
      BY <2>4, <2>5, <3>1
  <2>7. h[0] = x
    BY <2>3, <2>4
  <2>8. ASSUME NEW i \in 1 .. m PROVE h[i] = step[<<i, h[i - 1]>>]
    <3>1. CASE i = m
      <4>1. i - 1 \in 0 .. m /\ i - 1 # m /\ i \in 0 .. m
        BY <2>3, <3>1
      <4>2. h[i] = step[<<m, g[m - 1]>>] /\ h[i - 1] = g[i - 1]
        BY <3>1, <4>1
      <4> QED
        BY <3>1, <4>2
    <3>2. CASE i # m
      <4>1. i \in 1 .. m - 1 /\ h[i] = g[i] /\ h[i - 1] = g[i - 1]
        BY <2>3, <3>2
      <4> QED
        BY <4>1, <2>4
    <3> QED
      BY <3>1, <3>2
  <2>9. Ok(m)
    <3> HIDE DEF h
    <3> QED
      BY <2>6, <2>7, <2>8
  <2> QED
    BY <2>1, <2>9
<1>2. n \in 0 .. n
  OBVIOUS
<1>3. Ok(n)
  BY <1>1, <1>2
<1> QED
  BY <1>3 DEF Recursion

(* One member of the sequence, where it is selected. *)
One(x, S) == IF x \in S THEN <<x>> ELSE <<>>

LEMMA OneOf ==
    ASSUME NEW K, NEW x \in K, NEW S
    PROVE  One(x, S) \in Seq(K) /\ Members(One(x, S)) = {x} \intersect S
  BY DEF One, Members

LEMMA JoinedMembers ==
    ASSUME NEW K, NEW s \in Seq(K), NEW t \in Seq(K)
    PROVE  s \o t \in Seq(K) /\ Members(s \o t) = Members(s) \union Members(t)
<1>1. /\ s \o t \in Seq(K) /\ Len(s \o t) = Len(s) + Len(t) /\ Len(s) \in Nat /\ Len(t) \in Nat
      /\ DOMAIN s = 1 .. Len(s) /\ DOMAIN t = 1 .. Len(t) /\ DOMAIN (s \o t) = 1 .. Len(s) + Len(t)
      /\ \A i \in 1 .. Len(s) + Len(t) : (s \o t)[i] = IF i <= Len(s) THEN s[i] ELSE t[i - Len(s)]
  OBVIOUS
<1>2. ASSUME NEW i \in 1 .. Len(s) + Len(t)
      PROVE  (s \o t)[i] \in Members(s) \union Members(t)
  <2>1. CASE i <= Len(s)
    BY <1>1, <2>1 DEF Members
  <2>2. CASE ~(i <= Len(s))
    <3>1. i - Len(s) \in 1 .. Len(t)
      BY <1>1, <2>2
    <3> QED
      BY <1>1, <2>2, <3>1 DEF Members
  <2> QED
    BY <2>1, <2>2
<1>3. ASSUME NEW i \in 1 .. Len(s) PROVE s[i] \in Members(s \o t)
  <2>1. i \in 1 .. Len(s) + Len(t) /\ i <= Len(s)
    BY <1>1
  <2> QED
    BY <1>1, <2>1 DEF Members
<1>4. ASSUME NEW i \in 1 .. Len(t) PROVE t[i] \in Members(s \o t)
  <2>1. PICK j \in 1 .. Len(s) + Len(t) : j = i + Len(s)
    BY <1>1
  <2>2. ~(j <= Len(s)) /\ j - Len(s) = i
    BY <1>1, <2>1
  <2>3. (s \o t)[j] = t[i]
    BY <1>1, <2>2
  <2> QED
    BY <1>1, <2>3 DEF Members
<1> QED
  BY <1>1, <1>2, <1>3, <1>4 DEF Members

(* What is selected is the sequence's, and all of it that is in the set.   *)
LEMMA SelectedIs ==
    ASSUME NEW K, NEW s \in Seq(K), NEW S
    PROVE  Selected(s, S) \in Seq(K) /\ Members(Selected(s, S)) = Members(s) \intersect S
<1> DEFINE n == Len(s)
           Steps(g) == g = [i \in 0 .. n |->
                              IF i = 0 THEN <<>>
                              ELSE g[i - 1] \o (IF s[i] \in S THEN <<s[i]>> ELSE <<>>)]
           step == [p \in (1 .. n) \X Seq(K) |-> p[2] \o One(s[p[1]], S)]
           f == CHOOSE g : Steps(g)
<1>1. n \in Nat /\ DOMAIN s = 1 .. n /\ \A i \in 1 .. n : s[i] \in K
  OBVIOUS
<1>2. step \in StepFns(n, Seq(K)) /\ <<>> \in Seq(K)
  <2>1. \A p \in (1 .. n) \X Seq(K) : p[2] \o One(s[p[1]], S) \in Seq(K)
    <3>1. \A p \in (1 .. n) \X Seq(K) : p[2] \in Seq(K) /\ One(s[p[1]], S) \in Seq(K)
      BY <1>1, OneOf
    <3> QED
      BY <3>1, JoinedMembers
  <2> QED
    BY <2>1 DEF StepFns
<1> HIDE DEF n
<1>3. PICK g : Recursion(g, n, Seq(K), <<>>, step)
  <2>1. n \in Nat
    BY <1>1
  <2> HIDE DEF step
  <2> QED
    BY <1>2, <2>1, RecursionExists
<1>4. ASSUME NEW i \in 1 .. n PROVE g[i] = g[i - 1] \o One(s[i], S) /\ g[i - 1] \in Seq(K)
  <2>1. i - 1 \in 0 .. n
    BY <1>1
  <2>2. g[i - 1] \in Seq(K)
    BY <1>3, <2>1 DEF Recursion
  <2> QED
    BY <1>3, <2>2 DEF Recursion
<1>5. Steps(g)
  <2>1. ASSUME NEW i \in 0 .. n
        PROVE  g[i] = IF i = 0 THEN <<>> ELSE g[i - 1] \o (IF s[i] \in S THEN <<s[i]>> ELSE <<>>)
    <3>1. i = 0 \/ i \in 1 .. n
      BY <1>1
    <3> QED
      BY <1>3, <1>4, <3>1 DEF Recursion, One
  <2> QED
    BY <1>3, <2>1 DEF Recursion
<1>6. Steps(f)
  BY <1>5
<1>7. Selected(s, S) = f[n]
  BY DEF Selected, n
<1>8. \A i \in 0 .. n : f[i] = IF i = 0 THEN <<>> ELSE f[i - 1] \o One(s[i], S)
  <2> HIDE DEF f
  <2> QED
    BY <1>6 DEF One
<1> HIDE DEF f
<1> DEFINE Due(i) == {s[j] : j \in 1 .. i} \intersect S
           Good(i) == f[i] \in Seq(K) /\ Members(f[i]) = Due(i)
           Bad == {i \in 0 .. n : ~Good(i)}
<1>9. ASSUME Bad # {} PROVE FALSE
  <2>0. Bad \subseteq Nat
    <3> HIDE DEF Good
    <3> QED
      BY <1>1
  <2>1. PICK i \in Bad : \A j \in Bad : i <= j
    BY <1>9, <2>0, LeastIs
  <2>2. CASE i = 0
    <3>1. f[0] = <<>> /\ Members(<<>>) = {} /\ <<>> \in Seq(K)
      BY <1>1, <1>8 DEF Members
    <3>2. Due(0) = {}
      OBVIOUS
    <3> QED
      BY <2>1, <2>2, <3>1, <3>2
  <2>3. CASE i # 0
    <3>1. i \in 1 .. n /\ i - 1 \in 0 .. n /\ ~(i <= i - 1)
      BY <1>1, <2>1, <2>3
    <3>2. Good(i - 1)
      BY <2>1, <3>1
    <3>3. f[i] = f[i - 1] \o One(s[i], S)
      BY <1>8, <2>3, <3>1
    <3>4. s[i] \in K
      BY <1>1, <3>1
    <3>5. f[i] \in Seq(K) /\ Members(f[i]) = Members(f[i - 1]) \union ({s[i]} \intersect S)
      <4>1. One(s[i], S) \in Seq(K) /\ Members(One(s[i], S)) = {s[i]} \intersect S
        BY <3>4, OneOf
      <4> QED
        BY <3>2, <3>3, <4>1, JoinedMembers
    <3>6. Due(i) = Due(i - 1) \union ({s[i]} \intersect S)
      <4>1. {s[j] : j \in 1 .. i} = {s[j] : j \in 1 .. i - 1} \union {s[i]}
        BY <3>1
      <4> QED
        BY <4>1
    <3> QED
      BY <2>1, <3>2, <3>5, <3>6
  <2> QED
    BY <2>2, <2>3
<1>10. Good(n)
  <2>1. n \in 0 .. n
    BY <1>1
  <2> HIDE DEF Good
  <2> QED
    BY <1>9, <2>1
<1>11. Members(s) = {s[j] : j \in 1 .. n}
  BY <1>1 DEF Members
<1> QED
  BY <1>7, <1>10, <1>11
-----------------------------------------------------------------------------
(* What the tests gate answers. *)

Names == DOMAIN task.truth

LEMMA TaskIs ==
    ASSUME task \in Tasks
    PROVE  /\ IsFiniteSet(Names) /\ Stray \notin Names /\ None \notin Names
           /\ "AssertionError" \notin Names /\ Names \intersect Unreported = {}
           /\ \A n \in Names : /\ task.truth[n].base \in Saying /\ task.truth[n].head \in Saying
                               /\ task.truth[n].without \in Saying /\ task.truth[n].edited \in Saying
                               /\ task.truth[n].notices \subseteq Files
           /\ task.runner.enumerates \in BOOLEAN /\ task.runner.keyed \in BOOLEAN
           /\ task.runner.lists \in BOOLEAN /\ task.runner.subset \in {"honoured", "ignored", "refused"}
           /\ \A s \in {"base", "head"} : task.lint[s].collected = Unreported
           /\ task.stray \in BOOLEAN /\ task.advisory \subseteq Declared
           /\ task.changed \subseteq Files \ {"note", "artifact"} /\ task.edits \subseteq Files
<1>1. task \in Tasks
  OBVIOUS
<1>2. \A t \in Tasks :
          /\ IsFiniteSet(DOMAIN t.truth)
          /\ DOMAIN t.truth \cap ({Stray, None, "AssertionError"} \cup Unreported) = {}
          /\ \A n \in DOMAIN t.truth :
                t.truth[n] \in [base : Saying, head : Saying, without : Saying, edited : Saying,
                               notices : SUBSET Files]
          /\ t.runner \in [enumerates : BOOLEAN, keyed : BOOLEAN, lists : BOOLEAN,
                           subset : {"honoured", "ignored", "refused"}]
          /\ \A s \in {"base", "head"} : t.lint[s].collected = Unreported
          /\ t.changed \subseteq Files \ {"note", "artifact"} /\ t.edits \subseteq Files
          /\ t.advisory \subseteq Declared /\ t.stray \in BOOLEAN
  BY GateSuiteAssumption
<1>3. \A n \in Names : task.truth[n] \in [base : Saying, head : Saying, without : Saying,
                                        edited : Saying, notices : SUBSET Files]
  BY <1>1, <1>2 DEF Names
<1>4. task.runner \in [enumerates : BOOLEAN, keyed : BOOLEAN, lists : BOOLEAN,
                       subset : {"honoured", "ignored", "refused"}]
  BY <1>1, <1>2
<1>5. IsFiniteSet(Names) /\ Names \cap ({Stray, None, "AssertionError"} \cup Unreported) = {}
  BY <1>1, <1>2 DEF Names
<1>6. /\ \A s \in {"base", "head"} : task.lint[s].collected = Unreported
      /\ task.changed \subseteq Files \ {"note", "artifact"} /\ task.edits \subseteq Files
      /\ task.advisory \subseteq Declared /\ task.stray \in BOOLEAN
  BY <1>1, <1>2
<1> HIDE DEF Names
<1>7. \A n \in Names : /\ task.truth[n].base \in Saying /\ task.truth[n].head \in Saying
                       /\ task.truth[n].without \in Saying /\ task.truth[n].edited \in Saying
                       /\ task.truth[n].notices \subseteq Files
  BY <1>3
<1>8. Stray \notin Names /\ None \notin Names /\ "AssertionError" \notin Names
      /\ Names \intersect Unreported = {}
  BY <1>5
<1>9. /\ task.runner.enumerates \in BOOLEAN /\ task.runner.keyed \in BOOLEAN
      /\ task.runner.lists \in BOOLEAN /\ task.runner.subset \in {"honoured", "ignored", "refused"}
  BY <1>4
<1> QED
  BY <1>5, <1>6, <1>7, <1>8, <1>9

LEMMA CriteriaAre ==
    ASSUME task \in Tasks
    PROVE  /\ task.acceptance \in Seq([witness : STRING, preserves : BOOLEAN,
                                       mutant : Files \union {None, Outside},
                                       subject : Files \union {None}])
           /\ \A c \in Criterias : /\ c.witness \notin {Stray, "lens", "suite"} /\ c.preserves \in BOOLEAN
                                   /\ c.mutant \in Files \union {None, Outside}
           /\ task.probes \in Seq(Files \union {Outside})
           /\ task.pairs \in Seq([witness : STRING, file : Files \union {Outside}])
           /\ \A i \in DOMAIN task.pairs : task.pairs[i].witness \in Witnesses
<1>1. /\ task.acceptance \in Seq([witness : STRING, preserves : BOOLEAN,
                                  mutant : Files \union {None, Outside}, subject : Files \union {None}])
      /\ \A i \in DOMAIN task.acceptance : task.acceptance[i].witness \notin {Stray, "lens", "suite"}
      /\ task.probes \in Seq(Files \union {Outside})
      /\ task.pairs \in Seq([witness : STRING, file : Files \union {Outside}])
      /\ \A i \in DOMAIN task.pairs :
            \E j \in DOMAIN task.acceptance : task.acceptance[j].witness = task.pairs[i].witness
  BY GateSuiteAssumption
<1>2. \A i \in DOMAIN task.acceptance :
        task.acceptance[i] \in [witness : STRING, preserves : BOOLEAN,
                                mutant : Files \union {None, Outside}, subject : Files \union {None}]
  <2> DEFINE K == [witness : STRING, preserves : BOOLEAN,
                   mutant : Files \union {None, Outside}, subject : Files \union {None}]
  <2>1. task.acceptance \in Seq(K)
    BY <1>1
  <2> HIDE DEF K
  <2>2. \A i \in DOMAIN task.acceptance : task.acceptance[i] \in K
    BY <2>1
  <2> QED
    BY <2>2 DEF K
<1>3. \A c \in Criterias : c.witness \notin {Stray, "lens", "suite"} /\ c.preserves \in BOOLEAN
                             /\ c.mutant \in Files \union {None, Outside}
  BY <1>1, <1>2 DEF Criterias
<1>4. \A i \in DOMAIN task.pairs : task.pairs[i].witness \in Witnesses
  BY <1>1 DEF Witnesses, Criterias
<1> QED
  BY <1>1, <1>3, <1>4

(* What each of a task's tests says of a tree: `pass`, `fail` or `gone`.     *)
NamesOf(t) == DOMAIN t.truth

SaidOf(tree) == [n \in NamesOf(task) |-> Outcome(n, tree)]

Here(t, said)    == {n \in NamesOf(t) : said[n] # "gone"}
Failing(t, said) == {n \in NamesOf(t) : said[n] = "fail"}

FailuresOf(t, names) ==
    IF t.runner.keyed THEN SetToBag({Failure("test", n) : n \in names})
    ELSE IF names = {} THEN EmptyBag ELSE [f \in {Failure("test", "AssertionError")} |-> Cardinality(names)]

(* The result is that of a run of these names of a tree that says `said`.  *)
Reads(t, r, said, ran) ==
    LET failing == ran \intersect Failing(t, said)
    IN  /\ r.status = IF failing = {} THEN "pass" ELSE "fail"
        /\ r.tool = "pytest"
        /\ r.failures = FailuresOf(t, failing)
        /\ r.collected = IF t.runner.enumerates THEN ran ELSE Unreported

Strays(t, s) == IF t.stray /\ s = "head" THEN {Stray} ELSE {}

IsWhole(t, handed) == handed = {} \/ t.runner.subset = "ignored"

RanOf(t, s, said, handed) ==
    IF IsWhole(t, handed) THEN Here(t, said) \union Strays(t, s)
    ELSE IF Stray \in handed THEN {} ELSE handed \intersect Here(t, said)

Breaks(t, s, said, handed) ==
    /\ ~IsWhole(t, handed)
    /\ \/ t.runner.subset = "refused"
       \/ handed \ (Here(t, said) \union Strays(t, s)) # {} /\ ~t.runner.lists

Listed(t, said, handed) ==
    IF t.runner.lists /\ ~IsWhole(t, handed) THEN handed \ Here(t, said) ELSE Unreported

LEMMA OutcomeIs ==
    ASSUME task \in Tasks, NEW tree, NEW n \in NamesOf(task)
    PROVE  Outcome(n, tree) \in Saying
  BY TaskIs DEF Outcome, Saying, NamesOf, Names

LEMMA FailuresAre ==
    ASSUME NEW t, NEW names
    PROVE  /\ names = {} => FailuresOf(t, names) = EmptyBag
           /\ names # {} => FailuresOf(t, names) # EmptyBag
           /\ t.runner.keyed => DOMAIN FailuresOf(t, names) = {Failure("test", n) : n \in names}
           /\ ~t.runner.keyed => DOMAIN FailuresOf(t, names) \subseteq {Failure("test", "AssertionError")}
<1>1. DOMAIN EmptyBag = {} /\ DOMAIN SetToBag({}) = {} /\ EmptyBag = SetToBag({})
  BY DEF EmptyBag, SetToBag
<1>2. CASE t.runner.keyed
  <2>1. DOMAIN FailuresOf(t, names) = {Failure("test", n) : n \in names}
    BY <1>2 DEF FailuresOf, SetToBag
  <2>2. names = {} => FailuresOf(t, names) = EmptyBag
    BY <1>2 DEF FailuresOf, EmptyBag
  <2> QED
    BY <1>1, <1>2, <2>1, <2>2
<1>3. CASE ~t.runner.keyed
  <2>1. CASE names = {}
    BY <1>1, <1>3, <2>1 DEF FailuresOf
  <2>2. CASE names # {}
    <3>1. DOMAIN FailuresOf(t, names) = {Failure("test", "AssertionError")}
      BY <1>3, <2>2 DEF FailuresOf
    <3> QED
      BY <1>1, <1>3, <2>2, <3>1
  <2> QED
    BY <2>1, <2>2
<1> QED
  BY <1>2, <1>3

(* The codes of a run's failures: the names that failed, where they are keyed.  *)
LEMMA CodesAre ==
    ASSUME NEW t, NEW names, NEW r, r.failures = FailuresOf(t, names)
    PROVE  /\ t.runner.keyed => Codes(r) = names
           /\ ~t.runner.keyed => Codes(r) \subseteq {"AssertionError"}
           /\ Codes(r) = {} <=> names = {}
<1>1. Codes(r) = {f.code : f \in DOMAIN FailuresOf(t, names)}
  BY DEF Codes, BagToSet
<1>2. \A n : Failure("test", n).code = n
  BY DEF Failure
<1>3. ASSUME t.runner.keyed PROVE Codes(r) = names
  <2>1. DOMAIN FailuresOf(t, names) = {Failure("test", n) : n \in names}
    BY <1>3, FailuresAre
  <2>2. Codes(r) = {f.code : f \in {Failure("test", n) : n \in names}}
    BY <1>1, <2>1
  <2> QED
    BY <1>2, <2>2
<1>4. ~t.runner.keyed => Codes(r) \subseteq {"AssertionError"}
  BY <1>1, <1>2, FailuresAre
<1>5. ~t.runner.keyed => (Codes(r) = {} <=> names = {})
  <2>1. names = {} => DOMAIN FailuresOf(t, names) = {}
    BY FailuresAre DEF EmptyBag, SetToBag
  <2>2. names # {} /\ ~t.runner.keyed => Failure("test", "AssertionError") \in DOMAIN FailuresOf(t, names)
    BY DEF FailuresOf
  <2> QED
    BY <1>1, <2>1, <2>2
<1> QED
  BY <1>3, <1>4, <1>5

(* What an answer tells of a tree that says `said`, asked for these names.  *)
Told(t, s, a, said, handed) ==
    LET ran == RanOf(t, s, said, handed)
    IN  /\ a.fate = "answered" /\ DOMAIN a = {"fate", "exit", "result"}
        /\ Breaks(t, s, said, handed) => a.result = Broke /\ a.exit = 1
        /\ ~Breaks(t, s, said, handed) =>
              /\ Reads(t, a.result, said, ran)
              /\ a.exit = IF ran \intersect Failing(t, said) = {} THEN 0 ELSE 1
              /\ a.result.uncollected = Listed(t, said, handed)

LEMMA AnswerIs ==
    ASSUME task \in Tasks, NEW tree, NEW handed
    PROVE  Told(task, side, Answer(tree, handed), SaidOf(tree), handed)
<1> DEFINE said == SaidOf(tree)
           ran  == RanOf(task, side, said, handed)
           here == {n \in DOMAIN task.truth : Outcome(n, tree) # "gone"}
           printed == here \cup (IF task.stray /\ side = "head" THEN {Stray} ELSE {})
           failing == {n \in ran \cap here : Outcome(n, tree) = "fail"}
<1>1. here = Here(task, said) /\ printed = Here(task, said) \union Strays(task, side)
  BY DEF Here, SaidOf, NamesOf, Strays
<1>2. failing = ran \intersect Failing(task, said)
  BY DEF Failing, SaidOf, NamesOf, Saying
<1>3. ran = IF handed = {} \/ task.runner.subset = "ignored" THEN printed
            ELSE IF Stray \in handed THEN {} ELSE handed \cap here
  BY <1>1 DEF RanOf, IsWhole
<1>4. Breaks(task, side, said, handed) <=>
        /\ ~(handed = {} \/ task.runner.subset = "ignored")
        /\ (task.runner.subset = "refused" \/ (handed \ printed # {} /\ ~task.runner.lists))
  BY <1>1 DEF Breaks, IsWhole
<1>s. SUFFICES Told(task, side, Answer(tree, handed), said, handed)
  OBVIOUS
<1> HIDE DEF here, printed, ran, said
<1>5. CASE Breaks(task, side, said, handed)
  <2>1. Answer(tree, handed) = [fate |-> "answered", exit |-> 1, result |-> Result("error", None, EmptyBag)]
    BY <1>4, <1>5 DEF Answer, here, printed
  <2> QED
    BY <1>5, <2>1 DEF Broke, Told
<1>6. CASE ~Breaks(task, side, said, handed)
  <2>1. Answer(tree, handed) =
          [fate |-> "answered", exit |-> IF failing = {} THEN 0 ELSE 1,
           result |->
                [status |-> IF failing = {} THEN "pass" ELSE "fail", tool |-> "pytest",
                 failures |-> IF task.runner.keyed THEN SetToBag({Failure("test", n) : n \in failing})
                              ELSE IF failing = {} THEN EmptyBag
                              ELSE [f \in {Failure("test", "AssertionError")} |-> Cardinality(failing)],
                 collected |-> IF task.runner.enumerates THEN ran ELSE Unreported,
                 uncollected |-> IF task.runner.lists /\ ~(handed = {} \/ task.runner.subset = "ignored")
                                 THEN handed \ here ELSE Unreported]]
    BY <1>3, <1>4, <1>6 DEF Answer, here, printed
  <2> HIDE DEF failing
  <2>2. FailuresOf(task, failing) = IF task.runner.keyed THEN SetToBag({Failure("test", n) : n \in failing})
                              ELSE IF failing = {} THEN EmptyBag
                              ELSE [f \in {Failure("test", "AssertionError")} |-> Cardinality(failing)]
    BY DEF FailuresOf
  <2>3. Reads(task, Answer(tree, handed).result, said, ran)
    BY <1>2, <2>1, <2>2 DEF Reads
  <2>4. /\ Answer(tree, handed).fate = "answered"
        /\ DOMAIN Answer(tree, handed) = {"fate", "exit", "result"}
        /\ Answer(tree, handed).exit = IF failing = {} THEN 0 ELSE 1
        /\ Answer(tree, handed).result.uncollected =
                IF task.runner.lists /\ ~(handed = {} \/ task.runner.subset = "ignored")
                THEN handed \ here ELSE Unreported
    BY <2>1
  <2>5. Answer(tree, handed).result.uncollected = Listed(task, said, handed)
    BY <1>1, <2>4 DEF Listed, IsWhole
  <2>6. Answer(tree, handed).exit = IF ran \intersect Failing(task, said) = {} THEN 0 ELSE 1
    BY <1>2, <2>4
  <2> QED
    BY <1>6, <2>3, <2>4, <2>5, <2>6 DEF ran, Told
<1> QED
  BY <1>5, <1>6

(* What run_gate makes of it: an error, or what the run would have said.     *)
Heard(t, s, r, said, handed) ==
    \/ r = Broke
    \/ /\ ~Breaks(t, s, said, handed)
       /\ Reads(t, r, said, RanOf(t, s, said, handed))
       /\ r.uncollected = Listed(t, said, handed)

LEMMA HeardIs ==
    ASSUME NEW t, NEW s, NEW a, NEW said, NEW handed, Told(t, s, a, said, handed), NEW fate
    PROVE  /\ Heard(t, s, RunGate(Fated(a, fate)), said, handed)
           /\ fate = "answered" /\ ~Breaks(t, s, said, handed) =>
                 Reads(t, RunGate(Fated(a, fate)), said, RanOf(t, s, said, handed))
                 /\ RunGate(Fated(a, fate)).uncollected = Listed(t, said, handed)
<1>1. Fated(a, fate).result = a.result
  BY DEF Told, Fated
<1>2. RunGate(Fated(a, fate)) \in {Broke, a.result}
  BY <1>1 DEF RunGate
<1>3. ASSUME fate = "answered", ~Breaks(t, s, said, handed)
      PROVE  RunGate(Fated(a, fate)) = a.result
  <2>1. Fated(a, fate).fate = "answered" /\ Fated(a, fate).exit = a.exit
    BY <1>3 DEF Told, Fated
  <2>2. a.result.tool # None
    BY <1>3 DEF Told, Reads, None
  <2>3. a.exit # 0 => a.result.failures # EmptyBag
    BY <1>3, FailuresAre DEF Told, Reads
  <2> QED
    BY <1>1, <2>1, <2>2, <2>3 DEF RunGate
<1>4. Breaks(t, s, said, handed) => a.result = Broke
  BY DEF Told
<1>5. ~Breaks(t, s, said, handed) =>
        Reads(t, a.result, said, RanOf(t, s, said, handed)) /\ a.result.uncollected = Listed(t, said, handed)
  BY DEF Told
<1> QED
  BY <1>2, <1>3, <1>4, <1>5 DEF Heard
-----------------------------------------------------------------------------
(* What the tests say of the trees a suite comes to. *)

(* Of the base, of the head as it is or as it was edited, and of the head    *)
(* without its source.                                                      *)
SaidBy(t, s, edited) ==
    [n \in NamesOf(t) |-> IF s = "base" THEN t.truth[n].base
                          ELSE IF edited THEN t.truth[n].edited ELSE t.truth[n].head]

Without(t) == [n \in NamesOf(t) |-> t.truth[n].without]

(* Of one of them with this file mutated. *)
Under(t, said, file) ==
    [n \in NamesOf(t) |-> IF said[n] = "pass" /\ file \in t.truth[n].notices THEN "fail" ELSE said[n]]

Marks == {"HEAD", "edited", "mutated", "base"}

(* Nothing but the agent's edits and the suite's litter is not at HEAD.     *)
Steady(w) == \A f \in Files : w[f] \in {"HEAD", "edited"}

(* The one file is mutated, and all the others are steady. *)
MutatedAt(w, m) == m \in Files /\ w[m] = "mutated" /\ \A f \in Files \ {m} : w[f] \in {"HEAD", "edited"}

LEMMA NoticesAreFiles ==
    ASSUME task \in Tasks, NEW n \in NamesOf(task)
    PROVE  task.truth[n].notices \subseteq Files
  BY TaskIs DEF NamesOf, Names

LEMMA SaidSteady ==
    ASSUME task \in Tasks, NEW tree, Steady(tree)
    PROVE  SaidOf(tree) = SaidBy(task, side, tree["src"] = "edited")
<1>1. ~ \E f \in Files : tree[f] = "base"
  BY DEF Steady
<1>2. ASSUME NEW n \in NamesOf(task) PROVE ~ \E f \in task.truth[n].notices : tree[f] = "mutated"
  BY NoticesAreFiles, <1>2 DEF Steady
<1>3. ASSUME NEW n \in NamesOf(task)
      PROVE  Outcome(n, tree) = IF side = "base" THEN task.truth[n].base
                          ELSE IF tree["src"] = "edited" THEN task.truth[n].edited ELSE task.truth[n].head
  BY <1>1, <1>2 DEF Outcome
<1> QED
  BY <1>3 DEF SaidOf, SaidBy

LEMMA SaidMutated ==
    ASSUME task \in Tasks, NEW tree, NEW m, MutatedAt(tree, m)
    PROVE  SaidOf(tree) = Under(task, SaidBy(task, side, tree["src"] = "edited"), m)
<1>1. ~ \E f \in Files : tree[f] = "base"
  BY DEF MutatedAt
<1>2. ASSUME NEW n \in NamesOf(task)
      PROVE  (\E f \in task.truth[n].notices : tree[f] = "mutated") <=> m \in task.truth[n].notices
  BY NoticesAreFiles, <1>2 DEF MutatedAt
<1>3. ASSUME NEW n \in NamesOf(task)
      PROVE  LET here == IF side = "base" THEN task.truth[n].base
                         ELSE IF tree["src"] = "edited" THEN task.truth[n].edited ELSE task.truth[n].head
             IN  Outcome(n, tree) = IF here = "pass" /\ m \in task.truth[n].notices THEN "fail" ELSE here
  BY <1>1, <1>2 DEF Outcome
<1> QED
  BY <1>3 DEF SaidOf, SaidBy, Under

LEMMA SaidReverted ==
    ASSUME task \in Tasks, NEW tree, side = "head",
           \E f \in Files : tree[f] = "base", \A f \in Files : tree[f] # "mutated"
    PROVE  SaidOf(tree) = Without(task)
<1>1. ASSUME NEW n \in NamesOf(task) PROVE ~ \E f \in task.truth[n].notices : tree[f] = "mutated"
  BY NoticesAreFiles, <1>1
<1>2. ASSUME NEW n \in NamesOf(task) PROVE Outcome(n, tree) = task.truth[n].without
  BY <1>1 DEF Outcome
<1> QED
  BY <1>2 DEF SaidOf, Without

(* A mutant makes no test come or go. *)
LEMMA HereUnder ==
    ASSUME NEW t, NEW said, NEW m
    PROVE  /\ Here(t, Under(t, said, m)) = Here(t, said)
           /\ Failing(t, said) \subseteq Failing(t, Under(t, said, m))
  BY DEF Here, Failing, Under

LEMMA SaidIs ==
    ASSUME task \in Tasks, NEW edited
    PROVE  /\ \A s : \A n \in NamesOf(task) : SaidBy(task, s, edited)[n] \in Saying
           /\ \A n \in NamesOf(task) : Without(task)[n] \in Saying
  BY TaskIs DEF SaidBy, Without, NamesOf, Names
-----------------------------------------------------------------------------
(* The sequences a suite walks: the mutants of the criteria, and the edits.  *)

Criterion == [witness : STRING, preserves : BOOLEAN, mutant : Files \union {None, Outside},
              subject : Files \union {None}]
Asking    == [witness : STRING, file : Files \union {Outside}]

LEMMA WithMutantIs ==
    ASSUME task \in Tasks
    PROVE  /\ WithMutant \in Seq(Criterion)
           /\ \A c \in Members(WithMutant) : c.mutant \in Files \union {Outside} /\ c.witness \in Witnesses
<1> DEFINE K == Criterion
<1>1. task.acceptance \in Seq(K) /\ Criterias = Members(task.acceptance)
  BY CriteriaAre DEF Criterion, Criterias, Members
<1>2. Derived \in Seq(K) /\ \A c \in Members(Derived) : c.witness \in Witnesses /\ c.mutant = "src"
  <2>1. CASE side = "base"
    BY <2>1 DEF Derived, Members
  <2>2. CASE side # "base"
    <3> DEFINE naming == Selected(task.acceptance, {c \in Criterias : c.witness \in task.constants})
    <3>1. naming \in Seq(K) /\ Members(naming) \subseteq Criterias
      <4> HIDE DEF K
      <4> QED
        BY <1>1, SelectedIs
    <3>2. Derived = [i \in DOMAIN naming |-> [naming[i] EXCEPT !.mutant = "src", !.preserves = FALSE]]
      BY <2>2 DEF Derived
    <3> HIDE DEF naming
    <3>3. DOMAIN naming = 1 .. Len(naming) /\ Len(naming) \in Nat
      BY <3>1
    <3>4. ASSUME NEW i \in DOMAIN naming
          PROVE  /\ [naming[i] EXCEPT !.mutant = "src", !.preserves = FALSE] \in K
                 /\ [naming[i] EXCEPT !.mutant = "src", !.preserves = FALSE].witness \in Witnesses
                 /\ [naming[i] EXCEPT !.mutant = "src", !.preserves = FALSE].mutant = "src"
      <4>1. naming[i] \in K
        <5> HIDE DEF K
        <5> QED
          BY <3>1
      <4>2. naming[i].witness \in Witnesses
        BY <3>1 DEF Members, Witnesses
      <4>3. [naming[i] EXCEPT !.mutant = "src", !.preserves = FALSE] \in K
        BY <4>1 DEF Criterion, Files
      <4> QED
        BY <4>1, <4>2, <4>3 DEF Criterion
    <3>5. Derived \in Seq(K)
      <4> HIDE DEF K
      <4>1. \A i \in 1 .. Len(naming) : [naming[i] EXCEPT !.mutant = "src", !.preserves = FALSE] \in K
        BY <3>3, <3>4
      <4>2. Derived \in [1 .. Len(naming) -> K]
        BY <3>2, <3>3, <4>1
      <4> QED
        BY <3>3, <4>2, SeqDef
    <3>6. \A c \in Members(Derived) : c.witness \in Witnesses /\ c.mutant = "src"
      BY <3>2, <3>4 DEF Members
    <3> QED
      BY <3>5, <3>6
  <2> QED
    BY <2>1, <2>2
<1> DEFINE both == task.acceptance \o Derived
<1>3. both \in Seq(K) /\ Members(both) = Criterias \union Members(Derived)
  <2> HIDE DEF K
  <2> QED
    BY <1>1, <1>2, JoinedMembers
<1>4. WithMutant = Selected(both, Mutants(both))
  BY DEF WithMutant
<1> HIDE DEF both
<1>5. WithMutant \in Seq(K) /\ Members(WithMutant) = Members(both) \intersect Mutants(both)
  <2> HIDE DEF K
  <2> QED
    BY <1>3, <1>4, SelectedIs
<1>6. ASSUME NEW c \in Members(WithMutant)
      PROVE  c.mutant \in Files \union {Outside} /\ c.witness \in Witnesses
  <2>1. c \in Members(both) /\ c.mutant # None
    BY <1>5 DEF Mutants
  <2>2. c \in Criterias \/ c \in Members(Derived)
    BY <1>3, <2>1
  <2>3. CASE c \in Criterias
    BY <2>1, <2>3, CriteriaAre DEF Witnesses
  <2>4. CASE c \in Members(Derived)
    BY <1>2, <2>4 DEF Files
  <2> QED
    BY <2>2, <2>3, <2>4
<1> QED
  BY <1>5, <1>6
-----------------------------------------------------------------------------
(* Where a suite is, and what it has made of the worktree by then. *)

IsDoing(d) ==
    /\ DOMAIN d = {"left", "died", "survived", "subset", "source", "raised", "answer"}
    /\ d.left \in Seq(Criterion) /\ d.source \subseteq Files

IsAsked(a) ==
    /\ DOMAIN a = {"left", "pairs", "answered", "before"}
    /\ a.left \in Seq(Files \union {Outside}) /\ a.pairs \in Seq(Asking)

Shape ==
    /\ task \in Tasks /\ side \in {"base", "head"} /\ faults \in Nat
    /\ work \in [Files -> Marks]
    /\ DOMAIN results = Gates /\ DOMAIN baseline = Gates
    /\ IsDoing(doing) /\ IsAsked(asked)

(* No path the suite walks through is other than it takes it to be, or a     *)
(* gate says that it broke.                                                 *)
Places ==
    /\ pc \in {"declared", "witness", "apply"} => Steady(work)
    /\ pc \in {"apply", "ask"} => Members(doing.left) \subseteq Members(WithMutant)
    /\ pc = "ask" => doing.left # <<>> /\ MutatedAt(work, Head(doing.left).mutant)
    /\ pc = "revert" => Steady(work) \/ results["witness"] = Broke
    /\ pc \in {"checkout", "rerun", "restore"} =>
          /\ side = "head" /\ doing.source = Source /\ Source # {}
          /\ (\A f \in Files \ Source : work[f] \in {"HEAD", "edited"}) \/ results["witness"] = Broke
    /\ pc = "checkout" => \A f \in Source : work[f] = "HEAD"
    /\ pc = "rerun"    => \A f \in Source : work[f] = "base"
    /\ pc = "restore"  => \A f \in Source : work[f] \in {"HEAD", "base"}
    /\ pc = "core"     => Steady(work) \/ results["witness"] = Broke \/ results["revert"] = Broke
    /\ pc = "judged"   => side = "head" /\ (Steady(work) \/ verdict.aborted # {})
    /\ pc \in {"probing", "criteria", "survived"} => side = "head" /\ \A f \in Files : work[f] \in {"HEAD", "mutated"}
    /\ pc = "probing" /\ asked.left # <<>> => work = Clean
    /\ pc = "criteria" /\ asked.pairs # <<>> => work = Clean
    /\ pc = "survived" => asked.pairs # <<>> /\ work = Clean

(* What is edited is the task's, or what its gates leave behind.            *)
EditsBound ==
    \A f \in Files : work[f] = "edited" =>
        f \in {"artifact"} \union (IF side = "base" THEN {} ELSE task.edits)

Placed == Shape /\ Places /\ EditsBound

LEMMA SourceIs ==
    ASSUME task \in Tasks
    PROVE  Source \subseteq Files \ {"note", "artifact"}
  BY TaskIs DEF Source, Changed, Files

(* What a suite takes from its task, it takes throughout. *)
LEMMA FixedWith ==
    ASSUME task' = task, side' = side
    PROVE  /\ WithMutant' = WithMutant /\ Source' = Source /\ Changed' = Changed
           /\ Criterias' = Criterias /\ Witnesses' = Witnesses /\ Preserved' = Preserved
           /\ Aside' = Aside
<1>1. Changed' = Changed /\ Criterias' = Criterias
  BY DEF Changed, Criterias
<1>2. Source' = Source /\ Witnesses' = Witnesses /\ Preserved' = Preserved
  BY <1>1 DEF Source, Witnesses, Preserved
<1>3. Aside' = Aside
  BY <1>1, <1>2 DEF Aside
<1>4. Derived' = Derived
  BY <1>1 DEF Derived
<1>5. WithMutant' = WithMutant
  BY <1>4 DEF WithMutant
<1> QED
  BY <1>1, <1>2, <1>3, <1>5

LEMMA CompleteIs ==
    ASSUME DOMAIN results = Gates
    PROVE  /\ DOMAIN Complete = Gates
           /\ \A g \in {"tests", "lint", "witness", "revert"} : Complete[g] = results[g]
           /\ Complete["committed"] = Committed(Dirty)
           /\ Complete["scope"] = Scope(task, Changed)
           /\ Complete["integrity"] = Integrity(task, Changed)
<1>1. Gates = {"tests", "lint", "scope", "integrity", "size", "witness", "revert", "committed", "census", "criteria"}
  BY DEF Gates, Declared, CoreGates
<1> QED
  BY <1>1 DEF Complete

LEMMA BrokeAborts ==
    ASSUME NEW r, NEW g \in DOMAIN r, r[g] = Broke
    PROVE  Aborted(r) # {}
  BY DEF Aborted, Broke, Result

LEMMA SelectedSeq ==
    ASSUME NEW K, NEW s \in Seq(K), NEW S
    PROVE  Selected(s, S) \in Seq(K)
  BY SelectedIs

LEMMA TailMembers ==
    ASSUME NEW K, NEW s \in Seq(K), s # <<>>
    PROVE  /\ Tail(s) \in Seq(K) /\ Head(s) \in K /\ Head(s) \in Members(s)
           /\ Members(Tail(s)) \subseteq Members(s)
           /\ \A x \in Members(s) : x = Head(s) \/ x \in Members(Tail(s))
<1>1. /\ Tail(s) \in Seq(K) /\ Head(s) \in K /\ Head(s) = s[1] /\ Len(s) \in Nat /\ Len(s) >= 1
      /\ DOMAIN s = 1 .. Len(s) /\ DOMAIN Tail(s) = 1 .. (Len(s) - 1)
      /\ \A i \in 1 .. (Len(s) - 1) : Tail(s)[i] = s[i + 1]
  BY HeadTailProperties
<1>2. ASSUME NEW i \in 1 .. Len(s) PROVE s[i] = Head(s) \/ s[i] \in Members(Tail(s))
  <2>1. CASE i = 1
    BY <1>1, <2>1
  <2>2. CASE i # 1
    <3>1. PICK j \in 1 .. (Len(s) - 1) : i = j + 1
      <4>1. i - 1 \in 1 .. (Len(s) - 1) /\ i = (i - 1) + 1
        BY <1>1, <2>2
      <4> QED
        BY <4>1
    <3> QED
      BY <1>1, <3>1 DEF Members
  <2> QED
    BY <2>1, <2>2
<1>3. ASSUME NEW j \in 1 .. (Len(s) - 1) PROVE Tail(s)[j] \in Members(s)
  <2>1. j + 1 \in 1 .. Len(s)
    BY <1>1
  <2> QED
    BY <1>1, <2>1 DEF Members
<1> QED
  BY <1>1, <1>2, <1>3 DEF Members
LEMMA InitPlaced ==
    ASSUME GateSuiteAssumption, Init
    PROVE  Placed
<1>1. Gates = Declared \union CoreGates
  BY DEF Gates
<1>2. /\ task \in Tasks /\ side = "base" /\ pc = "declared" /\ work = Clean /\ faults = 0
      /\ DOMAIN results = Gates /\ baseline = results /\ doing = Idle
      /\ asked = [left |-> <<>>, pairs |-> <<>>, answered |-> {}, before |-> NotRun]
  BY <1>1 DEF Init
<1>3. IsDoing(doing) /\ IsAsked(asked)
  BY <1>2 DEF IsDoing, IsAsked, Idle
<1>4. work \in [Files -> Marks] /\ \A f \in Files : work[f] = "HEAD"
  BY <1>2 DEF Clean, Marks
<1> QED
  BY <1>2, <1>3, <1>4 DEF Placed, Shape, Places, EditsBound, Steady

LEMMA StutterPlaced ==
    ASSUME Placed, UNCHANGED vars
    PROVE  Placed'
<1>1. WithMutant' = WithMutant /\ Source' = Source
  BY FixedWith DEF vars
<1> QED
  BY <1>1 DEF Placed, Shape, Places, EditsBound, Steady, vars

LEMMA DeclaredPlaced ==
    ASSUME Placed, DeclaredGates
    PROVE  Placed'
<1>1. PICK fate \in [Declared -> Fates] :
        /\ Strike(Strikes(fate["tests"]) + Strikes(fate["lint"]))
        /\ work' = IF side \in task.litter THEN [work EXCEPT !["artifact"] = "edited"] ELSE work
        /\ IF \E g \in Declared : fate[g] = "raised"
           THEN pc' = "raised" /\ UNCHANGED results
           ELSE /\ results' = [results EXCEPT
                     !["tests"] = RunGate(Fated(Answer(work, {}), fate["tests"])),
                     !["lint"]  = RunGate(Fated(Lint, fate["lint"]))]
                /\ pc' = "witness"
  BY DEF DeclaredGates
<1>2. pc = "declared" /\ UNCHANGED <<task, side, baseline, doing, verdict, asked>>
  BY DEF DeclaredGates
<1>3. work' \in [Files -> Marks] /\ Steady(work') /\ pc' \in {"raised", "witness"}
      /\ \A f \in Files : work'[f] = "edited" => f = "artifact" \/ work[f] = "edited"
  BY <1>1, <1>2 DEF Placed, Shape, Places, Steady, Marks, Files
<1>4. DOMAIN results' = Gates /\ faults' \in Nat
  <2>1. DOMAIN results' = Gates
    BY <1>1 DEF Placed, Shape
  <2>2. faults' \in Nat
    BY <1>1 DEF Placed, Shape, Strike, Strikes
  <2> QED
    BY <2>1, <2>2
<1>5. Shape'
  BY <1>2, <1>3, <1>4 DEF Placed, Shape
<1>6. Places'
  BY <1>3 DEF Places
<1>7. EditsBound'
  BY <1>2, <1>3 DEF Placed, EditsBound
<1> QED
  BY <1>5, <1>6, <1>7 DEF Placed

LEMMA OpenWitnessPlaced ==
    ASSUME Placed, OpenWitness
    PROVE  Placed'
<1>1. /\ pc = "witness" /\ UNCHANGED <<task, side, work, baseline, verdict, asked>>
      /\ \/ Answered("witness", Skip, "revert")
         \/ doing' = [Idle EXCEPT !.left = WithMutant] /\ pc' = "apply" /\ UNCHANGED results
      /\ (faults' = faults \/ \E n \in 0 .. ProbeAttempts : Strike(n))
  BY DEF OpenWitness
<1>2. faults' \in Nat
  BY <1>1 DEF Placed, Shape, Strike, ProbeAttempts
<1>3. WithMutant' = WithMutant /\ WithMutant \in Seq(Criterion)
  BY <1>1, FixedWith, WithMutantIs DEF Placed, Shape
<1>4. Steady(work)
  BY <1>1 DEF Placed, Places
<1>5. IsDoing(Idle) /\ IsDoing([Idle EXCEPT !.left = WithMutant])
  <2>1. /\ DOMAIN Idle = {"left", "died", "survived", "subset", "source", "raised", "answer"}
        /\ Idle.source = {} /\ Idle.left = <<>>
    BY DEF Idle
  <2>2. /\ DOMAIN [Idle EXCEPT !.left = WithMutant] = DOMAIN Idle
        /\ [Idle EXCEPT !.left = WithMutant].left = WithMutant
        /\ [Idle EXCEPT !.left = WithMutant].source = Idle.source
    BY <2>1
  <2> QED
    BY <1>3, <2>1, <2>2 DEF IsDoing
<1>6. CASE Answered("witness", Skip, "revert")
  <2>1. DOMAIN results' = Gates /\ pc' = "revert" /\ doing' = Idle
    BY <1>6 DEF Answered, Placed, Shape
  <2> QED
    BY <1>1, <1>2, <1>4, <1>5, <2>1 DEF Placed, Shape, Places, EditsBound, Steady
<1>7. CASE doing' = [Idle EXCEPT !.left = WithMutant] /\ pc' = "apply" /\ UNCHANGED results
  <2>1. doing'.left = WithMutant
    BY <1>7 DEF Idle
  <2> QED
    BY <1>1, <1>2, <1>3, <1>4, <1>5, <1>7, <2>1 DEF Placed, Shape, Places, EditsBound, Steady
<1> QED
  BY <1>1, <1>6, <1>7
(* A criterion passed over, or asked, and the next one's turn.              *)
LEMMA PassedOn ==
    ASSUME Placed, pc \in {"apply", "ask"}, doing.left # <<>>,
           DOMAIN doing' = DOMAIN doing, doing'.left = Tail(doing.left), doing'.source = doing.source,
           UNCHANGED <<task, side>>
    PROVE  IsDoing(doing') /\ Members(doing'.left) \subseteq Members(WithMutant')
<1>1. IsDoing(doing) /\ Members(doing.left) \subseteq Members(WithMutant)
  BY DEF Placed, Shape, Places
<1>2. Tail(doing.left) \in Seq(Criterion) /\ Members(Tail(doing.left)) \subseteq Members(doing.left)
  BY <1>1, TailMembers DEF IsDoing
<1>3. WithMutant' = WithMutant
  BY FixedWith
<1> QED
  BY <1>1, <1>2, <1>3 DEF IsDoing

LEMMA IdleIs == IsDoing(Idle)
  BY DEF Idle, IsDoing

LEMMA AnsweredIs ==
    ASSUME Placed, NEW gate \in Gates, NEW result, NEW next, Answered(gate, result, next)
    PROVE  /\ DOMAIN results' = Gates /\ results'[gate] = result /\ pc' = next /\ doing' = Idle
           /\ \A g \in Gates : g # gate => results'[g] = results[g]
           /\ IsDoing(doing')
  BY IdleIs DEF Answered, Placed, Shape

LEMMA ApplyPlaced ==
    ASSUME Placed, ApplyMutant
    PROVE  Placed'
<1> DEFINE c == Head(doing.left)
           m == c.mutant
<1>1. pc = "apply" /\ doing.left # <<>> /\ UNCHANGED <<task, side, baseline, verdict, asked>>
  BY DEF ApplyMutant
<1>2. Shape /\ Steady(work) /\ IsDoing(doing) /\ Members(doing.left) \subseteq Members(WithMutant)
      /\ WithMutant' = WithMutant /\ EditsBound
  BY <1>1, FixedWith DEF Placed, Shape, Places
<1>3. c \in Members(WithMutant) /\ m \in Files \union {Outside}
  BY <1>1, <1>2, TailMembers, WithMutantIs DEF IsDoing, Shape
<1>4. \/ /\ doing' = [doing EXCEPT !.left = Tail(doing.left)]
         /\ UNCHANGED <<work, results, pc, faults>>
      \/ /\ ~MutantRefused(m) /\ work' = [work EXCEPT ![m] = "mutated"]
         /\ pc' = "ask" /\ UNCHANGED <<doing, results, faults>>
      \/ /\ ~MutantRefused(m) /\ Strike(1)
         /\ (work' = work \/ work' = [work EXCEPT ![m] = "mutated"])
         /\ Answered("witness", Broke, "revert")
  BY <1>1 DEF ApplyMutant
<1>5. ASSUME ~MutantRefused(m)
      PROVE  m \in Files /\ work[m] = "HEAD"
  BY <1>3, <1>5 DEF MutantRefused
<1>6. CASE /\ doing' = [doing EXCEPT !.left = Tail(doing.left)]
           /\ UNCHANGED <<work, results, pc, faults>>
  <2>1. DOMAIN doing' = DOMAIN doing /\ doing'.left = Tail(doing.left) /\ doing'.source = doing.source
    BY <1>2, <1>6 DEF IsDoing
  <2>2. IsDoing(doing') /\ Members(doing'.left) \subseteq Members(WithMutant')
    BY <1>1, <2>1, PassedOn
  <2> QED
    BY <1>1, <1>2, <1>6, <2>2 DEF Placed, Shape, Places, EditsBound, Steady
<1>7. CASE /\ ~MutantRefused(m) /\ work' = [work EXCEPT ![m] = "mutated"]
           /\ pc' = "ask" /\ UNCHANGED <<doing, results, faults>>
  <2>1. m \in Files /\ work[m] = "HEAD"
    BY <1>5, <1>7
  <2>2. work' \in [Files -> Marks] /\ MutatedAt(work', m)
    BY <1>2, <1>7, <2>1 DEF Shape, Marks, MutatedAt, Steady
  <2>3. \A f \in Files : work'[f] = "edited" => work[f] = "edited"
    BY <1>2, <1>7, <2>1 DEF Shape
  <2> HIDE DEF m
  <2>4. MutatedAt(work', Head(doing'.left).mutant)
    BY <1>7, <2>2 DEF m
  <2> QED
    BY <1>1, <1>2, <1>7, <2>2, <2>3, <2>4 DEF Placed, Shape, Places, EditsBound
<1>8. CASE /\ ~MutantRefused(m) /\ Strike(1)
           /\ (work' = work \/ work' = [work EXCEPT ![m] = "mutated"])
           /\ Answered("witness", Broke, "revert")
  <2>1. m \in Files /\ work[m] = "HEAD"
    BY <1>5, <1>8
  <2>2. work' \in [Files -> Marks] /\ \A f \in Files : work'[f] = "edited" => work[f] = "edited"
    BY <1>2, <1>8, <2>1 DEF Shape, Marks
  <2>3. DOMAIN results' = Gates /\ results'["witness"] = Broke /\ pc' = "revert" /\ IsDoing(doing')
    BY <1>8, AnsweredIs DEF Gates, CoreGates
  <2>4. faults' \in Nat
    BY <1>2, <1>8 DEF Shape, Strike
  <2> QED
    BY <1>1, <1>2, <2>2, <2>3, <2>4 DEF Placed, Shape, Places, EditsBound
<1> QED
  BY <1>4, <1>6, <1>7, <1>8

LEMMA AskPlaced ==
    ASSUME Placed, AskWitness
    PROVE  Placed'
<1> DEFINE c == Head(doing.left)
           m == c.mutant
<1>1. pc = "ask" /\ doing.left # <<>> /\ UNCHANGED <<task, side, baseline, verdict, asked>>
  BY DEF AskWitness, Placed, Places
<1>2. Shape /\ MutatedAt(work, m) /\ IsDoing(doing) /\ Members(doing.left) \subseteq Members(WithMutant)
      /\ WithMutant' = WithMutant /\ EditsBound
  BY <1>1, FixedWith DEF Placed, Shape, Places
<1> DEFINE answer(fate) == IF fate = "raised" THEN Broke ELSE RunGate(Fated(Answer(work, {c.witness}), fate))
           asks(ans) == doing' = [doing EXCEPT !.left = Tail(@),
                        !.died = IF ans.status = "fail" THEN @ + 1 ELSE @,
                        !.survived = IF ans.status = "pass"
                            THEN @ (+) SetToBag({Failure(c.witness, "survived-mutant")}) ELSE @]
<1>3. PICK fate \in Fates, undone \in BOOLEAN :
         /\ Strike(Strikes(fate) + (IF undone THEN 0 ELSE 1))
         /\ work' = IF undone THEN [work EXCEPT ![m] = "HEAD"] ELSE work
         /\ IF ~undone \/ answer(fate).status = "error" THEN Answered("witness", Broke, "revert")
            ELSE asks(answer(fate)) /\ pc' = "apply" /\ UNCHANGED results
  BY DEF AskWitness
<1> DEFINE ans == answer(fate)
<1> HIDE DEF answer, c
<1>4. faults' \in Nat
  BY <1>2, <1>3 DEF Shape, Strike, Strikes
<1>5. /\ work' \in [Files -> Marks] /\ \A f \in Files : work'[f] = "edited" => work[f] = "edited"
      /\ undone => Steady(work')
  BY <1>2, <1>3 DEF Shape, Marks, MutatedAt, Steady
<1>6. CASE ~undone \/ ans.status = "error"
  <2>1. DOMAIN results' = Gates /\ results'["witness"] = Broke /\ pc' = "revert" /\ IsDoing(doing')
    BY <1>3, <1>6, AnsweredIs DEF Gates, CoreGates
  <2> QED
    BY <1>1, <1>2, <1>4, <1>5, <2>1 DEF Placed, Shape, Places, EditsBound
<1>7. CASE undone /\ ans.status # "error"
  <2>1. DOMAIN doing' = DOMAIN doing /\ doing'.left = Tail(doing.left) /\ doing'.source = doing.source
        /\ pc' = "apply" /\ UNCHANGED results
    BY <1>2, <1>3, <1>7 DEF IsDoing
  <2>2. IsDoing(doing') /\ Members(doing'.left) \subseteq Members(WithMutant')
    BY <1>1, <2>1, PassedOn
  <2> QED
    BY <1>1, <1>2, <1>4, <1>5, <1>7, <2>1, <2>2 DEF Placed, Shape, Places, EditsBound
<1> QED
  BY <1>6, <1>7

LEMMA CloseWitnessPlaced ==
    ASSUME Placed, CloseWitness
    PROVE  Placed'
<1>1. pc = "apply" /\ UNCHANGED <<task, side, work, faults, baseline, verdict, asked>>
      /\ \E result : Answered("witness", result, "revert")
  BY DEF CloseWitness
<1>2. DOMAIN results' = Gates /\ pc' = "revert" /\ IsDoing(doing')
  BY <1>1, AnsweredIs DEF Gates, CoreGates
<1> QED
  BY <1>1, <1>2 DEF Placed, Shape, Places, EditsBound, Steady

LEMMA OpenRevertPlaced ==
    ASSUME Placed, OpenRevert
    PROVE  Placed'
<1>1. pc = "revert" /\ UNCHANGED <<task, side, work, faults, baseline, verdict, asked>>
      /\ \/ Answered("revert", Skip, "core")
         \/ /\ \E subset : doing' = [Idle EXCEPT !.subset = subset, !.source = Source]
            /\ side # "base" /\ Source # {} /\ Dirty \cap Source = {}
            /\ pc' = "checkout" /\ UNCHANGED results
  BY DEF OpenRevert
<1>2. Source' = Source /\ Source \subseteq Files
  BY <1>1, FixedWith, SourceIs DEF Placed, Shape
<1>3. Steady(work) \/ results["witness"] = Broke
  BY <1>1 DEF Placed, Places
<1>4. CASE Answered("revert", Skip, "core")
  <2>1. DOMAIN results' = Gates /\ pc' = "core" /\ IsDoing(doing') /\ results'["witness"] = results["witness"]
    BY <1>4, AnsweredIs DEF Gates, CoreGates
  <2> QED
    BY <1>1, <1>3, <2>1 DEF Placed, Shape, Places, EditsBound, Steady
<1>5. CASE /\ \E subset : doing' = [Idle EXCEPT !.subset = subset, !.source = Source]
           /\ side # "base" /\ Source # {} /\ Dirty \cap Source = {}
           /\ pc' = "checkout" /\ UNCHANGED results
  <2>1. PICK subset : doing' = [Idle EXCEPT !.subset = subset, !.source = Source]
    BY <1>5
  <2>2. /\ DOMAIN Idle = {"left", "died", "survived", "subset", "source", "raised", "answer"}
        /\ Idle.left = <<>>
    BY DEF Idle
  <2>3. DOMAIN doing' = DOMAIN Idle /\ doing'.left = <<>> /\ doing'.source = Source
    BY <2>1, <2>2
  <2>4. IsDoing(doing')
    BY <1>2, <2>2, <2>3 DEF IsDoing
  <2>5. side = "head" /\ \A f \in Source : work[f] = "HEAD"
    BY <1>2, <1>5 DEF Dirty, Placed, Shape
  <2>6. (\A f \in Files \ Source : work[f] \in {"HEAD", "edited"}) \/ results["witness"] = Broke
    BY <1>3 DEF Steady
  <2> QED
    BY <1>1, <1>2, <1>5, <2>3, <2>4, <2>5, <2>6 DEF Placed, Shape, Places, EditsBound
<1> QED
  BY <1>1, <1>4, <1>5
LEMMA RevertSourcePlaced ==
    ASSUME Placed, RevertSource
    PROVE  Placed'
<1>1. pc = "checkout" /\ UNCHANGED <<task, side, results, baseline, verdict, asked>>
  BY DEF RevertSource
<1>2. /\ Shape /\ IsDoing(doing) /\ EditsBound /\ side = "head" /\ doing.source = Source /\ Source # {}
      /\ (\A f \in Files \ Source : work[f] \in {"HEAD", "edited"}) \/ results["witness"] = Broke
      /\ \A f \in Source : work[f] = "HEAD"
      /\ Source' = Source /\ Source \subseteq Files
  BY <1>1, FixedWith, SourceIs DEF Placed, Shape, Places
<1>3. PICK failing \in {None, "checkout", "rm"}, done \in SUBSET Source :
         /\ failing = None => done = Source
         /\ Strike(IF failing = None THEN 0 ELSE 1)
         /\ work' = [f \in Files |-> IF f \in done THEN "base" ELSE work[f]]
         /\ doing' = [doing EXCEPT !.raised = failing # None]
         /\ pc' = IF failing = None THEN "rerun" ELSE "restore"
  <2>1. PICK failing \in {None, "checkout", "rm"} :
          LET added == doing.source \cap {"mod"}
              done  == CASE failing = None       -> doing.source
                         [] failing = "checkout" -> {}
                         [] failing = "rm"       -> doing.source \ added
          IN /\ failing = "rm" => added # {}
             /\ failing = "checkout" => doing.source # added
             /\ Strike(IF failing = None THEN 0 ELSE 1)
             /\ work' = [f \in Files |-> IF f \in done THEN "base" ELSE work[f]]
             /\ doing' = [doing EXCEPT !.raised = failing # None]
             /\ pc' = IF failing = None THEN "rerun" ELSE "restore"
    BY DEF RevertSource
  <2> DEFINE done == CASE failing = None       -> doing.source
                       [] failing = "checkout" -> {}
                       [] failing = "rm"       -> doing.source \ (doing.source \cap {"mod"})
  <2>2. done \subseteq Source /\ (failing = None => done = Source)
    BY <1>2 DEF None
  <2> QED
    BY <2>1, <2>2
<1>4. faults' \in Nat
  BY <1>2, <1>3 DEF Shape, Strike
<1>5. IsDoing(doing') /\ doing'.source = Source
  BY <1>2, <1>3 DEF IsDoing
<1>6. /\ work' \in [Files -> Marks] /\ \A f \in Files : work'[f] = "edited" => work[f] = "edited"
      /\ \A f \in Source : work'[f] \in {"HEAD", "base"}
      /\ failing = None => \A f \in Source : work'[f] = "base"
      /\ \A f \in Files \ Source : work'[f] = work[f]
  BY <1>2, <1>3 DEF Shape, Marks
<1> QED
  BY <1>1, <1>2, <1>3, <1>4, <1>5, <1>6 DEF Placed, Shape, Places, EditsBound

LEMMA RunRevertedPlaced ==
    ASSUME Placed, RunReverted
    PROVE  Placed'
<1>1. /\ pc = "rerun" /\ pc' = "restore" /\ UNCHANGED <<task, side, work, results, baseline, verdict, asked>>
      /\ \E fate \in Fates : \E answer : Strike(Strikes(fate)) /\ doing' = [doing EXCEPT !.answer = answer]
  BY DEF RunReverted
<1>2. Source' = Source
  BY <1>1, FixedWith
<1>3. faults' \in Nat
  BY <1>1 DEF Placed, Shape, Strike, Strikes
<1>4. IsDoing(doing') /\ doing'.source = doing.source
  BY <1>1 DEF Placed, Shape, IsDoing
<1> QED
  BY <1>1, <1>2, <1>3, <1>4 DEF Placed, Shape, Places, EditsBound

LEMMA RestorePlaced ==
    ASSUME Placed, RestoreSource
    PROVE  Placed'
<1>1. pc = "restore" /\ UNCHANGED <<task, side, baseline, verdict, asked>>
  BY DEF RestoreSource
<1>2. /\ Shape /\ EditsBound /\ side = "head" /\ doing.source = Source
      /\ (\A f \in Files \ Source : work[f] \in {"HEAD", "edited"}) \/ results["witness"] = Broke
      /\ \A f \in Source : work[f] \in {"HEAD", "base"}
  BY <1>1 DEF Placed, Places
<1>3. PICK left \in SUBSET {f \in doing.source : work[f] = "base"} :
        /\ Strike(IF left = {} THEN 0 ELSE 1)
        /\ work' = [f \in Files |-> IF f \in doing.source \ left THEN "HEAD" ELSE work[f]]
        /\ Answered("revert",
             IF doing.raised \/ RestoreRaises(left) THEN Broke
             ELSE RevertVerdict(doing.answer, doing.subset), "core")
  BY DEF RestoreSource
<1>4. faults' \in Nat
  BY <1>2, <1>3 DEF Shape, Strike
<1>5. /\ DOMAIN results' = Gates /\ pc' = "core" /\ IsDoing(doing')
      /\ results'["witness"] = results["witness"]
      /\ left # {} => results'["revert"] = Broke
  <2>1. left # {} => RestoreRaises(left)
    BY DEF RestoreRaises
  <2> QED
    BY <1>3, <2>1, AnsweredIs DEF Gates, CoreGates
<1>6. /\ work' \in [Files -> Marks] /\ \A f \in Files : work'[f] = "edited" => work[f] = "edited"
      /\ left = {} => Steady(work') \/ results["witness"] = Broke
  BY <1>2, <1>3 DEF Shape, Marks, Steady
<1> QED
  BY <1>1, <1>2, <1>4, <1>5, <1>6 DEF Placed, Shape, Places, EditsBound

LEMMA EndBaselinePlaced ==
    ASSUME Placed, EndBaseline
    PROVE  Placed'
<1>1. /\ pc = "core" /\ side = "base" /\ baseline' = Complete
      /\ results' = [g \in DOMAIN results |-> NotRun] /\ UNCHANGED <<task, faults, doing, verdict, asked>>
      /\ IF Aborted(Complete) # {} THEN pc' = "raised" /\ UNCHANGED <<side, work>>
         ELSE side' = "head" /\ pc' = "declared" /\ work' \in HeadTrees
  BY DEF EndBaseline
<1>2. DOMAIN results' = Gates /\ DOMAIN baseline' = Gates
  BY <1>1, CompleteIs DEF Placed, Shape
<1>3. CASE Aborted(Complete) # {}
  BY <1>1, <1>2, <1>3 DEF Placed, Shape, Places, EditsBound
<1>4. CASE Aborted(Complete) = {}
  <2>1. Steady(work) /\ task \in Tasks
    <3>1. results["witness"] # Broke /\ results["revert"] # Broke
      <4>1. DOMAIN Complete = Gates /\ Complete["witness"] = results["witness"]
            /\ Complete["revert"] = results["revert"]
        BY CompleteIs DEF Placed, Shape
      <4> QED
        BY <1>4, <4>1, BrokeAborts DEF Gates, CoreGates
    <3> QED
      BY <1>1, <3>1 DEF Placed, Places, Shape
  <2>2. work' \in [Files -> Marks] /\ Steady(work')
        /\ \A f \in Files : work'[f] = "edited" => work[f] = "edited" \/ f \in task.edits
    BY <1>1, <1>4, <2>1 DEF HeadTrees, Clean, Marks, Placed, Shape, Steady
  <2> QED
    BY <1>1, <1>2, <1>4, <2>2 DEF Placed, Shape, Places, EditsBound
<1> QED
  BY <1>3, <1>4

LEMMA JudgedPlaced ==
    ASSUME Placed, Judged
    PROVE  Placed'
<1>1. /\ pc = "core" /\ side = "head" /\ pc' = "judged" /\ results' = Complete
      /\ verdict' = Compare(Complete, baseline, Advisory(task, EffectiveRisk(task, Changed)))
      /\ UNCHANGED <<task, side, work, faults, baseline, doing, asked>>
  BY DEF Judged
<1>2. DOMAIN results' = Gates
  BY <1>1, CompleteIs DEF Placed, Shape
<1>3. Steady(work) \/ verdict'.aborted # {}
  <2>1. Steady(work) \/ results["witness"] = Broke \/ results["revert"] = Broke
    BY <1>1 DEF Placed, Places
  <2>2. verdict'.aborted = Aborted(Complete)
    BY <1>1 DEF Compare
  <2>3. DOMAIN Complete = Gates /\ Complete["witness"] = results["witness"]
        /\ Complete["revert"] = results["revert"]
    BY CompleteIs DEF Placed, Shape
  <2>4. "witness" \in Gates /\ "revert" \in Gates
    BY DEF Gates, CoreGates
  <2> QED
    BY <2>1, <2>2, <2>3, <2>4, BrokeAborts
<1> QED
  BY <1>1, <1>2, <1>3 DEF Placed, Shape, Places, EditsBound, Steady

LEMMA OpenProbesPlaced ==
    ASSUME Placed, OpenProbes
    PROVE  Placed'
<1>1. pc = "judged" /\ pc' = "probing" /\ UNCHANGED <<task, side, results, baseline, doing, verdict>>
  BY DEF OpenProbes
<1> DEFINE files == Selected(task.probes, {f \in Files : ~Refused(f)})
<1>2. PICK fate \in {"answered", "lost", "raised"} :
         /\ Strike(IF files = <<>> THEN 0 ELSE Strikes(fate))
         /\ work' = Clean
         /\ asked' = [left |-> IF fate = "raised" THEN <<>> ELSE files,
                        pairs |-> task.pairs,
                        answered |-> {Decided(f, "lens", "unproven") :
                            f \in {g \in {task.probes[i] : i \in DOMAIN task.probes} : Refused(g)}}
                            \cup (IF fate = "raised" THEN Unproven(files) ELSE {}),
                        before |-> RunGate(Fated(Answer(Clean, {}), fate))]
  BY DEF OpenProbes
<1>3. files \in Seq(Files \union {Outside}) /\ task.pairs \in Seq(Asking)
  <2> DEFINE K == Files \union {Outside}
  <2>1. task.probes \in Seq(K) /\ task.pairs \in Seq(Asking)
    BY CriteriaAre DEF Placed, Shape, Asking
  <2> HIDE DEF K
  <2>2. files \in Seq(K)
    BY <2>1, SelectedSeq
  <2> QED
    BY <2>1, <2>2 DEF K
<1> HIDE DEF files
<1>4. IsAsked(asked') /\ work' = Clean
  <2>1. <<>> \in Seq(Files \union {Outside})
    OBVIOUS
  <2> QED
    BY <1>2, <1>3, <2>1 DEF IsAsked
<1>5. work' \in [Files -> Marks] /\ \A f \in Files : work'[f] = "HEAD"
  BY <1>4 DEF Clean, Marks
<1>6. faults' \in Nat
  BY <1>2 DEF Placed, Shape, Strike, Strikes
<1>7. side = "head"
  BY <1>1 DEF Placed, Places
<1>8. Shape'
  BY <1>1, <1>4, <1>5, <1>6 DEF Placed, Shape
<1>9. Clean' = Clean
  BY DEF Clean
<1> QED
  BY <1>1, <1>4, <1>5, <1>7, <1>8, <1>9 DEF Placed, Places, EditsBound

(* A probe undone leaves the clean tree, and one that is not leaves nothing  *)
(* more to ask.                                                             *)
LEMMA LensPlaced ==
    ASSUME Placed, LensProbe
    PROVE  Placed'
<1>1. /\ pc = "probing" /\ asked.left # <<>>
      /\ UNCHANGED <<task, side, pc, results, baseline, doing, verdict>>
  BY DEF LensProbe
<1> DEFINE file == Head(asked.left)
           tree == [work EXCEPT ![file] = "mutated"]
<1>2. /\ DOMAIN asked' = DOMAIN asked /\ asked'.pairs = asked.pairs
      /\ \/ asked'.left = Tail(asked.left) /\ work' = work /\ faults' \in Nat
         \/ asked'.left = <<>> /\ work' \in {work, tree} /\ faults' \in Nat
  <2>0. DOMAIN asked = {"left", "pairs", "answered", "before"} /\ faults \in Nat
    BY DEF Placed, Shape, IsAsked
  <2>1. CASE /\ UNCHANGED <<work, faults>>
             /\ asked' = [asked EXCEPT !.left = Tail(@),
                            !.answered = @ \cup {Decided(file, "lens", "unproven")}]
    BY <2>0, <2>1
  <2>2. CASE \E fate \in Fates, undone \in BOOLEAN : \E more :
                /\ Strike(Strikes(fate) + (IF undone THEN 0 ELSE 1))
                /\ work' = IF undone THEN work ELSE tree
                /\ ~undone \/ fate = "raised"
                /\ asked' = [asked EXCEPT !.left = AfterRaise(Tail(@)), !.answered = more]
    <3>1. faults' \in Nat
      BY <2>0, <2>2 DEF Strike, Strikes
    <3> QED
      BY <2>0, <2>2, <3>1 DEF AfterRaise
  <2>3. CASE \E fate \in Fates, undone \in BOOLEAN : \E more :
                /\ Strike(Strikes(fate) + (IF undone THEN 0 ELSE 1))
                /\ work' = IF undone THEN work ELSE tree
                /\ undone
                /\ asked' = [asked EXCEPT !.left = Tail(@), !.answered = more]
    <3>1. faults' \in Nat
      BY <2>0, <2>3 DEF Strike, Strikes
    <3> QED
      BY <2>0, <2>3, <3>1
  <2> QED
    BY <2>1, <2>2, <2>3 DEF LensProbe
<1>3. work = Clean /\ side = "head" /\ Shape /\ IsAsked(asked) /\ EditsBound
  BY <1>1 DEF Placed, Shape, Places
<1>4. IsAsked(asked')
  <2> DEFINE K == Files \union {Outside}
  <2>1. asked.left \in Seq(K)
    BY <1>3 DEF IsAsked
  <2> HIDE DEF K
  <2>2. Tail(asked.left) \in Seq(K) /\ <<>> \in Seq(K)
    BY <1>1, <2>1, TailMembers
  <2> QED
    BY <1>2, <1>3, <2>2 DEF IsAsked, K
<1>5. work' \in [Files -> Marks] /\ \A f \in Files : work'[f] \in {"HEAD", "mutated"}
  BY <1>2, <1>3 DEF Clean, Marks
<1>6. asked'.left # <<>> => work' = Clean
  BY <1>2, <1>3
<1>7. Shape' /\ Clean' = Clean
  BY <1>1, <1>2, <1>3, <1>4, <1>5 DEF Shape, Clean
<1> QED
  BY <1>1, <1>3, <1>5, <1>6, <1>7 DEF Placed, Places, EditsBound

LEMMA OpenCriterionProbesPlaced ==
    ASSUME Placed, OpenCriterionProbes
    PROVE  Placed'
<1>1. /\ pc = "probing" /\ asked.left = <<>> /\ pc' = "criteria" /\ work' = Clean
      /\ UNCHANGED <<task, side, results, baseline, doing, verdict>>
  BY DEF OpenCriterionProbes
<1>2. \E S : \E entered \in BOOLEAN :
        /\ Strike(IF entered THEN 0 ELSE 1)
        /\ asked' = [asked EXCEPT !.pairs = IF entered THEN Selected(@, S) ELSE <<>>]
  BY DEF OpenCriterionProbes
<1>3. side = "head" /\ Shape /\ IsAsked(asked)
  BY <1>1 DEF Placed, Shape, Places
<1>4. IsAsked(asked') /\ faults' \in Nat
  <2>1. PICK S : \E entered \in BOOLEAN :
        /\ Strike(IF entered THEN 0 ELSE 1)
        /\ asked' = [asked EXCEPT !.pairs = IF entered THEN Selected(@, S) ELSE <<>>]
    BY <1>2
  <2>2. asked.pairs \in Seq(Asking) /\ <<>> \in Seq(Asking)
    BY <1>3 DEF IsAsked
  <2>3. Selected(asked.pairs, S) \in Seq(Asking)
    BY <2>2, SelectedSeq
  <2>4. faults' \in Nat
    BY <1>3, <2>1 DEF Strike, Shape
  <2> QED
    BY <1>3, <2>1, <2>2, <2>3, <2>4 DEF IsAsked
<1>5. work' \in [Files -> Marks] /\ (\A f \in Files : work'[f] = "HEAD") /\ Clean' = Clean
  BY <1>1 DEF Clean, Marks
<1>6. Shape'
  BY <1>1, <1>3, <1>4, <1>5 DEF Shape
<1> QED
  BY <1>1, <1>3, <1>5, <1>6 DEF Placed, Places, EditsBound

LEMMA CriterionPlaced ==
    ASSUME Placed, CriterionProbe
    PROVE  Placed'
<1>1. /\ pc = "criteria" /\ asked.pairs # <<>>
      /\ UNCHANGED <<task, side, results, baseline, doing, verdict>>
  BY DEF CriterionProbe
<1> DEFINE pair == Head(asked.pairs)
           tree == [work EXCEPT ![pair.file] = "mutated"]
           says(answer) == [asked EXCEPT
                              !.pairs = IF answer = "survived" THEN @ ELSE Tail(@),
                              !.answered = @ \cup {Decided(pair.file, pair.witness, answer)}]
<1>2. \/ asked' = says("unproven") /\ UNCHANGED <<pc, work, faults>>
      \/ \E fate \in Fates, undone \in BOOLEAN :
                /\ Strike(Strikes(fate) + (IF undone THEN 0 ELSE 1))
                /\ work' = IF undone THEN work ELSE tree
                /\ \/ /\ ~undone \/ fate = "raised"
                      /\ asked' = [says("error") EXCEPT !.pairs = AfterRaise(@)] /\ pc' = pc
                   \/ /\ undone
                      /\ \E answer : /\ asked' = says(answer)
                                     /\ pc' = IF answer = "survived" THEN "survived" ELSE pc
  BY DEF CriterionProbe
<1>3. work = Clean /\ side = "head" /\ Shape /\ IsAsked(asked) /\ EditsBound
  BY <1>1 DEF Placed, Shape, Places
<1>4. /\ DOMAIN asked' = DOMAIN asked /\ asked'.left = asked.left /\ faults' \in Nat
      /\ \/ asked'.pairs = Tail(asked.pairs) /\ work' = work /\ pc' = pc
         \/ asked'.pairs = asked.pairs /\ work' = work /\ pc' = "survived"
         \/ asked'.pairs = <<>> /\ work' \in {work, tree} /\ pc' = pc
  <2>0. DOMAIN asked = {"left", "pairs", "answered", "before"} /\ faults \in Nat
    BY <1>3 DEF Shape, IsAsked
  <2>1. \A answer :
           /\ DOMAIN says(answer) = DOMAIN asked /\ says(answer).left = asked.left
           /\ says(answer).pairs = IF answer = "survived" THEN asked.pairs ELSE Tail(asked.pairs)
    BY <2>0
  <2> HIDE DEF says
  <2>2. CASE asked' = says("unproven") /\ UNCHANGED <<pc, work, faults>>
    BY <2>0, <2>1, <2>2
  <2>3. CASE \E fate \in Fates, undone \in BOOLEAN :
                /\ Strike(Strikes(fate) + (IF undone THEN 0 ELSE 1))
                /\ work' = IF undone THEN work ELSE tree
                /\ \/ /\ ~undone \/ fate = "raised"
                      /\ asked' = [says("error") EXCEPT !.pairs = AfterRaise(@)] /\ pc' = pc
                   \/ /\ undone
                      /\ \E answer : /\ asked' = says(answer)
                                     /\ pc' = IF answer = "survived" THEN "survived" ELSE pc
    <3>1. PICK fate \in Fates, undone \in BOOLEAN :
                /\ Strike(Strikes(fate) + (IF undone THEN 0 ELSE 1))
                /\ work' = IF undone THEN work ELSE tree
                /\ \/ /\ ~undone \/ fate = "raised"
                      /\ asked' = [says("error") EXCEPT !.pairs = AfterRaise(@)] /\ pc' = pc
                   \/ /\ undone
                      /\ \E answer : /\ asked' = says(answer)
                                     /\ pc' = IF answer = "survived" THEN "survived" ELSE pc
      BY <2>3
    <3>2. faults' \in Nat
      BY <2>0, <3>1 DEF Strike, Strikes
    <3>3. CASE asked' = [says("error") EXCEPT !.pairs = AfterRaise(@)] /\ pc' = pc
      <4>1. asked' = [says("error") EXCEPT !.pairs = <<>>]
        BY <3>3 DEF AfterRaise
      <4>2. /\ DOMAIN asked' = DOMAIN asked /\ asked'.left = asked.left /\ asked'.pairs = <<>>
        BY <2>0, <2>1, <4>1
      <4> QED
        BY <3>1, <3>2, <3>3, <4>2
    <3>4. CASE /\ undone
               /\ \E answer : /\ asked' = says(answer)
                              /\ pc' = IF answer = "survived" THEN "survived" ELSE pc
      <4>1. PICK answer : /\ asked' = says(answer)
                          /\ pc' = IF answer = "survived" THEN "survived" ELSE pc
        BY <3>4
      <4> QED
        BY <2>1, <3>1, <3>2, <3>4, <4>1
    <3> QED
      BY <3>1, <3>3, <3>4
  <2> QED
    BY <1>2, <2>2, <2>3
<1>5. IsAsked(asked')
  <2>1. asked.pairs \in Seq(Asking)
    BY <1>3 DEF IsAsked
  <2>2. Tail(asked.pairs) \in Seq(Asking) /\ <<>> \in Seq(Asking)
    BY <1>1, <2>1, TailMembers
  <2> QED
    BY <1>3, <1>4, <2>2 DEF IsAsked
<1>6. work' \in [Files -> Marks] /\ \A f \in Files : work'[f] \in {"HEAD", "mutated"}
  BY <1>3, <1>4 DEF Clean, Marks
<1>7. /\ pc' \in {"criteria", "survived"} /\ (asked'.pairs # <<>> => work' = Clean)
      /\ pc' = "survived" => asked'.pairs # <<>>
  BY <1>1, <1>3, <1>4
<1>8. Shape' /\ Clean' = Clean
  BY <1>1, <1>3, <1>4, <1>5, <1>6 DEF Shape, Clean
<1> QED
  BY <1>1, <1>3, <1>6, <1>7, <1>8 DEF Placed, Places, EditsBound

LEMMA SuitePlaced ==
    ASSUME Placed, SuiteProbe
    PROVE  Placed'
<1>1. /\ pc = "survived" /\ pc' = "criteria"
      /\ UNCHANGED <<task, side, results, baseline, doing, verdict>>
  BY DEF SuiteProbe
<1> DEFINE pair == Head(asked.pairs)
           tree == [work EXCEPT ![pair.file] = "mutated"]
<1>2. /\ work = Clean /\ side = "head" /\ Shape /\ IsAsked(asked) /\ EditsBound
      /\ asked.pairs # <<>>
  BY <1>1 DEF Placed, Shape, Places
<1>3. \E more :
         \/ asked' = [asked EXCEPT !.pairs = <<>>, !.answered = more] /\ work' = work /\ Strike(1)
         \/ \E fate \in Fates, undone \in BOOLEAN :
               /\ Strike(Strikes(fate) + (IF undone THEN 0 ELSE 1))
               /\ work' = IF undone THEN work ELSE tree
               /\ \/ asked' = [asked EXCEPT !.pairs = <<>>]
                  \/ undone /\ asked' = [asked EXCEPT !.pairs = Tail(@), !.answered = more]
  BY DEF SuiteProbe, AfterRaise
<1>4. /\ DOMAIN asked' = DOMAIN asked /\ asked'.left = asked.left /\ faults' \in Nat
      /\ \/ asked'.pairs = Tail(asked.pairs) /\ work' = work
         \/ asked'.pairs = <<>> /\ work' \in {work, tree}
  <2>0. DOMAIN asked = {"left", "pairs", "answered", "before"} /\ faults \in Nat
    BY <1>2 DEF Shape, IsAsked
  <2>1. PICK more :
         \/ asked' = [asked EXCEPT !.pairs = <<>>, !.answered = more] /\ work' = work /\ Strike(1)
         \/ \E fate \in Fates, undone \in BOOLEAN :
               /\ Strike(Strikes(fate) + (IF undone THEN 0 ELSE 1))
               /\ work' = IF undone THEN work ELSE tree
               /\ \/ asked' = [asked EXCEPT !.pairs = <<>>]
                  \/ undone /\ asked' = [asked EXCEPT !.pairs = Tail(@), !.answered = more]
    BY <1>3
  <2>2. faults' \in Nat
    BY <2>0, <2>1 DEF Strike, Strikes
  <2> HIDE DEF tree
  <2> QED
    BY <2>0, <2>1, <2>2
<1>5. IsAsked(asked')
  <2>1. asked.pairs \in Seq(Asking)
    BY <1>2 DEF IsAsked
  <2>2. Tail(asked.pairs) \in Seq(Asking) /\ <<>> \in Seq(Asking)
    BY <1>2, <2>1, TailMembers
  <2> QED
    BY <1>2, <1>4, <2>2 DEF IsAsked
<1>6. work' \in [Files -> Marks] /\ \A f \in Files : work'[f] \in {"HEAD", "mutated"}
  BY <1>2, <1>4 DEF Clean, Marks
<1>7. asked'.pairs # <<>> => work' = Clean
  BY <1>2, <1>4
<1>8. Shape' /\ Clean' = Clean
  BY <1>1, <1>2, <1>4, <1>5, <1>6 DEF Shape, Clean
<1> QED
  BY <1>1, <1>2, <1>6, <1>7, <1>8 DEF Placed, Places, EditsBound

LEMMA NextPlaced ==
    ASSUME Placed, [Next]_vars
    PROVE  Placed'
  BY StutterPlaced, DeclaredPlaced, OpenWitnessPlaced, ApplyPlaced, AskPlaced, CloseWitnessPlaced,
     OpenRevertPlaced, RevertSourcePlaced, RunRevertedPlaced, RestorePlaced, EndBaselinePlaced,
     JudgedPlaced, OpenProbesPlaced, LensPlaced, OpenCriterionProbesPlaced, CriterionPlaced,
     SuitePlaced DEF Next

(* A suite is always where it takes itself to be, and the worktree with it:  *)
(* what no gate has broken on is as the agent left it, bar the one mutant   *)
(* that is being asked about and the source that is being taken back.       *)
THEOREM PlacedHolds == Spec => []Placed
<1>1. Init => Placed
  BY InitPlaced, GateSuiteAssumption
<1>2. Placed /\ [Next]_vars => Placed'
  BY NextPlaced
<1> QED
  BY <1>1, <1>2, PTL DEF Spec

Stands == pc \notin {"core", "judged"} => \A f \in Files : work[f] = "edited" => work'[f] = "edited"

LEMMA NextStands ==
    ASSUME Placed, [Next]_vars
    PROVE  Stands
<1> USE DEF Stands
<1>0. work \in [Files -> Marks]
  BY DEF Placed, Shape
<1>1. ASSUME work' = work PROVE Stands
  BY <1>1
<1>2. ASSUME NEW m, work[m] # "edited", NEW v, work' = [work EXCEPT ![m] = v]
      PROVE  Stands
  BY <1>0, <1>2
<1>3. CASE UNCHANGED vars
  BY <1>1, <1>3 DEF vars
<1>4. CASE DeclaredGates
  BY <1>0, <1>4 DEF DeclaredGates
<1>5. CASE OpenWitness \/ CloseWitness \/ OpenRevert \/ RunReverted
  BY <1>1, <1>5 DEF OpenWitness, CloseWitness, OpenRevert, RunReverted
<1>6. CASE ApplyMutant
  <2> DEFINE m == Head(doing.left).mutant
  <2>1. work' = work \/ (~MutantRefused(m) /\ work' = [work EXCEPT ![m] = "mutated"])
    BY <1>6 DEF ApplyMutant
  <2>2. ~MutantRefused(m) => work[m] = "HEAD"
    BY DEF MutantRefused
  <2> HIDE DEF m
  <2> QED
    BY <1>1, <1>2, <2>1, <2>2
<1>7. CASE AskWitness
  <2> DEFINE m == Head(doing.left).mutant
  <2>1. pc = "ask" /\ (work' = work \/ work' = [work EXCEPT ![m] = "HEAD"])
    BY <1>7 DEF AskWitness
  <2>2. work[m] = "mutated"
    BY <2>1 DEF Placed, Places, MutatedAt
  <2> HIDE DEF m
  <2> QED
    BY <1>1, <1>2, <2>1, <2>2
<1>8. CASE RevertSource
  <2>1. pc = "checkout" /\ \E done \in SUBSET doing.source :
          work' = [f \in Files |-> IF f \in done THEN "base" ELSE work[f]]
    BY <1>8 DEF RevertSource, None
  <2>2. \A f \in doing.source : work[f] = "HEAD"
    BY <2>1 DEF Placed, Places
  <2> QED
    BY <2>1, <2>2
<1>9. CASE RestoreSource
  <2>1. pc = "restore" /\ \E done \in SUBSET doing.source :
          work' = [f \in Files |-> IF f \in done THEN "HEAD" ELSE work[f]]
    BY <1>9 DEF RestoreSource
  <2>2. \A f \in doing.source : work[f] \in {"HEAD", "base"}
    BY <2>1 DEF Placed, Places
  <2> QED
    BY <2>1, <2>2
<1>10. CASE EndBaseline \/ Judged \/ OpenProbes
  BY <1>10 DEF EndBaseline, Judged, OpenProbes
<1>11. CASE LensProbe \/ OpenCriterionProbes \/ CriterionProbe \/ SuiteProbe
  <2>1. pc \in {"probing", "criteria", "survived"}
    BY <1>11 DEF LensProbe, OpenCriterionProbes, CriterionProbe, SuiteProbe
  <2>2. \A f \in Files : work[f] \in {"HEAD", "mutated"}
    BY <2>1 DEF Placed, Places
  <2> QED
    BY <2>2
<1> QED
  BY <1>3, <1>4, <1>5, <1>6, <1>7, <1>8, <1>9, <1>10, <1>11 DEF Next

(* No step of a suite overwrites work the agent has not committed: a mutant  *)
(* is written only on a file that is at HEAD, and undone only where it was   *)
(* written; revert takes back no source that is dirty; a probe has a cell of *)
(* its own.                                                                 *)
THEOREM EditsStandHolds == Spec => EditsStand
<1>1. Placed /\ [Next]_vars => [Stands]_vars
  BY NextStands
<1> QED
  BY <1>1, PlacedHolds, PTL DEF Spec, EditsStand, Stands
-----------------------------------------------------------------------------
(* What is known by then of what the tests say. *)

Said     == SaidBy(task, side, work["src"] = "edited")
BaseSaid == SaidBy(task, "base", FALSE)
HeadSaid == SaidBy(task, "head", FALSE)

Answering == faults = 0 /\ Readable /\ task.runner.subset = "honoured"

Past == {"revert", "checkout", "rerun", "restore", "core", "judged"}

(* The whole suite spoke of the tree as it is, bar what its gates change.   *)
Testimony ==
    /\ \A g \in Gates \ {"tests"} :
          results[g].collected = Unreported /\ baseline[g].collected = Unreported
    /\ pc \in {"witness", "apply", "ask"} \union Past =>
          \/ results["tests"] = Broke
          \/ Reads(task, results["tests"], Said, Here(task, Said) \union Strays(task, side))
    /\ pc = "core" /\ side = "base" => results["revert"] = Skip
    /\ side = "head" =>
          /\ Reads(task, baseline["tests"], BaseSaid, Here(task, BaseSaid))
          /\ \A g \in {"census", "criteria", "revert"} : baseline[g] = Skip
          /\ baseline["committed"].failures \in
                {SetToBag(S) : S \in SUBSET {Failure("artifact", "uncommitted-change")}}

(* MutantRefused, of the tree without a mutant. *)
Unmutable(file) ==
    \/ file \in {Outside, "note", "artifact"}
    \/ file = IF side = "base" THEN "mod" ELSE "del"
    \/ work[file] = "edited"
    \/ side \notin task.finds

Settled(c) ==
    c.witness \in NamesOf(task) /\ Said[c.witness] = "pass" =>
        Unmutable(c.mutant) \/ Notices(c.witness, c.mutant)

Survivors(failures) ==
    \A f \in DOMAIN failures :
        /\ failures[f] \in Nat \ {0} /\ f.code = "survived-mutant"
        /\ \E c \in Members(WithMutant) : c.witness = f.file /\ ~Notices(c.witness, c.mutant)

(* Who survived is a witness that does not notice its mutant, and who is     *)
(* neither to come nor a survivor noticed it, or could not be asked.        *)
Walk ==
    /\ pc \in {"apply", "ask"} =>
          /\ Survivors(doing.survived)
          /\ Answering => \/ results["tests"] = Broke \/ DOMAIN doing.survived # {}
                          \/ \A c \in Members(WithMutant) : c \in Members(doing.left) \/ Settled(c)
    /\ pc = "ask" => Head(doing.left).witness \in results["tests"].collected
    /\ pc \in Past =>
          /\ Survivors(results["witness"].failures)
          /\ Answering => \/ results["tests"] = Broke \/ results["witness"] = Broke
                          \/ DOMAIN results["witness"].failures # {}
                          \/ \A c \in Members(WithMutant) : Settled(c)

Claimed == {n \in NamesOf(task) : Claims(n)}

(* The reverted run was asked of what is claimed, and told of the tree       *)
(* without its source.                                                      *)
Reverting ==
    /\ pc \in {"checkout", "rerun", "restore"} =>
          doing.subset = Claimed /\ task.runner.enumerates /\ results["tests"] # Broke
    /\ pc = "rerun" => ~doing.raised
    /\ pc = "restore" /\ doing.raised => faults # 0
    /\ pc = "restore" /\ ~doing.raised /\ results["witness"] # Broke =>
          /\ \/ doing.answer = NotRun
             \/ Heard(task, side, doing.answer, Without(task), doing.subset)
          /\ Answering =>
                \/ Breaks(task, side, Without(task), doing.subset)
                \/ /\ Reads(task, doing.answer, Without(task),
                            RanOf(task, side, Without(task), doing.subset))
                   /\ doing.answer.uncollected = Listed(task, Without(task), doing.subset)
    /\ pc \in {"core", "judged"} /\ side = "head"
          /\ results["witness"] # Broke /\ results["revert"] # Broke =>
          /\ \A f \in DOMAIN results["revert"].failures :
                /\ results["revert"].failures[f] \in Nat \ {0}
                /\ f.file \in Claimed /\ Without(task)[f.file] = "pass"
          /\ Answering /\ results["tests"] # Broke /\ task.testPaths # {} /\ Source # {}
                /\ (\A f \in Source : work[f] # "edited") =>
                \/ ~task.runner.lists /\ \E n \in Claimed : Without(task)[n] = "gone"
                \/ DOMAIN results["revert"].failures # {}
                \/ \A n \in Claimed : Without(task)[n] # "pass"

Judgement ==
    pc = "judged" =>
        /\ verdict = Compare(results, baseline, Advisory(task, EffectiveRisk(task, Changed)))
        /\ results["committed"] = Committed(Dirty)
        /\ results["census"] = Census(baseline, results)
        /\ results["criteria"] = Criteria(Criterias, baseline, results)

(* The probes' head is the exported patch, on which every witness passes,    *)
(* and which the suite that was judged ran on.                              *)
Probing ==
    /\ pc \in {"probing", "criteria", "survived"} =>
          /\ Members(asked.left) \subseteq {f \in Files : ~Refused(f)}
          /\ \A p \in Members(asked.pairs) :
                p.witness \in Witnesses /\ (pc # "probing" => ~Refused(p.file))
          /\ \/ asked.before = Broke
             \/ Reads(task, asked.before, HeadSaid, Here(task, HeadSaid) \union Strays(task, "head"))
          /\ Reads(task, results["tests"], HeadSaid, Here(task, HeadSaid) \union Strays(task, "head"))
          /\ Readable => \A n \in Witnesses : n \in NamesOf(task) /\ HeadSaid[n] = "pass"
    /\ pc \notin {"probing", "criteria", "survived"} => asked.answered = {}
    /\ ProbeSaysWhatItSaw

Inv == Placed /\ Testimony /\ Walk /\ Reverting /\ Judgement /\ Probing

(* No gate between the declared ones and the verdict makes or unmakes an     *)
(* edit, so what the suite's tree says it says to the end.                  *)
EditsSame ==
    /\ UNCHANGED <<task, side>>
    /\ \A f \in Files : work'[f] = "edited" <=> work[f] = "edited"

LEMMA Same ==
    ASSUME EditsSame
    PROVE  /\ Said' = Said /\ Claimed' = Claimed
           /\ \A c : c.mutant \in Files \union {Outside} => (Settled(c)' <=> Settled(c))
           /\ \A b : Survivors(b)' <=> Survivors(b)
           /\ Readable' <=> Readable
<1>1. work'["src"] = "edited" <=> work["src"] = "edited"
  BY DEF EditsSame, Files
<1>2. Said' = Said
  <2>1. SaidBy(task', side', work'["src"] = "edited") = SaidBy(task, side, work["src"] = "edited")
    <3>1. task' = task /\ side' = side
      BY DEF EditsSame
    <3>2. (work'["src"] = "edited") = (work["src"] = "edited")
      BY <1>1
    <3> QED
      BY <3>1, <3>2
  <2> QED
    BY <2>1 DEF Said
<1>3. \A c : c.mutant \in Files \union {Outside} => (Settled(c)' <=> Settled(c))
  BY <1>2 DEF EditsSame, Settled, Unmutable, Notices
<1>4. \A b : Survivors(b)' <=> Survivors(b)
  <2>1. WithMutant' = WithMutant
    BY FixedWith DEF EditsSame
  <2> QED
    BY <2>1 DEF Survivors, Notices, EditsSame
<1>5. Claimed' = Claimed
  <2>1. Witnesses' = Witnesses /\ Preserved' = Preserved /\ Aside' = Aside
    BY FixedWith DEF EditsSame
  <2>2. \A n : Claims(n)' <=> Claims(n)
    BY <1>1, <2>1 DEF EditsSame, Claims, HeadSays, Says
  <2> QED
    BY <2>2 DEF Claimed, EditsSame
<1>6. Readable' <=> Readable
  BY DEF Readable, EditsSame
<1> QED
  BY <1>2, <1>3, <1>4, <1>5, <1>6

(* A gate that answers, or none: what was heard of the whole suite stands.  *)
LEMMA TestimonyKept ==
    ASSUME Testimony, EditsSame, UNCHANGED baseline, pc \in {"witness", "apply", "ask"} \union Past,
           results'["tests"] = results["tests"],
           \A g \in Gates \ {"tests"} : results'[g] = results[g] \/ results'[g].collected = Unreported,
           pc' = "core" /\ side = "base" => results'["revert"] = Skip
    PROVE  Testimony'
<1>1. Said' = Said /\ task' = task /\ side' = side /\ BaseSaid' = BaseSaid
  BY Same DEF EditsSame, BaseSaid
<1> QED
  BY <1>1 DEF Testimony

LEMMA ProbingKept ==
    ASSUME Probing, pc \notin {"probing", "criteria", "survived"}, pc' \notin {"probing", "criteria", "survived"}, UNCHANGED asked
    PROVE  Probing'
<1>1. asked'.answered = {}
  BY DEF Probing
<1> QED
  BY <1>1 DEF Probing, ProbeSaysWhatItSaw
LEMMA MidEdits ==
    ASSUME Placed,
           \/ OpenWitness \/ ApplyMutant \/ AskWitness \/ CloseWitness
           \/ OpenRevert \/ RevertSource \/ RunReverted \/ RestoreSource \/ Judged
    PROVE  EditsSame
<1>0. work \in [Files -> Marks] /\ UNCHANGED <<task, side>>
  BY DEF Placed, Shape, OpenWitness, ApplyMutant, AskWitness, CloseWitness, OpenRevert, RevertSource,
         RunReverted, RestoreSource, Judged
<1>1. CASE work' = work
  BY <1>0, <1>1 DEF EditsSame
<1>2. CASE work' # work
  <2>1. ~Judged
    BY <1>2 DEF Judged
  <2>2. pc \notin {"core", "judged"}
    BY <1>2, <2>1 DEF OpenWitness, ApplyMutant, AskWitness, CloseWitness, OpenRevert, RevertSource,
         RunReverted, RestoreSource
  <2>3. \A f \in Files : work[f] = "edited" => work'[f] = "edited"
    BY <2>1, <2>2, NextStands DEF Next, Stands
  <2>4. \A f \in Files : work'[f] = "edited" => work[f] = "edited"
    <3>1. CASE ApplyMutant
      <4> DEFINE m == Head(doing.left).mutant
      <4>1. work' = work \/ work' = [work EXCEPT ![m] = "mutated"]
        BY <3>1 DEF ApplyMutant
      <4> HIDE DEF m
      <4> QED
        BY <1>0, <4>1
    <3>2. CASE AskWitness
      <4> DEFINE m == Head(doing.left).mutant
      <4>1. work' = work \/ work' = [work EXCEPT ![m] = "HEAD"]
        BY <3>2 DEF AskWitness
      <4> HIDE DEF m
      <4> QED
        BY <1>0, <4>1
    <3>3. CASE RevertSource
      <4>1. \E done : work' = [f \in Files |-> IF f \in done THEN "base" ELSE work[f]]
        BY <3>3 DEF RevertSource
      <4> QED
        BY <4>1
    <3>4. CASE RestoreSource
      <4>1. \E done : work' = [f \in Files |-> IF f \in done THEN "HEAD" ELSE work[f]]
        BY <3>4 DEF RestoreSource
      <4> QED
        BY <4>1
    <3> QED
      BY <1>2, <2>1, <3>1, <3>2, <3>3, <3>4 DEF OpenWitness, CloseWitness, OpenRevert, RunReverted
  <2> QED
    BY <1>0, <2>3, <2>4 DEF EditsSame
<1> QED
  BY <1>1, <1>2

LEMMA StrikeFree ==
    ASSUME faults \in Nat, NEW n \in Nat, Strike(n), faults' = 0
    PROVE  faults = 0 /\ n = 0
  BY DEF Strike

(* What is said of a witness that the whole suite collected.                *)
LEMMA CollectedSays ==
    ASSUME Placed, Testimony, pc \in {"witness", "apply", "ask"} \union Past, NEW n \in NamesOf(task),
           n \in results["tests"].collected
    PROVE  results["tests"] # Broke /\ task.runner.enumerates /\ n \in Here(task, Said)
<1>1. n # Stray /\ n \notin Unreported
  BY TaskIs DEF Placed, Shape, NamesOf, Names
<1>2. results["tests"] # Broke
  BY <1>1 DEF Broke, Result
<1>3. Reads(task, results["tests"], Said, Here(task, Said) \union Strays(task, side))
  BY <1>2 DEF Testimony
<1> QED
  BY <1>1, <1>2, <1>3 DEF Reads, Strays

LEMMA InitInv ==
    ASSUME GateSuiteAssumption, Init
    PROVE  Inv
<1>1. Placed
  BY InitPlaced
<1>2. pc = "declared" /\ side = "base" /\ DOMAIN results = Gates /\ baseline = results
      /\ \A g \in Gates : results[g] = NotRun
  BY DEF Init, Gates
<1>3. NotRun.collected = Unreported
  BY DEF NotRun, Result
<1>4. Testimony
  BY <1>2, <1>3 DEF Testimony, Past
<1>5. asked.answered = {}
  BY DEF Init
<1>6. Probing
  BY <1>2, <1>5 DEF Probing, ProbeSaysWhatItSaw
<1> QED
  BY <1>1, <1>2, <1>4, <1>6 DEF Inv, Walk, Reverting, Judgement, Past

LEMMA DeclaredInv ==
    ASSUME Inv, DeclaredGates
    PROVE  Inv'
<1>1. Placed' /\ Placed /\ task \in Tasks /\ Steady(work) /\ pc = "declared"
      /\ UNCHANGED <<task, side, baseline, doing, verdict, asked>>
  BY DeclaredPlaced DEF Inv, Placed, Shape, Places, DeclaredGates
<1>2. PICK fate \in [Declared -> Fates] :
        /\ work' = IF side \in task.litter THEN [work EXCEPT !["artifact"] = "edited"] ELSE work
        /\ IF \E g \in Declared : fate[g] = "raised"
           THEN pc' = "raised" /\ UNCHANGED results
           ELSE /\ results' = [results EXCEPT
                     !["tests"] = RunGate(Fated(Answer(work, {}), fate["tests"])),
                     !["lint"]  = RunGate(Fated(Lint, fate["lint"]))]
                /\ pc' = "witness"
  BY DEF DeclaredGates
<1>3. Said' = Said
  <2>1. work'["src"] = work["src"]
    BY <1>2
  <2> QED
    BY <1>1, <2>1 DEF Said
<1>4. CASE pc' = "raised" /\ UNCHANGED results
  <2>1. Testimony'
    BY <1>1, <1>4 DEF Inv, Testimony, Past, BaseSaid
  <2>2. Probing'
    BY <1>1, <1>4, ProbingKept DEF Inv
  <2> QED
    BY <1>1, <1>4, <2>1, <2>2 DEF Inv, Walk, Reverting, Judgement, Past
<1>5. CASE /\ pc' = "witness"
           /\ results' = [results EXCEPT
                     !["tests"] = RunGate(Fated(Answer(work, {}), fate["tests"])),
                     !["lint"]  = RunGate(Fated(Lint, fate["lint"]))]
  <2>1. /\ results'["tests"] = RunGate(Fated(Answer(work, {}), fate["tests"]))
        /\ results'["lint"] = RunGate(Fated(Lint, fate["lint"]))
        /\ \A g \in Gates \ {"tests", "lint"} : results'[g] = results[g]
    <3>1. DOMAIN results = Gates /\ "tests" \in Gates /\ "lint" \in Gates
      BY <1>1 DEF Placed, Shape, Gates, Declared
    <3> QED
      BY <1>5, <3>1
  <2>2. Heard(task, side, results'["tests"], Said, {})
    <3>1. SaidOf(work) = Said
      BY <1>1, SaidSteady DEF Said
    <3> QED
      BY <1>1, <2>1, <3>1, AnswerIs, HeardIs
  <2>3. \/ results'["tests"] = Broke
        \/ Reads(task, results'["tests"], Said, Here(task, Said) \union Strays(task, side))
    BY <2>2 DEF Heard, RanOf, IsWhole
  <2>4. results'["lint"].collected = Unreported
    <3>1. task.lint[side].collected = Unreported /\ Broke.collected = Unreported
      BY <1>1, TaskIs DEF Placed, Shape, Broke, Result
    <3>2. Fated(Lint, fate["lint"]).result = task.lint[side]
      BY DEF Fated, Lint
    <3> QED
      BY <2>1, <3>1, <3>2 DEF RunGate
  <2>5. Testimony'
    BY <1>1, <1>3, <1>5, <2>1, <2>3, <2>4 DEF Inv, Testimony, Past, BaseSaid
  <2>6. Probing'
    BY <1>1, <1>5, ProbingKept DEF Inv
  <2> QED
    BY <1>1, <1>5, <2>5, <2>6 DEF Inv, Walk, Reverting, Judgement, Past
<1> QED
  BY <1>2, <1>4, <1>5
(* A runner that answers for one test alone is found out by the first name.  *)
LEMMA ProbeOpens ==
    ASSUME task \in Tasks, Steady(work), Readable, task.runner.subset = "honoured",
           NEW name \in Here(task, Said)
    PROVE  LET probe == Answer(work, {name}).result
           IN  probe.status # "error" /\ probe.collected # Unreported /\ probe.collected \subseteq {name}
<1> DEFINE probe == Answer(work, {name}).result
<1>1. name \in NamesOf(task) /\ name # Stray /\ name \notin Unreported
  BY TaskIs DEF Here, NamesOf, Names
<1>2. SaidOf(work) = Said
  BY SaidSteady DEF Said
<1>3. ~Breaks(task, side, Said, {name}) /\ ~IsWhole(task, {name})
  BY DEF Breaks, IsWhole
<1>4. RanOf(task, side, Said, {name}) = {name}
  BY <1>1, <1>3 DEF RanOf
<1>5. Reads(task, probe, Said, {name})
  BY <1>2, <1>3, <1>4, AnswerIs DEF Told
<1>6. probe.collected = {name}
  BY <1>5 DEF Reads, Readable
<1>7. probe.status \in {"pass", "fail"}
  BY <1>5 DEF Reads
<1> HIDE DEF probe
<1>8. probe.status # "error" /\ probe.collected # Unreported /\ probe.collected \subseteq {name}
  BY <1>1, <1>6, <1>7
<1> QED
  BY <1>8 DEF probe

LEMMA OpenWitnessInv ==
    ASSUME Inv, OpenWitness
    PROVE  Inv'
<1>1. Placed' /\ Placed /\ task \in Tasks /\ Steady(work) /\ pc = "witness" /\ EditsSame /\ Testimony
      /\ UNCHANGED <<task, side, work, baseline, verdict, asked>>
  BY OpenWitnessPlaced, MidEdits DEF Inv, Placed, Shape, Places, OpenWitness
<1>2. WithMutant' = WithMutant /\ Said' = Said /\ (Readable' <=> Readable)
      /\ \A c : c.mutant \in Files \union {Outside} => (Settled(c)' <=> Settled(c))
  BY <1>1, FixedWith, Same
<1> DEFINE known == results["tests"].collected
           candidates == IF known = Unreported THEN {} ELSE ArgvSafe(known)
           Skips(name) == LET probe == Answer(work, {name}).result
                          IN  WithMutant = <<>> \/ name = None \/ probe.status = "error"
                              \/ probe.collected = Unreported \/ ~(probe.collected \subseteq {name})
<1>3. PICK tried \in 0 .. ProbeAttempts, name \in candidates \cup {None} :
        /\ name = None <=> tried \in {ProbeAttempts, Cardinality(candidates)}
        /\ IF Skips(name) THEN Answered("witness", Skip, "revert")
           ELSE doing' = [Idle EXCEPT !.left = WithMutant] /\ pc' = "apply" /\ UNCHANGED results
        /\ IF WithMutant = <<>> \/ candidates = {} THEN tried = 0 /\ UNCHANGED faults ELSE Strike(tried)
  BY DEF OpenWitness
<1>4. CASE ~Skips(name)
  <2>1. doing' = [Idle EXCEPT !.left = WithMutant] /\ pc' = "apply" /\ UNCHANGED results
    BY <1>3, <1>4
  <2>2. doing'.left = WithMutant /\ doing'.survived = EmptyBag
    BY <2>1 DEF Idle
  <2>3. Survivors(EmptyBag)'
    BY DEF Survivors, EmptyBag, SetToBag
  <2>4. Testimony'
    BY <1>1, <2>1, TestimonyKept
  <2>5. Walk'
    BY <1>2, <2>1, <2>2, <2>3 DEF Walk, Past
  <2>6. Probing'
    BY <1>1, <2>1, ProbingKept DEF Inv
  <2> QED
    BY <1>1, <2>1, <2>4, <2>5, <2>6 DEF Inv, Reverting, Judgement, Past
<1>5. CASE Skips(name)
  <2>1. Answered("witness", Skip, "revert")
    BY <1>3, <1>5
  <2>2. /\ results'["witness"] = Skip /\ pc' = "revert"
        /\ \A g \in Gates : g # "witness" => results'[g] = results[g]
    BY <1>1, <2>1, AnsweredIs DEF Gates, CoreGates
  <2>3. Skip.collected = Unreported /\ Skip.failures = EmptyBag
    BY DEF Skip, Result
  <2>4. Testimony'
    <3>1. results'["tests"] = results["tests"]
      BY <2>2 DEF Gates, Declared
    <3> QED
      BY <1>1, <2>2, <2>3, <3>1, TestimonyKept
  <2>5. Survivors(results["witness"].failures)'
    BY <2>2, <2>3 DEF Survivors, EmptyBag, SetToBag
  <2>6. ASSUME Answering', results'["tests"] # Broke, NEW c \in Members(WithMutant), ~Settled(c)
        PROVE  FALSE
    <3>1. c.witness \in NamesOf(task) /\ Said[c.witness] = "pass"
      BY <2>6 DEF Settled
    <3>2. results["tests"] = results'["tests"]
      BY <2>2 DEF Gates, Declared
    <3>3. known = Here(task, Said) \union Strays(task, side) /\ Readable /\ task.runner.subset = "honoured"
          /\ faults' = 0
      BY <1>1, <1>2, <2>6, <3>2 DEF Testimony, Answering, Readable, Reads
    <3>4. /\ \A n \in NamesOf(task) : n # Stray /\ n \notin Unreported
          /\ None \notin NamesOf(task) /\ IsFiniteSet(NamesOf(task))
      BY <1>1, TaskIs DEF Placed, Shape, NamesOf, Names
    <3>5. c.witness \in known /\ known # Unreported /\ c.witness \in candidates
      BY <3>1, <3>3, <3>4 DEF Here, ArgvSafe
    <3>6. candidates = Here(task, Said) /\ IsFiniteSet(candidates)
      <4>1. candidates = Here(task, Said)
        BY <3>3, <3>4, <3>5 DEF ArgvSafe, Strays, Here
      <4> QED
        BY <3>4, <4>1, FS_Subset DEF Here
    <3> HIDE DEF candidates
    <3>7. Cardinality(candidates) # 0
      BY <3>5, <3>6, FS_EmptySet
    <3>8. WithMutant # <<>>
      BY <2>6 DEF Members
    <3>9. tried = 0
      <4>1. Strike(tried) /\ tried \in Nat /\ faults \in Nat
        BY <1>3, <3>5, <3>8 DEF ProbeAttempts, Inv, Placed, Shape
      <4> QED
        BY <3>3, <4>1, StrikeFree
    <3>10. name \in Here(task, Said) /\ name # None
      <4>1. tried \notin {ProbeAttempts, Cardinality(candidates)}
        BY <3>7, <3>9 DEF ProbeAttempts
      <4> QED
        BY <1>3, <3>6, <4>1
    <3>11. ~Skips(name)
      BY <1>1, <3>3, <3>8, <3>10, ProbeOpens
    <3> QED
      BY <1>5, <3>11
  <2>7. Walk'
    <3>1. \A c \in Members(WithMutant) : c.mutant \in Files \union {Outside}
      BY <1>1, WithMutantIs
    <3>2. Answering' /\ results'["tests"] # Broke => \A c \in Members(WithMutant) : Settled(c)'
      BY <1>2, <2>6, <3>1
    <3> QED
      BY <1>2, <2>2, <2>5, <3>2 DEF Walk, Past
  <2>8. Probing'
    BY <1>1, <2>2, ProbingKept DEF Inv
  <2> QED
    BY <1>1, <2>2, <2>4, <2>7, <2>8 DEF Inv, Reverting, Judgement, Past
<1> QED
  BY <1>4, <1>5
(* An error of the witness gate says nothing, and the revert follows it.    *)
LEMMA WitnessBreaks ==
    ASSUME Inv, Placed', EditsSame, pc \in {"apply", "ask"}, Answered("witness", Broke, "revert"),
           UNCHANGED <<baseline, asked>>
    PROVE  Inv'
<1>1. /\ results'["witness"] = Broke /\ pc' = "revert"
      /\ \A g \in Gates : g # "witness" => results'[g] = results[g]
  BY AnsweredIs DEF Inv, Gates, CoreGates
<1>2. Broke.collected = Unreported /\ Broke.failures = EmptyBag
  BY DEF Broke, Result
<1>3. Testimony'
  <2>1. results'["tests"] = results["tests"]
    BY <1>1 DEF Gates, Declared
  <2> QED
    BY <1>1, <1>2, <2>1, TestimonyKept DEF Inv
<1>4. Survivors(EmptyBag)'
  BY DEF Survivors, EmptyBag, SetToBag
<1>5. Walk'
  BY <1>1, <1>2, <1>4 DEF Walk, Past
<1>6. Probing'
  BY <1>1, ProbingKept DEF Inv
<1> QED
  BY <1>1, <1>3, <1>5, <1>6 DEF Inv, Reverting, Judgement

LEMMA ApplyInv ==
    ASSUME Inv, ApplyMutant
    PROVE  Inv'
<1> DEFINE c == Head(doing.left)
           m == c.mutant
<1>1. Placed' /\ Placed /\ task \in Tasks /\ Steady(work) /\ pc = "apply" /\ doing.left # <<>>
      /\ EditsSame /\ Testimony /\ Walk /\ UNCHANGED <<task, side, baseline, verdict, asked>>
  BY ApplyPlaced, MidEdits DEF Inv, Placed, Shape, Places, ApplyMutant
<1>2. WithMutant' = WithMutant /\ Said' = Said /\ (Readable' <=> Readable)
      /\ (\A d : d.mutant \in Files \union {Outside} => (Settled(d)' <=> Settled(d)))
      /\ \A b : Survivors(b)' <=> Survivors(b)
  BY <1>1, FixedWith, Same
<1>3. /\ c \in Members(doing.left) /\ c \in Members(WithMutant)
      /\ \A d \in Members(doing.left) : d = c \/ d \in Members(Tail(doing.left))
      /\ \A d \in Members(WithMutant) : d.mutant \in Files \union {Outside}
  BY <1>1, TailMembers, WithMutantIs DEF Placed, Shape, Places, IsDoing
<1>4. \/ /\ c.witness \notin results["tests"].collected \/ MutantRefused(m)
         /\ doing' = [doing EXCEPT !.left = Tail(doing.left)]
         /\ UNCHANGED <<work, results, pc, faults>>
      \/ /\ c.witness \in results["tests"].collected /\ pc' = "ask" /\ UNCHANGED <<doing, results, faults>>
      \/ Answered("witness", Broke, "revert")
  BY <1>1 DEF ApplyMutant
<1>5. CASE /\ c.witness \notin results["tests"].collected \/ MutantRefused(m)
           /\ doing' = [doing EXCEPT !.left = Tail(doing.left)]
           /\ UNCHANGED <<work, results, pc, faults>>
  <2>1. doing'.left = Tail(doing.left) /\ doing'.survived = doing.survived
    BY <1>1, <1>5 DEF Placed, Shape, IsDoing
  <2>2. ASSUME Readable, results["tests"] # Broke PROVE Settled(c)
    <3>1. CASE c.witness \notin results["tests"].collected
      <4>1. results["tests"].collected = Here(task, Said) \union Strays(task, side)
        BY <1>1, <2>2 DEF Testimony, Reads, Readable
      <4> QED
        BY <3>1, <4>1 DEF Settled, Here
    <3>2. CASE MutantRefused(m)
      <4>1. m \in Files \union {Outside}
        BY <1>3
      <4> HIDE DEF m
      <4>2. Unmutable(m)
        BY <1>1, <3>2, <4>1 DEF MutantRefused, Unmutable, Steady
      <4> QED
        BY <4>2 DEF m, Settled
    <3> QED
      BY <1>5, <3>1, <3>2
  <2>3. Testimony'
    BY <1>1, <1>5, TestimonyKept
  <2>4. Answering' <=> Answering
    BY <1>1, <1>2, <1>5 DEF Answering
  <2>5. Walk'
    <3>1. Answering => \/ results["tests"] = Broke \/ DOMAIN doing.survived # {}
                       \/ \A d \in Members(WithMutant) : d \in Members(doing.left) \/ Settled(d)
      BY <1>1 DEF Walk
    <3> HIDE DEF c
    <3>2. Answering => \/ results["tests"] = Broke \/ DOMAIN doing.survived # {}
                       \/ \A d \in Members(WithMutant) : d \in Members(doing'.left) \/ Settled(d)'
      BY <1>2, <1>3, <2>1, <2>2, <3>1 DEF Answering
    <3>3. Survivors(doing.survived)
      BY <1>1 DEF Walk
    <3> QED
      BY <1>1, <1>2, <1>5, <2>1, <2>4, <3>2, <3>3 DEF Walk, Past
  <2>6. Probing'
    BY <1>1, <1>5, ProbingKept DEF Inv
  <2> QED
    BY <1>1, <1>5, <2>3, <2>5, <2>6 DEF Inv, Reverting, Judgement, Past
<1>6. CASE c.witness \in results["tests"].collected /\ pc' = "ask" /\ UNCHANGED <<doing, results, faults>>
  <2>1. Testimony'
    BY <1>1, <1>6, TestimonyKept
  <2>2. Answering' <=> Answering
    BY <1>1, <1>2, <1>6 DEF Answering
  <2>3. Walk'
    BY <1>1, <1>2, <1>3, <1>6, <2>2 DEF Walk, Past
  <2>4. Probing'
    BY <1>1, <1>6, ProbingKept DEF Inv
  <2> QED
    BY <1>1, <1>6, <2>1, <2>3, <2>4 DEF Inv, Reverting, Judgement, Past
<1>7. CASE Answered("witness", Broke, "revert")
  BY <1>1, <1>7, WitnessBreaks DEF Inv
<1> QED
  BY <1>4, <1>5, <1>6, <1>7
(* What a witness asked alone under its mutant answers: it passes only if it *)
(* does not notice, and fails, where it passed without, only if it does.     *)
LEMMA AskedAlone ==
    ASSUME task \in Tasks, NEW s, NEW said, \A n \in NamesOf(task) : said[n] \in Saying,
           NEW w, NEW m, w # Stray, w \in NamesOf(task) => w \in Here(task, said),
           NEW r, Heard(task, s, r, Under(task, said, m), {w}), r # Broke
    PROVE  /\ r.status \in {"pass", "fail"}
           /\ r.status = "pass" => ~Notices(w, m)
           /\ r.status = "fail" /\ task.runner.subset = "honoured" /\ w \in NamesOf(task)
                 /\ said[w] = "pass" => Notices(w, m)
<1> DEFINE under == Under(task, said, m)
           ran == RanOf(task, s, under, {w})
<1>1. Reads(task, r, under, ran)
  BY DEF Heard
<1>2. r.status = IF ran \intersect Failing(task, under) = {} THEN "pass" ELSE "fail"
  BY <1>1 DEF Reads
<1>3. Here(task, under) = Here(task, said)
  BY HereUnder
<1>4. w \in NamesOf(task) => w \in ran
  BY <1>3 DEF RanOf
<1>5. task.runner.subset = "honoured" => ran \subseteq {w}
  BY DEF RanOf, IsWhole
<1>6. ASSUME r.status = "pass", Notices(w, m) PROVE FALSE
  <2>1. w \in NamesOf(task) /\ m \in task.truth[w].notices
    BY <1>6 DEF Notices, NamesOf
  <2>2. said[w] \in {"pass", "fail"}
    BY <2>1 DEF Here, Saying
  <2>3. under[w] = "fail"
    BY <2>1, <2>2 DEF Under
  <2>4. w \in Failing(task, under)
    BY <2>1, <2>3 DEF Failing
  <2> HIDE DEF under, ran
  <2> QED
    BY <1>2, <1>4, <1>6, <2>1, <2>4
<1>7. ASSUME r.status = "fail", task.runner.subset = "honoured", w \in NamesOf(task), said[w] = "pass"
      PROVE  Notices(w, m)
  <2>1. w \in Failing(task, under)
    <3> HIDE DEF under, ran
    <3> QED
      BY <1>2, <1>5, <1>7
  <2>2. under[w] = "fail"
    BY <2>1 DEF Failing
  <2>3. m \in task.truth[w].notices
    BY <1>7, <2>2 DEF Under
  <2> QED
    BY <1>7, <2>3 DEF Notices, NamesOf
<1>8. r.status \in {"pass", "fail"}
  BY <1>2
<1> QED
  BY <1>6, <1>7, <1>8

LEMMA AskInv ==
    ASSUME Inv, AskWitness
    PROVE  Inv'
<1> DEFINE c == Head(doing.left)
           m == c.mutant
           w == c.witness
           answer(fate) == IF fate = "raised" THEN Broke ELSE RunGate(Fated(Answer(work, {c.witness}), fate))
           asks(ans) == doing' = [doing EXCEPT !.left = Tail(@),
                        !.died = IF ans.status = "fail" THEN @ + 1 ELSE @,
                        !.survived = IF ans.status = "pass"
                            THEN @ (+) SetToBag({Failure(c.witness, "survived-mutant")}) ELSE @]
<1>1. Placed' /\ Placed /\ task \in Tasks /\ MutatedAt(work, m) /\ pc = "ask" /\ doing.left # <<>>
      /\ EditsSame /\ Testimony /\ Walk /\ UNCHANGED <<task, side, baseline, verdict, asked>>
  BY AskPlaced, MidEdits DEF Inv, Placed, Shape, Places, AskWitness
<1>2. WithMutant' = WithMutant /\ Said' = Said /\ (Readable' <=> Readable)
      /\ (\A d : d.mutant \in Files \union {Outside} => (Settled(d)' <=> Settled(d)))
      /\ \A b : Survivors(b)' <=> Survivors(b)
  BY <1>1, FixedWith, Same
<1>3. /\ c \in Members(doing.left) /\ c \in Members(WithMutant) /\ w \in Witnesses
      /\ \A d \in Members(doing.left) : d = c \/ d \in Members(Tail(doing.left))
      /\ \A d \in Members(WithMutant) : d.mutant \in Files \union {Outside}
  BY <1>1, TailMembers, WithMutantIs DEF Placed, Shape, Places, IsDoing
<1>4. PICK fate \in Fates, undone \in BOOLEAN :
         /\ Strike(Strikes(fate) + (IF undone THEN 0 ELSE 1))
         /\ IF ~undone \/ answer(fate).status = "error" THEN Answered("witness", Broke, "revert")
            ELSE asks(answer(fate)) /\ pc' = "apply" /\ UNCHANGED results
  BY DEF AskWitness
<1> DEFINE ans == answer(fate)
<1>5. w # Stray
  BY <1>1, <1>3, CriteriaAre DEF Witnesses
<1>6. w \in results["tests"].collected
  BY <1>1 DEF Walk
<1>7. w \in NamesOf(task) => w \in Here(task, Said)
  BY <1>1, <1>6, CollectedSays
<1>8. fate # "raised" => Heard(task, side, ans, Under(task, Said, m), {w})
  <2>1. SaidOf(work) = Under(task, Said, m)
    BY <1>1, SaidMutated DEF Said
  <2> QED
    BY <1>1, <2>1, AnswerIs, HeardIs
<1> HIDE DEF c
<1>9. CASE ~undone \/ ans.status = "error"
  <2>1. Answered("witness", Broke, "revert")
    BY <1>4, <1>9
  <2> QED
    BY <1>1, <2>1, WitnessBreaks
<1>10. CASE undone /\ ans.status # "error"
  <2>1. asks(ans) /\ pc' = "apply" /\ UNCHANGED results
    BY <1>4, <1>10
  <2>2. ans # Broke /\ fate # "raised"
    BY <1>10 DEF Broke, Result
  <2>3. /\ ans.status \in {"pass", "fail"}
        /\ ans.status = "pass" => ~Notices(w, m)
        /\ ans.status = "fail" /\ task.runner.subset = "honoured" /\ w \in NamesOf(task)
              /\ Said[w] = "pass" => Notices(w, m)
    <3>1. \A n \in NamesOf(task) : Said[n] \in Saying
      BY <1>1, SaidIs DEF Said
    <3> HIDE DEF ans, m, w
    <3> QED
      BY <1>1, <1>5, <1>7, <1>8, <2>2, <3>1, AskedAlone
  <2> HIDE DEF answer
  <2>4. /\ doing'.left = Tail(doing.left)
        /\ doing'.survived = IF ans.status = "pass"
              THEN doing.survived (+) SetToBag({Failure(w, "survived-mutant")}) ELSE doing.survived
    BY <1>1, <2>1 DEF Placed, Shape, IsDoing
  <2>5. Survivors(doing.survived)
    BY <1>1 DEF Walk
  <2>6. ASSUME ans.status = "pass" PROVE Survivors(doing'.survived) /\ DOMAIN doing'.survived # {}
    <3> DEFINE f == Failure(w, "survived-mutant")
               new == doing.survived (+) SetToBag({f})
    <3>1. doing'.survived = new
      BY <2>4, <2>6
    <3>2. DOMAIN new = DOMAIN doing.survived \union {f}
      BY DEF (+), SetToBag
    <3>3. \A e \in DOMAIN new : new[e] = (IF e \in DOMAIN doing.survived THEN doing.survived[e] ELSE 0)
                                        + (IF e \in {f} THEN 1 ELSE 0)
      BY DEF (+), SetToBag
    <3>4. f.file = w /\ f.code = "survived-mutant"
      BY DEF Failure
    <3> HIDE DEF f, new
    <3>5. \A e \in DOMAIN new : new[e] \in Nat \ {0}
      BY <2>5, <3>2, <3>3 DEF Survivors
    <3>6. \A e \in DOMAIN new : e.code = "survived-mutant" /\ \E d \in Members(WithMutant) :
             d.witness = e.file /\ ~Notices(d.witness, d.mutant)
      BY <1>3, <2>3, <2>5, <2>6, <3>2, <3>4 DEF Survivors
    <3>7. DOMAIN new # {}
      BY <3>2 DEF EmptyBag, SetToBag
    <3> QED
      BY <3>1, <3>5, <3>6, <3>7 DEF Survivors
  <2>7. Survivors(doing'.survived)
    BY <2>3, <2>4, <2>5, <2>6
  <2>8. Answering' => Answering /\ (Answering' => fate = "answered")
    <3>1. faults' = 0 => faults = 0
      BY <1>1, <1>4, StrikeFree DEF Placed, Shape, Strikes
    <3> QED
      BY <1>1, <1>2, <3>1, <1>4, StrikeFree DEF Answering, Strikes, Placed, Shape
  <2>9. ASSUME Answering', ans.status = "fail" PROVE Settled(c)
    BY <1>1, <2>3, <2>9 DEF Answering, Settled
  <2>10. Walk'
    <3>1. Answering => \/ results["tests"] = Broke \/ DOMAIN doing.survived # {}
                       \/ \A d \in Members(WithMutant) : d \in Members(doing.left) \/ Settled(d)
      BY <1>1 DEF Walk
    <3>2. Answering' => \/ results["tests"] = Broke \/ DOMAIN doing'.survived # {}
                       \/ \A d \in Members(WithMutant) : d \in Members(doing'.left) \/ Settled(d)'
      <4>1. CASE ans.status = "pass"
        BY <2>6, <4>1
      <4>2. CASE ans.status = "fail"
        BY <1>2, <1>3, <2>4, <2>8, <2>9, <3>1, <4>2
      <4> QED
        BY <2>3, <4>1, <4>2
    <3> QED
      BY <1>1, <1>2, <2>1, <2>7, <3>2 DEF Walk, Past
  <2>11. Testimony'
    BY <1>1, <2>1, TestimonyKept
  <2>12. Probing'
    BY <1>1, <2>1, ProbingKept DEF Inv
  <2> QED
    BY <1>1, <2>1, <2>10, <2>11, <2>12 DEF Inv, Reverting, Judgement, Past
<1> QED
  BY <1>9, <1>10

LEMMA CloseWitnessInv ==
    ASSUME Inv, CloseWitness
    PROVE  Inv'
<1> DEFINE result == IF doing.survived # EmptyBag THEN Result("fail", "pytest", doing.survived)
                     ELSE IF doing.died > 0 THEN Result("pass", "pytest", EmptyBag) ELSE Skip
<1>1. Placed' /\ Placed /\ task \in Tasks /\ pc = "apply" /\ doing.left = <<>> /\ EditsSame
      /\ Testimony /\ Walk /\ UNCHANGED <<task, side, work, faults, baseline, verdict, asked>>
      /\ Answered("witness", result, "revert")
  BY CloseWitnessPlaced, MidEdits DEF Inv, Placed, Shape, CloseWitness
<1>2. WithMutant' = WithMutant /\ Said' = Said /\ (Readable' <=> Readable)
      /\ (\A d : d.mutant \in Files \union {Outside} => (Settled(d)' <=> Settled(d)))
      /\ \A b : Survivors(b)' <=> Survivors(b)
  BY <1>1, FixedWith, Same
<1>3. /\ results'["witness"] = result /\ pc' = "revert"
      /\ \A g \in Gates : g # "witness" => results'[g] = results[g]
  BY <1>1, AnsweredIs DEF Gates, CoreGates
<1>4. result.collected = Unreported /\ result.failures = doing.survived
  BY DEF Result, Skip
<1> HIDE DEF result
<1>5. results'["tests"] = results["tests"]
  BY <1>3 DEF Gates, Declared
<1>6. Testimony'
  BY <1>1, <1>3, <1>4, <1>5, TestimonyKept
<1>7. Members(doing.left) = {}
  BY <1>1 DEF Members
<1>8. \A d \in Members(WithMutant) : d.mutant \in Files \union {Outside}
  BY <1>1, WithMutantIs
<1>9. Answering' => Answering
  BY <1>1, <1>2 DEF Answering
<1>10. Walk'
  BY <1>1, <1>2, <1>3, <1>4, <1>5, <1>7, <1>8, <1>9 DEF Walk, Past
<1>11. Probing'
  BY <1>1, <1>3, ProbingKept DEF Inv
<1> QED
  BY <1>1, <1>3, <1>6, <1>10, <1>11 DEF Inv, Reverting, Judgement
-----------------------------------------------------------------------------
(* What the enumerating gates said, where only the tests enumerate.          *)

LEMMA OnlyTests ==
    ASSUME NEW r, "tests" \in DOMAIN r, \A g \in DOMAIN r \ {"tests"} : r[g].collected = Unreported
    PROVE  /\ Collected(r) = r["tests"].collected
           /\ Failed(r) = IF r["tests"].collected = Unreported THEN {} ELSE Codes(r["tests"])
<1>1. CASE r["tests"].collected = Unreported
  <2>1. Enumerating(r) = {}
    BY <1>1 DEF Enumerating
  <2> QED
    BY <1>1, <2>1 DEF Collected, Failed
<1>2. CASE r["tests"].collected # Unreported
  <2>1. Enumerating(r) = {"tests"}
    BY <1>2 DEF Enumerating
  <2> QED
    BY <1>2, <2>1 DEF Collected, Failed
<1> QED
  BY <1>1, <1>2

LEMMA SaysIs ==
    ASSUME side = "head", NEW n \in NamesOf(task)
    PROVE  /\ HeadSays(n) = Said[n] /\ Says(n, "base") = BaseSaid[n]
           /\ Says(n, "without") = Without(task)[n] /\ Says(n, "head") = HeadSaid[n]
  BY DEF HeadSays, Says, Said, BaseSaid, HeadSaid, SaidBy, Without, NamesOf

(* A list of names is never what stands for no list.                        *)
LEMMA NamesReported ==
    ASSUME task \in Tasks, NEW S, S \subseteq NamesOf(task)
    PROVE  S # Unreported /\ S \union {Stray} # Unreported /\ \A s : S \union Strays(task, s) # Unreported
<1>1. "(unreported)" \notin NamesOf(task)
  BY TaskIs DEF NamesOf, Names, Unreported
<1>2. "(unreported)" \notin S \union {Stray}
  BY <1>1 DEF Stray
<1> QED
  BY <1>2 DEF Unreported, Strays

(* What was collected of the base and of the head. *)
LEMMA CollectedAre ==
    ASSUME Inv, side = "head", pc \in Past
    PROVE  /\ Collected(baseline) = IF task.runner.enumerates THEN Here(task, BaseSaid) ELSE Unreported
           /\ results["tests"] # Broke =>
                 /\ Collected(results) = IF task.runner.enumerates
                       THEN Here(task, Said) \union Strays(task, "head") ELSE Unreported
                 /\ Collected([g \in Declared |-> results[g]]) = Collected(results)
           /\ results["tests"] = Broke => Collected([g \in Declared |-> results[g]]) = Unreported
<1>1. /\ Testimony /\ DOMAIN results = Gates /\ DOMAIN baseline = Gates
      /\ "tests" \in Gates /\ Declared \subseteq Gates /\ "tests" \in Declared
  BY DEF Inv, Placed, Shape, Gates, Declared
<1>2. Collected(baseline) = baseline["tests"].collected
  BY <1>1, OnlyTests DEF Testimony
<1>3. Collected(results) = results["tests"].collected
  BY <1>1, OnlyTests DEF Testimony
<1>4. Collected([g \in Declared |-> results[g]]) = results["tests"].collected
  <2> DEFINE r == [g \in Declared |-> results[g]]
  <2>1. DOMAIN r = Declared /\ r["tests"] = results["tests"]
        /\ \A g \in Declared \ {"tests"} : r[g].collected = Unreported
    BY <1>1 DEF Testimony
  <2> HIDE DEF r
  <2>2. Collected(r) = r["tests"].collected
    BY <1>1, <2>1, OnlyTests
  <2> QED
    BY <2>1, <2>2 DEF r
<1>5. Broke.collected = Unreported
  BY DEF Broke, Result
<1> QED
  BY <1>1, <1>2, <1>3, <1>4, <1>5 DEF Testimony, Reads

(* Revert asks of exactly what is claimed. *)
LEMMA HandedIs ==
    ASSUME Inv, side = "head", pc = "revert",
           Unreported \notin {Collected(baseline), Collected([g \in Declared |-> results[g]])}
    PROVE  /\ Handed(NewTests \ task.exempt) = Claimed
           /\ task.runner.enumerates /\ results["tests"] # Broke
<1>0. task \in Tasks /\ pc \in Past
  BY DEF Inv, Placed, Shape, Past
<1>1. task.runner.enumerates /\ results["tests"] # Broke
  BY <1>0, CollectedAre
<1>2. /\ Collected(baseline) = Here(task, BaseSaid)
      /\ Collected([g \in Declared |-> results[g]]) = Here(task, Said) \union Strays(task, "head")
  BY <1>0, <1>1, CollectedAre
<1>3. \A c \in Criterias : c.witness # Stray
  BY <1>0, CriteriaAre
<1>4. Stray \notin NamesOf(task)
  BY <1>0, TaskIs DEF NamesOf, Names
<1>5. \A n \in NamesOf(task) : HeadSays(n) = Said[n] /\ Says(n, "base") = BaseSaid[n]
  BY SaysIs
<1> DEFINE before == Here(task, BaseSaid)
           after  == Here(task, Said) \union Strays(task, "head")
<1>6. NewTests = ((after \ before) \cup (Witnesses \cap after)) \ Preserved
  BY <1>2 DEF NewTests
<1>7. Handed(NewTests \ task.exempt) = (NewTests \ task.exempt) \ ({Stray} \union Aside)
  BY DEF Handed, ArgvSafe
<1>8. after \ {Stray} = {n \in NamesOf(task) : HeadSays(n) # "gone"}
  BY <1>4, <1>5 DEF Here, Strays
<1>9. before = {n \in NamesOf(task) : Says(n, "base") # "gone"}
  BY <1>5 DEF Here
<1> HIDE DEF before, after
<1>10. Handed(NewTests \ task.exempt) =
         {n \in after \ {Stray} : (n \notin before \/ n \in Witnesses)
                                  /\ n \notin Preserved \cup task.exempt \cup Aside}
  BY <1>6, <1>7
<1> QED
  BY <1>1, <1>8, <1>9, <1>10 DEF Claimed, Claims

LEMMA ClaimedAre ==
    Claimed \subseteq NamesOf(task)
  BY DEF Claimed
(* What is blamed passed without its source, and, where the answer can be    *)
(* read, whatever passed is blamed.                                         *)
Theater(v, t, s, answer, said, subset) ==
    /\ v.collected = Unreported
    /\ v # Broke => \A f \in DOMAIN v.failures :
          v.failures[f] \in Nat \ {0} /\ f.file \in subset /\ said[f.file] = "pass"
    /\ t.runner.keyed /\ ~Breaks(t, s, said, subset)
          /\ Reads(t, answer, said, RanOf(t, s, said, subset))
          /\ answer.uncollected = Listed(t, said, subset)
          /\ (\E n \in subset : said[n] = "pass") =>
       v = Broke \/ DOMAIN v.failures # {}

LEMMA RevertVerdictIs ==
    ASSUME task \in Tasks, task.runner.enumerates, NEW s, NEW subset, subset \subseteq NamesOf(task),
           NEW answer, NEW said, \A n \in NamesOf(task) : said[n] \in Saying,
           answer = NotRun \/ Heard(task, s, answer, said, subset)
    PROVE  Theater(RevertVerdict(answer, subset), task, s, answer, said, subset)
<1> DEFINE v == RevertVerdict(answer, subset)
           ran == RanOf(task, s, said, subset)
           failing == ran \intersect Failing(task, said)
           passing == {Failure(n, "passed-without-source") : n \in (subset \cap ran) \ Codes(answer)}
           spoken == [Verdict(passing) EXCEPT !.tool = answer.tool]
           heard == /\ ~Breaks(task, s, said, subset) /\ Reads(task, answer, said, ran)
                    /\ answer.uncollected = Listed(task, said, subset)
           listed == IF answer.uncollected = Unreported THEN {} ELSE answer.uncollected \cap subset
<1>1. /\ spoken.collected = Unreported /\ spoken.failures = SetToBag(passing)
  BY DEF Verdict, Result
<1>2. /\ Broke.collected = Unreported /\ Skip.collected = Unreported /\ Skip.failures = EmptyBag
      /\ Broke.failures = EmptyBag
  BY DEF Broke, Skip, Result
<1>s. SUFFICES Theater(v, task, s, answer, said, subset)
  OBVIOUS
<1>3. CASE ~heard
  <2>1. answer \in {NotRun, Broke}
    BY <1>3 DEF Heard
  <2>2. v \in {Broke, Skip}
    <3>1. NotRun = NotRun /\ ~Ran(Broke) /\ Broke # NotRun
      BY DEF NotRun, Broke, Result, Ran
    <3> QED
      BY <2>1, <3>1 DEF RevertVerdict
  <2>3. DOMAIN EmptyBag = {}
    BY DEF EmptyBag, SetToBag
  <2> HIDE DEF v
  <2>4. v.collected = Unreported /\ v.failures = EmptyBag
    BY <1>2, <2>2
  <2> QED
    BY <1>3, <2>3, <2>4 DEF Theater
<1>4. CASE heard
  <2>1. /\ answer.status = IF failing = {} THEN "pass" ELSE "fail"
        /\ answer.failures = FailuresOf(task, failing) /\ answer.collected = ran
    BY <1>4 DEF Reads
  <2>2. Ran(answer) /\ answer # NotRun
    <3>1. NotRun.status = "not run"
      BY DEF NotRun, Result
    <3>2. answer.status \in {"pass", "fail"}
      BY <2>1
    <3> QED
      BY <3>1, <3>2 DEF Ran
  <2>3. /\ task.runner.keyed => Codes(answer) = failing
        /\ ~task.runner.keyed => Codes(answer) \subseteq {"AssertionError"}
        /\ Codes(answer) = {} <=> failing = {}
    BY <2>1, CodesAre
  <2>4. ran \subseteq NamesOf(task) \union {Stray} /\ Stray \notin NamesOf(task)
        /\ "AssertionError" \notin NamesOf(task) \union {Stray}
    BY TaskIs DEF RanOf, Here, Strays, NamesOf, Names, Stray
  <2>5. ran # Unreported
    <3>1. "(unreported)" \notin NamesOf(task) \union {Stray}
      BY TaskIs DEF NamesOf, Names, Unreported, Stray
    <3> QED
      BY <2>4, <3>1 DEF Unreported
  <2>6. subset \cap ran \subseteq Here(task, said)
    BY <2>4 DEF RanOf, Strays
  <2>7. v = IF answer.uncollected # Unreported
               /\ (subset \ (ran \cup listed)) \cup (ran \cap listed \cap subset) # {} THEN Broke
            ELSE IF Codes(answer) # {} /\ Codes(answer) \cap (ran \cup listed) = {} THEN Skip
            ELSE spoken
    BY <2>1, <2>2, <2>5 DEF RevertVerdict
  <2>8. v \in {Broke, Skip, spoken}
    BY <2>7
  <2>9. v = spoken => \A n \in (subset \cap ran) \ Codes(answer) : said[n] = "pass"
    <3>1. CASE task.runner.keyed
      <4>1. \A n \in (subset \cap ran) \ failing : said[n] # "fail" /\ said[n] # "gone" /\ n \in NamesOf(task)
        BY <2>6 DEF Failing, Here
      <4> QED
        BY <2>3, <3>1, <4>1 DEF Saying
    <3>2. CASE ~task.runner.keyed
      <4>1. listed \subseteq NamesOf(task)
        OBVIOUS
      <4>2. Codes(answer) # {} => Codes(answer) \cap (ran \cup listed) = {}
        <5> HIDE DEF ran, listed
        <5> QED
          BY <2>3, <2>4, <3>2, <4>1
      <4>3. v = spoken => Codes(answer) = {} \/ spoken = Skip \/ spoken = Broke
        <5> HIDE DEF v, spoken, ran, listed
        <5> QED
          BY <2>7, <4>2
      <4>4. spoken # Skip /\ spoken # Broke
        <5>1. spoken.tool = "pytest"
          BY <1>4 DEF Reads, Verdict, Result
        <5>2. Skip.tool = None /\ Broke.tool = None /\ None # "pytest"
          BY DEF Skip, Broke, Result, None
        <5> HIDE DEF spoken
        <5> QED
          BY <5>1, <5>2
      <4>5. failing = {} => \A n \in subset \cap ran : said[n] # "fail" /\ said[n] # "gone" /\ n \in NamesOf(task)
        BY <2>6 DEF Failing, Here
      <4> HIDE DEF v, spoken, failing, ran
      <4> QED
        BY <2>3, <4>3, <4>4, <4>5 DEF Saying
    <3> QED
      BY <3>1, <3>2
  <2>10. ASSUME v = spoken PROVE \A f \in DOMAIN v.failures :
            v.failures[f] \in Nat \ {0} /\ f.file \in subset /\ said[f.file] = "pass"
    <3>1. DOMAIN v.failures = passing /\ \A f \in passing : v.failures[f] = 1
      BY <1>1, <2>10 DEF SetToBag
    <3>2. \A f \in passing : f.file \in (subset \cap ran) \ Codes(answer)
      BY DEF Failure
    <3> HIDE DEF v, passing, ran
    <3> QED
      BY <2>9, <2>10, <3>1, <3>2
  <2>11. ASSUME task.runner.keyed, NEW n \in subset, said[n] = "pass"
         PROVE  DOMAIN v.failures # {} \/ v = Broke
    <3>1. n \in ran
      <4>1. n \in Here(task, said) /\ n # Stray
        BY <2>4, <2>11 DEF Here
      <4>2. Stray \notin subset
        BY <2>4
      <4> QED
        BY <2>11, <4>1, <4>2 DEF RanOf
    <3>2. n \notin Codes(answer)
      BY <2>3, <2>11 DEF Failing
    <3>3. ~(Codes(answer) # {} /\ Codes(answer) \cap (ran \cup listed) = {})
      <4>1. Codes(answer) \subseteq ran
        BY <2>3, <2>11
      <4> QED
        BY <4>1
    <3>4. v = Broke \/ v = spoken
      BY <2>7, <3>3
    <3>5. Failure(n, "passed-without-source") \in passing
      BY <3>1, <3>2
    <3>6. DOMAIN SetToBag(passing) # {}
      <4> HIDE DEF passing
      <4> QED
        BY <3>5 DEF SetToBag
    <3> QED
      BY <1>1, <3>4, <3>6
  <2>12. v.collected = Unreported
    <3> HIDE DEF v, spoken
    <3> QED
      BY <1>1, <1>2, <2>8
  <2>13. v # Broke => \A f \in DOMAIN v.failures :
            v.failures[f] \in Nat \ {0} /\ f.file \in subset /\ said[f.file] = "pass"
    <3>1. v = Skip => DOMAIN v.failures = {}
      BY <1>2 DEF EmptyBag, SetToBag
    <3> HIDE DEF v, spoken
    <3> QED
      BY <2>8, <2>10, <3>1
  <2> HIDE DEF v
  <2> QED
    BY <2>11, <2>12, <2>13 DEF Theater
<1> QED
  BY <1>3, <1>4
LEMMA OpenRevertInv ==
    ASSUME Inv, OpenRevert
    PROVE  Inv'
<1> DEFINE subset == Handed(NewTests \ (IF side = "head" THEN task.exempt ELSE {}))
           unread == \/ side = "base"
                     \/ Unreported \in {Collected(baseline), Collected([g \in Declared |-> results[g]])}
           skips == unread \/ subset = {} \/ task.testPaths = {} \/ Source = {} \/ Dirty \cap Source # {}
<1>1. /\ Placed' /\ Placed /\ task \in Tasks /\ pc = "revert" /\ pc \in Past /\ EditsSame
      /\ Testimony /\ Walk /\ UNCHANGED <<task, side, work, faults, baseline, verdict, asked>>
      /\ Steady(work) \/ results["witness"] = Broke
      /\ IF skips THEN Answered("revert", Skip, "core")
         ELSE /\ doing' = [Idle EXCEPT !.subset = subset, !.source = Source]
              /\ pc' = "checkout" /\ UNCHANGED results
  BY OpenRevertPlaced, MidEdits DEF Inv, Placed, Shape, Places, OpenRevert, Past
<1>2. WithMutant' = WithMutant /\ Said' = Said /\ (Readable' <=> Readable) /\ Claimed' = Claimed
      /\ (\A d : d.mutant \in Files \union {Outside} => (Settled(d)' <=> Settled(d)))
      /\ (\A b : Survivors(b)' <=> Survivors(b)) /\ Source' = Source
  BY <1>1, FixedWith, Same
<1>3. \A d \in Members(WithMutant) : d.mutant \in Files \union {Outside}
  BY <1>1, WithMutantIs
<1>4. Answering' => Answering
  BY <1>1, <1>2 DEF Answering
<1>5. ~unread => subset = Claimed /\ task.runner.enumerates /\ results["tests"] # Broke
  <2>1. ~unread => side = "head"
    BY <1>1 DEF Placed, Shape
  <2> QED
    BY <1>1, <2>1, HandedIs
<1> HIDE DEF subset
<1>6. CASE ~skips
  <2>1. /\ doing' = [Idle EXCEPT !.subset = subset, !.source = Source]
        /\ pc' = "checkout" /\ UNCHANGED results
    BY <1>1, <1>6
  <2>2. doing'.subset = subset
    BY <2>1 DEF Idle
  <2>3. Reverting'
    BY <1>1, <1>2, <1>5, <1>6, <2>1, <2>2 DEF Reverting
  <2>4. Walk'
    BY <1>1, <1>2, <1>3, <1>4, <2>1 DEF Walk, Past
  <2>5. Testimony'
    BY <1>1, <2>1, TestimonyKept
  <2>6. Probing'
    BY <1>1, <2>1, ProbingKept DEF Inv
  <2> QED
    BY <1>1, <2>1, <2>3, <2>4, <2>5, <2>6 DEF Inv, Judgement
<1>7. CASE skips
  <2>1. /\ results'["revert"] = Skip /\ pc' = "core"
        /\ \A g \in Gates : g # "revert" => results'[g] = results[g]
    BY <1>1, <1>7, AnsweredIs DEF Gates, CoreGates
  <2>2. Skip.collected = Unreported /\ Skip.failures = EmptyBag /\ DOMAIN EmptyBag = {}
    BY DEF Skip, Result, EmptyBag, SetToBag
  <2>3. results'["tests"] = results["tests"] /\ results'["witness"] = results["witness"]
    BY <2>1 DEF Gates, Declared, CoreGates
  <2>4. Walk'
    BY <1>1, <1>2, <1>3, <1>4, <2>1, <2>3 DEF Walk, Past
  <2>5. ASSUME side = "head", results["witness"] # Broke, Answering, results["tests"] # Broke,
               task.testPaths # {}, Source # {}, \A f \in Source : work[f] # "edited"
        PROVE  Claimed = {}
    <3>1. Dirty \cap Source = {}
      <4>1. Source \subseteq Files
        BY <1>1, SourceIs
      <4> QED
        BY <1>1, <2>5, <4>1 DEF Dirty, Steady
    <3>2. ~unread
      <4>1. Collected(baseline) = Here(task, BaseSaid)
            /\ Collected([g \in Declared |-> results[g]]) = Here(task, Said) \union Strays(task, "head")
        BY <1>1, <2>5, CollectedAre DEF Answering, Readable
      <4>2. Here(task, BaseSaid) \subseteq NamesOf(task) /\ Here(task, Said) \subseteq NamesOf(task)
        BY DEF Here
      <4> QED
        BY <1>1, <2>5, <4>1, <4>2, NamesReported
    <3> QED
      BY <1>5, <1>7, <2>5, <3>1, <3>2
  <2>6. Reverting'
    <3>1. Answering' <=> Answering
      BY <1>1, <1>2 DEF Answering
    <3> QED
      BY <1>1, <1>2, <2>1, <2>2, <2>3, <2>5, <3>1 DEF Reverting
  <2>7. Testimony'
    BY <1>1, <2>1, <2>2, <2>3, TestimonyKept
  <2>8. Probing'
    BY <1>1, <2>1, ProbingKept DEF Inv
  <2> QED
    BY <1>1, <2>1, <2>4, <2>6, <2>7, <2>8 DEF Inv, Judgement
<1> QED
  BY <1>6, <1>7

(* What the witness gate left is what it left to the end. *)
LEMMA WalkKept ==
    ASSUME Walk, EditsSame, task \in Tasks, pc \in Past, pc' \in Past, faults \in Nat,
           faults' = 0 => faults = 0,
           results'["tests"] = results["tests"], results'["witness"] = results["witness"]
    PROVE  Walk'
<1>1. WithMutant' = WithMutant /\ (Readable' <=> Readable)
      /\ (\A d : d.mutant \in Files \union {Outside} => (Settled(d)' <=> Settled(d)))
      /\ (\A b : Survivors(b)' <=> Survivors(b)) /\ task' = task
  BY FixedWith, Same DEF EditsSame
<1>2. \A d \in Members(WithMutant) : d.mutant \in Files \union {Outside}
  BY WithMutantIs
<1>3. Answering' => Answering
  BY <1>1 DEF Answering
<1>4. pc' \notin {"apply", "ask"}
  BY DEF Past
<1> QED
  BY <1>1, <1>2, <1>3, <1>4 DEF Walk

LEMMA RevertSourceInv ==
    ASSUME Inv, RevertSource
    PROVE  Inv'
<1>1. /\ Placed' /\ Placed /\ task \in Tasks /\ pc = "checkout" /\ pc \in Past /\ EditsSame
      /\ Testimony /\ Walk /\ Reverting /\ UNCHANGED <<task, side, results, baseline, verdict, asked>>
      /\ faults \in Nat
  BY RevertSourcePlaced, MidEdits DEF Inv, Placed, Shape, RevertSource, Past
<1>2. PICK failing \in {None, "checkout", "rm"} :
         /\ Strike(IF failing = None THEN 0 ELSE 1)
         /\ doing' = [doing EXCEPT !.raised = failing # None]
         /\ pc' = IF failing = None THEN "rerun" ELSE "restore"
  BY DEF RevertSource
<1>3. doing'.raised = (failing # None) /\ doing'.subset = doing.subset
  BY <1>1, <1>2 DEF Placed, Shape, IsDoing
<1>4. (faults' = 0 => faults = 0) /\ (failing # None => faults' # 0)
  BY <1>1, <1>2, StrikeFree
<1>5. Claimed' = Claimed
  BY <1>1, Same
<1>6. Reverting'
  BY <1>1, <1>2, <1>3, <1>4, <1>5 DEF Reverting
<1>7. pc' \in {"rerun", "restore"}
  BY <1>2
<1>8. Walk' /\ Testimony' /\ Probing'
  BY <1>1, <1>4, <1>7, WalkKept, TestimonyKept, ProbingKept DEF Inv, Past
<1> QED
  BY <1>1, <1>6, <1>7, <1>8 DEF Inv, Judgement

LEMMA RunRevertedInv ==
    ASSUME Inv, RunReverted
    PROVE  Inv'
<1>1. /\ Placed' /\ Placed /\ task \in Tasks /\ pc = "rerun" /\ pc \in Past /\ EditsSame
      /\ Testimony /\ Walk /\ Reverting /\ UNCHANGED <<task, side, work, results, baseline, verdict, asked>>
      /\ faults \in Nat /\ side = "head" /\ pc' = "restore"
  BY RunRevertedPlaced, MidEdits DEF Inv, Placed, Shape, Places, RunReverted, Past
<1>2. PICK fate \in Fates :
        /\ Strike(Strikes(fate))
        /\ doing' = [doing EXCEPT !.answer =
              IF fate = "raised" THEN NotRun
              ELSE RunGate(Fated(Answer(work, doing.subset), fate))]
  BY DEF RunReverted
<1> DEFINE r == RunGate(Fated(Answer(work, doing.subset), fate))
<1>3. /\ doing'.answer = IF fate = "raised" THEN NotRun ELSE r
      /\ doing'.subset = doing.subset /\ doing'.raised = doing.raised
  BY <1>1, <1>2 DEF Placed, Shape, IsDoing
<1>4. (faults' = 0 => faults = 0) /\ (faults' = 0 => fate = "answered")
  <2>1. Strikes(fate) \in Nat
    BY DEF Strikes
  <2> QED
    BY <1>1, <1>2, <2>1, StrikeFree DEF Strikes
<1>5. results["witness"] # Broke => SaidOf(work) = Without(task)
  <2>1. /\ Source # {} /\ \A f \in Source : work[f] = "base"
        /\ (\A f \in Files \ Source : work[f] \in {"HEAD", "edited"}) \/ results["witness"] = Broke
        /\ Source \subseteq Files
    BY <1>1, SourceIs DEF Placed, Places
  <2>2. \E f \in Files : work[f] = "base"
    BY <2>1
  <2>3. results["witness"] # Broke => \A f \in Files : work[f] # "mutated"
    BY <2>1
  <2> QED
    BY <1>1, <2>2, <2>3, SaidReverted
<1>6. ASSUME results["witness"] # Broke
      PROVE  /\ Heard(task, side, r, Without(task), doing.subset)
             /\ fate = "answered" /\ ~Breaks(task, side, Without(task), doing.subset) =>
                   /\ Reads(task, r, Without(task), RanOf(task, side, Without(task), doing.subset))
                   /\ r.uncollected = Listed(task, Without(task), doing.subset)
  <2>1. Told(task, side, Answer(work, doing.subset), Without(task), doing.subset)
    BY <1>1, <1>5, <1>6, AnswerIs
  <2> QED
    BY <2>1, HeardIs
<1> HIDE DEF r
<1>7. Claimed' = Claimed
  BY <1>1, Same
<1>8. fate = "answered" => fate # "raised"
  OBVIOUS
<1>9. ~doing.raised
  BY <1>1 DEF Reverting
<1>10. Reverting'
  <2>1. doing'.subset = Claimed' /\ task'.runner.enumerates /\ results'["tests"] # Broke
    BY <1>1, <1>3, <1>7 DEF Reverting
  <2>2. ASSUME results'["witness"] # Broke
        PROVE  /\ doing'.answer = NotRun \/ Heard(task', side', doing'.answer, Without(task'), doing'.subset)
               /\ Answering' =>
                \/ Breaks(task', side', Without(task'), doing'.subset)
                \/ /\ Reads(task', doing'.answer, Without(task'),
                            RanOf(task', side', Without(task'), doing'.subset))
                   /\ doing'.answer.uncollected = Listed(task', Without(task'), doing'.subset)
    <3>1. task' = task /\ side' = side /\ results["witness"] # Broke
      BY <1>1, <2>2
    <3>2. Answering' => fate = "answered"
      BY <1>4 DEF Answering
    <3> QED
      BY <1>3, <1>6, <1>8, <3>1, <3>2
  <2> QED
    BY <1>1, <1>3, <1>9, <2>1, <2>2 DEF Reverting
<1>11. Walk' /\ Testimony' /\ Probing'
  BY <1>1, <1>4, WalkKept, TestimonyKept, ProbingKept DEF Inv, Past
<1> QED
  BY <1>1, <1>10, <1>11 DEF Inv, Judgement
(* The reading of the reverted run enumerates nothing.                       *)
LEMMA NothingEnumerated ==
    ASSUME NEW answer, NEW subset
    PROVE  RevertVerdict(answer, subset).collected = Unreported
<1>1. \A S, t : [Verdict(S) EXCEPT !.tool = t].collected = Unreported
  BY DEF Verdict, Result
<1>2. Broke.collected = Unreported /\ Skip.collected = Unreported
  BY DEF Broke, Skip, Result
<1> QED
  BY <1>1, <1>2 DEF RevertVerdict

LEMMA RestoreInv ==
    ASSUME Inv, RestoreSource
    PROVE  Inv'
<1>1. /\ Placed' /\ Placed /\ task \in Tasks /\ pc = "restore" /\ pc \in Past /\ EditsSame
      /\ Testimony /\ Walk /\ Reverting /\ UNCHANGED <<task, side, baseline, verdict, asked>>
      /\ faults \in Nat /\ side = "head"
  BY RestorePlaced, MidEdits DEF Inv, Placed, Shape, Places, RestoreSource, Past
<1> DEFINE v == RevertVerdict(doing.answer, doing.subset)
<1>2. PICK left :
        /\ Strike(IF left = {} THEN 0 ELSE 1)
        /\ Answered("revert", IF doing.raised \/ RestoreRaises(left) THEN Broke ELSE v, "core")
  BY DEF RestoreSource
<1>3. /\ results'["revert"] = IF doing.raised \/ RestoreRaises(left) THEN Broke ELSE v
      /\ pc' = "core" /\ \A g \in Gates : g # "revert" => results'[g] = results[g]
  BY <1>1, <1>2, AnsweredIs DEF Gates, CoreGates
<1>4. results'["tests"] = results["tests"] /\ results'["witness"] = results["witness"]
  BY <1>3 DEF Gates, Declared, CoreGates
<1>5. faults' = 0 => faults = 0
  BY <1>1, <1>2, StrikeFree
<1>6. doing.subset = Claimed /\ task.runner.enumerates /\ Claimed' = Claimed
  BY <1>1, Same DEF Reverting
<1>7. ASSUME doing.answer = NotRun \/ Heard(task, side, doing.answer, Without(task), doing.subset)
      PROVE  Theater(v, task, side, doing.answer, Without(task), Claimed)
  BY <1>1, <1>6, <1>7, ClaimedAre, SaidIs, RevertVerdictIs
<1>12. v.collected = Unreported
  BY NothingEnumerated
<1> HIDE DEF v
<1>8. results'["revert"].collected = Unreported
  <2>1. Broke.collected = Unreported
    BY DEF Broke, Result
  <2> QED
    BY <1>3, <1>12, <2>1
<1>10. Reverting'
  <2>1. ASSUME results["witness"] # Broke, results'["revert"] # Broke
        PROVE  /\ ~doing.raised /\ results'["revert"] = v /\ v # Broke
               /\ doing.answer = NotRun \/ Heard(task, side, doing.answer, Without(task), doing.subset)
               /\ Theater(v, task, side, doing.answer, Without(task), Claimed)
    BY <1>1, <1>3, <1>7, <2>1 DEF Reverting
  <2>2. ASSUME results["witness"] # Broke, results'["revert"] # Broke, Answering
        PROVE  \/ ~task.runner.lists /\ \E n \in Claimed : Without(task)[n] = "gone"
               \/ DOMAIN v.failures # {}
               \/ \A n \in Claimed : Without(task)[n] # "pass"
    <3>1. CASE Breaks(task, side, Without(task), doing.subset)
      <4>1. PICK n \in Claimed : n \notin Here(task, Without(task)) /\ ~task.runner.lists
        BY <1>6, <2>2, <3>1 DEF Breaks, Answering
      <4>2. Without(task)[n] = "gone"
        BY <4>1, ClaimedAre DEF Here
      <4> QED
        BY <4>1, <4>2
    <3>2. CASE ~Breaks(task, side, Without(task), doing.subset)
      <4>1. /\ Reads(task, doing.answer, Without(task), RanOf(task, side, Without(task), Claimed))
            /\ doing.answer.uncollected = Listed(task, Without(task), Claimed)
        BY <1>1, <1>6, <2>1, <2>2, <3>2 DEF Reverting
      <4> QED
        BY <1>6, <2>1, <2>2, <3>2, <4>1 DEF Theater, Answering, Readable
    <3> QED
      BY <3>1, <3>2
  <2>3. Answering' => Answering
    BY <1>1, <1>5, Same DEF Answering
  <2>4. Source' = Source
    BY <1>1, FixedWith
  <2> QED
    BY <1>1, <1>3, <1>4, <1>6, <2>1, <2>2, <2>3, <2>4 DEF Reverting, Theater
<1>11. Walk' /\ Testimony' /\ Probing'
  BY <1>1, <1>3, <1>4, <1>5, <1>8, WalkKept, TestimonyKept, ProbingKept DEF Inv, Past
<1> QED
  BY <1>1, <1>3, <1>10, <1>11 DEF Inv, Judgement

(* The last gates read the tree and the two enumerations, and enumerate      *)
(* nothing.                                                                 *)
LEMMA CompleteReads ==
    ASSUME DOMAIN results = Gates, DOMAIN baseline = Gates,
           \A g \in Gates \ {"tests"} : results[g].collected = Unreported
    PROVE  /\ \A g \in Gates \ {"tests"} : Complete[g].collected = Unreported
           /\ side # "base" => /\ Complete["census"] = Census(baseline, Complete)
                               /\ Complete["criteria"] = Criteria(Criterias, baseline, Complete)
           /\ side = "base" => Complete["census"] = Skip /\ Complete["criteria"] = Skip
<1> DEFINE tier == EffectiveRisk(task, Changed)
           partial == [results EXCEPT
            !["scope"]     = Scope(task, Changed),
            !["integrity"] = Integrity(task, Changed),
            !["size"]      = Size(task, Changed, "size" \notin Advisory(task, tier)),
            !["committed"] = Committed(Dirty)]
           prior   == IF side = "base" THEN [g \in {} |-> NotRun] ELSE baseline
<1>1. Gates = {"tests", "lint", "scope", "integrity", "size", "witness", "revert", "committed", "census", "criteria"}
  BY DEF Gates, Declared, CoreGates
<1>2. Complete = [partial EXCEPT !["census"] = Census(prior, partial),
                                 !["criteria"] = Criteria(Criterias, prior, partial)]
  BY DEF Complete
<1>3. /\ Skip.collected = Unreported /\ Broke.collected = Unreported
      /\ \A S : Verdict(S).collected = Unreported
  BY DEF Skip, Broke, Verdict, Result
<1>4. /\ Scope(task, Changed).collected = Unreported
      /\ Integrity(task, Changed).collected = Unreported
      /\ Size(task, Changed, "size" \notin Advisory(task, tier)).collected = Unreported
      /\ Committed(Dirty).collected = Unreported
  BY <1>3 DEF Scope, Integrity, Size, Committed
<1>5. \A b, h : Census(b, h).collected = Unreported /\ Criteria(Criterias, b, h).collected = Unreported
  BY <1>3 DEF Census, Criteria
<1>6. /\ DOMAIN partial = Gates /\ partial["tests"] = results["tests"]
      /\ \A g \in Gates \ {"tests"} : partial[g].collected = Unreported
  <2> HIDE DEF tier
  <2>1. DOMAIN partial = Gates /\ partial["tests"] = results["tests"]
    BY <1>1
  <2>2. /\ partial["scope"] = Scope(task, Changed) /\ partial["integrity"] = Integrity(task, Changed)
        /\ partial["size"] = Size(task, Changed, "size" \notin Advisory(task, tier))
        /\ partial["committed"] = Committed(Dirty)
        /\ \A g \in {"lint", "witness", "revert", "census", "criteria"} : partial[g] = results[g]
    BY <1>1
  <2> HIDE DEF partial
  <2> QED
    BY <1>1, <1>4, <2>1, <2>2 DEF tier
<1> HIDE DEF partial, prior, tier
<1>7. /\ DOMAIN Complete = Gates /\ Complete["census"] = Census(prior, partial)
      /\ Complete["criteria"] = Criteria(Criterias, prior, partial)
      /\ \A g \in Gates \ {"census", "criteria"} : Complete[g] = partial[g]
  BY <1>1, <1>2, <1>6
<1>8. \A g \in Gates \ {"tests"} : Complete[g].collected = Unreported
  BY <1>5, <1>6, <1>7
<1>9. Collected(Complete) = Collected(partial) /\ Failed(Complete) = Failed(partial)
  <2>1. "tests" \in Gates /\ Complete["tests"] = partial["tests"]
    BY <1>1, <1>7
  <2> QED
    BY <1>6, <1>7, <1>8, <2>1, OnlyTests
<1>10. \A b : Census(b, Complete) = Census(b, partial)
  BY <1>9 DEF Census
<1>11. \A b : Criteria(Criterias, b, Complete) = Criteria(Criterias, b, partial)
  <2>1. \A w : Green(Complete, w) <=> Green(partial, w)
    BY <1>9 DEF Green
  <2>2. \A b, c : Judge(c, b, Complete) = Judge(c, b, partial)
    BY <1>9, <2>1 DEF Judge
  <2>3. Unreadable(Complete) <=> Unreadable(partial)
    BY <1>9 DEF Unreadable
  <2> QED
    BY <2>2, <2>3 DEF Criteria
<1>12. side # "base" => prior = baseline
  BY DEF prior
<1>13. ASSUME side = "base" PROVE Census(prior, partial) = Skip /\ Criteria(Criterias, prior, partial) = Skip
  <2>1. Enumerating(prior) = {}
    BY <1>13 DEF prior, Enumerating
  <2>2. Collected(prior) = Unreported
    BY <2>1 DEF Collected
  <2> QED
    BY <2>2 DEF Census, Criteria, Unreadable
<1> QED
  BY <1>7, <1>8, <1>10, <1>11, <1>12, <1>13

LEMMA EndBaselineInv ==
    ASSUME Inv, EndBaseline
    PROVE  Inv'
<1>1. /\ Placed' /\ Placed /\ task \in Tasks /\ pc = "core" /\ side = "base" /\ Testimony
      /\ DOMAIN results = Gates /\ DOMAIN baseline = Gates /\ pc \in Past
      /\ baseline' = Complete /\ results' = [g \in DOMAIN results |-> NotRun]
      /\ UNCHANGED <<task, faults, doing, verdict, asked>>
      /\ IF Aborted(Complete) # {} THEN pc' = "raised" /\ UNCHANGED <<side, work>>
         ELSE side' = "head" /\ pc' = "declared"
  BY EndBaselinePlaced DEF Inv, Placed, Shape, EndBaseline, Past
<1>2. /\ \A g \in Gates \ {"tests"} : Complete[g].collected = Unreported
      /\ Complete["census"] = Skip /\ Complete["criteria"] = Skip
  BY <1>1, CompleteReads DEF Testimony
<1>3. \A g \in Gates : results'[g].collected = Unreported
  BY <1>1 DEF NotRun, Result
<1>4. ASSUME Aborted(Complete) = {}
      PROVE  /\ Reads(task, Complete["tests"], BaseSaid, Here(task, BaseSaid))
             /\ Complete["revert"] = Skip
             /\ Complete["committed"].failures \in
                  {SetToBag(S) : S \in SUBSET {Failure("artifact", "uncommitted-change")}}
  <2>1. /\ DOMAIN Complete = Gates /\ Complete["tests"] = results["tests"]
        /\ Complete["revert"] = results["revert"] /\ Complete["witness"] = results["witness"]
        /\ Complete["committed"] = Committed(Dirty)
    BY <1>1, CompleteIs
  <2>2. "tests" \in Gates /\ "witness" \in Gates /\ "revert" \in Gates
    BY DEF Gates, Declared, CoreGates
  <2>3. results["tests"] # Broke /\ results["witness"] # Broke /\ results["revert"] # Broke
    BY <1>4, <2>1, <2>2, BrokeAborts
  <2>4. Said = BaseSaid /\ Strays(task, side) = {}
    BY <1>1 DEF Said, BaseSaid, SaidBy, Strays
  <2>5. Reads(task, results["tests"], BaseSaid, Here(task, BaseSaid) \union {})
    BY <1>1, <2>3, <2>4 DEF Testimony
  <2>6. Here(task, BaseSaid) \union {} = Here(task, BaseSaid)
    OBVIOUS
  <2>7. Dirty \subseteq {"artifact"}
    <3>1. Steady(work)
      BY <1>1, <2>3 DEF Placed, Places
    <3> QED
      BY <1>1, <3>1 DEF Placed, EditsBound, Steady, Dirty
  <2>8. Committed(Dirty).failures = SetToBag({Failure(f, "uncommitted-change") : f \in Dirty})
    BY DEF Committed, Verdict, Result
  <2>9. {Failure(f, "uncommitted-change") : f \in Dirty} \subseteq {Failure("artifact", "uncommitted-change")}
    BY <2>7
  <2> QED
    BY <1>1, <2>1, <2>5, <2>6, <2>8, <2>9 DEF Testimony
<1>5. BaseSaid' = BaseSaid
  BY <1>1 DEF BaseSaid
<1>6. pc' \in {"raised", "declared"} /\ (side' = "head" => Aborted(Complete) = {})
  BY <1>1
<1>7. Testimony'
  BY <1>1, <1>2, <1>3, <1>4, <1>5, <1>6 DEF Testimony, Past
<1>8. Probing'
  BY <1>1, <1>6, ProbingKept DEF Inv
<1> QED
  BY <1>1, <1>6, <1>7, <1>8 DEF Inv, Walk, Reverting, Judgement, Past

LEMMA JudgedInv ==
    ASSUME Inv, Judged
    PROVE  Inv'
<1>1. /\ Placed' /\ Placed /\ task \in Tasks /\ pc = "core" /\ side = "head" /\ Testimony /\ Walk
      /\ Reverting /\ DOMAIN results = Gates /\ DOMAIN baseline = Gates /\ pc \in Past /\ EditsSame
      /\ pc' = "judged" /\ results' = Complete /\ faults \in Nat
      /\ verdict' = Compare(Complete, baseline, Advisory(task, EffectiveRisk(task, Changed)))
      /\ UNCHANGED <<task, side, work, faults, baseline, doing, asked>>
  BY JudgedPlaced, MidEdits DEF Inv, Placed, Shape, Judged, Past
<1>2. /\ \A g \in Gates \ {"tests"} : Complete[g].collected = Unreported
      /\ Complete["census"] = Census(baseline, Complete)
      /\ Complete["criteria"] = Criteria(Criterias, baseline, Complete)
  BY <1>1, CompleteReads DEF Testimony
<1>3. /\ \A g \in {"tests", "lint", "witness", "revert"} : Complete[g] = results[g]
      /\ Complete["committed"] = Committed(Dirty)
  BY <1>1, CompleteIs
<1>4. Changed' = Changed /\ Criterias' = Criterias /\ Source' = Source /\ Claimed' = Claimed
      /\ (Readable' <=> Readable) /\ Dirty' = Dirty
  BY <1>1, FixedWith, Same DEF Dirty
<1>5. Judgement'
  BY <1>1, <1>2, <1>3, <1>4 DEF Judgement
<1>6. Walk'
  BY <1>1, <1>3, WalkKept DEF Past
<1>7. Testimony'
  BY <1>1, <1>2, <1>3, TestimonyKept
<1>8. Probing'
  BY <1>1, ProbingKept DEF Inv
<1>9. Reverting'
  <2>1. Answering' <=> Answering
    BY <1>1, <1>4 DEF Answering
  <2> QED
    BY <1>1, <1>3, <1>4, <2>1 DEF Reverting
<1> QED
  BY <1>1, <1>5, <1>6, <1>7, <1>8, <1>9 DEF Inv
-----------------------------------------------------------------------------
(* The comparison. *)

(* More of this failure at head than the baseline cancels.                  *)
Blames(g, e) ==
    LET held == Cancelling(g, baseline[g].failures)
    IN  /\ e \in DOMAIN results[g].failures
        /\ (IF e \in DOMAIN held THEN results[g].failures[e] - held[e] ELSE results[g].failures[e]) > 0

LEMMA CancellingIs ==
    ASSUME NEW g, NEW failures
    PROVE  /\ \A f : f \in DOMAIN Cancelling(g, failures) <=>
                f \in DOMAIN failures /\ ~(g = "witness" /\ f.code = "survived-mutant")
           /\ \A f \in DOMAIN Cancelling(g, failures) : Cancelling(g, failures)[f] = failures[f]
  BY DEF Cancelling, BagToSet

LEMMA LessIs ==
    ASSUME NEW B, NEW C, NEW e
    PROVE  e \in DOMAIN (B (-) C) <=>
             e \in DOMAIN B /\ (IF e \in DOMAIN C THEN B[e] - C[e] ELSE B[e]) > 0
  BY DEF (-)

(* What is new is what is blamed, of a gate that is not advisory, and of a   *)
(* suite in which no gate erred.                                            *)
LEMMA ComparedIs ==
    ASSUME DOMAIN results = Gates, NEW advisory, verdict = Compare(results, baseline, advisory)
    PROVE  /\ verdict.aborted = Aborted(results)
           /\ \A b \in verdict.new : b[1] \in Gates \ advisory /\ Blames(b[1], b[2])
           /\ verdict.new # {} => verdict.aborted = {}
           /\ IsGreen(verdict) => \A g \in Gates \ advisory : \A e : ~Blames(g, e)
<1> DEFINE aborted == Aborted(results)
           drift == IF aborted = {} THEN SuiteDrift(results, baseline) ELSE {}
           less == NewFailures(results, baseline)
           new == [g \in DOMAIN results |-> IF aborted \cup drift # {} THEN EmptyBag ELSE less[g]]
<1>1. /\ verdict.aborted = aborted /\ verdict.drift = drift
      /\ verdict.new = UNION {{<<g, f>> : f \in BagToSet(new[g])} : g \in DOMAIN new \ advisory}
  BY DEF Compare
<1>2. \A g \in Gates : less[g] = results[g].failures (-) Cancelling(g, baseline[g].failures)
  BY DEF NewFailures
<1>3. \A g \in Gates : \A e : e \in DOMAIN less[g] <=> Blames(g, e)
  BY <1>2, LessIs DEF Blames
<1> HIDE DEF less, drift
<1>4. DOMAIN EmptyBag = {}
  BY DEF EmptyBag, SetToBag
<1>5. \A g \in Gates : new[g] = IF aborted \cup drift # {} THEN EmptyBag ELSE less[g]
  OBVIOUS
<1>6. DOMAIN new = Gates
  OBVIOUS
<1> HIDE DEF new, aborted
<1>7. \A b \in verdict.new : b[1] \in Gates \ advisory /\ b[2] \in DOMAIN new[b[1]]
  BY <1>1, <1>6 DEF BagToSet
<1>8. \A g \in Gates \ advisory : \A e \in DOMAIN new[g] : <<g, e>> \in verdict.new
  BY <1>1, <1>6 DEF BagToSet
<1>9. ASSUME verdict.new # {} PROVE aborted = {}
  BY <1>4, <1>5, <1>7, <1>9
<1>10. \A b \in verdict.new : b[1] \in Gates \ advisory /\ Blames(b[1], b[2])
  BY <1>3, <1>4, <1>5, <1>7
<1>11. ASSUME IsGreen(verdict), NEW g \in Gates \ advisory, NEW e PROVE ~Blames(g, e)
  BY <1>1, <1>3, <1>5, <1>8, <1>11 DEF IsGreen
<1> QED
  BY <1>1, <1>9, <1>10, <1>11 DEF aborted

(* What a suite that was compared has said, none of its gates in error.      *)
LEMMA JudgedIs ==
    ASSUME Inv, pc = "judged"
    PROVE  /\ side = "head" /\ task \in Tasks
           /\ \A b \in verdict.new : b[1] \in Gates /\ Blames(b[1], b[2])
           /\ verdict.new # {} => verdict.aborted = {}
           /\ IsGreen(verdict) =>
                \A g \in Gates \ (task.advisory \union {"size"}) : \A e : ~Blames(g, e)
           /\ verdict.aborted = {} =>
                 /\ Steady(work) /\ results["witness"] # Broke /\ results["revert"] # Broke
                 /\ Reads(task, results["tests"], Said, Here(task, Said) \union Strays(task, "head"))
                 /\ results["tests"] # Broke
<1> DEFINE advisory == Advisory(task, EffectiveRisk(task, Changed))
<1>1. /\ side = "head" /\ task \in Tasks /\ DOMAIN results = Gates
      /\ verdict = Compare(results, baseline, advisory)
      /\ Steady(work) \/ verdict.aborted # {}
  BY DEF Inv, Placed, Shape, Places, Judgement
<1>2. advisory \subseteq task.advisory \union {"size"}
  BY DEF Advisory
<1> HIDE DEF advisory
<1>3. verdict.aborted = Aborted(results)
  BY <1>1, ComparedIs
<1>4. "tests" \in Gates /\ "witness" \in Gates /\ "revert" \in Gates
  BY DEF Gates, Declared, CoreGates
<1>5. ASSUME verdict.aborted = {}
      PROVE  results["witness"] # Broke /\ results["revert"] # Broke /\ results["tests"] # Broke
  BY <1>1, <1>3, <1>4, <1>5, BrokeAborts
<1>6. ASSUME verdict.aborted = {}
      PROVE  Reads(task, results["tests"], Said, Here(task, Said) \union Strays(task, "head"))
  BY <1>1, <1>5, <1>6 DEF Inv, Testimony, Past
<1>7. /\ \A b \in verdict.new : b[1] \in Gates \ advisory /\ Blames(b[1], b[2])
      /\ verdict.new # {} => verdict.aborted = {}
      /\ IsGreen(verdict) => \A g \in Gates \ advisory : \A e : ~Blames(g, e)
  BY <1>1, ComparedIs
<1> QED
  BY <1>1, <1>2, <1>5, <1>6, <1>7

(* Where a side can be read, what is green on it passes.                    *)
LEMMA GreenIs ==
    ASSUME task \in Tasks, task.runner.enumerates, NEW r, NEW said, NEW strays, strays \subseteq {Stray},
           \A n \in NamesOf(task) : said[n] \in Saying,
           "tests" \in DOMAIN r, \A g \in DOMAIN r \ {"tests"} : r[g].collected = Unreported,
           Reads(task, r["tests"], said, Here(task, said) \union strays)
    PROVE  /\ Collected(r) = Here(task, said) \union strays /\ Collected(r) # Unreported
           /\ task.runner.keyed => ~Unreadable(r)
           /\ ~Unreadable(r) => \A n \in NamesOf(task) : Green(r, n) <=> said[n] = "pass"
<1> DEFINE ran == Here(task, said) \union strays
           failing == ran \intersect Failing(task, said)
<1>1. /\ r["tests"].collected = ran /\ r["tests"].failures = FailuresOf(task, failing)
  BY DEF Reads
<1>2. Here(task, said) \subseteq NamesOf(task) /\ Failing(task, said) \subseteq Here(task, said)
  BY DEF Here, Failing
<1>3. "(unreported)" \notin ran /\ "AssertionError" \notin ran /\ Stray \notin NamesOf(task)
  BY <1>2, TaskIs DEF NamesOf, Names, Unreported, Stray
<1>4. failing = Failing(task, said)
  BY <1>2
<1> HIDE DEF failing, ran
<1>5. ran # Unreported
  BY <1>3 DEF Unreported
<1>6. Collected(r) = ran /\ Failed(r) = Codes(r["tests"])
  BY <1>1, <1>5, OnlyTests
<1>7. /\ task.runner.keyed => Failed(r) = failing
      /\ ~task.runner.keyed => Failed(r) \subseteq {"AssertionError"}
      /\ Failed(r) = {} <=> failing = {}
  BY <1>1, <1>6, CodesAre
<1>8. failing \subseteq ran
  BY DEF failing
<1>9. task.runner.keyed => ~Unreadable(r)
  BY <1>5, <1>6, <1>7, <1>8 DEF Unreadable
<1>10. ASSUME ~Unreadable(r), NEW n \in NamesOf(task) PROVE Green(r, n) <=> said[n] = "pass"
  <2>1. Failed(r) = failing
    <3>1. CASE task.runner.keyed
      BY <1>7, <3>1
    <3>2. CASE ~task.runner.keyed
      <4>1. Failed(r) \intersect ran = {}
        BY <1>3, <1>7, <3>2
      <4> QED
        BY <1>6, <1>7, <1>10, <4>1 DEF Unreadable
    <3> QED
      BY <3>1, <3>2
  <2>2. n \in ran <=> said[n] # "gone"
    BY <1>3 DEF ran, Here
  <2>3. n \in failing <=> said[n] = "fail"
    BY <1>4 DEF Failing
  <2> QED
    BY <1>6, <2>1, <2>2, <2>3 DEF Green, Saying
<1> QED
  BY <1>5, <1>6, <1>9, <1>10 DEF ran
(* The two sides of a comparison none of whose gates erred, as they are read. *)
LEMMA SidesAre ==
    ASSUME Inv, pc = "judged", verdict.aborted = {}, task.runner.enumerates
    PROVE  /\ Collected(baseline) = Here(task, BaseSaid)
           /\ Collected(results) = Here(task, Said) \union Strays(task, "head")
           /\ results["census"].failures =
                SetToBag({Failure(n, "removed-test") : n \in Collected(baseline) \ Collected(results)})
           /\ task.runner.keyed => ~Unreadable(baseline) /\ ~Unreadable(results)
           /\ ~Unreadable(baseline) => \A n \in NamesOf(task) : Green(baseline, n) <=> BaseSaid[n] = "pass"
           /\ ~Unreadable(results) => \A n \in NamesOf(task) : Green(results, n) <=> Said[n] = "pass"
<1>1. /\ side = "head" /\ task \in Tasks /\ DOMAIN results = Gates /\ DOMAIN baseline = Gates
      /\ Testimony /\ Judgement /\ "tests" \in Gates
      /\ Reads(task, results["tests"], Said, Here(task, Said) \union Strays(task, "head"))
  BY JudgedIs DEF Inv, Placed, Shape, Gates, Declared
<1>2. /\ \A n \in NamesOf(task) : Said[n] \in Saying
      /\ \A n \in NamesOf(task) : BaseSaid[n] \in Saying
  BY <1>1, SaidIs DEF Said, BaseSaid
<1>3. /\ \A g \in Gates \ {"tests"} : results[g].collected = Unreported /\ baseline[g].collected = Unreported
      /\ Reads(task, baseline["tests"], BaseSaid, Here(task, BaseSaid))
  BY <1>1 DEF Testimony
<1>4. Strays(task, "head") \subseteq {Stray}
  BY DEF Strays
<1>5. /\ Collected(results) = Here(task, Said) \union Strays(task, "head")
      /\ Collected(results) # Unreported /\ task.runner.keyed => ~Unreadable(results)
      /\ ~Unreadable(results) => \A n \in NamesOf(task) : Green(results, n) <=> Said[n] = "pass"
  <2> DEFINE strays == Strays(task, "head")
             said == Said
  <2>1. strays \subseteq {Stray} /\ \A n \in NamesOf(task) : said[n] \in Saying
    BY <1>2, <1>4
  <2>2. Reads(task, results["tests"], said, Here(task, said) \union strays)
    BY <1>1
  <2>3. "tests" \in DOMAIN results /\ \A g \in DOMAIN results \ {"tests"} : results[g].collected = Unreported
    BY <1>1, <1>3
  <2> HIDE DEF strays, said
  <2>4. /\ Collected(results) = Here(task, said) \union strays
        /\ Collected(results) # Unreported /\ task.runner.keyed => ~Unreadable(results)
        /\ ~Unreadable(results) => \A n \in NamesOf(task) : Green(results, n) <=> said[n] = "pass"
    BY <1>1, <2>1, <2>2, <2>3, GreenIs
  <2> QED
    BY <2>4 DEF strays, said
<1>6. Here(task, BaseSaid) \union {} = Here(task, BaseSaid)
  OBVIOUS
<1>7. /\ Collected(baseline) = Here(task, BaseSaid) \union {}
      /\ Collected(baseline) # Unreported /\ task.runner.keyed => ~Unreadable(baseline)
      /\ ~Unreadable(baseline) => \A n \in NamesOf(task) : Green(baseline, n) <=> BaseSaid[n] = "pass"
  <2>1. {} \subseteq {Stray}
    OBVIOUS
  <2>2. Reads(task, baseline["tests"], BaseSaid, Here(task, BaseSaid) \union {})
    BY <1>3, <1>6
  <2> QED
    BY <1>1, <1>2, <1>3, <2>1, <2>2, GreenIs
<1>8. /\ Collected(baseline) = Here(task, BaseSaid) /\ Collected(baseline) # Unreported
      /\ Collected(results) # Unreported
  <2>1. Here(task, BaseSaid) \subseteq NamesOf(task) /\ Here(task, Said) \subseteq NamesOf(task)
    BY DEF Here
  <2> QED
    BY <1>1, <1>5, <1>6, <1>7, <2>1, NamesReported
<1>9. results["census"].failures =
        SetToBag({Failure(n, "removed-test") : n \in Collected(baseline) \ Collected(results)})
  BY <1>1, <1>8 DEF Judgement, Census, Verdict, Result
<1> QED
  BY <1>5, <1>6, <1>7, <1>8, <1>9

(* The failures of the two whole suites, where they are keyed by name.      *)
LEMMA TestsAre ==
    ASSUME Inv, pc = "judged", verdict.aborted = {}, task.runner.keyed
    PROVE  /\ results["tests"].failures = SetToBag({Failure("test", n) : n \in Failing(task, Said)})
           /\ baseline["tests"].failures = SetToBag({Failure("test", n) : n \in Failing(task, BaseSaid)})
<1>1. /\ Reads(task, results["tests"], Said, Here(task, Said) \union Strays(task, "head"))
      /\ Reads(task, baseline["tests"], BaseSaid, Here(task, BaseSaid))
  BY JudgedIs DEF Inv, Testimony
<1>2. /\ (Here(task, Said) \union Strays(task, "head")) \intersect Failing(task, Said) = Failing(task, Said)
      /\ Here(task, BaseSaid) \intersect Failing(task, BaseSaid) = Failing(task, BaseSaid)
  BY DEF Here, Failing
<1> QED
  BY <1>1, <1>2 DEF Reads, FailuresOf

(* A witness the criteria fail does not pass, or passes what it ought not.   *)
LEMMA CriteriaBlame ==
    ASSUME Inv, pc = "judged", verdict.aborted = {}, NEW e \in DOMAIN results["criteria"].failures
    PROVE  \E c \in Criterias : c.witness = e.file /\
              ~(HeadSays(e.file) = "pass" /\ (c.preserves <=> Says(e.file, "base") = "pass"))
<1>1. side = "head" /\ task \in Tasks /\ results["criteria"] = Criteria(Criterias, baseline, results)
  BY JudgedIs DEF Inv, Judgement
<1>2. DOMAIN Skip.failures = {}
  BY DEF Skip, Result, EmptyBag, SetToBag
<1>3. ~Unreadable(baseline) /\ ~Unreadable(results)
  BY <1>1, <1>2 DEF Criteria
<1> DEFINE judged == {d \in Criterias : Judge(d, baseline, results) # None}
<1>4. results["criteria"].failures =
        SetToBag({Failure(c.witness, Judge(c, baseline, results)) : c \in judged})
  BY <1>1, <1>2 DEF Criteria, Verdict, Result
<1>5. PICK c \in judged : e.file = c.witness
  BY <1>4 DEF SetToBag, Failure
<1>6. ASSUME HeadSays(c.witness) = "pass", c.preserves <=> Says(c.witness, "base") = "pass"
      PROVE  FALSE
  <2> DEFINE n == c.witness
  <2>1. n \in NamesOf(task)
    BY <1>6 DEF HeadSays, Says, NamesOf
  <2>2. Said[n] = "pass" /\ (c.preserves <=> BaseSaid[n] = "pass")
    BY <1>1, <1>6, <2>1, SaysIs
  <2>3. task.runner.enumerates
    <3>1. pc \in Past
      BY DEF Past
    <3> QED
      BY <1>1, <1>3, <3>1, CollectedAre DEF Unreadable
  <2>4. Green(results, n) /\ (Green(baseline, n) <=> BaseSaid[n] = "pass")
    BY <1>3, <2>1, <2>2, <2>3, SidesAre
  <2>5. n \in Collected(results)
    BY <2>4 DEF Green
  <2> QED
    BY <2>2, <2>4, <2>5 DEF Judge
<1> QED
  BY <1>5, <1>6

LEMMA BlameFollows ==
    ASSUME Inv
    PROVE  BlameIsFair
<1> SUFFICES ASSUME pc = "judged", NEW blame \in verdict.new
             PROVE  LET name == blame[2].file IN
                CASE blame[1] = "committed" -> name \in task.edits \cup {"artifact"}
                  [] blame[1] = "census"    -> Says(name, "base") # "gone" /\ HeadSays(name) = "gone"
                  [] blame[1] = "tests"     ->
                       task.runner.keyed => HeadSays(blame[2].code) = "fail"
                                            /\ Says(blame[2].code, "base") # "fail"
                  [] blame[1] = "criteria"  -> \E c \in Criterias : c.witness = name /\
                       ~(HeadSays(name) = "pass" /\ (c.preserves <=> Says(name, "base") = "pass"))
                  [] blame[1] = "revert"    -> Says(name, "without") = "pass" /\ Claims(name)
                  [] blame[1] = "witness"   -> \E i \in DOMAIN WithMutant :
                       WithMutant[i].witness = name /\ ~Notices(name, WithMutant[i].mutant)
                  [] OTHER                  -> TRUE
  BY DEF BlameIsFair
<1> DEFINE g == blame[1]
           e == blame[2]
<1>1. /\ side = "head" /\ task \in Tasks /\ Blames(g, e) /\ verdict.aborted = {}
      /\ Steady(work) /\ results["witness"] # Broke /\ results["revert"] # Broke
  BY JudgedIs
<1>2. e \in DOMAIN results[g].failures
  BY <1>1 DEF Blames
<1>3. ASSUME g = "committed" PROVE e.file \in task.edits \cup {"artifact"}
  <2>1. results["committed"].failures = SetToBag({Failure(f, "uncommitted-change") : f \in Dirty})
    BY DEF Inv, Judgement, Committed, Verdict, Result
  <2>2. e.file \in Dirty
    BY <1>2, <1>3, <2>1 DEF SetToBag, Failure
  <2>3. work[e.file] = "edited" /\ e.file \in Files
    BY <1>1, <2>2 DEF Dirty, Steady
  <2> QED
    BY <1>1, <2>3 DEF Inv, Placed, EditsBound
<1>4. ASSUME g = "census" PROVE Says(e.file, "base") # "gone" /\ HeadSays(e.file) = "gone"
  <2>1. results["census"] = Census(baseline, results)
    BY DEF Inv, Judgement
  <2>2. DOMAIN Skip.failures = {}
    BY DEF Skip, Result, EmptyBag, SetToBag
  <2>3. Collected(baseline) # Unreported
    BY <1>2, <1>4, <2>1, <2>2 DEF Census
  <2>4. task.runner.enumerates
    BY <1>1, <2>3, CollectedAre DEF Past
  <2>5. /\ results["census"].failures =
             SetToBag({Failure(n, "removed-test") : n \in Collected(baseline) \ Collected(results)})
        /\ Collected(baseline) = Here(task, BaseSaid)
        /\ Collected(results) = Here(task, Said) \union Strays(task, "head")
    BY <1>1, <2>4, SidesAre
  <2>6. e.file \in Collected(baseline) \ Collected(results)
    BY <1>2, <1>4, <2>5 DEF SetToBag, Failure
  <2>7. e.file \in NamesOf(task) /\ BaseSaid[e.file] # "gone" /\ Said[e.file] = "gone"
    BY <2>5, <2>6 DEF Here
  <2> QED
    BY <1>1, <2>7, SaysIs
<1>5. ASSUME g = "tests", task.runner.keyed
      PROVE  HeadSays(e.code) = "fail" /\ Says(e.code, "base") # "fail"
  <2>1. /\ results["tests"].failures = SetToBag({Failure("test", n) : n \in Failing(task, Said)})
        /\ baseline["tests"].failures = SetToBag({Failure("test", n) : n \in Failing(task, BaseSaid)})
    BY <1>1, <1>5, TestsAre
  <2>2. PICK n \in Failing(task, Said) : e = Failure("test", n)
    BY <1>2, <1>5, <2>1 DEF SetToBag
  <2>3. e.code = n /\ n \in NamesOf(task) /\ Said[n] = "fail"
    BY <2>2 DEF Failure, Failing
  <2>4. BaseSaid[n] # "fail"
    <3> SUFFICES ASSUME BaseSaid[n] = "fail" PROVE FALSE
      OBVIOUS
    <3>1. e \in DOMAIN baseline["tests"].failures /\ baseline["tests"].failures[e] = 1
          /\ results["tests"].failures[e] = 1
      BY <1>2, <1>5, <2>1, <2>2, <2>3 DEF SetToBag, Failing
    <3> DEFINE held == Cancelling("tests", baseline["tests"].failures)
    <3>2. e \in DOMAIN held /\ held[e] = 1
      BY <3>1, CancellingIs
    <3> QED
      BY <1>1, <1>5, <3>1, <3>2 DEF Blames
  <2> QED
    BY <1>1, <2>3, <2>4, SaysIs
<1>6. g = "criteria" => \E c \in Criterias : c.witness = e.file /\
        ~(HeadSays(e.file) = "pass" /\ (c.preserves <=> Says(e.file, "base") = "pass"))
  BY <1>1, <1>2, CriteriaBlame
<1>7. ASSUME g = "revert" PROVE Says(e.file, "without") = "pass" /\ Claims(e.file)
  <2>1. e.file \in Claimed /\ Without(task)[e.file] = "pass"
    BY <1>1, <1>2, <1>7 DEF Inv, Reverting
  <2> QED
    BY <1>1, <2>1, SaysIs DEF Claimed
<1>8. ASSUME g = "witness"
      PROVE  \E i \in DOMAIN WithMutant :
               WithMutant[i].witness = e.file /\ ~Notices(e.file, WithMutant[i].mutant)
  <2>1. Survivors(results["witness"].failures)
    BY <1>1 DEF Inv, Walk, Past
  <2>2. PICK c \in Members(WithMutant) : c.witness = e.file /\ ~Notices(c.witness, c.mutant)
    BY <1>2, <1>8, <2>1 DEF Survivors
  <2> QED
    BY <2>2 DEF Members
<1> QED
  BY <1>3, <1>4, <1>5, <1>6, <1>7, <1>8

(* A failure that the base had none of cancels nothing. *)
LEMMA Uncancelled ==
    ASSUME Inv, pc = "judged", IsGreen(verdict), NEW g \in Gates \ (task.advisory \union {"size"}),
           NEW e \in DOMAIN results[g].failures, results[g].failures[e] \in Nat \ {0}
    PROVE  /\ e \in DOMAIN baseline[g].failures
           /\ ~(g = "witness" /\ e.code = "survived-mutant")
<1>1. ~Blames(g, e)
  BY JudgedIs
<1>2. e \in DOMAIN Cancelling(g, baseline[g].failures)
  BY <1>1 DEF Blames
<1> QED
  BY <1>2, CancellingIs
(* On a green comparison, each criterion's witness passes, and did or did    *)
(* not at the base as it was to.                                            *)
LEMMA GreenCriteria ==
    ASSUME Inv, pc = "judged", IsGreen(verdict), Readable, NEW c \in Criterias
    PROVE  /\ c.witness \in NamesOf(task) /\ Said[c.witness] = "pass"
           /\ c.preserves <=> BaseSaid[c.witness] = "pass"
<1>1. side = "head" /\ task \in Tasks /\ verdict.aborted = {} /\ Testimony
  BY JudgedIs DEF IsGreen, Inv
<1>2. /\ task.runner.enumerates /\ ~Unreadable(baseline) /\ ~Unreadable(results)
      /\ Collected(results) = Here(task, Said) \union Strays(task, "head")
      /\ \A n \in NamesOf(task) : Green(baseline, n) <=> BaseSaid[n] = "pass"
      /\ \A n \in NamesOf(task) : Green(results, n) <=> Said[n] = "pass"
  BY <1>1, SidesAre DEF Readable
<1> DEFINE judged == {d \in Criterias : Judge(d, baseline, results) # None}
           e == Failure(c.witness, Judge(c, baseline, results))
<1>3. results["criteria"].failures =
        SetToBag({Failure(d.witness, Judge(d, baseline, results)) : d \in judged})
  <2>1. Criterias # {} /\ results["criteria"] = Criteria(Criterias, baseline, results)
    BY DEF Inv, Judgement
  <2>2. Verdict({Failure(d.witness, Judge(d, baseline, results)) : d \in judged}).failures
          = SetToBag({Failure(d.witness, Judge(d, baseline, results)) : d \in judged})
    BY DEF Verdict, Result
  <2> QED
    BY <1>2, <2>1, <2>2 DEF Criteria
<1>4. "criteria" \in Gates \ (task.advisory \union {"size"})
  BY <1>1, TaskIs DEF Gates, Declared, CoreGates
<1>5. DOMAIN baseline["criteria"].failures = {}
  BY <1>1 DEF Testimony, Skip, Result, EmptyBag, SetToBag
<1>6. Judge(c, baseline, results) = None
  <2> SUFFICES ASSUME Judge(c, baseline, results) # None PROVE FALSE
    OBVIOUS
  <2>1. e \in DOMAIN results["criteria"].failures /\ results["criteria"].failures[e] = 1
    BY <1>3 DEF SetToBag
  <2> HIDE DEF e
  <2> QED
    BY <1>4, <1>5, <2>1, Uncancelled
<1>7. /\ c.witness \in Collected(results) /\ Green(results, c.witness)
      /\ c.preserves <=> Green(baseline, c.witness)
  BY <1>1, <1>6, CriteriaAre DEF Judge, None
<1>8. c.witness \in NamesOf(task)
  BY <1>1, <1>2, <1>7, CriteriaAre DEF Here, Strays
<1> QED
  BY <1>2, <1>7, <1>8

LEMMA GreenFollows ==
    ASSUME Inv
    PROVE  GreenIsSound
<1> SUFFICES ASSUME pc = "judged", IsGreen(verdict)
             PROVE  GreenIsSound
  BY DEF GreenIsSound
<1>1. /\ side = "head" /\ task \in Tasks /\ verdict.aborted = {} /\ Testimony /\ Steady(work)
      /\ results["tests"] # Broke /\ results["witness"] # Broke /\ results["revert"] # Broke
  BY JudgedIs DEF IsGreen, Inv
<1>2. /\ task.advisory \subseteq Declared
      /\ \A g \in CoreGates \ {"size"} : g \in Gates \ (task.advisory \union {"size"})
  BY <1>1, TaskIs DEF Gates, Declared, CoreGates
<1>3. DOMAIN Skip.failures = {}
  BY DEF Skip, Result, EmptyBag, SetToBag
<1>4. Dirty \subseteq {"artifact"}
  <2> SUFFICES ASSUME NEW f \in Dirty PROVE f = "artifact"
    OBVIOUS
  <2> DEFINE e == Failure(f, "uncommitted-change")
  <2>1. results["committed"].failures = SetToBag({Failure(d, "uncommitted-change") : d \in Dirty})
    BY DEF Inv, Judgement, Committed, Verdict, Result
  <2>2. e \in DOMAIN results["committed"].failures /\ results["committed"].failures[e] = 1
    BY <2>1 DEF SetToBag
  <2>3. e.file = f
    BY DEF Failure
  <2> HIDE DEF e
  <2>4. "committed" \in Gates \ (task.advisory \union {"size"})
    BY <1>2 DEF CoreGates
  <2>5. e \in DOMAIN baseline["committed"].failures
    BY <2>2, <2>4, Uncancelled
  <2>6. PICK S \in SUBSET {Failure("artifact", "uncommitted-change")} :
           baseline["committed"].failures = SetToBag(S)
    BY <1>1 DEF Testimony
  <2>7. e = Failure("artifact", "uncommitted-change")
    BY <2>5, <2>6 DEF SetToBag
  <2> QED
    BY <2>3, <2>7 DEF Failure
<1>5. Said = HeadSaid
  <2>1. work["src"] # "edited"
    BY <1>4 DEF Dirty, Files
  <2> QED
    BY <1>1, <2>1 DEF Said, HeadSaid
<1>6. ASSUME task.runner.enumerates, NEW n \in DOMAIN task.truth, Says(n, "base") # "gone"
      PROVE  Says(n, "head") # "gone"
  <2>1. n \in NamesOf(task) /\ BaseSaid[n] # "gone"
    BY <1>1, <1>6, SaysIs DEF NamesOf
  <2>2. /\ results["census"].failures =
             SetToBag({Failure(m, "removed-test") : m \in Collected(baseline) \ Collected(results)})
        /\ Collected(baseline) = Here(task, BaseSaid)
        /\ Collected(results) = Here(task, Said) \union Strays(task, "head")
    BY <1>1, <1>6, SidesAre
  <2>3. n \in Collected(results)
    <3> SUFFICES ASSUME n \notin Collected(results) PROVE FALSE
      OBVIOUS
    <3> DEFINE e == Failure(n, "removed-test")
    <3>1. n \in Collected(baseline) \ Collected(results)
      BY <2>1, <2>2 DEF Here
    <3>2. e \in DOMAIN results["census"].failures /\ results["census"].failures[e] = 1
      BY <2>2, <3>1 DEF SetToBag
    <3> HIDE DEF e
    <3>3. "census" \in Gates \ (task.advisory \union {"size"}) /\ DOMAIN baseline["census"].failures = {}
      BY <1>1, <1>2, <1>3 DEF CoreGates, Testimony
    <3> QED
      BY <3>2, <3>3, Uncancelled
  <2>4. n # Stray
    BY <1>1, <2>1, TaskIs DEF NamesOf, Names
  <2>5. Said[n] # "gone"
    BY <2>1, <2>2, <2>3, <2>4 DEF Here, Strays
  <2> QED
    BY <1>1, <1>5, <2>1, <2>5, SaysIs
<1>7. ASSUME "tests" \notin task.advisory, task.runner.keyed, NEW n \in DOMAIN task.truth,
             Says(n, "head") = "fail"
      PROVE  Says(n, "base") = "fail"
  <2> DEFINE e == Failure("test", n)
  <2>1. n \in NamesOf(task) /\ Said[n] = "fail"
    BY <1>1, <1>5, <1>7, SaysIs DEF NamesOf
  <2>2. /\ results["tests"].failures = SetToBag({Failure("test", m) : m \in Failing(task, Said)})
        /\ baseline["tests"].failures = SetToBag({Failure("test", m) : m \in Failing(task, BaseSaid)})
    BY <1>1, <1>7, TestsAre
  <2>3. e \in DOMAIN results["tests"].failures /\ results["tests"].failures[e] = 1
    BY <2>1, <2>2 DEF SetToBag, Failing
  <2>4. "tests" \in Gates \ (task.advisory \union {"size"})
    BY <1>7 DEF Gates, Declared
  <2> HIDE DEF e
  <2>5. e \in DOMAIN baseline["tests"].failures
    BY <2>3, <2>4, Uncancelled
  <2>6. PICK m \in Failing(task, BaseSaid) : e = Failure("test", m)
    BY <2>2, <2>5 DEF SetToBag
  <2>7. m = n
    BY <2>6 DEF e, Failure
  <2>8. BaseSaid[n] = "fail"
    BY <2>6, <2>7 DEF Failing
  <2> QED
    BY <1>1, <2>1, <2>8, SaysIs
<1>8. ASSUME Readable, NEW c \in Criterias
      PROVE  Says(c.witness, "head") = "pass" /\ (c.preserves <=> Says(c.witness, "base") = "pass")
  <2>1. /\ c.witness \in NamesOf(task) /\ Said[c.witness] = "pass"
        /\ c.preserves <=> BaseSaid[c.witness] = "pass"
    BY <1>8, GreenCriteria
  <2> QED
    BY <1>1, <1>5, <2>1, SaysIs
<1>9. ASSUME Answering, NEW i \in DOMAIN WithMutant
      PROVE  \/ MutantRefused(WithMutant[i].mutant)
             \/ Notices(WithMutant[i].witness, WithMutant[i].mutant)
  <2> DEFINE c == WithMutant[i]
  <2>1. c \in Members(WithMutant)
    BY DEF Members
  <2>2. c.mutant \in Files \union {Outside} /\ c.witness \in Witnesses
    BY <1>1, <2>1, WithMutantIs
  <2> HIDE DEF c
  <2>3. PICK d \in Criterias : d.witness = c.witness
    BY <2>2 DEF Witnesses
  <2>4. c.witness \in NamesOf(task) /\ Said[c.witness] = "pass"
    BY <1>9, <2>3, GreenCriteria DEF Answering
  <2>5. Survivors(results["witness"].failures)
    BY <1>1 DEF Inv, Walk, Past
  <2>6. "witness" \in Gates \ (task.advisory \union {"size"})
    BY <1>2 DEF CoreGates
  <2>7. DOMAIN results["witness"].failures = {}
    BY <2>5, <2>6, Uncancelled DEF Survivors
  <2>8. Settled(c)
    BY <1>1, <1>9, <2>1, <2>7 DEF Inv, Walk, Past
  <2>9. Unmutable(c.mutant) \/ Notices(c.witness, c.mutant)
    BY <2>4, <2>8 DEF Settled
  <2>10. Unmutable(c.mutant) => MutantRefused(c.mutant)
    BY DEF Unmutable, MutantRefused
  <2> QED
    BY <2>9, <2>10 DEF c
<1>10. ASSUME Answering, task.testPaths # {}, Source # {}
       PROVE  \/ \E n \in DOMAIN task.truth :
                    Claims(n) /\ Says(n, "without") = "gone" /\ ~task.runner.lists
              \/ \A n \in DOMAIN task.truth : Claims(n) => Says(n, "without") # "pass"
  <2>1. \A f \in Source : work[f] # "edited"
    <3>1. Source \subseteq Files \ {"artifact"}
      BY <1>1, SourceIs
    <3> QED
      BY <1>4, <3>1 DEF Dirty
  <2>2. "revert" \in Gates \ (task.advisory \union {"size"}) /\ DOMAIN baseline["revert"].failures = {}
    BY <1>1, <1>2, <1>3 DEF CoreGates, Testimony
  <2>3. \A e \in DOMAIN results["revert"].failures : results["revert"].failures[e] \in Nat \ {0}
    BY <1>1 DEF Inv, Reverting
  <2>4. DOMAIN results["revert"].failures = {}
    BY <2>2, <2>3, Uncancelled
  <2>5. \/ ~task.runner.lists /\ \E n \in Claimed : Without(task)[n] = "gone"
        \/ \A n \in Claimed : Without(task)[n] # "pass"
    BY <1>1, <1>10, <2>1, <2>4 DEF Inv, Reverting
  <2>6. \A n \in NamesOf(task) : Says(n, "without") = Without(task)[n]
    BY <1>1, SaysIs
  <2>7. Claimed = {n \in DOMAIN task.truth : Claims(n)}
    BY DEF Claimed, NamesOf
  <2> QED
    BY <2>5, <2>6, <2>7 DEF NamesOf
<1> QED
  BY <1>4, <1>6, <1>7, <1>8, <1>9, <1>10 DEF GreenIsSound, Answering
-----------------------------------------------------------------------------
(* The probes' answers. *)

(* ProbeSaysWhatItSaw, of one answer. *)
Seen(d) ==
    LET killers == {n \in DOMAIN task.truth :
          /\ CASE d.kind = "lens"  -> Says(n, "base") = "gone"
               [] d.kind = "suite" -> TRUE
               [] OTHER            -> n = d.kind
          /\ Says(n, "head") = "pass" /\ Notices(n, d.file)}
    IN /\ d.answer \in {"killed", "survived"} => ~Refused(d.file)
       /\ d.kind \in {"lens", "suite"} \/ (Readable /\ task.runner.subset = "honoured") =>
             /\ d.answer = "killed" => killers # {}
             /\ d.answer = "survived" => killers = {}

LEMMA SeenStill ==
    ASSUME task' = task
    PROVE  /\ \A d : Seen(d)' <=> Seen(d)
           /\ \A f : Refused(f)' <=> Refused(f)
  BY DEF Seen, Says, Notices, Refused, Readable

LEMMA SeenAll ==
    ProbeSaysWhatItSaw <=> \A d \in asked.answered : Seen(d)
  BY DEF ProbeSaysWhatItSaw, Seen

(* Who answered nothing is believed of nothing.                             *)
LEMMA UnprovenSeen ==
    ASSUME NEW d, d.answer \notin {"killed", "survived"}
    PROVE  Seen(d)
  BY DEF Seen

LEMMA DecidedIs ==
    ASSUME NEW f, NEW k, NEW a
    PROVE  Decided(f, k, a).file = f /\ Decided(f, k, a).kind = k /\ Decided(f, k, a).answer = a
  BY DEF Decided

LEMMA UnprovenAre ==
    ASSUME NEW files, NEW d \in Unproven(files)
    PROVE  d.answer = "unproven"
  BY DEF Unproven, Decided

(* The codes a mutated tree's run has over the clean tree's: the names that  *)
(* failed of themselves, or one code for however many more there are.       *)
CodesOver(A, B) == {f.code : f \in DOMAIN (A (-) B)}

LEMMA NewCodes ==
    ASSUME task \in Tasks, NEW before, NEW after, before \subseteq after, after \subseteq NamesOf(task),
           NEW new, new = CodesOver(FailuresOf(task, after), FailuresOf(task, before))
    PROVE  /\ task.runner.keyed => new = after \ before
           /\ ~task.runner.keyed => new \subseteq {"AssertionError"} /\ (new = {} => after = before)
<1> DEFINE A == FailuresOf(task, after)
           B == FailuresOf(task, before)
<1>1. \A e : e \in DOMAIN (A (-) B) <=>
               e \in DOMAIN A /\ (IF e \in DOMAIN B THEN A[e] - B[e] ELSE A[e]) > 0
  BY LessIs
<1>2. \A n : Failure("test", n).code = n
  BY DEF Failure
<1>3. ASSUME task.runner.keyed PROVE new = after \ before
  <2>1. /\ DOMAIN A = {Failure("test", n) : n \in after} /\ DOMAIN B = {Failure("test", n) : n \in before}
        /\ (\A e \in DOMAIN A : A[e] = 1) /\ (\A e \in DOMAIN B : B[e] = 1)
    BY <1>3 DEF FailuresOf, SetToBag
  <2> HIDE DEF A, B
  <2>2. \A e : e \in DOMAIN (A (-) B) <=> e \in DOMAIN A /\ e \notin DOMAIN B
    BY <1>1, <2>1
  <2>3. \A n \in after : Failure("test", n) \in DOMAIN (A (-) B) <=> n \notin before
    BY <1>2, <2>1, <2>2
  <2>4. new = {f.code : f \in DOMAIN (A (-) B)}
    BY DEF A, B, CodesOver
  <2>5. \A n \in new : n \in after \ before
    BY <1>2, <2>1, <2>2, <2>3, <2>4
  <2>6. \A n \in after \ before : n \in new
    BY <1>2, <2>3, <2>4
  <2> QED
    BY <2>5, <2>6
<1>4. ASSUME ~task.runner.keyed
      PROVE  new \subseteq {"AssertionError"} /\ (new = {} => after = before)
  <2> DEFINE e == Failure("test", "AssertionError")
  <2>1. DOMAIN A \subseteq {e}
    BY <1>4, FailuresAre
  <2>2. /\ IsFiniteSet(NamesOf(task)) /\ IsFiniteSet(after) /\ IsFiniteSet(before)
        /\ Cardinality(after) \in Nat /\ Cardinality(before) \in Nat
        /\ Cardinality(before) <= Cardinality(after)
        /\ Cardinality(after) = Cardinality(before) => after = before
        /\ Cardinality(after) = 0 <=> after = {}
    <3>1. IsFiniteSet(NamesOf(task))
      BY TaskIs DEF NamesOf, Names
    <3>2. IsFiniteSet(after)
      BY <3>1, FS_Subset
    <3> QED
      BY <3>1, <3>2, FS_Subset, FS_CardinalityType, FS_EmptySet
  <2>3. ASSUME after # before PROVE e \in DOMAIN (A (-) B)
    <3>1. after # {} /\ Cardinality(after) > Cardinality(before)
      BY <2>2, <2>3
    <3>2. A = [f \in {e} |-> Cardinality(after)]
      BY <1>4, <3>1 DEF FailuresOf
    <3>3. e \in DOMAIN A /\ A[e] = Cardinality(after)
      BY <3>2
    <3>4. CASE before = {}
      <4>1. DOMAIN B = {}
        BY <1>4, <3>4 DEF FailuresOf, EmptyBag, SetToBag
      <4> HIDE DEF A, B, e
      <4> QED
        BY <1>1, <2>2, <3>1, <3>3, <4>1
    <3>5. CASE before # {}
      <4>1. B = [f \in {e} |-> Cardinality(before)]
        BY <1>4, <3>5 DEF FailuresOf
      <4>2. e \in DOMAIN B /\ B[e] = Cardinality(before)
        BY <4>1
      <4> HIDE DEF A, B, e
      <4> QED
        BY <1>1, <2>2, <3>1, <3>3, <4>2
    <3> QED
      BY <3>4, <3>5
  <2>4. new = {f.code : f \in DOMAIN (A (-) B)}
    BY DEF CodesOver
  <2>5. e.code = "AssertionError"
    BY <1>2
  <2> HIDE DEF A, B, e
  <2>6. DOMAIN (A (-) B) \subseteq {e}
    BY <1>1, <2>1
  <2>7. new \subseteq {"AssertionError"}
    BY <2>4, <2>5, <2>6
  <2>8. ASSUME new = {} PROVE after = before
    BY <2>3, <2>4, <2>8
  <2> QED
    BY <2>7, <2>8
<1> QED
  BY <1>3, <1>4

(* A test that passes on the head, and notices the edit. *)
Killer(n, file) == n \in NamesOf(task) /\ HeadSaid[n] = "pass" /\ Notices(n, file)

LEMMA CheckIs ==
    ASSUME task \in Tasks,
           NEW before, Reads(task, before, HeadSaid, Here(task, HeadSaid) \union Strays(task, "head")),
           NEW names, names \subseteq Here(task, HeadSaid) \union Strays(task, "head"),
           NEW counted, counted = IF task.runner.enumerates THEN names ELSE Unreported,
           NEW file, NEW r, r = Broke \/ Reads(task, r, Under(task, HeadSaid, file),
                                          Here(task, HeadSaid) \union Strays(task, "head")),
           NEW answer, answer = CheckProbe(before, r, counted)
    PROVE  /\ answer = "killed" => \E n \in names : Killer(n, file)
           /\ answer = "survived" => \A n \in names : ~Killer(n, file)
<1> DEFINE under == Under(task, HeadSaid, file)
           ran == Here(task, HeadSaid) \union Strays(task, "head")
           passed == Failing(task, HeadSaid)
           failed == Failing(task, under)
           new == {f.code : f \in DOMAIN (r.failures (-) before.failures)}
           recognised == counted \cup (IF r.collected = Unreported THEN {} ELSE r.collected)
<1>1. CASE r = Broke
  <2>1. ~Ran(r)
    BY <1>1 DEF Ran, Broke, Result
  <2>2. answer = "unproven"
    BY <2>1 DEF CheckProbe
  <2> QED
    BY <2>2
<1>2. CASE r # Broke
  <2>1. /\ r.failures = FailuresOf(task, ran \intersect failed)
        /\ r.collected = IF task.runner.enumerates THEN ran ELSE Unreported
        /\ before.failures = FailuresOf(task, ran \intersect passed)
        /\ before.collected = IF task.runner.enumerates THEN ran ELSE Unreported
    BY <1>2 DEF Reads
  <2>2. /\ ran \intersect failed = failed /\ ran \intersect passed = passed
        /\ passed \subseteq failed /\ failed \subseteq NamesOf(task)
        /\ \A n : n \in failed \ passed <=>
              n \in NamesOf(task) /\ HeadSaid[n] = "pass" /\ Notices(n, file)
    <3>1. Here(task, under) = Here(task, HeadSaid) /\ passed \subseteq failed
      BY HereUnder
    <3>2. \A n \in NamesOf(task) : under[n] = IF HeadSaid[n] = "pass" /\ file \in task.truth[n].notices
                                              THEN "fail" ELSE HeadSaid[n]
      BY DEF Under
    <3>3. \A n \in NamesOf(task) : Notices(n, file) <=> file \in task.truth[n].notices
      BY DEF Notices, NamesOf
    <3> HIDE DEF under
    <3>4. failed = {n \in NamesOf(task) : under[n] = "fail"} /\ passed = {n \in NamesOf(task) : HeadSaid[n] = "fail"}
      BY DEF Failing
    <3>5. failed \subseteq Here(task, under) /\ passed \subseteq Here(task, HeadSaid)
      BY <3>4 DEF Here
    <3> QED
      BY <3>1, <3>2, <3>3, <3>4, <3>5
  <2>3. new = CodesOver(FailuresOf(task, failed), FailuresOf(task, passed))
    <3> HIDE DEF ran, failed, passed
    <3> QED
      BY <2>1, <2>2 DEF CodesOver
  <2>4. /\ "(unreported)" \notin ran /\ "AssertionError" \notin ran
        /\ ran # Unreported /\ names # Unreported /\ names \subseteq ran
    <3>1. Here(task, HeadSaid) \subseteq NamesOf(task)
      BY DEF Here
    <3>2. "(unreported)" \notin NamesOf(task) /\ "AssertionError" \notin NamesOf(task)
      BY TaskIs DEF NamesOf, Names, Unreported
    <3> QED
      BY <3>1, <3>2 DEF Strays, Stray, Unreported
  <2>5. /\ task.runner.enumerates => counted = names
        /\ ~task.runner.enumerates => counted = Unreported
    OBVIOUS
  <2>6. answer = IF \/ ~Ran(r) \/ NoLongerCollected(before, r) # {} THEN "unproven"
       ELSE IF new = {} THEN "survived"
       ELSE IF counted = Unreported \/ new \cap recognised = {} THEN "unproven"
       ELSE IF new \cap counted # {} THEN "killed" ELSE "survived"
    BY DEF CheckProbe, BagToSet
  <2>7. task.runner.enumerates => recognised = ran
    BY <2>1, <2>4, <2>5
  <2> HIDE DEF new, ran, passed, failed, under, recognised
  <2>10. /\ task.runner.keyed => new = failed \ passed
         /\ ~task.runner.keyed => new \subseteq {"AssertionError"} /\ (new = {} => failed = passed)
    BY <2>2, <2>3, NewCodes
  <2>11. ASSUME answer = "killed" PROVE \E n \in names : Killer(n, file)
    <3>1. counted # Unreported /\ new \cap counted # {}
      BY <2>6, <2>11
    <3>2. PICK n \in new : n \in names
      BY <2>5, <3>1
    <3>3. n \in failed \ passed
      BY <2>4, <2>10, <3>2
    <3> QED
      BY <2>2, <3>2, <3>3 DEF Killer
  <2>12. ASSUME answer = "survived", NEW n \in names, Killer(n, file) PROVE FALSE
    <3>1. n \in failed \ passed
      BY <2>2, <2>12 DEF Killer
    <3>2. new # {}
      BY <2>10, <3>1
    <3>3. counted # Unreported /\ new \cap recognised # {} /\ new \cap counted = {}
      BY <2>6, <2>12, <3>2
    <3>4. task.runner.enumerates
      BY <2>5, <3>3
    <3>5. task.runner.keyed
      BY <2>4, <2>7, <2>10, <3>3, <3>4
    <3> QED
      BY <2>5, <2>10, <3>1, <3>3, <3>4, <3>5
  <2> QED
    BY <2>11, <2>12
<1> QED
  BY <1>1, <1>2

(* What the probes stand on: the exported patch, where nothing is edited.    *)
LEMMA CleanSays ==
    ASSUME task \in Tasks, side = "head"
    PROVE  SaidOf(Clean) = HeadSaid
<1>1. Steady(Clean) /\ Clean["src"] # "edited"
  BY DEF Steady, Clean, Files
<1> QED
  BY <1>1, SaidSteady DEF HeadSaid

LEMMA MutatedSays ==
    ASSUME task \in Tasks, side = "head", NEW file \in Files
    PROVE  SaidOf([Clean EXCEPT ![file] = "mutated"]) = Under(task, HeadSaid, file)
<1> DEFINE tree == [Clean EXCEPT ![file] = "mutated"]
<1>1. MutatedAt(tree, file) /\ tree["src"] # "edited"
  BY DEF MutatedAt, Clean, Files
<1> HIDE DEF tree
<1>2. SaidOf(tree) = Under(task, HeadSaid, file)
  BY <1>1, SaidMutated DEF HeadSaid
<1> QED
  BY <1>2 DEF tree

LEMMA WholeIs ==
    ASSUME NEW t, NEW said
    PROVE  ~Breaks(t, "head", said, {}) /\ RanOf(t, "head", said, {}) = Here(t, said) \union Strays(t, "head")
  BY DEF Breaks, RanOf, IsWhole

LEMMA OpenProbesInv ==
    ASSUME Inv, OpenProbes
    PROVE  Inv'
<1>1. /\ Placed' /\ task \in Tasks /\ side = "head" /\ pc = "judged" /\ IsGreen(verdict) /\ pc' = "probing"
      /\ Testimony /\ UNCHANGED <<task, side, results, baseline, doing, verdict>>
  BY OpenProbesPlaced, JudgedIs DEF Inv, OpenProbes
<1> DEFINE files == Selected(task.probes, {f \in Files : ~Refused(f)})
<1>2. PICK fate \in {"answered", "lost", "raised"} :
         asked' = [left |-> IF fate = "raised" THEN <<>> ELSE files,
                        pairs |-> task.pairs,
                        answered |-> {Decided(f, "lens", "unproven") :
                            f \in {g \in {task.probes[i] : i \in DOMAIN task.probes} : Refused(g)}}
                            \cup (IF fate = "raised" THEN Unproven(files) ELSE {}),
                        before |-> RunGate(Fated(Answer(Clean, {}), fate))]
  BY DEF OpenProbes
<1>3. Members(files) \subseteq {f \in Files : ~Refused(f)} /\ Members(<<>>) = {}
  <2> DEFINE K == Files \union {Outside}
             S == {f \in Files : ~Refused(f)}
  <2>1. task.probes \in Seq(K)
    BY <1>1, CriteriaAre
  <2> HIDE DEF K, S
  <2>2. Members(Selected(task.probes, S)) = Members(task.probes) \intersect S
    BY <2>1, SelectedIs
  <2>3. Members(<<>>) = {}
    BY DEF Members
  <2> QED
    BY <2>2, <2>3 DEF S
<1>4. \A p \in Members(task.pairs) : p.witness \in Witnesses
  BY <1>1, CriteriaAre DEF Members
<1>5. \A d \in asked'.answered : d.answer = "unproven"
  BY <1>2, UnprovenAre, DecidedIs
<1> HIDE DEF files
<1>6. \/ asked'.before = Broke
      \/ Reads(task, asked'.before, HeadSaid, Here(task, HeadSaid) \union Strays(task, "head"))
  <2>1. Told(task, "head", Answer(Clean, {}), HeadSaid, {})
    BY <1>1, AnswerIs, CleanSays
  <2>2. Heard(task, "head", RunGate(Fated(Answer(Clean, {}), fate)), HeadSaid, {})
    BY <2>1, HeardIs
  <2> QED
    BY <1>2, <2>2, WholeIs DEF Heard
<1>7. ASSUME Readable, NEW n \in Witnesses PROVE n \in NamesOf(task) /\ HeadSaid[n] = "pass"
  <2>1. PICK c \in Criterias : n = c.witness
    BY <1>7 DEF Witnesses
  <2>2. n \in NamesOf(task)
    BY <1>1, <1>7, <2>1, GreenCriteria
  <2>3. Says(n, "head") = "pass"
    BY <1>1, <1>7, <2>1, GreenFollows DEF GreenIsSound
  <2> QED
    BY <1>1, <2>2, <2>3, SaysIs
<1>8. /\ HeadSaid' = HeadSaid /\ BaseSaid' = BaseSaid /\ Witnesses' = Witnesses /\ (Readable' <=> Readable)
      /\ \A f : Refused(f)' <=> Refused(f)
  BY <1>1, FixedWith, SeenStill DEF HeadSaid, BaseSaid, Readable
<1>9. ProbeSaysWhatItSaw'
  BY <1>5 DEF ProbeSaysWhatItSaw
<1>10. Members(asked'.left) \subseteq {f \in Files : ~Refused(f)} /\ asked'.pairs = task.pairs
  BY <1>2, <1>3
<1>13. Reads(task, results["tests"], HeadSaid, Here(task, HeadSaid) \union Strays(task, "head"))
  <2>1. Said = HeadSaid
    <3>1. work["src"] # "edited"
      BY <1>1, GreenFollows DEF GreenIsSound, Dirty, Files
    <3> QED
      BY <1>1, <3>1 DEF Said, HeadSaid
  <2> QED
    BY <1>1, <2>1, JudgedIs DEF IsGreen
<1>11. Probing'
  BY <1>1, <1>4, <1>6, <1>7, <1>8, <1>9, <1>10, <1>13 DEF Probing
<1>12. Testimony'
  BY <1>1, <1>8 DEF Testimony, Past
<1> QED
  BY <1>1, <1>11, <1>12 DEF Inv, Walk, Reverting, Judgement, Past

(* Between the probes: everything but what is asked stays. *)
LEMMA ProbesKept ==
    ASSUME Inv, pc \in {"probing", "criteria", "survived"}, pc' \in {"probing", "criteria", "survived"}, Placed',
           UNCHANGED <<task, side, results, baseline, doing, verdict>>, asked'.before = asked.before,
           Members(asked'.left) \subseteq Members(asked.left),
           Members(asked'.pairs) \subseteq Members(asked.pairs),
           pc' # "probing" /\ pc = "probing" => \A p \in Members(asked'.pairs) : ~Refused(p.file),
           pc # "probing" => pc' # "probing",
           \A d \in asked'.answered : d \in asked.answered \/ Seen(d)
    PROVE  Inv'
<1>1. Testimony /\ Probing /\ side = "head"
  BY DEF Inv, Placed, Places
<1>2. /\ HeadSaid' = HeadSaid /\ BaseSaid' = BaseSaid /\ Witnesses' = Witnesses /\ (Readable' <=> Readable)
      /\ (\A f : Refused(f)' <=> Refused(f)) /\ (\A d : Seen(d)' <=> Seen(d))
  BY FixedWith, SeenStill DEF HeadSaid, BaseSaid, Readable
<1>3. \A d \in asked.answered : Seen(d)
  BY <1>1, SeenAll DEF Probing
<1>4. \A d \in asked'.answered : Seen(d)'
  BY <1>2, <1>3
<1>5. ProbeSaysWhatItSaw'
  <2>1. (ProbeSaysWhatItSaw <=> \A d \in asked.answered : Seen(d))'
    BY SeenAll, PTL
  <2> QED
    BY <1>4, <2>1
<1>6. Probing'
  BY <1>1, <1>2, <1>5 DEF Probing
<1>7. Testimony'
  BY <1>1, <1>2 DEF Testimony, Past
<1> QED
  BY <1>6, <1>7 DEF Inv, Walk, Reverting, Judgement, Past
LEMMA LensInv ==
    ASSUME Inv, LensProbe
    PROVE  Inv'
<1>1. /\ Placed' /\ Placed /\ task \in Tasks /\ side = "head" /\ pc = "probing" /\ asked.left # <<>>
      /\ pc' = pc /\ work = Clean /\ Testimony /\ Probing /\ IsAsked(asked)
      /\ UNCHANGED <<task, side, results, baseline, doing, verdict>>
  BY LensPlaced DEF Inv, Placed, Shape, Places, LensProbe
<1> DEFINE file == Head(asked.left)
           tree == [work EXCEPT ![file] = "mutated"]
           counted == AddedTests(baseline["tests"], asked.before)
<1>2. Head(asked.left) \in Files /\ ~Refused(Head(asked.left))
      /\ Members(Tail(asked.left)) \subseteq Members(asked.left) /\ Members(<<>>) = {}
  <2> DEFINE K == Files \union {Outside}
  <2>1. asked.left \in Seq(K)
    BY <1>1 DEF IsAsked
  <2> HIDE DEF K
  <2>2. Head(asked.left) \in Members(asked.left) /\ Members(Tail(asked.left)) \subseteq Members(asked.left)
    BY <1>1, <2>1, TailMembers
  <2>3. Members(<<>>) = {}
    BY DEF Members
  <2> QED
    BY <1>1, <2>2, <2>3 DEF Probing
<1>3. DOMAIN asked = {"left", "pairs", "answered", "before"}
  BY <1>1 DEF IsAsked
<1>4. /\ asked'.pairs = asked.pairs /\ asked'.before = asked.before
      /\ asked'.left \in {Tail(asked.left), <<>>}
      /\ \/ \A d \in asked'.answered : d \in asked.answered \/ d.answer = "unproven"
         \/ /\ Ran(asked.before)
            /\ \E fate : asked'.answered = asked.answered \cup {Decided(file, "lens",
                   CheckProbe(asked.before, RunGate(Fated(Answer(tree, {}), fate)), counted))}
  <2>1. CASE asked' = [asked EXCEPT !.left = Tail(@),
                            !.answered = @ \cup {Decided(file, "lens", "unproven")}]
    <3>1. /\ asked'.pairs = asked.pairs /\ asked'.before = asked.before /\ asked'.left = Tail(asked.left)
          /\ asked'.answered = asked.answered \cup {Decided(file, "lens", "unproven")}
      BY <1>3, <2>1
    <3> QED
      BY <3>1, DecidedIs
  <2>2. CASE asked' = [asked EXCEPT !.left = AfterRaise(Tail(@)),
                             !.answered = @ \cup
                                 (Unproven(asked.left) \ Unproven(AfterRaise(Tail(asked.left))))
                                 \cup {Decided(file, "lens", "unproven")}]
    <3>1. /\ asked'.pairs = asked.pairs /\ asked'.before = asked.before /\ asked'.left = <<>>
          /\ asked'.answered = asked.answered \cup
                                 (Unproven(asked.left) \ Unproven(AfterRaise(Tail(asked.left))))
                                 \cup {Decided(file, "lens", "unproven")}
      BY <1>3, <2>2 DEF AfterRaise
    <3> QED
      BY <3>1, DecidedIs, UnprovenAre
  <2>3. ASSUME Ran(asked.before), NEW fate,
               asked' = [asked EXCEPT !.left = Tail(@),
                             !.answered = @ \cup {Decided(file, "lens",
                                 CheckProbe(asked.before,
                                            RunGate(Fated(Answer(tree, {}), fate)), counted))}]
        PROVE  /\ asked'.pairs = asked.pairs /\ asked'.before = asked.before /\ asked'.left = Tail(asked.left)
               /\ asked'.answered = asked.answered \cup {Decided(file, "lens",
                   CheckProbe(asked.before, RunGate(Fated(Answer(tree, {}), fate)), counted))}
    <3> DEFINE said == Decided(file, "lens",
                   CheckProbe(asked.before, RunGate(Fated(Answer(tree, {}), fate)), counted))
    <3>1. asked' = [asked EXCEPT !.left = Tail(@), !.answered = @ \cup {said}]
      BY <2>3
    <3> HIDE DEF said
    <3>2. /\ asked'.pairs = asked.pairs /\ asked'.before = asked.before /\ asked'.left = Tail(asked.left)
          /\ asked'.answered = asked.answered \cup {said}
      BY <1>3, <3>1
    <3> QED
      BY <3>2 DEF said
  <2> QED
    BY <2>1, <2>2, <2>3 DEF LensProbe
<1>5. ASSUME NEW fate, Ran(asked.before)
      PROVE  Seen(Decided(file, "lens",
                   CheckProbe(asked.before, RunGate(Fated(Answer(tree, {}), fate)), counted)))
  <2> DEFINE r == RunGate(Fated(Answer(tree, {}), fate))
             answer == CheckProbe(asked.before, r, counted)
             d == Decided(file, "lens", answer)
  <2>1. Reads(task, asked.before, HeadSaid, Here(task, HeadSaid) \union Strays(task, "head"))
    BY <1>1, <1>5 DEF Probing, Ran, Broke, Result
  <2>2. Reads(task, baseline["tests"], BaseSaid, Here(task, BaseSaid))
    BY <1>1 DEF Testimony
  <2>3. SaidOf(tree) = Under(task, HeadSaid, file)
    BY <1>1, <1>2, MutatedSays
  <2>4. Heard(task, "head", r, SaidOf(tree), {})
    <3>1. Told(task, "head", Answer(tree, {}), SaidOf(tree), {})
      BY <1>1, AnswerIs
    <3> QED
      BY <3>1, HeardIs
  <2> HIDE DEF r, tree, file
  <2>5. r = Broke \/ Reads(task, r, Under(task, HeadSaid, file),
                           Here(task, HeadSaid) \union Strays(task, "head"))
    <3> DEFINE under == Under(task, HeadSaid, file)
    <3>1. Heard(task, "head", r, under, {})
      BY <2>3, <2>4
    <3>2. Here(task, under) = Here(task, HeadSaid)
      BY HereUnder
    <3> HIDE DEF under
    <3>3. ~Breaks(task, "head", under, {})
          /\ RanOf(task, "head", under, {}) = Here(task, under) \union Strays(task, "head")
      BY WholeIs
    <3>4. r = Broke \/ Reads(task, r, under, Here(task, HeadSaid) \union Strays(task, "head"))
      BY <3>1, <3>2, <3>3 DEF Heard
    <3> QED
      BY <3>4 DEF under
  <2> DEFINE ran == Here(task, HeadSaid) \union Strays(task, "head")
             names == ran \ Here(task, BaseSaid)
  <2>11. counted = IF task.runner.enumerates THEN names ELSE Unreported
    <3>1. Here(task, BaseSaid) # Unreported /\ ran # Unreported
      <4>1. Here(task, HeadSaid) \subseteq NamesOf(task) /\ Here(task, BaseSaid) \subseteq NamesOf(task)
        BY DEF Here
      <4> QED
        BY <1>1, <4>1, NamesReported
    <3> HIDE DEF ran
    <3> QED
      BY <2>1, <2>2, <3>1 DEF Reads, AddedTests, ran
  <2>6. /\ answer = "killed" => \E n \in names : Killer(n, file)
        /\ answer = "survived" => \A n \in names : ~Killer(n, file)
    <3> HIDE DEF counted
    <3>1. names \subseteq ran
      OBVIOUS
    <3> HIDE DEF names
    <3> QED
      BY <1>1, <2>1, <2>5, <2>11, <3>1, CheckIs
  <2>7. \A n : n \in names /\ Killer(n, file) <=>
                  n \in DOMAIN task.truth /\ Says(n, "base") = "gone"
                  /\ Says(n, "head") = "pass" /\ Notices(n, file)
    BY <1>1, SaysIs DEF Killer, NamesOf, Here
  <2>8. d.file = file /\ d.kind = "lens" /\ d.answer = answer
    BY DecidedIs
  <2>9. ~Refused(file)
    BY <1>2 DEF file
  <2> HIDE DEF d, answer, names
  <2>10. Seen(d)
    BY <2>6, <2>7, <2>8, <2>9 DEF Seen
  <2> QED
    BY <2>10 DEF d, answer, r
<1> HIDE DEF file, tree, counted
<1>6. \A d \in asked'.answered : d \in asked.answered \/ Seen(d)
  BY <1>4, <1>5, UnprovenSeen
<1> QED
  BY <1>1, <1>2, <1>4, <1>6, ProbesKept

LEMMA OpenCriterionProbesInv ==
    ASSUME Inv, OpenCriterionProbes
    PROVE  Inv'
<1>1. /\ Placed' /\ pc = "probing" /\ pc' = "criteria" /\ IsAsked(asked)
      /\ UNCHANGED <<task, side, results, baseline, doing, verdict>>
  BY OpenCriterionProbesPlaced DEF Inv, Placed, Shape, OpenCriterionProbes
<1> DEFINE S == {asked.pairs[i] : i \in {j \in DOMAIN asked.pairs : ~Refused(asked.pairs[j].file)}}
<1>2. PICK entered \in BOOLEAN :
        asked' = [asked EXCEPT !.pairs = IF entered THEN Selected(asked.pairs, S) ELSE <<>>]
  BY DEF OpenCriterionProbes
<1>3. \A p \in S : ~Refused(p.file)
  OBVIOUS
<1> HIDE DEF S
<1>4. Members(Selected(asked.pairs, S)) = Members(asked.pairs) \intersect S /\ Members(<<>>) = {}
  <2>1. asked.pairs \in Seq(Asking)
    BY <1>1 DEF IsAsked
  <2>2. Members(Selected(asked.pairs, S)) = Members(asked.pairs) \intersect S
    BY <2>1, SelectedIs
  <2> QED
    BY <2>2 DEF Members
<1>5. /\ asked'.left = asked.left /\ asked'.answered = asked.answered /\ asked'.before = asked.before
      /\ asked'.pairs = IF entered THEN Selected(asked.pairs, S) ELSE <<>>
  BY <1>1, <1>2 DEF IsAsked
<1>6. Members(asked'.pairs) \subseteq Members(asked.pairs) \intersect S
  BY <1>4, <1>5
<1> QED
  BY <1>1, <1>3, <1>5, <1>6, ProbesKept
LEMMA CriterionInv ==
    ASSUME Inv, CriterionProbe
    PROVE  Inv'
<1>1. /\ Placed' /\ Placed /\ task \in Tasks /\ side = "head" /\ pc = "criteria" /\ asked.pairs # <<>>
      /\ pc' \in {"criteria", "survived"} /\ work = Clean /\ Testimony /\ Probing /\ IsAsked(asked)
      /\ UNCHANGED <<task, side, results, baseline, doing, verdict>>
  BY CriterionPlaced DEF Inv, Placed, Shape, Places, CriterionProbe
<1> DEFINE pair == Head(asked.pairs)
           tree == [work EXCEPT ![pair.file] = "mutated"]
           ran(fate) == RunGate(Fated(Answer(tree, {pair.witness}), fate))
           heard(fate) == CASE ran(fate).status = "fail"  -> "killed"
                            [] ran(fate).status = "pass"  -> "survived"
                            [] ran(fate).status = "error" -> "error"
           says(answer) == [asked EXCEPT
                              !.pairs = IF answer = "survived" THEN @ ELSE Tail(@),
                              !.answered = @ \cup {Decided(pair.file, pair.witness, answer)}]
<1>2. /\ pair.witness \in Witnesses /\ pair.file \in Files /\ ~Refused(pair.file)
      /\ Members(Tail(asked.pairs)) \subseteq Members(asked.pairs) /\ Members(<<>>) = {}
  <2>1. asked.pairs \in Seq(Asking)
    BY <1>1 DEF IsAsked
  <2>2. /\ pair \in Members(asked.pairs) /\ Members(Tail(asked.pairs)) \subseteq Members(asked.pairs)
        /\ pair \in Asking
    BY <1>1, <2>1, TailMembers
  <2>3. Members(<<>>) = {}
    BY DEF Members
  <2> HIDE DEF pair
  <2>4. pair.witness \in Witnesses /\ ~Refused(pair.file)
    BY <1>1, <2>2 DEF Probing
  <2>5. pair.file \in Files
    BY <2>2, <2>4 DEF Asking, Refused
  <2> QED
    BY <2>2, <2>3, <2>4, <2>5
<1>3. DOMAIN asked = {"left", "pairs", "answered", "before"}
  BY <1>1 DEF IsAsked
<1>4. \/ asked' = says("unproven")
      \/ asked' = [says("error") EXCEPT !.pairs = AfterRaise(@)]
      \/ \E fate : asked' = says(heard(fate))
  BY DEF CriterionProbe
<1>5. \A answer : /\ DOMAIN says(answer) = DOMAIN asked /\ says(answer).left = asked.left
                  /\ says(answer).before = asked.before
                  /\ says(answer).pairs \in {asked.pairs, Tail(asked.pairs)}
                  /\ says(answer).answered =
                       asked.answered \cup {Decided(pair.file, pair.witness, answer)}
  BY <1>3
<1> HIDE DEF says, heard
<1>6. /\ asked'.left = asked.left /\ asked'.before = asked.before
      /\ asked'.pairs \in {asked.pairs, Tail(asked.pairs), <<>>}
      /\ \E answer : /\ asked'.answered = asked.answered \cup {Decided(pair.file, pair.witness, answer)}
                     /\ answer \in {"unproven", "error"} \/ \E fate : answer = heard(fate)
  <2> HIDE DEF pair
  <2>1. CASE asked' = says("unproven")
    BY <1>5, <2>1
  <2>2. CASE asked' = [says("error") EXCEPT !.pairs = AfterRaise(@)]
    <3>1. asked' = [says("error") EXCEPT !.pairs = <<>>]
      BY <2>2 DEF AfterRaise
    <3> QED
      BY <1>3, <1>5, <3>1
  <2>3. CASE \E fate : asked' = says(heard(fate))
    <3>1. PICK fate : asked' = says(heard(fate))
      BY <2>3
    <3>2. /\ asked'.left = asked.left /\ asked'.before = asked.before
          /\ asked'.pairs \in {asked.pairs, Tail(asked.pairs)}
          /\ asked'.answered = asked.answered \cup {Decided(pair.file, pair.witness, heard(fate))}
      BY <1>5, <3>1
    <3> QED
      BY <3>2
  <2> QED
    BY <1>4, <2>1, <2>2, <2>3
<1>7. ASSUME NEW fate
      PROVE  Seen(Decided(pair.file, pair.witness, heard(fate)))
  <2> DEFINE r == ran(fate)
             w == pair.witness
             d == Decided(pair.file, pair.witness, heard(fate))
  <2>1. d.file = pair.file /\ d.kind = w /\ d.answer = heard(fate)
    BY DecidedIs
  <2>2. w \notin {Stray, "lens", "suite"}
    <3> HIDE DEF pair
    <3>1. PICK c \in Criterias : c.witness = w
      BY <1>2 DEF Witnesses
    <3> QED
      BY <1>1, <3>1, CriteriaAre
  <2>3. SaidOf(tree) = Under(task, HeadSaid, pair.file)
    BY <1>1, <1>2, MutatedSays
  <2>4. Heard(task, "head", r, SaidOf(tree), {w})
    <3>1. Told(task, "head", Answer(tree, {w}), SaidOf(tree), {w})
      BY <1>1, AnswerIs
    <3> QED
      BY <3>1, HeardIs
  <2>5. \A n \in NamesOf(task) : HeadSaid[n] \in Saying
    BY <1>1, SaidIs DEF HeadSaid
  <2>6. Heard(task, "head", r, Under(task, HeadSaid, pair.file), {w})
    BY <2>3, <2>4
  <2>7. /\ r.status = "fail" => heard(fate) = "killed"
        /\ r.status = "pass" => heard(fate) = "survived"
        /\ r.status = "error" => heard(fate) = "error"
    BY DEF heard
  <2>8. Broke.status = "error"
    BY DEF Broke, Result
  <2>9. ASSUME Readable PROVE w \in NamesOf(task) /\ HeadSaid[w] = "pass"
    BY <1>1, <1>2, <2>9 DEF Probing
  <2> HIDE DEF d, r, pair, tree, w
  <2>10. ASSUME Readable, task.runner.subset = "honoured"
         PROVE  /\ heard(fate) = "killed" => Notices(w, pair.file)
                /\ heard(fate) = "survived" => ~Notices(w, pair.file)
    <3>1. w \in NamesOf(task) /\ HeadSaid[w] = "pass" /\ w \in Here(task, HeadSaid)
      BY <2>9, <2>10 DEF Here
    <3>2. ASSUME r # Broke
          PROVE  /\ r.status \in {"pass", "fail"}
                 /\ r.status = "pass" => ~Notices(w, pair.file)
                 /\ r.status = "fail" => Notices(w, pair.file)
      BY <1>1, <2>2, <2>5, <2>6, <2>10, <3>1, <3>2, AskedAlone
    <3> QED
      BY <2>7, <2>8, <3>2
  <2>11. ASSUME Readable PROVE w \in DOMAIN task.truth /\ Says(w, "head") = "pass"
    BY <1>1, <2>9, <2>11, SaysIs DEF NamesOf
  <2>12. Seen(d)
    BY <1>2, <2>1, <2>2, <2>10, <2>11 DEF Seen, w
  <2> QED
    BY <2>12 DEF d
<1> HIDE DEF pair
<1>8. \A d \in asked'.answered : d \in asked.answered \/ Seen(d)
  <2>1. PICK answer : /\ asked'.answered = asked.answered \cup {Decided(pair.file, pair.witness, answer)}
                      /\ answer \in {"unproven", "error"} \/ \E fate : answer = heard(fate)
    BY <1>6
  <2>2. Seen(Decided(pair.file, pair.witness, answer))
    <3>1. CASE answer \in {"unproven", "error"}
      BY <3>1, DecidedIs, UnprovenSeen
    <3>2. CASE \E fate : answer = heard(fate)
      BY <1>7, <3>2
    <3> QED
      BY <2>1, <3>1, <3>2
  <2> QED
    BY <2>1, <2>2
<1>9. /\ Members(asked'.left) \subseteq Members(asked.left)
      /\ Members(asked'.pairs) \subseteq Members(asked.pairs)
  BY <1>2, <1>6
<1> QED
  BY <1>1, <1>6, <1>8, <1>9, ProbesKept

LEMMA SuiteInv ==
    ASSUME Inv, SuiteProbe
    PROVE  Inv'
<1>1. /\ Placed' /\ Placed /\ task \in Tasks /\ side = "head" /\ pc = "survived" /\ asked.pairs # <<>>
      /\ pc' = "criteria" /\ work = Clean /\ Probing /\ IsAsked(asked)
      /\ UNCHANGED <<task, side, results, baseline, doing, verdict>>
  BY SuitePlaced DEF Inv, Placed, Shape, Places, SuiteProbe
<1> DEFINE pair == Head(asked.pairs)
           tree == [work EXCEPT ![pair.file] = "mutated"]
           before == results["tests"]
           ran(fate) == RunGate(Fated(Answer(tree, {}), fate))
           heard(fate) == CheckProbe(before, ran(fate), before.collected)
<1>2. /\ pair.file \in Files /\ ~Refused(pair.file)
      /\ Members(Tail(asked.pairs)) \subseteq Members(asked.pairs) /\ Members(<<>>) = {}
  <2>1. asked.pairs \in Seq(Asking)
    BY <1>1 DEF IsAsked
  <2>2. /\ pair \in Members(asked.pairs) /\ Members(Tail(asked.pairs)) \subseteq Members(asked.pairs)
        /\ pair \in Asking
    BY <1>1, <2>1, TailMembers
  <2>3. Members(<<>>) = {}
    BY DEF Members
  <2> HIDE DEF pair
  <2>4. ~Refused(pair.file)
    BY <1>1, <2>2 DEF Probing
  <2>5. pair.file \in Files
    BY <2>2, <2>4 DEF Asking, Refused
  <2> QED
    BY <2>2, <2>3, <2>4, <2>5
<1>3. DOMAIN asked = {"left", "pairs", "answered", "before"}
  BY <1>1 DEF IsAsked
<1>4. \/ asked' = [asked EXCEPT !.pairs = <<>>,
             !.answered = (@ \ {Decided(pair.file, pair.witness, "survived")})
                          \cup {Decided(pair.file, pair.witness, "error")}]
      \/ asked' = [asked EXCEPT !.pairs = <<>>]
      \/ \E fate : asked' = [asked EXCEPT !.pairs = Tail(@),
                        !.answered = @ \cup {Decided(pair.file, "suite", heard(fate))}]
  BY DEF SuiteProbe, AfterRaise
<1>5. ASSUME NEW fate
      PROVE  Seen(Decided(pair.file, "suite", heard(fate)))
  <2> DEFINE r == ran(fate)
             whole == Here(task, HeadSaid) \union Strays(task, "head")
             answer == heard(fate)
             d == Decided(pair.file, "suite", answer)
             m == pair.file
  <2>1. Reads(task, before, HeadSaid, whole)
    BY <1>1 DEF Probing
  <2>2. SaidOf(tree) = Under(task, HeadSaid, m)
    BY <1>1, <1>2, MutatedSays
  <2>3. Heard(task, "head", r, SaidOf(tree), {})
    <3>1. Told(task, "head", Answer(tree, {}), SaidOf(tree), {})
      BY <1>1, AnswerIs
    <3> QED
      BY <3>1, HeardIs
  <2>4. m \in Files /\ ~Refused(m)
    BY <1>2
  <2>5. d.file = m /\ d.kind = "suite" /\ d.answer = answer
    BY DecidedIs
  <2>6. answer = CheckProbe(before, r, before.collected)
    OBVIOUS
  <2> HIDE DEF r, tree, pair, m, d, answer, before
  <2>7. r = Broke \/ Reads(task, r, Under(task, HeadSaid, m), whole)
    <3> DEFINE under == Under(task, HeadSaid, m)
    <3>1. Heard(task, "head", r, under, {})
      BY <2>2, <2>3
    <3>2. Here(task, under) = Here(task, HeadSaid)
      BY HereUnder
    <3> HIDE DEF under
    <3>3. ~Breaks(task, "head", under, {})
          /\ RanOf(task, "head", under, {}) = Here(task, under) \union Strays(task, "head")
      BY WholeIs
    <3>4. r = Broke \/ Reads(task, r, under, whole)
      BY <3>1, <3>2, <3>3 DEF Heard
    <3> QED
      BY <3>4 DEF under
  <2>8. before.collected = IF task.runner.enumerates THEN whole ELSE Unreported
    BY <2>1 DEF Reads
  <2>9. /\ answer = "killed" => \E n \in whole : Killer(n, m)
        /\ answer = "survived" => \A n \in whole : ~Killer(n, m)
    BY <1>1, <2>1, <2>6, <2>7, <2>8, CheckIs
  <2>10. \A n : n \in whole /\ Killer(n, m) <=>
                   n \in DOMAIN task.truth /\ Says(n, "head") = "pass" /\ Notices(n, m)
    BY <1>1, SaysIs DEF Killer, NamesOf, Here
  <2> HIDE DEF whole
  <2>11. Seen(d)
    BY <2>4, <2>5, <2>9, <2>10 DEF Seen
  <2> QED
    BY <2>11 DEF d, answer, m
<1> HIDE DEF pair, heard
<1>6. /\ asked'.left = asked.left /\ asked'.before = asked.before
      /\ asked'.pairs \in {Tail(asked.pairs), <<>>}
      /\ \/ asked'.answered = (asked.answered \ {Decided(pair.file, pair.witness, "survived")})
                               \cup {Decided(pair.file, pair.witness, "error")}
         \/ asked'.answered = asked.answered
         \/ \E fate : asked'.answered = asked.answered \cup {Decided(pair.file, "suite", heard(fate))}
  BY <1>3, <1>4
<1>7. \A d \in asked'.answered : d \in asked.answered \/ Seen(d)
  BY <1>5, <1>6, DecidedIs, UnprovenSeen
<1>8. /\ Members(asked'.left) \subseteq Members(asked.left)
      /\ Members(asked'.pairs) \subseteq Members(asked.pairs)
  BY <1>2, <1>6
<1> QED
  BY <1>1, <1>6, <1>7, <1>8, ProbesKept

LEMMA StutterInv ==
    ASSUME Inv, UNCHANGED vars
    PROVE  Inv'
<1>1. Placed'
  BY StutterPlaced DEF Inv
<1>2. UNCHANGED <<task, side, pc, work, faults, results, baseline, doing, verdict, asked>>
  BY DEF vars
<1>3. EditsSame
  BY <1>2 DEF EditsSame
<1>4. /\ Said' = Said /\ BaseSaid' = BaseSaid /\ HeadSaid' = HeadSaid /\ Claimed' = Claimed
      /\ (\A c : c.mutant \in Files \union {Outside} => (Settled(c)' <=> Settled(c)))
      /\ (\A b : Survivors(b)' <=> Survivors(b)) /\ (Readable' <=> Readable)
  BY <1>2, <1>3, Same DEF BaseSaid, HeadSaid
<1>5. WithMutant' = WithMutant /\ Source' = Source /\ Changed' = Changed
      /\ Criterias' = Criterias /\ Witnesses' = Witnesses /\ Dirty' = Dirty
      /\ (\A f : Refused(f)' <=> Refused(f)) /\ (\A d : Seen(d)' <=> Seen(d))
  BY <1>2, FixedWith, SeenStill DEF Dirty
<1>6. Testimony'
  BY <1>2, <1>4 DEF Inv, Testimony
<1>7. Walk'
  <2>1. \A c \in Members(WithMutant) : c.mutant \in Files \union {Outside}
    BY WithMutantIs DEF Inv, Placed, Shape
  <2>2. Answering' <=> Answering
    BY <1>2, <1>4 DEF Answering
  <2> QED
    BY <1>2, <1>4, <1>5, <2>1, <2>2 DEF Inv, Walk
<1>8. Reverting'
  <2>1. Answering' <=> Answering
    BY <1>2, <1>4 DEF Answering
  <2> QED
    BY <1>2, <1>4, <1>5, <2>1 DEF Inv, Reverting
<1>9. Judgement'
  BY <1>2, <1>5 DEF Inv, Judgement
<1>10. Probing'
  <2>1. \A d \in asked.answered : Seen(d)
    BY SeenAll DEF Inv, Probing
  <2>2. \A d \in asked'.answered : Seen(d)'
    BY <1>2, <1>5, <2>1
  <2>3. (ProbeSaysWhatItSaw <=> \A d \in asked.answered : Seen(d))'
    BY SeenAll, PTL
  <2>4. ProbeSaysWhatItSaw'
    BY <2>2, <2>3
  <2> QED
    BY <1>2, <1>4, <1>5, <2>4 DEF Inv, Probing
<1> QED
  BY <1>1, <1>6, <1>7, <1>8, <1>9, <1>10 DEF Inv

LEMMA NextInv ==
    ASSUME Inv, [Next]_vars
    PROVE  Inv'
  BY StutterInv, DeclaredInv, OpenWitnessInv, ApplyInv, AskInv, CloseWitnessInv, OpenRevertInv,
     RevertSourceInv, RunRevertedInv, RestoreInv, EndBaselineInv, JudgedInv, OpenProbesInv, LensInv,
     OpenCriterionProbesInv, CriterionInv, SuiteInv DEF Next

(* What a suite knows is what its tests say: of the base, of the head as it  *)
(* was when the suite began, and of the head without its source; and who    *)
(* survived, is claimed or was asked by then is who the code says.          *)
THEOREM InvHolds == Spec => []Inv
<1>1. Init => Inv
  BY InitInv, GateSuiteAssumption
<1>2. Inv /\ [Next]_vars => Inv'
  BY NextInv
<1> QED
  BY <1>1, <1>2, PTL DEF Spec

(* What the comparison blames a task for is its own doing, whatever command  *)
(* failed or answer was lost under the suite.                               *)
THEOREM BlameIsFairHolds == Spec => []BlameIsFair
<1>1. Inv => BlameIsFair
  BY BlameFollows
<1> QED
  BY <1>1, InvHolds, PTL

(* A green comparison means what the repository is told it means, for every  *)
(* task, runner and tree: what is promised of each is in GreenIsSound.       *)
THEOREM GreenIsSoundHolds == Spec => []GreenIsSound
<1>1. Inv => GreenIsSound
  BY GreenFollows
<1> QED
  BY <1>1, InvHolds, PTL

(* A probe's answer is about its own edit: what it killed was noticed by a   *)
(* test the diff added, what survived by none; a criterion's edit is its own *)
(* witness's to notice, and one that survives it any test's of the suite.    *)
THEOREM ProbeSaysWhatItSawHolds == Spec => []ProbeSaysWhatItSaw
<1>1. Inv => ProbeSaysWhatItSaw
  BY DEF Inv, Probing
<1> QED
  BY <1>1, InvHolds, PTL
=============================================================================
