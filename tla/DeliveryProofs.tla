--------------------------- MODULE DeliveryProofs ---------------------------
(***************************************************************************)
(* Proofs about Delivery, for any number of cells and of commits.          *)
(*                                                                         *)
(* DeliveryInv says what a state is made of (Shape) and how its parts      *)
(* point at one another (Fit), whatever goes wrong: two processes of one   *)
(* spec, a kill at any step, a lease rejected, a gh that fails.  It rests  *)
(* on lemmas saying what each action writes, one for an action ("Does"),   *)
(* and is kept part by part: the rows, the jobs, the scan.  Each theorem   *)
(* adds to it only what its own property needs.                            *)
(***************************************************************************)
EXTENDS Delivery, SequenceTheorems, TLAPS

(***************************************************************************)
(* What every state is made of, and how its parts point at one another.    *)
(***************************************************************************)
States == InFlight \union Pending \union MergeOnly
             \union {"MERGE_FAILED", "MERGED", "REJECTED", "ORPHANED"}

Row  == [state : States, pushed : Nat, pr : Nat, merged : Nat]
Pull == [state : {"open", "closed", "merged"}, draft : BOOLEAN, changes : BOOLEAN,
         readied : Nat, head : Nat]
Work == [at : {"idle", "running", "packaging", "pushing", "recording", "opening",
               "unpackaged"},
         row : Nat, mode : {"none", "ready", "blocked", "failed", "command"},
         opens : BOOLEAN, commit : Nat, expect : Nat]

Shape ==
    /\ rows \in Seq(Row)
    /\ dir \in [patch : Nat, baseline : Nat, findings : Nat]
    /\ commits \in Seq(Nat) /\ branch \in 0 .. Len(commits)
    /\ prs \in Seq(Pull)
    /\ job \in [Jobs -> Work]
    /\ scan \in [on : BOOLEAN, rows : Seq(Row), next : Nat \ {0}, stamp : BOOLEAN]
    /\ killed \in BOOLEAN

(* A row: its push is a cell's commit, and what its pull request came to. *)
RowFits(row, cs, ps) ==
    /\ row.pushed <= Len(cs) /\ row.pr <= Len(ps)
    /\ row.pushed # 0 => cs[row.pushed] # 0
    /\ row.state \in InFlight => row.pr = 0
    /\ row.state = "APPROVED" => row.pr # 0
    /\ row.pr # 0 /\ ps[row.pr].state = "open" => row.state \in Pending \union MergeOnly
    /\ row.merged # 0 => row.pr # 0 /\ ps[row.pr].state = "merged"

RowsFit == \A i \in 1 .. Len(rows) : RowFits(rows[i], commits, prs)

(* A job: whose row it has, what it built, and what it may still do.        *)
JobFits(p) ==
    LET j == job[p] IN
    /\ j.at # "idle"
    /\ j.row \in 1 .. Len(rows) /\ rows[j.row].pr = 0
    /\ j.commit <= Len(commits) /\ j.expect <= Len(commits)
    /\ j.commit # 0 => commits[j.commit] # 0
    /\ j.at \in {"pushing", "recording", "opening"} => j.expect < j.commit
    /\ j.at = "pushing" => branch # j.commit
    /\ j.at = "opening" => j.opens

CellFits ==
    LET j == job["cell"] IN
    /\ j.row = Len(rows)
    /\ j.mode \in {"none", "ready", "blocked", "failed"}
    /\ j.mode = "none" <=> j.at = "running"
    /\ j.mode \in {"none", "ready"} => rows[j.row].state = "REVIEWING"
    /\ j.mode \in {"blocked", "failed"} => rows[j.row].state = "EXHAUSTED"
    /\ j.mode = "ready" => j.at # "unpackaged" /\ (j.at # "packaging" => j.opens)
    /\ j.mode = "failed" => j.at # "packaging" /\ (j.at # "unpackaged" => ~j.opens)

CommandFits ==
    LET j == job["command"] IN
    /\ j.mode = "command"
    /\ rows[j.row].state = "READY_FOR_REVIEW"
    /\ j.at \notin {"running", "unpackaged"}
    /\ j.at # "packaging" => j.opens

JobsFit ==
    /\ \A p \in Jobs : job[p] = NoJob \/ JobFits(p)
    /\ job["cell"] = NoJob \/ CellFits
    /\ job["command"] = NoJob \/ CommandFits
    /\ job["cell"].at = "pushing" /\ job["command"].at = "pushing" =>
          job["cell"].commit # job["command"].commit

(* A scan: the rows it read are those there are, further on.                *)
ScanFits ==
    scan.on =>
        /\ Len(scan.rows) <= Len(rows)
        /\ \A i \in 1 .. Len(scan.rows) :
              LET row == scan.rows[i] IN
              /\ row.pr # 0 => rows[i].pr = row.pr
              /\ row.merged # 0 => prs[row.pr].state = "merged" /\ row.pr # 0
              /\ row.merged # 0 /\ Asked(row) /\ i < scan.next => rows[i].state = "MERGED"
              /\ scan.stamp /\ row.state \in InFlight => rows[i].state = row.state
        /\ scan.stamp /\ job["cell"] # NoJob => Len(scan.rows) < job["cell"].row

Fit == RowsFit /\ JobsFit /\ ScanFits
-----------------------------------------------------------------------------
(* The parts of the state, and one of them replaced. *)

LEMMA Elements ==
    ASSUME Shape
    PROVE  /\ \A i \in 1 .. Len(rows) : rows[i] \in Row
           /\ \A k \in 1 .. Len(prs) : prs[k] \in Pull
           /\ \A p \in Jobs : job[p] \in Work
           /\ NoJob \in Work /\ NewRow \in Row
           /\ Len(rows) \in Nat /\ Len(prs) \in Nat /\ Len(commits) \in Nat
           /\ branch \in Nat
<1>1. NoJob \in Work
  BY DEF NoJob, Work
<1>2. NewRow \in Row
  BY DEF NewRow, Row, States, InFlight
<1> QED
  BY <1>1, <1>2, ElementOfSeq, LenProperties DEF Shape

LEMMA RowPut ==
    ASSUME Shape, NEW i \in 1 .. Len(rows), NEW row \in Row,
           rows' = [rows EXCEPT ![i] = row]
    PROVE  /\ rows' \in Seq(Row) /\ Len(rows') = Len(rows)
           /\ rows'[i] = row
           /\ \A j \in 1 .. Len(rows) : j # i => rows'[j] = rows[j]
  BY ExceptSeq DEF Shape

LEMMA PullPut ==
    ASSUME Shape, NEW k \in 1 .. Len(prs), NEW pull \in Pull,
           prs' = [prs EXCEPT ![k] = pull]
    PROVE  /\ prs' \in Seq(Pull) /\ Len(prs') = Len(prs)
           /\ prs'[k] = pull
           /\ \A l \in 1 .. Len(prs) : l # k => prs'[l] = prs[l]
  BY ExceptSeq DEF Shape

LEMMA JobPut ==
    ASSUME Shape, NEW p \in Jobs, NEW w \in Work, job' = [job EXCEPT ![p] = w]
    PROVE  /\ job' \in [Jobs -> Work]
           /\ job'[p] = w
           /\ \A q \in Jobs : q # p => job'[q] = job[q]
  BY DEF Shape

LEMMA CommitMade ==
    ASSUME Shape, NEW c \in Nat, commits' = Append(commits, c)
    PROVE  /\ commits' \in Seq(Nat) /\ Len(commits') = Len(commits) + 1
           /\ commits'[Len(commits) + 1] = c
           /\ \A k \in 1 .. Len(commits) : commits'[k] = commits[k]
  BY AppendProperties DEF Shape

LEMMA IdleHasNone ==
    /\ NoJob.at = "idle" /\ NoJob.row = 0 /\ NoJob.mode = "none" /\ NoJob.commit = 0
    /\ NoJob.expect = 0 /\ NoJob.opens = FALSE
  BY DEF NoJob

(* What a job at work has. *)
LEMMA AtWork ==
    ASSUME Shape, JobsFit, NEW p \in Jobs, job[p].at # "idle"
    PROVE  /\ job[p] # NoJob /\ JobFits(p) /\ job[p] \in Work
           /\ job[p].row \in 1 .. Len(rows) /\ rows[job[p].row] \in Row
           /\ p = "cell" => CellFits
           /\ p = "command" => CommandFits
<1>1. job[p] # NoJob
  BY IdleHasNone
<1>2. JobFits(p)
  BY <1>1 DEF JobsFit
<1> QED
  BY <1>1, <1>2, Elements DEF JobsFit, JobFits
-----------------------------------------------------------------------------
(* What the actions of a job do to it and to its row. *)

LEMMA SettleDoes ==
    ASSUME Shape, NEW p \in Jobs, job[p].row \in 1 .. Len(rows),
           NEW s \in States, NEW n \in Nat, NEW k \in Nat, Settle(p, s, n, k)
    PROVE  LET r == job[p].row IN
           /\ rows' \in Seq(Row) /\ Len(rows') = Len(rows)
           /\ \A j \in 1 .. Len(rows) : j # r => rows'[j] = rows[j]
           /\ rows'[r].state = IF job[p].mode = "blocked" THEN "EXHAUSTED" ELSE s
           /\ rows'[r].pushed = n /\ rows'[r].pr = k /\ rows'[r].merged = rows[r].merged
<1> DEFINE row == [rows[job[p].row] EXCEPT
                     !.state = IF job[p].mode = "blocked" THEN "EXHAUSTED" ELSE s,
                     !.pushed = n, !.pr = k]
<1>1. rows[job[p].row] \in Row
  BY Elements
<1>2. row \in Row
  BY <1>1 DEF Row, States, MergeOnly
<1>3. rows' = [rows EXCEPT ![job[p].row] = row]
  BY DEF Settle
<1>4. /\ row.state = IF job[p].mode = "blocked" THEN "EXHAUSTED" ELSE s
      /\ row.pushed = n /\ row.pr = k /\ row.merged = rows[job[p].row].merged
  BY <1>1 DEF Row
<1>5. /\ rows' \in Seq(Row) /\ Len(rows') = Len(rows) /\ rows'[job[p].row] = row
      /\ \A j \in 1 .. Len(rows) : j # job[p].row => rows'[j] = rows[j]
  BY <1>2, <1>3, RowPut
<1> HIDE DEF row
<1> QED
  BY <1>4, <1>5

LEMMA SettleEnds ==
    ASSUME Shape, NEW p \in Jobs, NEW s, NEW n, NEW k, Settle(p, s, n, k)
    PROVE  /\ job' \in [Jobs -> Work]
           /\ \A q \in Jobs : q # p => job'[q] = job[q]
           /\ \/ job'[p] = NoJob
              \/ /\ job[p].mode = "blocked" /\ k = 0
                 /\ job'[p] = [job[p] EXCEPT !.at = "unpackaged"]
<1>1. job[p] \in Work /\ NoJob \in Work
  BY Elements
<1>2. [job[p] EXCEPT !.at = "unpackaged"] \in Work
  BY <1>1 DEF Work
<1>3. \/ job' = [job EXCEPT ![p] = NoJob]
      \/ /\ job[p].mode = "blocked" /\ k = 0
         /\ job' = [job EXCEPT ![p] = [job[p] EXCEPT !.at = "unpackaged"]]
  BY DEF Settle
<1> QED
  BY <1>1, <1>2, <1>3, JobPut

LEMMA RaiseDoes ==
    ASSUME Shape, NEW p \in Jobs, job[p].row \in 1 .. Len(rows), Raise(p)
    PROVE  LET r == job[p].row IN
           /\ rows' \in Seq(Row) /\ Len(rows') = Len(rows)
           /\ \A j \in 1 .. Len(rows) : j # r => rows'[j] = rows[j]
           /\ rows'[r].state = IF job[p].mode = "ready" THEN "READY_FOR_REVIEW"
                               ELSE rows[r].state
           /\ rows'[r].pushed = rows[r].pushed /\ rows'[r].pr = rows[r].pr
           /\ rows'[r].merged = rows[r].merged
<1> DEFINE row == [rows[job[p].row] EXCEPT !.state = "READY_FOR_REVIEW"]
<1>1. rows[job[p].row] \in Row
  BY Elements
<1>2. row \in Row
  BY <1>1 DEF Row, States, Pending
<1>3. /\ row.state = "READY_FOR_REVIEW" /\ row.pushed = rows[job[p].row].pushed
      /\ row.pr = rows[job[p].row].pr /\ row.merged = rows[job[p].row].merged
  BY <1>1 DEF Row
<1>4. CASE job[p].mode = "ready"
  <2>1. rows' = [rows EXCEPT ![job[p].row] = row]
    BY <1>4 DEF Raise
  <2>2. /\ rows' \in Seq(Row) /\ Len(rows') = Len(rows) /\ rows'[job[p].row] = row
        /\ \A j \in 1 .. Len(rows) : j # job[p].row => rows'[j] = rows[j]
    BY <1>2, <2>1, RowPut
  <2> HIDE DEF row
  <2> QED
    BY <1>3, <1>4, <2>2
<1>5. CASE job[p].mode # "ready"
  <2>1. rows' = rows
    BY <1>5 DEF Raise
  <2> QED
    BY <1>5, <2>1 DEF Shape
<1> QED
  BY <1>4, <1>5

LEMMA RaiseEnds ==
    ASSUME Shape, NEW p \in Jobs, Raise(p)
    PROVE  /\ job' \in [Jobs -> Work]
           /\ \A q \in Jobs : q # p => job'[q] = job[q]
           /\ \/ job'[p] = NoJob
              \/ /\ job[p].mode = "blocked"
                 /\ job'[p] = [job[p] EXCEPT !.at = "unpackaged"]
<1>1. job[p] \in Work /\ NoJob \in Work
  BY Elements
<1>2. [job[p] EXCEPT !.at = "unpackaged"] \in Work
  BY <1>1 DEF Work
<1>3. \/ job' = [job EXCEPT ![p] = NoJob]
      \/ /\ job[p].mode = "blocked"
         /\ job' = [job EXCEPT ![p] = [job[p] EXCEPT !.at = "unpackaged"]]
  BY DEF Raise
<1> QED
  BY <1>1, <1>2, <1>3, JobPut

LEMMA SquashDoes ==
    ASSUME Shape, NEW p \in Jobs, NEW opens \in BOOLEAN, Squash(p, opens)
    PROVE  /\ commits' \in Seq(Nat) /\ Len(commits') = Len(commits) + 1
           /\ commits'[Len(commits) + 1] = dir.patch /\ dir.patch # 0
           /\ \A k \in 1 .. Len(commits) : commits'[k] = commits[k]
           /\ job' \in [Jobs -> Work]
           /\ \A q \in Jobs : q # p => job'[q] = job[q]
           /\ job'[p].at = "pushing" /\ job'[p].opens = opens
           /\ job'[p].commit = Len(commits) + 1 /\ job'[p].expect = branch
           /\ job'[p].row = job[p].row /\ job'[p].mode = job[p].mode
<1> DEFINE w == [job[p] EXCEPT !.at = "pushing", !.opens = opens,
                               !.commit = Len(commits) + 1, !.expect = branch]
<1>1. job[p] \in Work /\ Len(commits) \in Nat /\ branch \in Nat /\ dir.patch \in Nat
  BY Elements DEF Shape
<1>2. w \in Work
  <2>1. Len(commits) + 1 \in Nat
    BY <1>1
  <2> QED
    BY <1>1, <2>1 DEF Work
<1>3. /\ w.at = "pushing" /\ w.opens = opens /\ w.commit = Len(commits) + 1
      /\ w.expect = branch /\ w.row = job[p].row /\ w.mode = job[p].mode
  BY <1>1 DEF Work
<1>4. job' = [job EXCEPT ![p] = w]
  BY DEF Squash
<1>5. /\ job' \in [Jobs -> Work] /\ job'[p] = w
      /\ \A q \in Jobs : q # p => job'[q] = job[q]
  BY <1>2, <1>4, JobPut
<1>6. commits' = Append(commits, dir.patch) /\ dir.patch # 0
  BY DEF Squash
<1> HIDE DEF w
<1> QED
  BY <1>1, <1>3, <1>5, <1>6, CommitMade

LEMMA StartCellDoes ==
    ASSUME Shape, StartCell
    PROVE  /\ rows' \in Seq(Row) /\ Len(rows') = Len(rows) + 1
           /\ rows'[Len(rows) + 1] = NewRow
           /\ \A j \in 1 .. Len(rows) : rows'[j] = rows[j]
           /\ job' \in [Jobs -> Work] /\ job'["command"] = job["command"]
           /\ job'["cell"].at = "running" /\ job'["cell"].row = Len(rows) + 1
           /\ job'["cell"].mode = "none" /\ job'["cell"].commit = 0
           /\ job'["cell"].expect = 0
<1> DEFINE w == [NoJob EXCEPT !.at = "running", !.row = Len(rows) + 1]
<1>1. Len(rows) + 1 \in Nat /\ NewRow \in Row
  BY Elements
<1>2. w \in Work /\ w.at = "running" /\ w.row = Len(rows) + 1 /\ w.mode = "none"
      /\ w.commit = 0 /\ w.expect = 0
  BY <1>1 DEF Work, NoJob
<1>3. job' = [job EXCEPT !["cell"] = w] /\ rows' = Append(rows, NewRow)
  BY DEF StartCell
<1>4. job' \in [Jobs -> Work] /\ job'["cell"] = w /\ job'["command"] = job["command"]
  BY <1>2, <1>3, JobPut DEF Jobs
<1> HIDE DEF w
<1> QED
  BY <1>1, <1>2, <1>3, <1>4, AppendProperties DEF Shape

LEMMA EndCellDoes ==
    ASSUME Shape, JobsFit, EndCell
    PROVE  LET c == job["cell"].row IN
           /\ c \in 1 .. Len(rows)
           /\ rows' \in Seq(Row) /\ Len(rows') = Len(rows)
           /\ \A j \in 1 .. Len(rows) : j # c => rows'[j] = rows[j]
           /\ rows'[c].pushed = rows[c].pushed /\ rows'[c].pr = rows[c].pr
           /\ rows'[c].merged = rows[c].merged
           /\ job' \in [Jobs -> Work] /\ job'["command"] = job["command"]
           /\ job'["cell"].row = c /\ job'["cell"].commit = job["cell"].commit
           /\ job'["cell"].expect = job["cell"].expect
           /\ \/ /\ job'["cell"].mode = "ready" /\ job'["cell"].at = "packaging"
                 /\ rows'[c].state = rows[c].state
              \/ /\ job'["cell"].mode = "blocked" /\ job'["cell"].at = "packaging"
                 /\ rows'[c].state = "EXHAUSTED"
              \/ /\ job'["cell"].mode = "failed" /\ job'["cell"].at = "unpackaged"
                 /\ rows'[c].state = "EXHAUSTED"
           /\ dir' \in [patch : Nat, baseline : Nat, findings : Nat]
           /\ dir'.baseline = dir.baseline /\ dir'.patch \in {dir.patch, c}
<1> DEFINE c == job["cell"].row
<1>1. PICK end \in {"ready", "blocked", "failed"} :
        \E export \in {"wrote", "none", "failed"} :
          /\ dir' = [dir EXCEPT !.patch = IF export = "wrote" THEN c ELSE @,
                                !.findings = IF end = "failed" THEN @ ELSE c]
          /\ rows' = IF end = "ready" THEN rows
                     ELSE [rows EXCEPT ![c].state = "EXHAUSTED"]
          /\ job' = [job EXCEPT !["cell"] =
                       [@ EXCEPT !.mode = end,
                                 !.at = IF end = "failed" THEN "unpackaged" ELSE "packaging"]]
  BY DEF EndCell
<1>2. "cell" \in Jobs /\ job["cell"].at = "running"
  BY DEF EndCell, Jobs
<1>3. /\ c \in 1 .. Len(rows) /\ rows[c] \in Row /\ job["cell"] \in Work
  BY <1>2, AtWork
<1>4. c \in Nat /\ dir \in [patch : Nat, baseline : Nat, findings : Nat]
  BY <1>3 DEF Shape
<1>5. /\ dir' \in [patch : Nat, baseline : Nat, findings : Nat]
      /\ dir'.baseline = dir.baseline /\ dir'.patch \in {dir.patch, c}
  BY <1>1, <1>4
<1>6. /\ rows' \in Seq(Row) /\ Len(rows') = Len(rows)
      /\ \A j \in 1 .. Len(rows) : j # c => rows'[j] = rows[j]
      /\ rows'[c].pushed = rows[c].pushed /\ rows'[c].pr = rows[c].pr
      /\ rows'[c].merged = rows[c].merged
      /\ rows'[c].state = IF end = "ready" THEN rows[c].state ELSE "EXHAUSTED"
  <2> DEFINE row == [rows[c] EXCEPT !.state = "EXHAUSTED"]
  <2>1. row \in Row
    BY <1>3 DEF Row, States, MergeOnly
  <2>2. /\ row.state = "EXHAUSTED" /\ row.pushed = rows[c].pushed
        /\ row.pr = rows[c].pr /\ row.merged = rows[c].merged
    BY <1>3 DEF Row
  <2>4. CASE end = "ready"
    BY <1>1, <2>4 DEF Shape
  <2>5. CASE end # "ready"
    <3>0. rows' = [rows EXCEPT ![c] = row]
      BY <1>1, <2>5
    <3>1. /\ rows' \in Seq(Row) /\ Len(rows') = Len(rows) /\ rows'[c] = row
          /\ \A j \in 1 .. Len(rows) : j # c => rows'[j] = rows[j]
      BY <1>3, <2>1, <3>0, RowPut
    <3> HIDE DEF row, c
    <3> QED
      BY <2>2, <2>5, <3>1
  <2> QED
    BY <2>4, <2>5
<1>7. /\ job' \in [Jobs -> Work] /\ job'["command"] = job["command"]
      /\ job'["cell"].row = c /\ job'["cell"].commit = job["cell"].commit
      /\ job'["cell"].expect = job["cell"].expect
      /\ job'["cell"].mode = end
      /\ job'["cell"].at = IF end = "failed" THEN "unpackaged" ELSE "packaging"
  <2> DEFINE w == [job["cell"] EXCEPT !.mode = end,
                       !.at = IF end = "failed" THEN "unpackaged" ELSE "packaging"]
  <2>1. w \in Work
    BY <1>3 DEF Work
  <2>2. /\ w.row = c /\ w.commit = job["cell"].commit /\ w.expect = job["cell"].expect
        /\ w.mode = end /\ w.at = IF end = "failed" THEN "unpackaged" ELSE "packaging"
    BY <1>3 DEF Work
  <2>3. job' = [job EXCEPT !["cell"] = w]
    BY <1>1
  <2>4. job' \in [Jobs -> Work] /\ job'["cell"] = w /\ job'["command"] = job["command"]
    BY <2>1, <2>3, JobPut DEF Jobs
  <2> HIDE DEF w, c
  <2> QED
    BY <2>2, <2>4
<1> HIDE DEF c
<1> QED
  BY <1>3, <1>5, <1>6, <1>7 DEF c

LEMMA StartCommandDoes ==
    ASSUME Shape, StartCommand
    PROVE  /\ Len(rows) # 0 /\ rows[Len(rows)].state = "READY_FOR_REVIEW"
           /\ rows[Len(rows)].pr = 0
           /\ dir.patch >= dir.baseline
           /\ job' \in [Jobs -> Work] /\ job'["cell"] = job["cell"]
           /\ job'["command"].at = "packaging" /\ job'["command"].row = Len(rows)
           /\ job'["command"].mode = "command" /\ job'["command"].commit = 0
           /\ job'["command"].expect = 0
<1> DEFINE w == [NoJob EXCEPT !.at = "packaging", !.row = Len(rows), !.mode = "command"]
<1>1. Len(rows) \in Nat /\ (rows # <<>> => Len(rows) # 0)
  BY Elements, EmptySeq DEF Shape
<1>2. w \in Work /\ w.at = "packaging" /\ w.row = Len(rows) /\ w.mode = "command"
      /\ w.commit = 0 /\ w.expect = 0
  BY <1>1 DEF Work, NoJob
<1>3. job' = [job EXCEPT !["command"] = w]
  BY DEF StartCommand
<1>4. job' \in [Jobs -> Work] /\ job'["command"] = w /\ job'["cell"] = job["cell"]
  BY <1>2, <1>3, JobPut DEF Jobs
<1>5. /\ rows # <<>> /\ rows[Len(rows)].state = "READY_FOR_REVIEW"
      /\ rows[Len(rows)].pr = 0 /\ dir.patch >= dir.baseline
  BY DEF StartCommand, ReadyTask, Last
<1> HIDE DEF w
<1> QED
  BY <1>1, <1>2, <1>4, <1>5

LEMMA PushDoes ==
    ASSUME Shape, NEW p \in Jobs, PushWithLease(p)
    PROVE  /\ job' \in [Jobs -> Work]
           /\ \A q \in Jobs : q # p => job'[q] = job[q]
           /\ job'[p].at = "recording" /\ job'[p].row = job[p].row
           /\ job'[p].mode = job[p].mode /\ job'[p].opens = job[p].opens
           /\ job'[p].commit = job[p].commit /\ job'[p].expect = job[p].expect
           /\ branch' = job[p].commit
<1> DEFINE w == [job[p] EXCEPT !.at = "recording"]
<1>1. job[p] \in Work
  BY Elements
<1>2. /\ w \in Work /\ w.at = "recording" /\ w.row = job[p].row
      /\ w.mode = job[p].mode /\ w.opens = job[p].opens
      /\ w.commit = job[p].commit /\ w.expect = job[p].expect
  BY <1>1 DEF Work
<1>3. job' = [job EXCEPT ![p] = w] /\ branch' = job[p].commit
  BY DEF PushWithLease
<1>4. /\ job' \in [Jobs -> Work] /\ job'[p] = w
      /\ \A q \in Jobs : q # p => job'[q] = job[q]
  BY <1>2, <1>3, JobPut
<1> HIDE DEF w
<1> QED
  BY <1>2, <1>3, <1>4

LEMMA RecordDoes ==
    ASSUME Shape, NEW p \in Jobs, job[p].row \in 1 .. Len(rows), RecordPush(p)
    PROVE  LET r == job[p].row IN
           /\ rows' \in Seq(Row) /\ Len(rows') = Len(rows)
           /\ \A j \in 1 .. Len(rows) : j # r => rows'[j] = rows[j]
           /\ rows'[r].state = rows[r].state /\ rows'[r].pushed = job[p].commit
           /\ rows'[r].pr = rows[r].pr /\ rows'[r].merged = rows[r].merged
           /\ job' \in [Jobs -> Work]
           /\ \A q \in Jobs : q # p => job'[q] = job[q]
           /\ \/ job'[p] = NoJob /\ ~job[p].opens
              \/ /\ job[p].opens /\ job'[p].opens /\ job'[p].at = "opening"
                 /\ job'[p].row = r /\ job'[p].mode = job[p].mode
                 /\ job'[p].commit = job[p].commit /\ job'[p].expect = job[p].expect
<1> DEFINE row == [rows[job[p].row] EXCEPT !.pushed = job[p].commit]
           w == [job[p] EXCEPT !.at = "opening"]
<1>1. rows[job[p].row] \in Row /\ job[p] \in Work /\ NoJob \in Work
  BY Elements
<1>2. /\ row \in Row /\ row.state = rows[job[p].row].state /\ row.pushed = job[p].commit
      /\ row.pr = rows[job[p].row].pr /\ row.merged = rows[job[p].row].merged
  BY <1>1 DEF Row, Work
<1>3. rows' = [rows EXCEPT ![job[p].row] = row]
  BY DEF RecordPush
<1>4. /\ rows' \in Seq(Row) /\ Len(rows') = Len(rows) /\ rows'[job[p].row] = row
      /\ \A j \in 1 .. Len(rows) : j # job[p].row => rows'[j] = rows[j]
  BY <1>2, <1>3, RowPut
<1>5. /\ w \in Work /\ w.at = "opening" /\ w.row = job[p].row
      /\ w.mode = job[p].mode /\ w.opens = job[p].opens
      /\ w.commit = job[p].commit /\ w.expect = job[p].expect
  BY <1>1 DEF Work
<1>6. job' = [job EXCEPT ![p] = IF job[p].opens THEN w ELSE NoJob]
  BY DEF RecordPush
<1> HIDE DEF row, w
<1>7. CASE job[p].opens
  <2>1. job' \in [Jobs -> Work] /\ job'[p] = w /\ \A q \in Jobs : q # p => job'[q] = job[q]
    BY <1>5, <1>6, <1>7, JobPut
  <2> QED
    BY <1>2, <1>4, <1>5, <1>7, <2>1
<1>8. CASE ~job[p].opens
  <2>1. job' \in [Jobs -> Work] /\ job'[p] = NoJob
        /\ \A q \in Jobs : q # p => job'[q] = job[q]
    BY <1>1, <1>6, <1>8, JobPut
  <2> QED
    BY <1>2, <1>4, <1>8, <2>1
<1> QED
  BY <1>7, <1>8

(* A job that ends with nothing written. *)
LEMMA GivesUp ==
    ASSUME Shape, NEW p \in Jobs, job' = [job EXCEPT ![p] = NoJob]
    PROVE  /\ job' \in [Jobs -> Work] /\ job'[p] = NoJob
           /\ \A q \in Jobs : q # p => job'[q] = job[q]
  BY Elements, JobPut
-----------------------------------------------------------------------------
(* GitHub's side. *)

(* What may become of the pull requests in a step: none goes, and one that   *)
(* is no longer open stays what it is.                                      *)
PullsGrow ==
    /\ prs' \in Seq(Pull) /\ Len(prs) <= Len(prs')
    /\ \A k \in 1 .. Len(prs) : prs[k].state # "open" => prs'[k] = prs[k]

LEMMA OpenIsAPull ==
    ASSUME Shape, NEW k \in Open
    PROVE  k \in 1 .. Len(prs) /\ prs[k] \in Pull /\ prs[k].state = "open"
  BY Elements DEF Open

LEMMA OpenDoes ==
    ASSUME Shape, NEW p \in Jobs, OpenDraftPr(p)
    PROVE  /\ job[p].at = "opening" /\ PullsGrow
           /\ \E k \in 1 .. Len(prs') :
                 /\ prs'[k].state = "open" /\ prs'[k].draft = TRUE
                 /\ \/ Open = {} /\ branch # 0 /\ k = Len(prs) + 1
                    \/ /\ k \in Open /\ Len(prs') = Len(prs)
                       /\ prs'[k].readied = prs[k].readied
                 /\ \A l \in 1 .. Len(prs) : l # k => prs'[l] = prs[l]
                 /\ Len(prs') \in {Len(prs), k}
                 /\ Settle(p, "READY_FOR_REVIEW", job[p].commit, k) \/ Raise(p)
<1>0. job[p].at = "opening" /\ Len(prs) \in Nat
  BY Elements DEF OpenDraftPr
<1>1. CASE Open = {} /\ branch # 0
           /\ prs' = Append(prs, [state |-> "open", draft |-> TRUE, changes |-> FALSE,
                                  readied |-> 0, head |-> 0])
           /\ (Settle(p, "READY_FOR_REVIEW", job[p].commit, Len(prs) + 1) \/ Raise(p))
  <2> DEFINE new == [state |-> "open", draft |-> TRUE, changes |-> FALSE,
                     readied |-> 0, head |-> 0]
  <2>1. new \in Pull /\ new.state = "open" /\ new.draft = TRUE
    BY DEF Pull
  <2>2. prs' = Append(prs, new)
    BY <1>1
  <2> HIDE DEF new
  <2>3. /\ prs' \in Seq(Pull) /\ Len(prs') = Len(prs) + 1 /\ prs'[Len(prs) + 1] = new
        /\ \A k \in 1 .. Len(prs) : prs'[k] = prs[k]
    BY <2>1, <2>2, AppendProperties DEF Shape
  <2>4. PullsGrow
    BY <1>0, <2>3 DEF PullsGrow
  <2>5. Len(prs) + 1 \in 1 .. Len(prs')
    BY <1>0, <2>3
  <2> QED
    BY <1>0, <1>1, <2>1, <2>3, <2>4, <2>5
<1>2. ASSUME NEW k \in Open, Redraft(k), Settle(p, "READY_FOR_REVIEW", job[p].commit, k)
      PROVE  /\ PullsGrow
             /\ k \in 1 .. Len(prs') /\ Len(prs') = Len(prs)
             /\ prs'[k].state = "open" /\ prs'[k].draft = TRUE
             /\ prs'[k].readied = prs[k].readied
             /\ \A l \in 1 .. Len(prs) : l # k => prs'[l] = prs[l]
  <2> DEFINE pull == [prs[k] EXCEPT !.draft = TRUE]
  <2>1. k \in 1 .. Len(prs) /\ prs[k] \in Pull /\ prs[k].state = "open"
    BY OpenIsAPull
  <2>2. /\ pull \in Pull /\ pull.state = "open" /\ pull.draft = TRUE
        /\ pull.readied = prs[k].readied
    BY <2>1 DEF Pull
  <2>3. prs' = [prs EXCEPT ![k] = pull]
    BY <1>2 DEF Redraft
  <2> HIDE DEF pull
  <2>4. /\ prs' \in Seq(Pull) /\ Len(prs') = Len(prs) /\ prs'[k] = pull
        /\ \A l \in 1 .. Len(prs) : l # k => prs'[l] = prs[l]
    BY <2>1, <2>2, <2>3, PullPut
  <2> QED
    BY <1>0, <2>1, <2>2, <2>4 DEF PullsGrow
<1> QED
  BY <1>0, <1>1, <1>2 DEF OpenDraftPr

(* An operator's mark, or GitHub's, on one open pull request. *)
LEMMA PullMarked ==
    ASSUME Shape, NEW k \in Open, NEW pull \in Pull, prs' = [prs EXCEPT ![k] = pull]
    PROVE  /\ PullsGrow /\ Len(prs') = Len(prs) /\ k \in 1 .. Len(prs)
           /\ prs'[k] = pull
           /\ \A l \in 1 .. Len(prs) : l # k => prs'[l] = prs[l]
<1>1. k \in 1 .. Len(prs) /\ prs[k].state = "open" /\ Len(prs) \in Nat
  BY Elements, OpenIsAPull
<1>2. /\ prs' \in Seq(Pull) /\ Len(prs') = Len(prs) /\ prs'[k] = pull
      /\ \A l \in 1 .. Len(prs) : l # k => prs'[l] = prs[l]
  BY <1>1, PullPut
<1> QED
  BY <1>1, <1>2 DEF PullsGrow

LEMMA MarksDo ==
    ASSUME Shape, MarkReady \/ RequestChanges \/ Close \/ Merge
    PROVE  /\ PullsGrow /\ Len(prs') = Len(prs)
           /\ \E k \in Open :
                 /\ k \in 1 .. Len(prs)
                 /\ \A l \in 1 .. Len(prs) : l # k => prs'[l] = prs[l]
                 /\ \/ MarkReady /\ prs'[k].state = "open" /\ prs'[k].readied = branch
                    \/ /\ RequestChanges /\ prs'[k].state = "open"
                       /\ prs'[k].draft = prs[k].draft /\ prs'[k].readied = prs[k].readied
                    \/ /\ Close /\ prs'[k].state = "closed"
                       /\ prs'[k].draft = prs[k].draft /\ prs'[k].readied = prs[k].readied
                    \/ /\ Merge /\ prs'[k].state = "merged"
                       /\ prs'[k].draft = prs[k].draft /\ prs'[k].readied = prs[k].readied
<1>0. branch \in Nat
  BY Elements
<1>1. CASE MarkReady
  <2>1. PICK k \in Open :
          prs' = [prs EXCEPT ![k] = [prs[k] EXCEPT !.draft = FALSE, !.readied = branch]]
    BY <1>1 DEF MarkReady
  <2> DEFINE pull == [prs[k] EXCEPT !.draft = FALSE, !.readied = branch]
  <2>2. pull \in Pull /\ pull.state = "open" /\ pull.readied = branch
    BY <1>0, OpenIsAPull DEF Pull
  <2> HIDE DEF pull
  <2> QED
    BY <1>1, <2>1, <2>2, PullMarked DEF pull
<1>2. CASE RequestChanges
  <2>1. PICK k \in Open : prs' = [prs EXCEPT ![k] = [prs[k] EXCEPT !.changes = TRUE]]
    BY <1>2 DEF RequestChanges
  <2> DEFINE pull == [prs[k] EXCEPT !.changes = TRUE]
  <2>2. /\ pull \in Pull /\ pull.state = "open"
        /\ pull.draft = prs[k].draft /\ pull.readied = prs[k].readied
    BY OpenIsAPull DEF Pull
  <2> HIDE DEF pull
  <2> QED
    BY <1>2, <2>1, <2>2, PullMarked DEF pull
<1>3. CASE Close
  <2>1. PICK k \in Open :
          prs' = [prs EXCEPT ![k] = [prs[k] EXCEPT !.state = "closed", !.head = branch]]
    BY <1>3 DEF Close
  <2> DEFINE pull == [prs[k] EXCEPT !.state = "closed", !.head = branch]
  <2>2. /\ pull \in Pull /\ pull.state = "closed"
        /\ pull.draft = prs[k].draft /\ pull.readied = prs[k].readied
    BY <1>0, OpenIsAPull DEF Pull
  <2> HIDE DEF pull
  <2> QED
    BY <1>3, <2>1, <2>2, PullMarked DEF pull
<1>4. CASE Merge
  <2>1. PICK k \in Open :
          prs' = [prs EXCEPT ![k] = [prs[k] EXCEPT !.state = "merged", !.head = branch]]
    BY <1>4 DEF Merge
  <2> DEFINE pull == [prs[k] EXCEPT !.state = "merged", !.head = branch]
  <2>2. /\ pull \in Pull /\ pull.state = "merged"
        /\ pull.draft = prs[k].draft /\ pull.readied = prs[k].readied
    BY <1>0, OpenIsAPull DEF Pull
  <2> HIDE DEF pull
  <2> QED
    BY <1>4, <2>1, <2>2, PullMarked DEF pull
<1> QED
  BY <1>1, <1>2, <1>3, <1>4
-----------------------------------------------------------------------------
(* The scan. *)

LEMMA ScanElements ==
    ASSUME Shape
    PROVE  /\ scan.on \in BOOLEAN /\ scan.stamp \in BOOLEAN
           /\ scan.rows \in Seq(Row) /\ Len(scan.rows) \in Nat
           /\ scan.next \in Nat \ {0}
           /\ \A i \in 1 .. Len(scan.rows) : scan.rows[i] \in Row
           /\ NoScan \in [on : BOOLEAN, rows : Seq(Row), next : Nat \ {0}, stamp : BOOLEAN]
           /\ NoScan.on = FALSE
<1>1. scan.rows \in Seq(Row)
  BY DEF Shape
<1>2. NoScan \in [on : BOOLEAN, rows : Seq(Row), next : Nat \ {0}, stamp : BOOLEAN]
      /\ NoScan.on = FALSE
  <2>1. << >> \in Seq(Row)
    BY EmptySeq
  <2> QED
    BY <2>1 DEF NoScan
<1> QED
  BY <1>1, <1>2, LenProperties, ElementOfSeq DEF Shape

(* A row the scan writes: where GitHub's answer, or a merge recorded before, *)
(* moves it.                                                                *)
ScanWrites(i, row) ==
    /\ rows' \in Seq(Row) /\ Len(rows') = Len(rows)
    /\ \A j \in 1 .. Len(rows) : j # i => rows'[j] = rows[j]
    /\ rows'[i].pushed = rows[i].pushed /\ rows'[i].pr = rows[i].pr
    /\ Asked(row)
    /\ \/ /\ row.merged # 0
          /\ rows'[i].state = "MERGED" /\ rows'[i].merged = rows[i].merged
       \/ \E s \in Answer(row) :
             /\ row.merged = 0
             /\ s # "MERGED" => rows'[i].merged = 0
             /\ rows'[i].state \in {s, rows[i].state}

LEMMA ScanRowDoes ==
    ASSUME Shape, Fit, ScanRow
    PROVE  LET i == scan.next
               row == scan.rows[i]
           IN
           /\ scan.on /\ i \in 1 .. Len(scan.rows) /\ i \in 1 .. Len(rows) /\ row \in Row
           /\ \/ rows' = rows /\ (Asked(row) => row.merged = 0)
              \/ ScanWrites(i, row)
           /\ \/ /\ scan' \in [on : BOOLEAN, rows : Seq(Row), next : Nat \ {0}, stamp : BOOLEAN]
                 /\ scan'.rows = scan.rows /\ scan'.next = i + 1 /\ scan'.stamp = scan.stamp
              \/ scan' = NoScan
           /\ killed => killed'
           /\ killed' \in BOOLEAN
<1> DEFINE i == scan.next
           row == scan.rows[i]
<1>1. /\ scan.on /\ i \in 1 .. Len(scan.rows) /\ i \in 1 .. Len(rows) /\ row \in Row
      /\ Len(scan.rows) <= Len(rows) /\ rows[i] \in Row
  BY Elements, ScanElements DEF ScanRow, Fit, ScanFits
<1>2. ASSUME Visited(i)
      PROVE  /\ scan' \in [on : BOOLEAN, rows : Seq(Row), next : Nat \ {0}, stamp : BOOLEAN]
             /\ scan'.rows = scan.rows /\ scan'.next = i + 1 /\ scan'.stamp = scan.stamp
  <2>1. i + 1 \in Nat \ {0}
    BY ScanElements
  <2>2. scan' = [scan EXCEPT !.next = i + 1]
    BY <1>2 DEF Visited
  <2> HIDE DEF i
  <2> QED
    BY <2>1, <2>2 DEF Shape
<1>3. ASSUME NEW s \in States, NEW h \in Nat,
             rows' = [rows EXCEPT ![i] = [rows[i] EXCEPT !.state = s, !.merged = h]]
      PROVE  /\ rows' \in Seq(Row) /\ Len(rows') = Len(rows)
             /\ \A j \in 1 .. Len(rows) : j # i => rows'[j] = rows[j]
             /\ rows'[i].pushed = rows[i].pushed /\ rows'[i].pr = rows[i].pr
             /\ rows'[i].state = s /\ rows'[i].merged = h
  <2> DEFINE r == [rows[i] EXCEPT !.state = s, !.merged = h]
  <2>1. /\ r \in Row /\ r.pushed = rows[i].pushed /\ r.pr = rows[i].pr
        /\ r.state = s /\ r.merged = h
    BY <1>1 DEF Row
  <2> HIDE DEF r, i
  <2>2. rows' = [rows EXCEPT ![i] = r]
    BY <1>3 DEF r
  <2> QED
    BY <1>1, <2>1, <2>2, RowPut
<1>4. CASE ~Asked(row) /\ Visited(i) /\ UNCHANGED <<rows, killed>>
  BY <1>1, <1>2, <1>4 DEF Shape
<1>5. CASE /\ Asked(row) /\ MergedAlready(row)
           /\ rows' = [rows EXCEPT ![i].state = "MERGED"]
           /\ Visited(i) /\ UNCHANGED killed
  <2> DEFINE r == [rows[i] EXCEPT !.state = "MERGED"]
  <2>1. /\ r \in Row /\ r.pushed = rows[i].pushed /\ r.pr = rows[i].pr
        /\ r.state = "MERGED" /\ r.merged = rows[i].merged
    BY <1>1 DEF Row, States
  <2>2. rows' = [rows EXCEPT ![i] = r]
    BY <1>5
  <2> HIDE DEF r, i
  <2>3. /\ rows' \in Seq(Row) /\ Len(rows') = Len(rows) /\ rows'[i] = r
        /\ \A j \in 1 .. Len(rows) : j # i => rows'[j] = rows[j]
    BY <1>1, <2>1, <2>2, RowPut
  <2>4. ScanWrites(i, row)
    BY <1>5, <2>1, <2>3 DEF ScanWrites, MergedAlready
  <2> QED
    BY <1>1, <1>2, <1>5, <2>4 DEF Shape, i
<1>6. CASE /\ Asked(row) /\ ~MergedAlready(row)
           /\ Visited(i) /\ UNCHANGED <<rows, killed>>
  BY <1>1, <1>2, <1>6 DEF Shape, MergedAlready
<1>7. ASSUME Asked(row), ~MergedAlready(row), NEW s \in Answer(row)
      PROVE  /\ s \in States /\ row.merged = 0
             /\ (IF s = "MERGED" THEN HeadOf(prs[row.pr]) ELSE row.merged) \in Nat
             /\ s # "MERGED" => (IF s = "MERGED" THEN HeadOf(prs[row.pr]) ELSE row.merged) = 0
  <2>1. row.merged = 0
    BY <1>1, <1>7 DEF MergedAlready, Row
  <2>2. s \in States
    BY <1>7 DEF Answer, NextState, States, Pending
  <2>3. rows[i].pr = row.pr /\ row.pr # 0 /\ row.pr <= Len(prs)
    BY <1>1, <1>7 DEF Asked, Fit, ScanFits, RowsFit, RowFits
  <2>4. prs[row.pr] \in Pull
    <3>1. row.pr \in Nat
      BY <1>1 DEF Row
    <3>2. row.pr \in 1 .. Len(prs)
      BY <2>3, <3>1, Elements
    <3> QED
      BY <3>2, Elements
  <2>5. HeadOf(prs[row.pr]) \in Nat
    BY <2>4, Elements DEF HeadOf, Pull
  <2> QED
    BY <2>1, <2>2, <2>5
<1>8. ASSUME Asked(row), ~MergedAlready(row), NEW s \in Answer(row),
             LET head == IF s = "MERGED" THEN HeadOf(prs[row.pr]) ELSE row.merged IN
             \/ /\ rows' = [rows EXCEPT ![i].state = s, ![i].merged = head]
                /\ Visited(i) /\ UNCHANGED killed
             \/ /\ "kill" \in Mishaps
                /\ rows' = [rows EXCEPT ![i].merged = head]
                /\ scan' = NoScan /\ killed' = TRUE
      PROVE  /\ ScanWrites(i, row)
             /\ Visited(i) \/ scan' = NoScan
             /\ killed => killed'
             /\ killed' \in BOOLEAN
  <2> DEFINE head == IF s = "MERGED" THEN HeadOf(prs[row.pr]) ELSE row.merged
  <2>1. s \in States /\ row.merged = 0 /\ head \in Nat /\ (s # "MERGED" => head = 0)
    BY <1>7, <1>8
  <2>2. CASE /\ rows' = [rows EXCEPT ![i].state = s, ![i].merged = head]
             /\ Visited(i) /\ UNCHANGED killed
    <3>1. rows' = [rows EXCEPT ![i] = [rows[i] EXCEPT !.state = s, !.merged = head]]
      BY <1>1, <2>2 DEF Shape, Row
    <3> HIDE DEF head, i
    <3>2. /\ rows' \in Seq(Row) /\ Len(rows') = Len(rows)
          /\ \A j \in 1 .. Len(rows) : j # i => rows'[j] = rows[j]
          /\ rows'[i].pushed = rows[i].pushed /\ rows'[i].pr = rows[i].pr
          /\ rows'[i].state = s /\ rows'[i].merged = head
      BY <1>3, <2>1, <3>1
    <3> HIDE DEF row
    <3>3. ScanWrites(i, row)
      BY <1>8, <2>1, <3>2 DEF ScanWrites
    <3>4. killed' = killed /\ killed \in BOOLEAN
      BY <2>2 DEF Shape
    <3> QED
      BY <2>2, <3>3, <3>4
  <2>3. CASE /\ rows' = [rows EXCEPT ![i].merged = head]
             /\ scan' = NoScan /\ killed' = TRUE
    <3> DEFINE r == [rows[i] EXCEPT !.merged = head]
    <3>1. /\ r \in Row /\ r.pushed = rows[i].pushed /\ r.pr = rows[i].pr
          /\ r.state = rows[i].state /\ r.merged = head
      BY <1>1, <2>1 DEF Row
    <3>2. rows' = [rows EXCEPT ![i] = r]
      BY <2>3
    <3> HIDE DEF r, i, head
    <3>3. /\ rows' \in Seq(Row) /\ Len(rows') = Len(rows) /\ rows'[i] = r
          /\ \A j \in 1 .. Len(rows) : j # i => rows'[j] = rows[j]
      BY <1>1, <3>1, <3>2, RowPut
    <3> QED
      BY <1>8, <2>1, <2>3, <3>1, <3>3 DEF ScanWrites
  <2> QED
    BY <1>8, <2>2, <2>3
<1>9. \/ ~Asked(row) /\ Visited(i) /\ UNCHANGED <<rows, killed>>
      \/ /\ Asked(row) /\ MergedAlready(row)
         /\ rows' = [rows EXCEPT ![i].state = "MERGED"]
         /\ Visited(i) /\ UNCHANGED killed
      \/ /\ Asked(row) /\ ~MergedAlready(row)
         /\ Visited(i) /\ UNCHANGED <<rows, killed>>
      \/ /\ Asked(row) /\ ~MergedAlready(row)
         /\ \E s \in Answer(row) :
              LET head == IF s = "MERGED" THEN HeadOf(prs[row.pr]) ELSE row.merged IN
              \/ /\ rows' = [rows EXCEPT ![i].state = s, ![i].merged = head]
                 /\ Visited(i) /\ UNCHANGED killed
              \/ /\ "kill" \in Mishaps
                 /\ rows' = [rows EXCEPT ![i].merged = head]
                 /\ scan' = NoScan /\ killed' = TRUE
  BY DEF ScanRow
<1> HIDE DEF row, i
<1>10. CASE /\ Asked(row) /\ ~MergedAlready(row)
            /\ \E s \in Answer(row) :
                 LET head == IF s = "MERGED" THEN HeadOf(prs[row.pr]) ELSE row.merged IN
                 \/ /\ rows' = [rows EXCEPT ![i].state = s, ![i].merged = head]
                    /\ Visited(i) /\ UNCHANGED killed
                 \/ /\ "kill" \in Mishaps
                    /\ rows' = [rows EXCEPT ![i].merged = head]
                    /\ scan' = NoScan /\ killed' = TRUE
  <2>1. /\ ScanWrites(i, row)
        /\ Visited(i) \/ scan' = NoScan
        /\ killed => killed'
        /\ killed' \in BOOLEAN
    BY <1>8, <1>10
  <2> QED
    BY <1>1, <1>2, <2>1 DEF row, i
<1> QED
  BY <1>4, <1>5, <1>6, <1>9, <1>10 DEF row, i

LEMMA EndScanDoes ==
    ASSUME Shape, Fit, EndScan
    PROVE  /\ rows' \in Seq(Row) /\ Len(rows') = Len(rows)
           /\ \A i \in 1 .. Len(rows) :
                 \/ rows'[i] = rows[i]
                 \/ /\ scan.stamp /\ i <= Len(scan.rows)
                    /\ scan.rows[i].state \in InFlight
                    /\ rows'[i].state = "ORPHANED" /\ rows'[i].pushed = rows[i].pushed
                    /\ rows'[i].pr = rows[i].pr /\ rows'[i].merged = rows[i].merged
           /\ scan.on /\ scan' = NoScan
<1> DEFINE r(i) == IF scan.stamp /\ i <= Len(scan.rows) /\ scan.rows[i].state \in InFlight
                   THEN [rows[i] EXCEPT !.state = "ORPHANED"] ELSE rows[i]
<1>1. rows' = [i \in 1 .. Len(rows) |-> r(i)] /\ scan.on /\ scan' = NoScan
  BY DEF EndScan
<1>2. \A i \in 1 .. Len(rows) :
         /\ r(i) \in Row
         /\ \/ r(i) = rows[i]
            \/ /\ scan.stamp /\ i <= Len(scan.rows) /\ scan.rows[i].state \in InFlight
               /\ r(i).state = "ORPHANED" /\ r(i).pushed = rows[i].pushed
               /\ r(i).pr = rows[i].pr /\ r(i).merged = rows[i].merged
  <2> TAKE i \in 1 .. Len(rows)
  <2>1. rows[i] \in Row
    BY Elements
  <2>2. [rows[i] EXCEPT !.state = "ORPHANED"] \in Row
    BY <2>1 DEF Row, States
  <2> QED
    BY <2>1, <2>2 DEF Row
<1> HIDE DEF r
<1>3. Len(rows) \in Nat
  BY Elements
<1>4. rows' \in [1 .. Len(rows) -> Row]
  BY <1>1, <1>2
<1>5. rows' \in Seq(Row) /\ Len(rows') = Len(rows)
  BY <1>3, <1>4
<1> QED
  BY <1>1, <1>2, <1>5
-----------------------------------------------------------------------------
(* Every state is of that shape. *)

LEMMA ShapeStep == Shape /\ Fit /\ [Next]_vars => Shape'
<1> SUFFICES ASSUME Shape, Fit, [Next]_vars PROVE Shape'
  OBVIOUS
<1>0. RowsFit /\ JobsFit /\ ScanFits
  BY DEF Fit
<1>1. CASE StartCell
  <2>1. dir' \in [patch : Nat, baseline : Nat, findings : Nat]
    <3>1. Len(rows) + 1 \in Nat
      BY Elements
    <3> QED
      BY <1>1, <3>1 DEF StartCell, Shape
  <2> QED
    BY <1>1, <2>1, StartCellDoes DEF StartCell, Shape
<1>2. CASE EndCell
  BY <1>0, <1>2, EndCellDoes DEF EndCell, Shape
<1>3. CASE StartCommand
  BY <1>3, StartCommandDoes DEF StartCommand, Shape
<1>4. ASSUME NEW p \in Jobs, PackageRaises(p) PROVE Shape'
  <2>1. job[p].at # "idle"
    BY <1>4 DEF PackageRaises
  <2>2. Raise(p)
    BY <1>4 DEF PackageRaises
  <2>3. rows' \in Seq(Row) /\ job' \in [Jobs -> Work]
    BY <1>0, <2>1, <2>2, AtWork, RaiseDoes, RaiseEnds
  <2> QED
    BY <1>4, <2>3 DEF PackageRaises, Shape
<1>5. ASSUME NEW p \in Jobs, PackageRefuses(p) PROVE Shape'
  <2>1. job[p].at # "idle" /\ Settle(p, "MERGE_FAILED", 0, 0)
    BY <1>5 DEF PackageRefuses
  <2>2. rows' \in Seq(Row) /\ job' \in [Jobs -> Work]
    <3>1. "MERGE_FAILED" \in States
      BY DEF States
    <3> QED
      BY <1>0, <2>1, <3>1, AtWork, SettleDoes, SettleEnds
  <2> QED
    BY <1>5, <2>2 DEF PackageRefuses, Shape
<1>6. ASSUME NEW p \in Jobs, PackageBuilds(p) PROVE Shape'
  <2>1. Squash(p, TRUE)
    BY <1>6 DEF PackageBuilds
  <2>2. /\ commits' \in Seq(Nat) /\ Len(commits') = Len(commits) + 1
        /\ job' \in [Jobs -> Work]
    BY <2>1, SquashDoes
  <2> QED
    BY <1>0, <2>1, <2>2, Elements DEF Squash, Shape
<1>7. ASSUME NEW p \in Jobs, PushWithLease(p) PROVE Shape'
  <2>1. job[p].commit \in 0 .. Len(commits) /\ job' \in [Jobs -> Work] /\ branch' = job[p].commit
    <3>1. job[p].at # "idle" /\ job[p] \in Work
      BY <1>7, Elements DEF PushWithLease
    <3> QED
      BY <1>0, <1>7, <3>1, AtWork, PushDoes, Elements DEF JobFits, Work
  <2> QED
    BY <1>7, <2>1 DEF PushWithLease, Shape
<1>8. ASSUME NEW p \in Jobs, LeaseRejected(p) PROVE Shape'
  <2>1. job[p].at # "idle" /\ "MERGE_FAILED" \in States
    BY <1>8 DEF LeaseRejected, States
  <2>2. Settle(p, "MERGE_FAILED", 0, 0) \/ (job' = [job EXCEPT ![p] = NoJob] /\ UNCHANGED rows)
    BY <1>8 DEF LeaseRejected
  <2>3. rows' \in Seq(Row) /\ job' \in [Jobs -> Work]
    BY <1>0, <2>1, <2>2, AtWork, SettleDoes, SettleEnds, GivesUp DEF Shape
  <2> QED
    BY <1>8, <2>3 DEF LeaseRejected, Shape
<1>9. ASSUME NEW p \in Jobs, RecordPush(p) PROVE Shape'
  <2>1. job[p].at # "idle"
    BY <1>9 DEF RecordPush
  <2>2. rows' \in Seq(Row) /\ job' \in [Jobs -> Work]
    BY <1>0, <1>9, <2>1, AtWork, RecordDoes
  <2> QED
    BY <1>9, <2>2 DEF RecordPush, Shape
<1>10. ASSUME NEW p \in Jobs, OpenDraftPr(p) PROVE Shape'
  <2>1. job[p].at = "opening" /\ PullsGrow /\ Len(prs') \in Nat
    BY <1>10, OpenDoes, Elements, LenProperties DEF PullsGrow
  <2>2. PICK k \in 1 .. Len(prs') : Settle(p, "READY_FOR_REVIEW", job[p].commit, k) \/ Raise(p)
    BY <1>10, OpenDoes
  <2>3. "READY_FOR_REVIEW" \in States /\ k \in Nat /\ job[p].commit \in Nat
    BY <2>1, <2>2, Elements DEF States, Pending, Work
  <2>4. rows' \in Seq(Row) /\ job' \in [Jobs -> Work]
    BY <1>0, <2>1, <2>2, <2>3, AtWork, SettleDoes, SettleEnds, RaiseDoes, RaiseEnds
  <2> QED
    BY <1>10, <2>1, <2>4 DEF OpenDraftPr, PullsGrow, Shape
<1>11. ASSUME NEW p \in Jobs, UnpackagedBuilds(p) PROVE Shape'
  <2>1. Squash(p, FALSE)
    BY <1>11 DEF UnpackagedBuilds
  <2>2. /\ commits' \in Seq(Nat) /\ Len(commits') = Len(commits) + 1
        /\ job' \in [Jobs -> Work]
    BY <2>1, SquashDoes
  <2> QED
    BY <1>0, <2>1, <2>2, Elements DEF Squash, Shape
<1>12. ASSUME NEW p \in Jobs, UnpackagedRefuses(p) PROVE Shape'
  BY <1>12, GivesUp DEF UnpackagedRefuses, Shape
<1>13. ASSUME NEW p \in Jobs, Kill(p) PROVE Shape'
  BY <1>13, GivesUp DEF Kill, Shape
<1>14. CASE ForeignPush
  BY <1>14, CommitMade, Elements DEF ForeignPush, Shape
<1>15. CASE MarkReady
  BY <1>15, MarksDo DEF MarkReady, PullsGrow, Shape
<1>16. CASE RequestChanges
  BY <1>16, MarksDo DEF RequestChanges, PullsGrow, Shape
<1>17. CASE Close
  BY <1>17, MarksDo DEF Close, PullsGrow, Shape
<1>18. CASE Merge
  <2>1. branch' \in 0 .. Len(commits)
    BY <1>18, Elements DEF Merge, Shape
  <2> QED
    BY <1>18, <2>1, MarksDo DEF Merge, PullsGrow, Shape
<1>19. CASE StartScan
  BY <1>19, Elements DEF StartScan, Shape
<1>20. CASE ScanRow
  <2>1. rows' \in Seq(Row)
    BY <1>20, ScanRowDoes DEF ScanWrites, Shape
  <2>2. scan' \in [on : BOOLEAN, rows : Seq(Row), next : Nat \ {0}, stamp : BOOLEAN]
    BY <1>20, ScanRowDoes, ScanElements
  <2>3. killed' \in BOOLEAN
    BY <1>20, ScanRowDoes
  <2> QED
    BY <1>20, <2>1, <2>2, <2>3 DEF ScanRow, Shape
<1>21. CASE EndScan
  BY <1>21, EndScanDoes, ScanElements DEF EndScan, Shape
<1>22. CASE UNCHANGED vars
  BY <1>0, <1>22 DEF Shape, vars
<1>23. QED
  BY <1>0, <1>1, <1>2, <1>3, <1>4, <1>5, <1>6, <1>7, <1>8, <1>9, <1>10, <1>11,
     <1>12, <1>13, <1>14, <1>15, <1>16, <1>17, <1>18, <1>19, <1>20, <1>21, <1>22
     DEF Next
-----------------------------------------------------------------------------
(* The rows. *)

(* Nothing is taken back: no row, no commit, no closed pull request. *)
Grows ==
    /\ PullsGrow
    /\ Len(commits) <= Len(commits')
    /\ \A k \in 1 .. Len(commits) : commits'[k] = commits[k]
    /\ Len(rows) <= Len(rows')

LEMMA NothingGrew ==
    ASSUME Shape
    PROVE  /\ prs' = prs => PullsGrow
           /\ commits' = commits => /\ Len(commits) <= Len(commits')
                                    /\ \A k \in 1 .. Len(commits) : commits'[k] = commits[k]
  BY Elements DEF PullsGrow, Shape

LEMMA GrowsStep == Shape /\ Fit /\ [Next]_vars => Grows
<1> SUFFICES ASSUME Shape, Fit, [Next]_vars PROVE Grows
  OBVIOUS
<1>0. JobsFit /\ Len(rows) \in Nat /\ Len(commits) \in Nat
  BY Elements DEF Fit
<1>1. CASE StartCell
  BY <1>0, <1>1, NothingGrew, StartCellDoes DEF StartCell, Grows
<1>2. CASE EndCell
  BY <1>0, <1>2, NothingGrew, EndCellDoes DEF EndCell, Grows
<1>3. CASE StartCommand
  BY <1>0, <1>3, NothingGrew DEF StartCommand, Grows
<1>4. ASSUME NEW p \in Jobs, PackageRaises(p) PROVE Grows
  <2>1. job[p].at # "idle" /\ Raise(p)
    BY <1>4 DEF PackageRaises
  <2>2. Len(rows) <= Len(rows')
    <3>1. job[p].row \in 1 .. Len(rows)
      BY <1>0, <2>1, AtWork
    <3>2. Len(rows') = Len(rows)
      BY <2>1, <3>1, RaiseDoes
    <3> QED
      BY <1>0, <3>2
  <2>3. /\ Len(commits) <= Len(commits')
        /\ \A k \in 1 .. Len(commits) : commits'[k] = commits[k]
    BY <1>4, NothingGrew DEF PackageRaises
  <2>4. PullsGrow
    BY <1>4, NothingGrew DEF PackageRaises
  <2> QED
    BY <2>2, <2>3, <2>4 DEF Grows
<1>5. ASSUME NEW p \in Jobs, PackageRefuses(p) PROVE Grows
  <2>1. /\ job[p].at # "idle" /\ "MERGE_FAILED" \in States
        /\ Settle(p, "MERGE_FAILED", 0, 0)
    BY <1>5 DEF PackageRefuses, States
  <2>2. Len(rows) <= Len(rows')
    <3>1. job[p].row \in 1 .. Len(rows)
      BY <1>0, <2>1, AtWork
    <3>2. Len(rows') = Len(rows)
      BY <2>1, <3>1, SettleDoes DEF Shape
    <3> QED
      BY <1>0, <3>2
  <2>3. /\ Len(commits) <= Len(commits')
        /\ \A k \in 1 .. Len(commits) : commits'[k] = commits[k]
    BY <1>5, NothingGrew DEF PackageRefuses
  <2>4. PullsGrow
    BY <1>5, NothingGrew DEF PackageRefuses
  <2> QED
    BY <2>2, <2>3, <2>4 DEF Grows
<1>6. ASSUME NEW p \in Jobs, PackageBuilds(p) PROVE Grows
  <2>1. Squash(p, TRUE)
    BY <1>6 DEF PackageBuilds
  <2>2. Len(rows) <= Len(rows')
    BY <1>0, <2>1 DEF Squash
  <2>3. /\ Len(commits) <= Len(commits')
        /\ \A k \in 1 .. Len(commits) : commits'[k] = commits[k]
    <3>1. /\ Len(commits') = Len(commits) + 1
          /\ \A k \in 1 .. Len(commits) : commits'[k] = commits[k]
      BY <2>1, SquashDoes
    <3> QED
      BY <1>0, <3>1
  <2>4. PullsGrow
    BY <2>1, NothingGrew DEF Squash
  <2> QED
    BY <2>2, <2>3, <2>4 DEF Grows
<1>7. ASSUME NEW p \in Jobs, PushWithLease(p) PROVE Grows
  BY <1>0, <1>7, NothingGrew DEF PushWithLease, Grows
<1>8. ASSUME NEW p \in Jobs, LeaseRejected(p) PROVE Grows
  <2>1. /\ job[p].at # "idle" /\ "MERGE_FAILED" \in States
        /\ Settle(p, "MERGE_FAILED", 0, 0) \/ rows' = rows
    BY <1>8 DEF LeaseRejected, States
  <2>2. Len(rows) <= Len(rows')
    <3>1. job[p].row \in 1 .. Len(rows)
      BY <1>0, <2>1, AtWork
    <3>2. Len(rows') = Len(rows)
      BY <2>1, <3>1, SettleDoes DEF Shape
    <3> QED
      BY <1>0, <3>2
  <2>3. /\ Len(commits) <= Len(commits')
        /\ \A k \in 1 .. Len(commits) : commits'[k] = commits[k]
    BY <1>8, NothingGrew DEF LeaseRejected
  <2>4. PullsGrow
    BY <1>8, NothingGrew DEF LeaseRejected
  <2> QED
    BY <2>2, <2>3, <2>4 DEF Grows
<1>9. ASSUME NEW p \in Jobs, RecordPush(p) PROVE Grows
  <2>1. job[p].at # "idle"
    BY <1>9 DEF RecordPush
  <2>2. Len(rows) <= Len(rows')
    BY <1>0, <1>9, <2>1, AtWork, RecordDoes
  <2>3. /\ Len(commits) <= Len(commits')
        /\ \A k \in 1 .. Len(commits) : commits'[k] = commits[k]
    BY <1>9, NothingGrew DEF RecordPush
  <2>4. PullsGrow
    BY <1>9, NothingGrew DEF RecordPush
  <2> QED
    BY <2>2, <2>3, <2>4 DEF Grows
<1>10. ASSUME NEW p \in Jobs, OpenDraftPr(p) PROVE Grows
  <2>1. job[p].at = "opening" /\ PullsGrow /\ Len(prs') \in Nat
    BY <1>10, OpenDoes, Elements, LenProperties DEF PullsGrow
  <2>2. PICK k \in 1 .. Len(prs') : Settle(p, "READY_FOR_REVIEW", job[p].commit, k) \/ Raise(p)
    BY <1>10, OpenDoes
  <2>3. "READY_FOR_REVIEW" \in States /\ k \in Nat /\ job[p].commit \in Nat
    BY <2>1, <2>2, Elements DEF States, Pending, Work
  <2>4. Len(rows') = Len(rows)
    BY <1>0, <2>1, <2>2, <2>3, AtWork, SettleDoes, RaiseDoes
  <2> QED
    BY <1>0, <1>10, <2>1, <2>4, NothingGrew DEF OpenDraftPr, Grows
<1>11. ASSUME NEW p \in Jobs, UnpackagedBuilds(p) PROVE Grows
  <2>1. Squash(p, FALSE)
    BY <1>11 DEF UnpackagedBuilds
  <2>2. Len(rows) <= Len(rows')
    BY <1>0, <2>1 DEF Squash
  <2>3. /\ Len(commits) <= Len(commits')
        /\ \A k \in 1 .. Len(commits) : commits'[k] = commits[k]
    <3>1. /\ Len(commits') = Len(commits) + 1
          /\ \A k \in 1 .. Len(commits) : commits'[k] = commits[k]
      BY <2>1, SquashDoes
    <3> QED
      BY <1>0, <3>1
  <2>4. PullsGrow
    BY <2>1, NothingGrew DEF Squash
  <2> QED
    BY <2>2, <2>3, <2>4 DEF Grows
<1>12. ASSUME NEW p \in Jobs, UnpackagedRefuses(p) PROVE Grows
  BY <1>0, <1>12, NothingGrew DEF UnpackagedRefuses, Grows
<1>13. ASSUME NEW p \in Jobs, Kill(p) PROVE Grows
  BY <1>0, <1>13, NothingGrew DEF Kill, Grows
<1>14. CASE ForeignPush
  <2>2. Len(rows) <= Len(rows')
    BY <1>0, <1>14 DEF ForeignPush
  <2>3. /\ Len(commits) <= Len(commits')
        /\ \A k \in 1 .. Len(commits) : commits'[k] = commits[k]
    BY <1>0, <1>14, CommitMade DEF ForeignPush
  <2>4. PullsGrow
    BY <1>14, NothingGrew DEF ForeignPush
  <2> QED
    BY <2>2, <2>3, <2>4 DEF Grows
<1>15. CASE MarkReady
  <2>2. Len(rows) <= Len(rows')
    BY <1>0, <1>15 DEF MarkReady
  <2>3. /\ Len(commits) <= Len(commits')
        /\ \A k \in 1 .. Len(commits) : commits'[k] = commits[k]
    BY <1>15, NothingGrew DEF MarkReady
  <2>4. PullsGrow
    BY <1>15, MarksDo
  <2> QED
    BY <2>2, <2>3, <2>4 DEF Grows
<1>16. CASE RequestChanges
  <2>2. Len(rows) <= Len(rows')
    BY <1>0, <1>16 DEF RequestChanges
  <2>3. /\ Len(commits) <= Len(commits')
        /\ \A k \in 1 .. Len(commits) : commits'[k] = commits[k]
    BY <1>16, NothingGrew DEF RequestChanges
  <2>4. PullsGrow
    BY <1>16, MarksDo
  <2> QED
    BY <2>2, <2>3, <2>4 DEF Grows
<1>17. CASE Close
  <2>2. Len(rows) <= Len(rows')
    BY <1>0, <1>17 DEF Close
  <2>3. /\ Len(commits) <= Len(commits')
        /\ \A k \in 1 .. Len(commits) : commits'[k] = commits[k]
    BY <1>17, NothingGrew DEF Close
  <2>4. PullsGrow
    BY <1>17, MarksDo
  <2> QED
    BY <2>2, <2>3, <2>4 DEF Grows
<1>18. CASE Merge
  <2>2. Len(rows) <= Len(rows')
    BY <1>0, <1>18 DEF Merge
  <2>3. /\ Len(commits) <= Len(commits')
        /\ \A k \in 1 .. Len(commits) : commits'[k] = commits[k]
    BY <1>18, NothingGrew DEF Merge
  <2>4. PullsGrow
    BY <1>18, MarksDo
  <2> QED
    BY <2>2, <2>3, <2>4 DEF Grows
<1>19. CASE StartScan
  <2>2. Len(rows) <= Len(rows')
    BY <1>0, <1>19 DEF StartScan
  <2>3. /\ Len(commits) <= Len(commits')
        /\ \A k \in 1 .. Len(commits) : commits'[k] = commits[k]
    BY <1>19, NothingGrew DEF StartScan
  <2>4. PullsGrow
    BY <1>19, NothingGrew DEF StartScan
  <2> QED
    BY <2>2, <2>3, <2>4 DEF Grows
<1>20. CASE ScanRow
  <2>2. Len(rows) <= Len(rows')
    BY <1>0, <1>20, ScanRowDoes DEF ScanWrites
  <2>3. /\ Len(commits) <= Len(commits')
        /\ \A k \in 1 .. Len(commits) : commits'[k] = commits[k]
    BY <1>20, NothingGrew DEF ScanRow
  <2>4. PullsGrow
    BY <1>20, NothingGrew DEF ScanRow
  <2> QED
    BY <2>2, <2>3, <2>4 DEF Grows
<1>21. CASE EndScan
  BY <1>0, <1>21, NothingGrew, EndScanDoes DEF EndScan, Grows
<1>22. CASE UNCHANGED vars
  BY <1>0, <1>22, NothingGrew DEF Grows, vars
<1>23. QED
  BY <1>0, <1>1, <1>2, <1>3, <1>4, <1>5, <1>6, <1>7, <1>8, <1>9, <1>10, <1>11,
     <1>12, <1>13, <1>14, <1>15, <1>16, <1>17, <1>18, <1>19, <1>20, <1>21, <1>22
     DEF Next

(* A row nobody writes goes on fitting. *)
LEMMA RowStays ==
    ASSUME Shape, Grows, NEW row \in Row, RowFits(row, commits, prs)
    PROVE  RowFits(row, commits', prs')
<1>1. /\ row.pr \in Nat /\ row.pushed \in Nat
      /\ Len(prs) \in Nat /\ Len(commits) \in Nat
      /\ Len(prs') \in Nat /\ Len(commits') \in Nat
  BY Elements, LenProperties DEF Row, Grows, PullsGrow
<1>2. row.pushed <= Len(commits') /\ row.pr <= Len(prs')
  BY <1>1 DEF RowFits, Grows, PullsGrow
<1>3. row.pushed # 0 => commits'[row.pushed] # 0
  BY <1>1 DEF RowFits, Grows
<1>4. row.pr # 0 => \/ prs'[row.pr] = prs[row.pr]
                    \/ prs[row.pr].state = "open"
  BY <1>1 DEF RowFits, Grows, PullsGrow
<1> QED
  BY <1>2, <1>3, <1>4 DEF RowFits

LEMMA AnswerMeans ==
    ASSUME NEW row, NEW s \in Answer(row)
    PROVE  /\ s \in {"MERGED", "REJECTED", "CHANGES_REQUESTED", "APPROVED"}
           /\ s = "MERGED" => prs[row.pr].state = "merged"
           /\ s = "REJECTED" => prs[row.pr].state = "closed"
           /\ s \in {"CHANGES_REQUESTED", "APPROVED"} =>
                 prs[row.pr].state \notin {"merged", "closed"}
           /\ s = "APPROVED" => ~prs[row.pr].draft
<1>1. s \in NextState(prs[row.pr])
  BY DEF Answer
<1> QED
  BY <1>1 DEF NextState

(* What the scan writes fits what GitHub says. *)
LEMMA ScanWriteFits ==
    ASSUME Shape, Fit, scan.on, NEW i \in 1 .. Len(scan.rows), i \in 1 .. Len(rows),
           ScanWrites(i, scan.rows[i])
    PROVE  RowFits(rows'[i], commits, prs)
<1> DEFINE row == scan.rows[i]
<1>1. /\ row \in Row /\ rows[i] \in Row /\ row.pr = rows[i].pr /\ row.pr # 0
      /\ row.merged # 0 => prs[row.pr].state = "merged"
      /\ RowFits(rows[i], commits, prs)
  BY Elements, ScanElements DEF ScanWrites, Asked, Fit, ScanFits, RowsFit
<1>2. /\ rows'[i].pushed = rows[i].pushed /\ rows'[i].pr = row.pr
      /\ \/ /\ row.merged # 0
            /\ rows'[i].state = "MERGED" /\ rows'[i].merged = rows[i].merged
         \/ \E s \in Answer(row) :
               /\ row.merged = 0
               /\ s # "MERGED" => rows'[i].merged = 0
               /\ rows'[i].state \in {s, rows[i].state}
  BY <1>1 DEF ScanWrites
<1> HIDE DEF row
<1>3. CASE row.merged # 0
  BY <1>1, <1>2, <1>3 DEF RowFits, InFlight
<1>4. CASE row.merged = 0
  <2>1. PICK s \in Answer(row) : /\ s # "MERGED" => rows'[i].merged = 0
                                 /\ rows'[i].state \in {s, rows[i].state}
    BY <1>2, <1>4
  <2> QED
    BY <1>1, <1>2, <2>1, AnswerMeans DEF RowFits, InFlight, Pending, MergeOnly
<1> QED
  BY <1>3, <1>4

(* What a job settles, with or without a pull request. *)
LEMMA SettledFits ==
    ASSUME Shape, Fit, Grows, NEW p \in Jobs, job[p].at # "idle",
           NEW s \in {"READY_FOR_REVIEW", "MERGE_FAILED"}, NEW n \in Nat, NEW k \in Nat,
           s = "MERGE_FAILED" => k = 0,
           n \in {0, job[p].commit}, k <= Len(prs'), k # 0 => prs'[k].state = "open",
           Settle(p, s, n, k)
    PROVE  RowFits(rows'[job[p].row], commits', prs')
<1> DEFINE r == job[p].row
<1>1. /\ r \in 1 .. Len(rows) /\ rows[r] \in Row /\ rows[r].pr = 0
      /\ job[p].commit \in Nat /\ Len(commits) \in Nat /\ Len(commits') \in Nat
      /\ job[p].commit <= Len(commits)
      /\ job[p].commit # 0 => commits[job[p].commit] # 0
      /\ RowFits(rows[r], commits, prs)
  <2>1. JobsFit /\ RowsFit
    BY DEF Fit
  <2>2. JobFits(p) /\ r \in 1 .. Len(rows) /\ rows[r] \in Row /\ job[p] \in Work
    BY <2>1, AtWork
  <2>3. Len(commits) \in Nat /\ Len(commits') \in Nat
    BY Elements DEF Settle, Grows
  <2> QED
    BY <2>1, <2>2, <2>3 DEF JobFits, RowsFit, Work
<1>2. /\ rows'[r].state \in {"EXHAUSTED", s}
      /\ rows'[r].pushed = n /\ rows'[r].pr = k /\ rows'[r].merged = rows[r].merged
      /\ rows'[r].state # s => rows'[r].state = "EXHAUSTED"
  <2>1. s \in States
    BY DEF States, Pending
  <2>2. /\ \A j \in 1 .. Len(rows) : j # job[p].row => rows'[j] = rows[j]
        /\ rows'[job[p].row].state = IF job[p].mode = "blocked" THEN "EXHAUSTED" ELSE s
        /\ rows'[job[p].row].pushed = n /\ rows'[job[p].row].pr = k
        /\ rows'[job[p].row].merged = rows[job[p].row].merged
    <3>1. job[p].row \in 1 .. Len(rows) /\ p \in Jobs
      BY <1>1
    <3> HIDE DEF r
    <3> QED
      BY <2>1, <3>1, SettleDoes
  <2> QED
    BY <2>2
<1> HIDE DEF r
<1>3. rows[r].merged = 0
  BY <1>1 DEF RowFits
<1>4. n <= Len(commits') /\ (n # 0 => commits'[n] # 0)
  BY <1>1 DEF Grows
<1> QED
  BY <1>1, <1>2, <1>3, <1>4 DEF RowFits, InFlight, Pending, MergeOnly, r

LEMMA RowsStep == Shape /\ Fit /\ [Next]_vars => RowsFit'
<1> SUFFICES ASSUME Shape, Fit, [Next]_vars, NEW i \in 1 .. Len(rows')
             PROVE  RowFits(rows'[i], commits', prs')
  BY DEF RowsFit
<1>0. RowsFit /\ JobsFit /\ ScanFits /\ Grows /\ Len(rows) \in Nat
  BY Elements, GrowsStep DEF Fit
<1>30. ASSUME i \in 1 .. Len(rows), rows'[i] = rows[i]
      PROVE  RowFits(rows'[i], commits', prs')
  BY <1>0, <1>30, Elements, RowStays DEF RowsFit
<1>31. ASSUME rows' = rows
      PROVE  RowFits(rows'[i], commits', prs')
  BY <1>30, <1>31
<1>1. CASE StartCell
  <2>1. CASE i = Len(rows) + 1
    <3>1. /\ NewRow.pushed = 0 /\ NewRow.pr = 0 /\ NewRow.merged = 0
          /\ NewRow.state = "REVIEWING"
      BY DEF NewRow
    <3>2. Len(commits') \in Nat /\ Len(prs') \in Nat
      BY <1>0, Elements, LenProperties DEF Grows, PullsGrow
    <3> QED
      BY <1>1, <2>1, <3>1, <3>2, StartCellDoes DEF RowFits
  <2> QED
    BY <1>0, <1>1, <1>30, <2>1, StartCellDoes
<1>2. CASE EndCell
  <2>1. i \in 1 .. Len(rows)
    BY <1>0, <1>2, EndCellDoes
  <2>2. CASE i = job["cell"].row
    <3>1. /\ rows'[i].pushed = rows[i].pushed /\ rows'[i].pr = rows[i].pr
          /\ rows'[i].merged = rows[i].merged
          /\ rows'[i].state \in {rows[i].state, "EXHAUSTED"}
      BY <1>0, <1>2, <2>2, EndCellDoes
    <3>2. RowFits(rows[i], commits', prs')
      BY <1>0, <2>1, Elements, RowStays DEF RowsFit
    <3> QED
      BY <3>1, <3>2 DEF RowFits, InFlight, MergeOnly
  <2> QED
    BY <1>0, <1>2, <1>30, <2>1, <2>2, EndCellDoes
<1>3. CASE StartCommand
  BY <1>3, <1>31 DEF StartCommand
<1>4. ASSUME NEW p \in Jobs, Raise(p), job[p].at # "idle"
      PROVE  RowFits(rows'[i], commits', prs')
  <2>1. job[p].row \in 1 .. Len(rows) /\ JobFits(p)
    BY <1>0, <1>4, AtWork
  <2>2. i \in 1 .. Len(rows)
    BY <1>4, <2>1, RaiseDoes
  <2>3. CASE i = job[p].row
    <3>1. /\ rows'[i].pushed = rows[i].pushed /\ rows'[i].pr = rows[i].pr
          /\ rows'[i].merged = rows[i].merged
          /\ rows'[i].state \in {rows[i].state, "READY_FOR_REVIEW"}
      BY <1>4, <2>1, <2>3, RaiseDoes
    <3>2. RowFits(rows[i], commits', prs')
      BY <1>0, <2>2, Elements, RowStays DEF RowsFit
    <3> QED
      BY <3>1, <3>2 DEF RowFits, InFlight, Pending
  <2> QED
    BY <1>4, <1>30, <2>1, <2>2, <2>3, RaiseDoes
<1>5. ASSUME NEW p \in Jobs, job[p].at # "idle",
             NEW s \in {"READY_FOR_REVIEW", "MERGE_FAILED"}, NEW n \in Nat, NEW k \in Nat,
             s = "MERGE_FAILED" => k = 0,
             n \in {0, job[p].commit}, k <= Len(prs'), k # 0 => prs'[k].state = "open",
             Settle(p, s, n, k)
      PROVE  RowFits(rows'[i], commits', prs')
  <2>1. job[p].row \in 1 .. Len(rows) /\ s \in States
    BY <1>0, <1>5, AtWork DEF States, Pending
  <2>2. i \in 1 .. Len(rows)
    BY <1>5, <2>1, SettleDoes
  <2>3. CASE i = job[p].row
    BY <1>0, <1>5, <2>3, SettledFits
  <2>4. CASE i # job[p].row
    <3>1. rows'[i] = rows[i]
      BY <1>5, <2>1, <2>2, <2>4, SettleDoes
    <3> QED
      BY <1>30, <2>2, <3>1
  <2> QED
    BY <2>3, <2>4
<1>6. Len(prs') \in Nat /\ Len(prs) \in Nat
  BY <1>0, Elements, LenProperties DEF Grows, PullsGrow
<1>7. ASSUME NEW p \in Jobs, PackageRaises(p) PROVE RowFits(rows'[i], commits', prs')
  BY <1>4, <1>7 DEF PackageRaises
<1>8. ASSUME NEW p \in Jobs, PackageRefuses(p) \/ LeaseRejected(p)
      PROVE  RowFits(rows'[i], commits', prs')
  <2>1. job[p].at # "idle" /\ (rows' = rows \/ Settle(p, "MERGE_FAILED", 0, 0))
    BY <1>8 DEF PackageRefuses, LeaseRejected
  <2>2. CASE Settle(p, "MERGE_FAILED", 0, 0)
    BY <1>5, <1>6, <2>1, <2>2
  <2> QED
    BY <1>31, <2>1, <2>2
<1>9. ASSUME NEW p \in Jobs, RecordPush(p) PROVE RowFits(rows'[i], commits', prs')
  <2>1. job[p].at # "idle"
    BY <1>9 DEF RecordPush
  <2>2. job[p].row \in 1 .. Len(rows) /\ JobFits(p) /\ job[p] \in Work
    BY <1>0, <2>1, AtWork
  <2>3. i \in 1 .. Len(rows)
    BY <1>9, <2>2, RecordDoes
  <2>4. CASE i = job[p].row
    <3>1. /\ rows'[i].pushed = job[p].commit /\ rows'[i].pr = rows[i].pr
          /\ rows'[i].merged = rows[i].merged /\ rows'[i].state = rows[i].state
      BY <1>9, <2>2, <2>4, RecordDoes
    <3>2. RowFits(rows[i], commits', prs')
      BY <1>0, <2>3, Elements, RowStays DEF RowsFit
    <3>3. commits' = commits
      BY <1>9 DEF RecordPush
    <3> QED
      BY <2>2, <3>1, <3>2, <3>3 DEF RowFits, JobFits
  <2> QED
    BY <1>9, <1>30, <2>2, <2>3, <2>4, RecordDoes
<1>10. ASSUME NEW p \in Jobs, OpenDraftPr(p) PROVE RowFits(rows'[i], commits', prs')
  <2>1. PICK k \in 1 .. Len(prs') :
          /\ prs'[k].state = "open"
          /\ Settle(p, "READY_FOR_REVIEW", job[p].commit, k) \/ Raise(p)
    BY <1>10, OpenDoes
  <2>2. job[p].at # "idle" /\ job[p].commit \in Nat /\ k \in Nat /\ k <= Len(prs')
    <3>1. job[p].at # "idle"
      BY <1>10, OpenDoes
    <3>2. job[p].commit \in Nat
      BY Elements DEF Work
    <3> QED
      BY <1>6, <3>1, <3>2
  <2> QED
    BY <1>4, <1>5, <2>1, <2>2
<1>11. ASSUME NEW p \in Jobs,
              \/ PackageBuilds(p) \/ PushWithLease(p) \/ UnpackagedBuilds(p)
              \/ UnpackagedRefuses(p) \/ Kill(p)
       PROVE  RowFits(rows'[i], commits', prs')
  BY <1>11, <1>31 DEF PackageBuilds, PushWithLease, UnpackagedBuilds, UnpackagedRefuses,
     Kill, Squash
<1>12. CASE ForeignPush \/ MarkReady \/ RequestChanges \/ Close \/ Merge \/ StartScan
  BY <1>12, <1>31 DEF ForeignPush, MarkReady, RequestChanges, Close, Merge, StartScan
<1>13. CASE ScanRow
  <2>1. commits' = commits /\ prs' = prs
    BY <1>13 DEF ScanRow
  <2>2. /\ scan.on /\ scan.next \in 1 .. Len(scan.rows) /\ scan.next \in 1 .. Len(rows)
        /\ rows' = rows \/ ScanWrites(scan.next, scan.rows[scan.next])
    BY <1>13, ScanRowDoes
  <2>3. CASE ScanWrites(scan.next, scan.rows[scan.next])
    <3>1. RowFits(rows'[scan.next], commits, prs)
      BY <2>2, <2>3, ScanWriteFits
    <3>2. i \in 1 .. Len(rows) /\ (i # scan.next => rows'[i] = rows[i])
      BY <2>3 DEF ScanWrites
    <3> QED
      BY <1>30, <2>1, <3>1, <3>2
  <2> QED
    BY <1>31, <2>2, <2>3
<1>14. CASE EndScan
  <2>1. i \in 1 .. Len(rows)
    BY <1>14, EndScanDoes
  <2>2. \/ rows'[i] = rows[i]
        \/ /\ scan.stamp /\ i <= Len(scan.rows) /\ scan.rows[i].state \in InFlight
           /\ rows'[i].state = "ORPHANED" /\ rows'[i].pushed = rows[i].pushed
           /\ rows'[i].pr = rows[i].pr /\ rows'[i].merged = rows[i].merged
    BY <1>14, <2>1, EndScanDoes
  <2>3. CASE rows'[i] # rows[i]
    <3>1. rows[i].state \in InFlight
      BY <1>0, <1>14, <2>1, <2>2, <2>3, ScanElements DEF ScanFits, EndScan
    <3>2. RowFits(rows[i], commits', prs')
      BY <1>0, <2>1, Elements, RowStays DEF RowsFit
    <3> QED
      BY <2>2, <2>3, <3>1, <3>2 DEF RowFits, InFlight
  <2> QED
    BY <1>30, <2>1, <2>3
<1>15. CASE UNCHANGED vars
  BY <1>15, <1>31 DEF vars
<1> QED
  BY <1>1, <1>2, <1>3, <1>7, <1>8, <1>9, <1>10, <1>11, <1>12, <1>13, <1>14, <1>15 DEF Next
-----------------------------------------------------------------------------
(* The jobs. *)

(* The cell's row and the command's are not the same: one waits for a review *)
(* and the other does not.                                                  *)
LEMMA RowsApart ==
    ASSUME JobsFit, job["cell"] # NoJob, job["command"] # NoJob
    PROVE  job["cell"].row # job["command"].row
  BY DEF JobsFit, CellFits, CommandFits

Fits(q) ==
    \/ job[q] = NoJob
    \/ /\ JobFits(q)
       /\ q = "cell" => CellFits
       /\ q = "command" => CommandFits

LEMMA FitsAll ==
    ASSUME Fits("cell")', Fits("command")',
           job'["cell"].at = "pushing" /\ job'["command"].at = "pushing" =>
              job'["cell"].commit # job'["command"].commit
    PROVE  JobsFit'
  BY DEF JobsFit, Fits, Jobs

(* A job that does not act goes on fitting. *)
LEMMA FitsStays ==
    ASSUME Shape, Shape', JobsFit, Grows, NEW q \in Jobs, job'[q] = job[q],
           job[q] # NoJob => rows'[job[q].row] = rows[job[q].row],
           q = "cell" => Len(rows') = Len(rows),
           job[q].at = "pushing" => branch' # job[q].commit
    PROVE  Fits(q)'
<1>1. CASE job[q] = NoJob
  BY <1>1 DEF Fits, NoJob
<1>2. CASE job[q] # NoJob
  <2>1. JobFits(q) /\ job[q] \in Work
    BY <1>2, Elements DEF JobsFit
  <2>2. /\ Len(rows) \in Nat /\ Len(commits) \in Nat
        /\ Len(rows') \in Nat /\ Len(commits') \in Nat
    BY LenProperties DEF Shape
  <2>3. JobFits(q)'
    <3>1. Len(rows) <= Len(rows') /\ Len(commits) <= Len(commits')
          /\ \A k \in 1 .. Len(commits) : commits'[k] = commits[k]
      BY DEF Grows
    <3>2. /\ job[q].row \in 1 .. Len(rows) /\ rows[job[q].row].pr = 0
          /\ job[q].commit \in Nat /\ job[q].expect \in Nat
          /\ job[q].commit <= Len(commits) /\ job[q].expect <= Len(commits)
          /\ job[q].commit # 0 => commits[job[q].commit] # 0
      BY <2>1 DEF JobFits, Work
    <3>3. /\ job[q].row \in 1 .. Len(rows') /\ rows'[job[q].row].pr = 0
          /\ job[q].commit <= Len(commits') /\ job[q].expect <= Len(commits')
      BY <1>2, <2>2, <3>1, <3>2
    <3>4. job[q].commit # 0 => commits'[job[q].commit] # 0
      BY <2>2, <3>1, <3>2
    <3> QED
      BY <2>1, <3>3, <3>4 DEF JobFits
  <2>4. q = "cell" => CellFits'
    BY <1>2 DEF JobsFit, CellFits
  <2>5. q = "command" => CommandFits'
    BY <1>2 DEF JobsFit, CommandFits
  <2> QED
    BY <2>3, <2>4, <2>5 DEF Fits
<1> QED
  BY <1>1, <1>2

(* Nor is one disturbed by what the other does to its own row. *)
LEMMA OtherStays ==
    ASSUME Shape, Shape', JobsFit, Grows, NEW p \in Jobs, NEW q \in Jobs, q # p,
           job[p] # NoJob, job'[q] = job[q], Len(rows') = Len(rows),
           \A j \in 1 .. Len(rows) : j # job[p].row => rows'[j] = rows[j],
           job[q].at = "pushing" => branch' # job[q].commit
    PROVE  Fits(q)'
<1>1. job[q] # NoJob => job[q].row # job[p].row /\ job[q].row \in 1 .. Len(rows)
  BY RowsApart DEF Jobs, JobsFit, JobFits
<1> QED
  BY <1>1, FitsStays

LEMMA BranchApart ==
    ASSUME JobsFit, NEW q \in Jobs, job[q].at = "pushing"
    PROVE  branch # job[q].commit
  BY IdleHasNone DEF JobsFit, JobFits

(* A job that settles, or raises, is done, or is the cell's with work to push. *)
LEMMA ActorEnds ==
    ASSUME Shape, Shape', Fit, NEW p \in Jobs, job[p].at \notin {"idle", "running"},
           commits' = commits, Len(rows') = Len(rows),
           \/ job'[p] = NoJob
           \/ /\ job[p].mode = "blocked" /\ rows'[job[p].row].pr = 0
              /\ rows'[job[p].row].state = "EXHAUSTED"
              /\ job'[p] = [job[p] EXCEPT !.at = "unpackaged"]
    PROVE  Fits(p)' /\ job'[p].at \in {"idle", "unpackaged"}
<1>1. CASE job'[p] = NoJob
  BY <1>1, IdleHasNone DEF Fits, NoJob
<1>2. CASE /\ job[p].mode = "blocked" /\ rows'[job[p].row].pr = 0
           /\ rows'[job[p].row].state = "EXHAUSTED"
           /\ job'[p] = [job[p] EXCEPT !.at = "unpackaged"]
  <2>1. JobsFit
    BY DEF Fit
  <2>2. JobFits(p) /\ job[p] \in Work /\ p = "cell" /\ CellFits
    BY <1>2, <2>1, AtWork DEF CommandFits, Jobs
  <2>3. /\ job'[p].at = "unpackaged" /\ job'[p].row = job[p].row
        /\ job'[p].mode = "blocked" /\ job'[p].commit = job[p].commit
        /\ job'[p].expect = job[p].expect
    BY <1>2, <2>2 DEF Work
  <2>4. JobFits(p)'
    BY <1>2, <2>2, <2>3 DEF JobFits
  <2>5. CellFits'
    BY <1>2, <2>2, <2>3 DEF CellFits
  <2> QED
    BY <2>2, <2>3, <2>4, <2>5 DEF Fits
<1> QED
  BY <1>1, <1>2

LEMMA JobsStep == Shape /\ Fit /\ [Next]_vars => JobsFit'
<1> SUFFICES ASSUME Shape, Fit, [Next]_vars PROVE JobsFit'
  OBVIOUS
<1>1. RowsFit /\ JobsFit /\ ScanFits /\ Grows /\ Shape'
  BY GrowsStep, ShapeStep DEF Fit
<1>2. "cell" \in Jobs /\ "command" \in Jobs /\ Jobs = {"cell", "command"}
  BY DEF Jobs
(* Nobody's job or row changes. *)
<1>3. ASSUME job' = job, Len(rows') = Len(rows),
             \A p \in Jobs : job[p] # NoJob => rows'[job[p].row] = rows[job[p].row],
             \A p \in Jobs : job[p].at = "pushing" => branch' # job[p].commit
      PROVE  JobsFit'
  <2>1. Fits("cell")' /\ Fits("command")'
    BY <1>1, <1>2, <1>3, FitsStays
  <2>2. job'["cell"].at = "pushing" /\ job'["command"].at = "pushing" =>
           job'["cell"].commit # job'["command"].commit
    BY <1>1, <1>3 DEF JobsFit
  <2> QED
    BY <2>1, <2>2, FitsAll
(* One job acts on itself and its own row, and is not left pushing. *)
<1>4. ASSUME NEW p \in Jobs, job[p] # NoJob, \A q \in Jobs : q # p => job'[q] = job[q],
             Len(rows') = Len(rows),
             \A j \in 1 .. Len(rows) : j # job[p].row => rows'[j] = rows[j],
             \A q \in Jobs : q # p /\ job[q].at = "pushing" => branch' # job[q].commit,
             Fits(p)', job'[p].at # "pushing"
      PROVE  JobsFit'
  <2>1. \A q \in Jobs : Fits(q)'
    BY <1>1, <1>4, OtherStays
  <2> QED
    BY <1>2, <1>4, <2>1, FitsAll
<1>5. \A q \in Jobs : job[q].at = "pushing" => branch # job[q].commit
  BY <1>1, BranchApart
<1>6. CASE StartCell
  <2>1. Fits("command")'
    <3>1. job["command"] # NoJob => job["command"].row \in 1 .. Len(rows)
      BY <1>1, <1>2 DEF JobsFit, JobFits
    <3> QED
      BY <1>1, <1>2, <1>5, <1>6, <3>1, FitsStays, StartCellDoes DEF StartCell
  <2>2. Fits("cell")' /\ job'["cell"].at = "running"
    <3>1. /\ job'["cell"].at = "running" /\ job'["cell"].row = Len(rows) + 1
          /\ job'["cell"].mode = "none" /\ job'["cell"].commit = 0
          /\ job'["cell"].expect = 0
          /\ Len(rows') = Len(rows) + 1 /\ rows'[Len(rows) + 1] = NewRow
      BY <1>6, StartCellDoes
    <3>2. Len(rows) \in Nat /\ Len(commits) \in Nat /\ commits' = commits
      BY <1>6, Elements DEF StartCell
    <3>3. NewRow.pr = 0 /\ NewRow.state = "REVIEWING"
      BY DEF NewRow
    <3>4. JobFits("cell")'
      BY <3>1, <3>2, <3>3 DEF JobFits
    <3>5. CellFits'
      BY <3>1, <3>2, <3>3 DEF CellFits
    <3> QED
      BY <3>1, <3>4, <3>5 DEF Fits
  <2> QED
    BY <2>1, <2>2, FitsAll
<1>7. CASE EndCell
  <2>1. /\ job["cell"].at = "running" /\ job["cell"] # NoJob /\ JobFits("cell") /\ CellFits
        /\ commits' = commits /\ branch' = branch
    BY <1>1, <1>2, <1>7, AtWork DEF EndCell
  <2> DEFINE c == job["cell"].row
  <2>2. /\ Len(rows') = Len(rows) /\ rows'[c].pr = rows[c].pr
        /\ \A j \in 1 .. Len(rows) : j # c => rows'[j] = rows[j]
        /\ job'["command"] = job["command"]
        /\ job'["cell"].row = c /\ job'["cell"].commit = job["cell"].commit
        /\ job'["cell"].expect = job["cell"].expect
        /\ \/ /\ job'["cell"].mode = "ready" /\ job'["cell"].at = "packaging"
              /\ rows'[c].state = rows[c].state
           \/ /\ job'["cell"].mode = "blocked" /\ job'["cell"].at = "packaging"
              /\ rows'[c].state = "EXHAUSTED"
           \/ /\ job'["cell"].mode = "failed" /\ job'["cell"].at = "unpackaged"
              /\ rows'[c].state = "EXHAUSTED"
    BY <1>1, <1>7, EndCellDoes
  <2> HIDE DEF c
  <2>3. JobFits("cell")'
    BY <2>1, <2>2 DEF JobFits, c
  <2>4. CellFits'
    BY <2>1, <2>2 DEF CellFits, c
  <2> QED
    BY <1>2, <1>4, <1>5, <2>1, <2>2, <2>3, <2>4 DEF Fits, c
<1>8. CASE StartCommand
  <2>1. Fits("cell")'
    BY <1>1, <1>2, <1>5, <1>8, FitsStays, StartCommandDoes DEF StartCommand
  <2>2. Fits("command")' /\ job'["command"].at = "packaging"
    <3>1. /\ job'["command"].at = "packaging" /\ job'["command"].row = Len(rows)
          /\ job'["command"].mode = "command" /\ job'["command"].commit = 0
          /\ job'["command"].expect = 0
          /\ Len(rows) # 0 /\ rows[Len(rows)].state = "READY_FOR_REVIEW"
          /\ rows[Len(rows)].pr = 0
      BY <1>8, StartCommandDoes
    <3>2. /\ Len(rows) \in Nat /\ Len(commits) \in Nat
          /\ commits' = commits /\ rows' = rows
      BY <1>8, Elements DEF StartCommand
    <3>3. JobFits("command")'
      BY <3>1, <3>2 DEF JobFits
    <3>4. CommandFits'
      BY <3>1, <3>2 DEF CommandFits
    <3> QED
      BY <3>1, <3>3, <3>4 DEF Fits
  <2> QED
    BY <2>1, <2>2, FitsAll
<1>9. ASSUME NEW p \in Jobs, Raise(p), job[p].at \notin {"idle", "running"},
             commits' = commits, branch' = branch
      PROVE  JobsFit'
  <2>1. /\ job[p] # NoJob /\ JobFits(p) /\ job[p].row \in 1 .. Len(rows)
        /\ p = "cell" => CellFits
        /\ p = "command" => CommandFits
    BY <1>1, <1>9, AtWork
  <2>2. /\ Len(rows') = Len(rows)
        /\ \A j \in 1 .. Len(rows) : j # job[p].row => rows'[j] = rows[j]
        /\ rows'[job[p].row].pr = 0
        /\ job[p].mode = "blocked" => rows'[job[p].row].state = rows[job[p].row].state
    BY <1>9, <2>1, RaiseDoes DEF JobFits
  <2>3. job[p].mode = "blocked" => rows[job[p].row].state = "EXHAUSTED"
    BY <1>2, <2>1 DEF CellFits, CommandFits
  <2>4. Fits(p)' /\ job'[p].at \in {"idle", "unpackaged"}
    BY <1>1, <1>9, <2>2, <2>3, ActorEnds, RaiseEnds
  <2> QED
    BY <1>4, <1>5, <1>9, <2>1, <2>2, <2>4, RaiseEnds
<1>10. ASSUME NEW p \in Jobs, NEW s \in {"READY_FOR_REVIEW", "MERGE_FAILED"},
              NEW n \in Nat, NEW k \in Nat,
              Settle(p, s, n, k), job[p].at \notin {"idle", "running"},
              commits' = commits, branch' = branch
       PROVE  JobsFit'
  <2>1. /\ job[p] # NoJob /\ job[p].row \in 1 .. Len(rows) /\ s \in States
    BY <1>1, <1>10, AtWork DEF States, Pending
  <2>2. /\ Len(rows') = Len(rows)
        /\ \A j \in 1 .. Len(rows) : j # job[p].row => rows'[j] = rows[j]
        /\ rows'[job[p].row].pr = k
        /\ rows'[job[p].row].state = IF job[p].mode = "blocked" THEN "EXHAUSTED" ELSE s
    <3>1. Settle(p, s, n, k)
      BY <1>10
    <3> QED
      BY <2>1, <3>1, SettleDoes, SMTT(30)
  <2>4. /\ \A q \in Jobs : q # p => job'[q] = job[q]
        /\ \/ job'[p] = NoJob
           \/ /\ job[p].mode = "blocked" /\ k = 0
              /\ job'[p] = [job[p] EXCEPT !.at = "unpackaged"]
    <3>1. Settle(p, s, n, k)
      BY <1>10
    <3> QED
      BY <3>1, SettleEnds
  <2>3. Fits(p)' /\ job'[p].at \in {"idle", "unpackaged"}
    <3>1. \/ job'[p] = NoJob
          \/ /\ job[p].mode = "blocked" /\ rows'[job[p].row].pr = 0
             /\ rows'[job[p].row].state = "EXHAUSTED"
             /\ job'[p] = [job[p] EXCEPT !.at = "unpackaged"]
      BY <2>2, <2>4
    <3> QED
      BY <1>1, <1>10, <2>2, <3>1, ActorEnds
  <2> QED
    BY <1>4, <1>5, <1>10, <2>1, <2>2, <2>3, <2>4
<1>11. ASSUME NEW p \in Jobs, job[p] # NoJob, job' = [job EXCEPT ![p] = NoJob],
              rows' = rows, branch' = branch
       PROVE  JobsFit'
  <2>1. Fits(p)' /\ job'[p].at # "pushing" /\ \A q \in Jobs : q # p => job'[q] = job[q]
    BY <1>11, GivesUp, IdleHasNone DEF Fits, NoJob
  <2> QED
    BY <1>4, <1>5, <1>11, <2>1
<1>12. ASSUME NEW p \in Jobs, NEW opens \in BOOLEAN, Squash(p, opens),
              \/ job[p].at = "packaging" /\ opens
              \/ job[p].at = "unpackaged" /\ ~opens
       PROVE  JobsFit'
  <2>1. /\ job[p] # NoJob /\ JobFits(p) /\ job[p] \in Work
        /\ p = "cell" => CellFits
        /\ p = "command" => CommandFits
        /\ rows' = rows /\ branch' = branch
    BY <1>1, <1>12, AtWork DEF Squash
  <2>2. /\ Len(commits') = Len(commits) + 1
        /\ commits'[Len(commits) + 1] # 0
        /\ job'[p].at = "pushing" /\ job'[p].opens = opens
        /\ job'[p].commit = Len(commits) + 1 /\ job'[p].expect = branch
        /\ job'[p].row = job[p].row /\ job'[p].mode = job[p].mode
    BY <1>12, SquashDoes
  <2>3. \A q \in Jobs : q # p => job'[q] = job[q]
    BY <1>12, SquashDoes
  <2>4. Len(commits) \in Nat /\ branch \in 0 .. Len(commits)
    BY Elements DEF Shape
  <2>5. JobFits(p)'
    BY <2>1, <2>2, <2>4 DEF JobFits
  <2>6. p = "cell" => CellFits'
    BY <1>12, <2>1, <2>2 DEF CellFits
  <2>7. p = "command" => CommandFits'
    BY <1>12, <2>1, <2>2 DEF CommandFits
  <2>8. \A q \in Jobs : q # p => Fits(q)' /\ (job'[q].at = "pushing" =>
                                               job'[q].commit # job'[p].commit)
    <3> SUFFICES ASSUME NEW q \in Jobs, q # p
                 PROVE  Fits(q)' /\ (job'[q].at = "pushing" =>
                                               job'[q].commit # job'[p].commit)
      OBVIOUS
    <3>1. Fits(q)'
      BY <1>1, <1>5, <2>1, <2>3, OtherStays
    <3>2. job[q].at = "pushing" => job[q].commit <= Len(commits)
      BY <1>1, AtWork DEF JobFits
    <3> QED
      BY <2>2, <2>3, <2>4, <3>1, <3>2
  <2> QED
    BY <1>2, <2>5, <2>6, <2>7, <2>8, FitsAll DEF Fits
<1>13. ASSUME NEW p \in Jobs, PackageRaises(p) PROVE JobsFit'
  BY <1>9, <1>13 DEF PackageRaises
<1>14. ASSUME NEW p \in Jobs, PackageRefuses(p) PROVE JobsFit'
  BY <1>10, <1>14 DEF PackageRefuses
<1>15. ASSUME NEW p \in Jobs, PackageBuilds(p) PROVE JobsFit'
  BY <1>12, <1>15 DEF PackageBuilds
<1>16. ASSUME NEW p \in Jobs, PushWithLease(p) PROVE JobsFit'
  <2>1. /\ job[p].at = "pushing" /\ rows' = rows /\ commits' = commits
        /\ job[p] # NoJob /\ JobFits(p) /\ job[p] \in Work
        /\ p = "cell" => CellFits
        /\ p = "command" => CommandFits
    BY <1>1, <1>16, AtWork DEF PushWithLease
  <2>2. /\ \A q \in Jobs : q # p => job'[q] = job[q]
        /\ job'[p].at = "recording" /\ job'[p].row = job[p].row
        /\ job'[p].mode = job[p].mode /\ job'[p].opens = job[p].opens
        /\ job'[p].commit = job[p].commit /\ job'[p].expect = job[p].expect
        /\ branch' = job[p].commit
    BY <1>16, PushDoes
  <2>3. JobFits(p)'
    BY <2>1, <2>2 DEF JobFits
  <2>4. p = "cell" => CellFits'
    BY <2>1, <2>2 DEF CellFits
  <2>5. p = "command" => CommandFits'
    BY <2>1, <2>2 DEF CommandFits
  <2>6. \A q \in Jobs : q # p /\ job[q].at = "pushing" => branch' # job[q].commit
    BY <1>1, <1>2, <2>1, <2>2 DEF JobsFit
  <2> QED
    BY <1>4, <2>1, <2>2, <2>3, <2>4, <2>5, <2>6 DEF Fits
<1>17. ASSUME NEW p \in Jobs, LeaseRejected(p) PROVE JobsFit'
  <2>1. /\ job[p].at = "pushing" /\ commits' = commits /\ branch' = branch
        /\ \/ Settle(p, "MERGE_FAILED", 0, 0)
           \/ job' = [job EXCEPT ![p] = NoJob] /\ rows' = rows
    BY <1>17 DEF LeaseRejected
  <2>2. job[p] # NoJob
    BY <2>1, IdleHasNone
  <2> QED
    BY <1>10, <1>11, <2>1, <2>2
<1>18. ASSUME NEW p \in Jobs, RecordPush(p) PROVE JobsFit'
  <2>1. /\ job[p].at = "recording" /\ branch' = branch /\ commits' = commits
        /\ job[p] # NoJob /\ JobFits(p) /\ job[p].row \in 1 .. Len(rows)
        /\ p = "cell" => CellFits
        /\ p = "command" => CommandFits
    BY <1>1, <1>18, AtWork DEF RecordPush
  <2>2. /\ Len(rows') = Len(rows)
        /\ \A j \in 1 .. Len(rows) : j # job[p].row => rows'[j] = rows[j]
        /\ rows'[job[p].row].state = rows[job[p].row].state
        /\ rows'[job[p].row].pr = rows[job[p].row].pr
        /\ \A q \in Jobs : q # p => job'[q] = job[q]
    BY <1>18, <2>1, RecordDoes
  <2>3. \/ job'[p] = NoJob
        \/ /\ job[p].opens /\ job'[p].opens /\ job'[p].at = "opening"
           /\ job'[p].row = job[p].row /\ job'[p].mode = job[p].mode
           /\ job'[p].commit = job[p].commit /\ job'[p].expect = job[p].expect
    BY <1>18, <2>1, RecordDoes
  <2>4. CASE job'[p] = NoJob
    BY <1>4, <1>5, <2>1, <2>2, <2>4, IdleHasNone DEF Fits, NoJob
  <2>5. CASE /\ job[p].opens /\ job'[p].opens /\ job'[p].at = "opening"
             /\ job'[p].row = job[p].row /\ job'[p].mode = job[p].mode
             /\ job'[p].commit = job[p].commit /\ job'[p].expect = job[p].expect
    <3>1. JobFits(p)'
      BY <2>1, <2>2, <2>5 DEF JobFits
    <3>2. p = "cell" => CellFits'
      BY <2>1, <2>2, <2>5 DEF CellFits
    <3>3. p = "command" => CommandFits'
      BY <2>1, <2>2, <2>5 DEF CommandFits
    <3> QED
      BY <1>4, <1>5, <2>1, <2>2, <2>5, <3>1, <3>2, <3>3 DEF Fits
  <2> QED
    BY <2>3, <2>4, <2>5
<1>19. ASSUME NEW p \in Jobs, OpenDraftPr(p) PROVE JobsFit'
  <2>1. PICK k \in 1 .. Len(prs') :
          Settle(p, "READY_FOR_REVIEW", job[p].commit, k) \/ Raise(p)
    BY <1>19, OpenDoes
  <2>2. /\ job[p].at = "opening" /\ commits' = commits /\ branch' = branch
        /\ job[p].commit \in Nat /\ k \in Nat
    BY <1>19, Elements DEF OpenDraftPr, Work
  <2> QED
    BY <1>9, <1>10, <2>1, <2>2
<1>20. ASSUME NEW p \in Jobs, UnpackagedBuilds(p) PROVE JobsFit'
  BY <1>12, <1>20 DEF UnpackagedBuilds
<1>21. ASSUME NEW p \in Jobs, UnpackagedRefuses(p) PROVE JobsFit'
  BY <1>11, <1>21, IdleHasNone DEF UnpackagedRefuses
<1>22. ASSUME NEW p \in Jobs, Kill(p) PROVE JobsFit'
  BY <1>11, <1>22 DEF Kill
<1>23. CASE ForeignPush
  <2>1. \A q \in Jobs : job[q].at = "pushing" => branch' # job[q].commit
    <3> SUFFICES ASSUME NEW q \in Jobs, job[q].at = "pushing"
                 PROVE  branch' # job[q].commit
      OBVIOUS
    <3>1. job[q].commit <= Len(commits) /\ Len(commits) \in Nat
      BY <1>1, AtWork, Elements DEF JobFits
    <3> QED
      BY <1>23, <3>1 DEF ForeignPush
  <2> QED
    BY <1>3, <1>23, <2>1 DEF ForeignPush
<1>24. CASE MarkReady \/ RequestChanges \/ Close \/ StartScan
  BY <1>3, <1>5, <1>24 DEF MarkReady, RequestChanges, Close, StartScan
<1>25. CASE Merge
  <2>1. \A q \in Jobs : job[q].at = "pushing" => branch' # job[q].commit
    <3> SUFFICES ASSUME NEW q \in Jobs, job[q].at = "pushing"
                 PROVE  branch' # job[q].commit
      OBVIOUS
    <3>1. job[q].expect < job[q].commit /\ job[q].expect \in Nat /\ job[q].commit \in Nat
      BY <1>1, AtWork DEF JobFits, Work
    <3> QED
      BY <1>5, <1>25, <3>1 DEF Merge
  <2> QED
    BY <1>3, <1>25, <2>1 DEF Merge
<1>26. CASE ScanRow
  <2>1. job' = job /\ branch' = branch
    BY <1>26 DEF ScanRow
  <2>2. \/ rows' = rows
        \/ ScanWrites(scan.next, scan.rows[scan.next])
    BY <1>26, ScanRowDoes
  <2>3. ASSUME ScanWrites(scan.next, scan.rows[scan.next]), NEW p \in Jobs, job[p] # NoJob
        PROVE  rows'[job[p].row] = rows[job[p].row]
    <3>1. job[p].row \in 1 .. Len(rows) /\ rows[job[p].row].pr = 0
      BY <1>1, <2>3 DEF JobsFit, JobFits
    <3>2. /\ scan.on /\ scan.next \in 1 .. Len(scan.rows)
          /\ scan.rows[scan.next].pr # 0
      BY <1>26, <2>3, ScanRowDoes DEF ScanWrites, Asked
    <3>3. rows[scan.next].pr # 0
      BY <1>1, <3>2 DEF ScanFits
    <3> QED
      BY <2>3, <3>1, <3>3 DEF ScanWrites
  <2> QED
    BY <1>3, <1>5, <2>1, <2>2, <2>3 DEF ScanWrites
<1>27. CASE EndScan
  <2>1. job' = job /\ branch' = branch
    BY <1>27 DEF EndScan
  <2>2. ASSUME NEW p \in Jobs, job[p] # NoJob
        PROVE  rows'[job[p].row] = rows[job[p].row]
    <3>1. /\ job[p].row \in 1 .. Len(rows)
          /\ p = "cell" => CellFits
          /\ p = "command" => CommandFits
      BY <1>1, <2>2 DEF JobsFit, JobFits
    <3>2. ASSUME scan.stamp, job[p].row <= Len(scan.rows),
                 scan.rows[job[p].row].state \in InFlight
          PROVE  FALSE
      <4>1. rows[job[p].row].state = "REVIEWING"
            /\ (job["cell"] # NoJob => Len(scan.rows) < job["cell"].row)
        BY <1>1, <1>27, <3>1, <3>2, ScanElements DEF ScanFits, EndScan, InFlight
      <4>2. Len(scan.rows) \in Nat /\ Len(rows) \in Nat
        BY Elements, ScanElements
      <4> QED
        BY <1>2, <2>2, <3>1, <3>2, <4>1, <4>2 DEF CommandFits
    <3> QED
      BY <1>27, <3>1, <3>2, EndScanDoes
  <2> QED
    BY <1>3, <1>5, <1>27, <2>1, <2>2, EndScanDoes
<1>28. CASE UNCHANGED vars
  BY <1>3, <1>5, <1>28 DEF vars
<1> QED
  BY <1>6, <1>7, <1>8, <1>13, <1>14, <1>15, <1>16, <1>17, <1>18, <1>19, <1>20, <1>21,
     <1>22, <1>23, <1>24, <1>25, <1>26, <1>27, <1>28 DEF Next
-----------------------------------------------------------------------------
(* The scan under way. *)

(* Outside a scan a step writes its own job's row, and takes up no other job. *)
LEMMA OwnRowOnly ==
    ASSUME Shape, Fit, [Next]_vars, ~ScanRow, ~EndScan
    PROVE  /\ \A i \in 1 .. Len(rows) :
                 (\A p \in Jobs : job[p] # NoJob => job[p].row # i) => rows'[i] = rows[i]
           /\ scan' = scan \/ StartScan
           /\ job["cell"] = NoJob => job'["cell"] = NoJob \/ StartCell
           /\ job["command"] = NoJob => job'["command"] = NoJob \/ StartCommand
           /\ Len(rows') = Len(rows) \/ StartCell
<1> DEFINE Own(p) ==
             /\ job[p] # NoJob
             /\ \A i \in 1 .. Len(rows) : i # job[p].row => rows'[i] = rows[i]
             /\ \A q \in Jobs : q # p => job'[q] = job[q]
             /\ scan' = scan
             /\ Len(rows') = Len(rows)
<1>1. JobsFit /\ Jobs = {"cell", "command"}
  BY DEF Fit, Jobs
<1>2. ASSUME NEW p \in Jobs, Own(p)
      PROVE  /\ \A i \in 1 .. Len(rows) :
                   (\A q \in Jobs : job[q] # NoJob => job[q].row # i) => rows'[i] = rows[i]
             /\ scan' = scan
             /\ job["cell"] = NoJob => job'["cell"] = NoJob
             /\ job["command"] = NoJob => job'["command"] = NoJob
             /\ Len(rows') = Len(rows)
  BY <1>1, <1>2
<1>3. CASE StartCell
  BY <1>3, StartCellDoes DEF StartCell
<1>4. CASE EndCell
  <2>1. job["cell"] # NoJob /\ scan' = scan
    BY <1>4, IdleHasNone DEF EndCell
  <2>2. Own("cell")
    BY <1>1, <1>4, <2>1, EndCellDoes
  <2> HIDE DEF Own
  <2> QED
    BY <1>1, <1>2, <2>2
<1>5. CASE StartCommand
  BY <1>5, StartCommandDoes DEF StartCommand
<1>6. ASSUME NEW p \in Jobs, job[p].at # "idle", Raise(p), scan' = scan
      PROVE  Own(p)
  BY <1>1, <1>6, AtWork, RaiseDoes, RaiseEnds
<1>7. ASSUME NEW p \in Jobs, job[p].at # "idle", scan' = scan,
             NEW s \in {"READY_FOR_REVIEW", "MERGE_FAILED"}, NEW n \in Nat, NEW k \in Nat,
             Settle(p, s, n, k)
      PROVE  Own(p)
  <2>1. job[p] # NoJob /\ job[p].row \in 1 .. Len(rows) /\ s \in States
    BY <1>1, <1>7, AtWork DEF States, Pending
  <2>2. /\ Len(rows') = Len(rows)
        /\ \A j \in 1 .. Len(rows) : j # job[p].row => rows'[j] = rows[j]
    BY <1>7, <2>1, SettleDoes
  <2>3. \A q \in Jobs : q # p => job'[q] = job[q]
    BY <1>7, SettleEnds
  <2> QED
    BY <1>7, <2>1, <2>2, <2>3
<1>8. ASSUME NEW p \in Jobs, job[p] # NoJob, job' = [job EXCEPT ![p] = NoJob],
             rows' = rows, scan' = scan
      PROVE  Own(p)
  BY <1>8, GivesUp
<1>9. ASSUME NEW p \in Jobs, PackageRaises(p) PROVE Own(p)
  BY <1>6, <1>9 DEF PackageRaises
<1>10. ASSUME NEW p \in Jobs, PackageRefuses(p) PROVE Own(p)
  BY <1>7, <1>10 DEF PackageRefuses
<1>11. ASSUME NEW p \in Jobs, PackageBuilds(p) \/ UnpackagedBuilds(p) PROVE Own(p)
  <2>1. PICK opens \in BOOLEAN : Squash(p, opens)
    BY <1>11 DEF PackageBuilds, UnpackagedBuilds
  <2>2. \A q \in Jobs : q # p => job'[q] = job[q]
    BY <2>1, SquashDoes
  <2> QED
    BY <1>11, <2>1, <2>2, IdleHasNone DEF PackageBuilds, UnpackagedBuilds, Squash
<1>12. ASSUME NEW p \in Jobs, PushWithLease(p) PROVE Own(p)
  BY <1>12, PushDoes, IdleHasNone DEF PushWithLease
<1>13. ASSUME NEW p \in Jobs, LeaseRejected(p) PROVE Own(p)
  <2>1. /\ job[p].at = "pushing" /\ scan' = scan
        /\ \/ Settle(p, "MERGE_FAILED", 0, 0)
           \/ job' = [job EXCEPT ![p] = NoJob] /\ rows' = rows
    BY <1>13 DEF LeaseRejected
  <2> HIDE DEF Own
  <2> QED
    BY <1>7, <1>8, <2>1, IdleHasNone
<1>14. ASSUME NEW p \in Jobs, RecordPush(p) PROVE Own(p)
  <2>1. job[p].at = "recording" /\ scan' = scan
    BY <1>14 DEF RecordPush
  <2>2. job[p] # NoJob /\ job[p].row \in 1 .. Len(rows)
    BY <1>1, <2>1, AtWork
  <2> QED
    BY <1>14, <2>1, <2>2, RecordDoes
<1>15. ASSUME NEW p \in Jobs, OpenDraftPr(p) PROVE Own(p)
  <2>1. PICK k \in 1 .. Len(prs') :
          Settle(p, "READY_FOR_REVIEW", job[p].commit, k) \/ Raise(p)
    BY <1>15, OpenDoes
  <2>2. job[p].at # "idle" /\ scan' = scan /\ job[p].commit \in Nat /\ k \in Nat
    BY <1>15, Elements DEF OpenDraftPr, Work
  <2> HIDE DEF Own
  <2> QED
    BY <1>6, <1>7, <2>1, <2>2
<1>16. ASSUME NEW p \in Jobs, UnpackagedRefuses(p) \/ Kill(p) PROVE Own(p)
  <2> HIDE DEF Own
  <2> QED
    BY <1>8, <1>16, IdleHasNone DEF UnpackagedRefuses, Kill
<1>17. CASE \/ ForeignPush \/ MarkReady \/ RequestChanges \/ Close \/ Merge \/ StartScan
            \/ UNCHANGED vars
  BY <1>17 DEF ForeignPush, MarkReady, RequestChanges, Close, Merge, StartScan, vars
<1> HIDE DEF Own
<1> QED
  BY <1>2, <1>3, <1>4, <1>5, <1>9, <1>10, <1>11, <1>12, <1>13, <1>14, <1>15, <1>16, <1>17
     DEF Next

LEMMA ScanStep == Shape /\ Fit /\ [Next]_vars => ScanFits'
<1> SUFFICES ASSUME Shape, Fit, [Next]_vars, scan'.on PROVE ScanFits'
  BY DEF ScanFits
<1>1. RowsFit /\ JobsFit /\ ScanFits /\ Grows /\ JobsFit'
  BY GrowsStep, JobsStep DEF Fit
<1>2. Len(rows) \in Nat /\ Len(rows') \in Nat /\ Len(scan.rows) \in Nat
  <2>1. Shape'
    BY ShapeStep
  <2> QED
    BY <2>1, Elements, ScanElements, LenProperties DEF Shape
<1>3. Len(rows) <= Len(rows')
  BY <1>1 DEF Grows
(* A merge GitHub reported stays one. *)
<1>4. ASSUME scan.on, NEW i \in 1 .. Len(scan.rows), scan.rows[i].merged # 0
      PROVE  prs'[scan.rows[i].pr].state = "merged" /\ scan.rows[i].pr # 0
  <2>1. /\ prs[scan.rows[i].pr].state = "merged" /\ scan.rows[i].pr # 0
        /\ rows[i].pr = scan.rows[i].pr /\ i \in 1 .. Len(rows)
    BY <1>1, <1>2, <1>4 DEF ScanFits
  <2>2. scan.rows[i].pr \in 1 .. Len(prs)
    BY <1>1, <2>1, Elements DEF RowsFit, RowFits, Row
  <2> QED
    BY <1>1, <2>1, <2>2 DEF Grows, PullsGrow
<1>5. CASE StartScan
  <2>1. scan' = [on |-> TRUE, rows |-> rows, next |-> 1, stamp |-> scan'.stamp]
        /\ rows' = rows /\ prs' = prs /\ job' = job
        /\ (scan'.stamp => job["cell"] = NoJob)
    BY <1>5 DEF StartScan, Jobs
  <2>2. \A i \in 1 .. Len(rows) :
          rows[i].merged # 0 => rows[i].pr # 0 /\ prs[rows[i].pr].state = "merged"
    BY <1>1 DEF RowsFit, RowFits
  <2> QED
    BY <1>2, <2>1, <2>2 DEF ScanFits
<1>6. CASE ~StartScan /\ ~ScanRow /\ ~EndScan
  <2>1. scan' = scan /\ scan.on
    BY <1>6, OwnRowOnly
  <2>2. Len(scan'.rows) <= Len(rows')
    BY <1>1, <1>2, <1>3, <2>1 DEF ScanFits
  <2>3. ASSUME NEW i \in 1 .. Len(scan.rows),
               \/ rows[i].pr # 0
               \/ scan.stamp /\ rows[i].state \in InFlight
        PROVE  rows'[i] = rows[i]
    <3>1. ASSUME NEW p \in Jobs, job[p] # NoJob, job[p].row = i PROVE FALSE
      <4>1. JobFits(p) /\ (p = "cell" => CellFits) /\ (p = "command" => CommandFits)
        BY <1>1, <3>1 DEF JobsFit
      <4>2. rows[i].pr = 0
        BY <3>1, <4>1 DEF JobFits
      <4>3. scan.stamp /\ rows[i].state \in InFlight
        BY <2>3, <4>2
      <4>4. p # "command"
        BY <3>1, <4>1, <4>3 DEF CommandFits, InFlight
      <4>5. p = "cell"
        BY <4>4 DEF Jobs
      <4> QED
        BY <1>1, <1>2, <2>1, <3>1, <4>3, <4>5 DEF ScanFits
    <3>2. i \in 1 .. Len(rows)
      BY <1>1, <1>2, <2>1 DEF ScanFits
    <3> QED
      BY <1>6, <3>1, <3>2, OwnRowOnly
  <2>4. ASSUME scan.stamp, job'["cell"] # NoJob
        PROVE  Len(scan.rows) < job'["cell"].row
    <3>1. job'["cell"].row = Len(rows')
      BY <1>1, <2>4 DEF JobsFit, CellFits
    <3>2. CASE StartCell
      <4>1. Len(rows') = Len(rows) + 1
        BY <3>2, StartCellDoes
      <4> QED
        BY <1>1, <1>2, <2>1, <3>1, <4>1 DEF ScanFits
    <3>3. CASE ~StartCell
      <4>1. job["cell"] # NoJob /\ Len(rows') = Len(rows)
        BY <1>6, <2>4, <3>3, OwnRowOnly
      <4>2. job["cell"].row = Len(rows)
        BY <1>1, <4>1 DEF JobsFit, CellFits
      <4> QED
        BY <1>1, <2>1, <2>4, <3>1, <4>1, <4>2 DEF ScanFits
    <3> QED
      BY <3>2, <3>3
  <2>5. \A i \in 1 .. Len(scan.rows) :
          /\ scan.rows[i].pr # 0 => rows'[i].pr = scan.rows[i].pr
          /\ scan.rows[i].merged # 0 /\ Asked(scan.rows[i]) /\ i < scan.next =>
                rows'[i].state = "MERGED"
          /\ scan.stamp /\ scan.rows[i].state \in InFlight =>
                rows'[i].state = scan.rows[i].state
    <3> TAKE i \in 1 .. Len(scan.rows)
    <3>1. /\ scan.rows[i].pr # 0 => rows[i].pr = scan.rows[i].pr
          /\ scan.rows[i].merged # 0 /\ Asked(scan.rows[i]) /\ i < scan.next =>
                rows[i].state = "MERGED"
          /\ scan.stamp /\ scan.rows[i].state \in InFlight =>
                rows[i].state = scan.rows[i].state
      BY <1>1, <2>1 DEF ScanFits
    <3> QED
      BY <2>3, <3>1 DEF Asked
  <2> QED
    BY <1>4, <2>1, <2>2, <2>4, <2>5 DEF ScanFits, Asked
<1>7. CASE ScanRow
  <2> DEFINE n == scan.next
  <2>1. /\ scan.on /\ n \in 1 .. Len(scan.rows) /\ n \in 1 .. Len(rows)
        /\ \/ rows' = rows /\ (Asked(scan.rows[n]) => scan.rows[n].merged = 0)
           \/ ScanWrites(n, scan.rows[n])
        /\ scan'.rows = scan.rows /\ scan'.next = n + 1 /\ scan'.stamp = scan.stamp
    BY <1>7, ScanRowDoes, ScanElements
  <2>2. prs' = prs /\ job' = job
    BY <1>7 DEF ScanRow
  <2>3. /\ Len(rows') = Len(rows)
        /\ \A i \in 1 .. Len(rows) : rows'[i].pr = rows[i].pr
        /\ \A i \in 1 .. Len(rows) : i # n => rows'[i] = rows[i]
    BY <2>1 DEF ScanWrites
  <2>4. ScanWrites(n, scan.rows[n]) => scan.rows[n].pr # 0 /\ rows[n].pr # 0
    BY <1>1, <2>1 DEF ScanWrites, Asked, ScanFits
  <2>5. Asked(scan.rows[n]) /\ scan.rows[n].merged # 0 => rows'[n].state = "MERGED"
    BY <2>1 DEF ScanWrites
  <2>6. scan.stamp /\ scan.rows[n].state \in InFlight => rows'[n] = rows[n]
    BY <1>1, <2>1, <2>4 DEF ScanFits, RowsFit, RowFits
  <2> HIDE DEF n
  <2>7. \A i \in 1 .. Len(scan.rows) :
          /\ scan.rows[i].pr # 0 => rows'[i].pr = scan.rows[i].pr
          /\ scan.rows[i].merged # 0 /\ Asked(scan.rows[i]) /\ i < n + 1 =>
                rows'[i].state = "MERGED"
          /\ scan.stamp /\ scan.rows[i].state \in InFlight =>
                rows'[i].state = scan.rows[i].state
    <3> TAKE i \in 1 .. Len(scan.rows)
    <3>1. /\ scan.rows[i].pr # 0 => rows[i].pr = scan.rows[i].pr
          /\ scan.rows[i].merged # 0 /\ Asked(scan.rows[i]) /\ i < n =>
                rows[i].state = "MERGED"
          /\ scan.stamp /\ scan.rows[i].state \in InFlight =>
                rows[i].state = scan.rows[i].state
          /\ i \in 1 .. Len(rows)
      BY <1>1, <1>2, <2>1 DEF ScanFits, n
    <3>2. i < n + 1 => i < n \/ i = n
      BY <1>2, <2>1
    <3> QED
      BY <2>3, <2>5, <2>6, <3>1, <3>2
  <2>8. Len(scan.rows) <= Len(rows')
    BY <1>1, <2>1, <2>3 DEF ScanFits
  <2>9. scan.stamp /\ job'["cell"] # NoJob => Len(scan.rows) < job'["cell"].row
    BY <1>1, <2>1, <2>2 DEF ScanFits
  <2> QED
    BY <1>4, <2>1, <2>7, <2>8, <2>9 DEF ScanFits, Asked
<1>8. CASE EndScan
  BY <1>8, ScanElements DEF EndScan
<1> QED
  BY <1>5, <1>6, <1>7, <1>8
-----------------------------------------------------------------------------
(* The inductive invariant, whatever goes wrong. *)

DeliveryInv == Shape /\ Fit

LEMMA InitDelivery == Init => DeliveryInv
<1> SUFFICES ASSUME Init PROVE DeliveryInv
  OBVIOUS
<1>1. NoScan \in [on : BOOLEAN, rows : Seq(Row), next : Nat \ {0}, stamp : BOOLEAN]
      /\ NoScan.on = FALSE
  <2>1. << >> \in Seq(Row)
    BY EmptySeq
  <2> QED
    BY <2>1 DEF NoScan
<1>2. NoJob \in Work
  BY DEF NoJob, Work
<1>3. /\ << >> \in Seq(Row) /\ << >> \in Seq(Nat) /\ << >> \in Seq(Pull)
      /\ Len(<< >>) = 0
  BY EmptySeq
<1>4. Shape
  <2>1. job \in [Jobs -> Work]
    BY <1>2 DEF Init
  <2>2. dir \in [patch : Nat, baseline : Nat, findings : Nat]
    BY DEF Init
  <2>3. scan \in [on : BOOLEAN, rows : Seq(Row), next : Nat \ {0}, stamp : BOOLEAN]
    BY <1>1 DEF Init
  <2>4. branch \in 0 .. Len(commits)
    BY <1>3 DEF Init
  <2> QED
    BY <1>3, <2>1, <2>2, <2>3, <2>4 DEF Init, Shape
<1>5. RowsFit
  BY <1>3 DEF Init, RowsFit
<1>6. JobsFit
  BY IdleHasNone DEF Init, JobsFit, Jobs
<1>7. ScanFits
  BY <1>1 DEF Init, ScanFits
<1> QED
  BY <1>4, <1>5, <1>6, <1>7 DEF DeliveryInv, Fit

LEMMA DeliveryStep == DeliveryInv /\ [Next]_vars => DeliveryInv'
  BY ShapeStep, RowsStep, JobsStep, ScanStep DEF DeliveryInv, Fit

LEMMA DeliveryAlways == Spec => []DeliveryInv
<1> QED
  BY InitDelivery, DeliveryStep, PTL DEF Spec

(* A reconcile killed between a merge's two writes is finished by the next: *)
(* once a scan is through, each row it read with a merge recorded and its   *)
(* pull request to ask about reads MERGED, whatever gh answered.            *)
LEMMA ThroughIsMerged ==
    ASSUME DeliveryInv, scan.on, scan.next > Len(scan.rows)
    PROVE  \A i \in 1 .. Len(scan.rows) :
              Asked(scan.rows[i]) /\ scan.rows[i].merged # 0 => rows[i].state = "MERGED"
<1> TAKE i \in 1 .. Len(scan.rows)
<1>1. ScanFits /\ Shape
  BY DEF DeliveryInv, Fit
<1>2. i < scan.next
  BY <1>1, ScanElements
<1> QED
  BY <1>1, <1>2 DEF ScanFits

THEOREM MergesAreFinished == Spec => MergedHeadSettles
<1>1. DeliveryInv /\ [Next]_vars =>
        [(scan.on /\ scan.next > Len(scan.rows)) =>
            \A i \in 1 .. Len(scan.rows) :
                (Asked(scan.rows[i]) /\ scan.rows[i].merged # 0) =>
                    rows[i].state = "MERGED"]_vars
  BY ThroughIsMerged
<1> QED
  BY <1>1, DeliveryAlways, PTL DEF Spec, MergedHeadSettles
-----------------------------------------------------------------------------
(* What a step makes of a row. *)

LEMMA RowMoves ==
    ASSUME DeliveryInv, [Next]_vars, NEW i \in 1 .. Len(rows')
    PROVE  \/ i \in 1 .. Len(rows) /\ rows'[i] = rows[i]
           \/ StartCell /\ i = Len(rows) + 1 /\ rows'[i] = NewRow
           \/ /\ i \in 1 .. Len(rows)
              /\ \E p \in Jobs :
                    /\ job[p] # NoJob /\ i = job[p].row
                    /\ rows'[i].state \in {rows[i].state, "EXHAUSTED", "READY_FOR_REVIEW",
                                           "MERGE_FAILED"}
                    /\ rows'[i].pr = 0 \/ OpenDraftPr(p)
           \/ /\ i \in 1 .. Len(rows) /\ ScanRow /\ scan.on /\ i \in 1 .. Len(scan.rows)
              /\ ScanWrites(i, scan.rows[i])
           \/ /\ i \in 1 .. Len(rows) /\ EndScan
              /\ rows'[i].state = "ORPHANED" /\ rows'[i].pushed = rows[i].pushed
              /\ rows'[i].pr = rows[i].pr
<1>1. Shape /\ Fit /\ JobsFit /\ Len(rows) \in Nat
  BY Elements DEF DeliveryInv, Fit
<1> DEFINE JobWrites(p) ==
             i \in 1 .. Len(rows) =>
                 \/ rows'[i] = rows[i]
                 \/ /\ job[p] # NoJob /\ i = job[p].row
                    /\ rows'[i].state \in {rows[i].state, "EXHAUSTED", "READY_FOR_REVIEW",
                                           "MERGE_FAILED"}
                    /\ rows'[i].pr = 0 \/ OpenDraftPr(p)
<1>2. CASE ScanRow
  BY <1>1, <1>2, ScanRowDoes DEF ScanWrites
<1>3. CASE EndScan
  BY <1>1, <1>3, EndScanDoes
<1>4. ASSUME i \notin 1 .. Len(rows), ~ScanRow, ~EndScan
      PROVE  StartCell /\ i = Len(rows) + 1 /\ rows'[i] = NewRow
  <2>1. StartCell
    BY <1>1, <1>4, OwnRowOnly
  <2> QED
    BY <1>1, <1>4, <2>1, StartCellDoes
<1>5. ASSUME NEW p \in Jobs, job[p].at # "idle", Raise(p) PROVE JobWrites(p)
  BY <1>1, <1>5, AtWork, RaiseDoes DEF JobFits
<1>6. ASSUME NEW p \in Jobs, job[p].at # "idle",
             NEW s \in {"READY_FOR_REVIEW", "MERGE_FAILED"}, NEW n \in Nat, NEW k \in Nat,
             Settle(p, s, n, k), k = 0 \/ OpenDraftPr(p)
      PROVE  JobWrites(p)
  <2>1. job[p] # NoJob /\ job[p].row \in 1 .. Len(rows) /\ s \in States
    BY <1>1, <1>6, AtWork DEF States, Pending
  <2>2. /\ \A j \in 1 .. Len(rows) : j # job[p].row => rows'[j] = rows[j]
        /\ rows'[job[p].row].state = IF job[p].mode = "blocked" THEN "EXHAUSTED" ELSE s
        /\ rows'[job[p].row].pr = k
    <3>1. Settle(p, s, n, k)
      BY <1>6
    <3> QED
      BY <1>1, <2>1, <3>1, SettleDoes
  <2> QED
    BY <1>6, <2>1, <2>2
<1>7. ASSUME NEW p \in Jobs,
             \/ PackageRaises(p) \/ PackageRefuses(p) \/ PackageBuilds(p)
             \/ PushWithLease(p) \/ LeaseRejected(p) \/ UnpackagedBuilds(p)
             \/ UnpackagedRefuses(p) \/ Kill(p)
      PROVE  JobWrites(p)
  <2>1. CASE PackageRaises(p)
    BY <1>5, <2>1 DEF PackageRaises
  <2>2. CASE PackageRefuses(p)
    BY <1>6, <2>2 DEF PackageRefuses
  <2>3. CASE LeaseRejected(p)
    <3>1. job[p].at # "idle" /\ (Settle(p, "MERGE_FAILED", 0, 0) \/ rows' = rows)
      BY <2>3 DEF LeaseRejected
    <3> QED
      BY <1>6, <3>1
  <2>4. CASE \/ PackageBuilds(p) \/ PushWithLease(p) \/ UnpackagedBuilds(p)
             \/ UnpackagedRefuses(p) \/ Kill(p)
    BY <2>4 DEF PackageBuilds, PushWithLease, UnpackagedBuilds, UnpackagedRefuses, Kill,
       Squash
  <2> QED
    BY <1>7, <2>1, <2>2, <2>3, <2>4
<1>8. ASSUME NEW p \in Jobs, RecordPush(p) PROVE JobWrites(p)
  <2>1. job[p].at # "idle"
    BY <1>8 DEF RecordPush
  <2> QED
    BY <1>1, <1>8, <2>1, AtWork, RecordDoes DEF JobFits
<1>9. ASSUME NEW p \in Jobs, OpenDraftPr(p) PROVE JobWrites(p)
  <2>1. PICK k \in 1 .. Len(prs') :
          Settle(p, "READY_FOR_REVIEW", job[p].commit, k) \/ Raise(p)
    BY <1>1, <1>9, OpenDoes
  <2>2. job[p].at # "idle" /\ job[p].commit \in Nat /\ k \in Nat
    BY <1>1, <1>9, Elements DEF OpenDraftPr, Work
  <2> HIDE DEF JobWrites
  <2> QED
    BY <1>5, <1>6, <1>9, <2>1, <2>2
<1>10. CASE EndCell
  <2>1. job["cell"] # NoJob /\ "cell" \in Jobs /\ JobFits("cell")
    BY <1>1, <1>10, AtWork DEF EndCell, Jobs
  <2> QED
    BY <1>1, <1>4, <1>10, <2>1, EndCellDoes DEF JobFits
<1>11. CASE \/ StartCommand \/ ForeignPush \/ MarkReady \/ RequestChanges \/ Close
            \/ Merge \/ StartScan \/ UNCHANGED vars
  BY <1>11 DEF StartCommand, ForeignPush, MarkReady, RequestChanges, Close, Merge,
     StartScan, vars
<1>12. CASE StartCell
  BY <1>1, <1>12, StartCellDoes
<1>13. CASE \E p \in Jobs :
              \/ PackageRaises(p) \/ PackageRefuses(p) \/ PackageBuilds(p)
              \/ PushWithLease(p) \/ LeaseRejected(p) \/ RecordPush(p) \/ OpenDraftPr(p)
              \/ UnpackagedBuilds(p) \/ UnpackagedRefuses(p) \/ Kill(p)
  <2>1. PICK p \in Jobs : JobWrites(p)
    <3> HIDE DEF JobWrites
    <3> QED
      BY <1>7, <1>8, <1>9, <1>13
  <2>2. CASE i \in 1 .. Len(rows)
    BY <2>1, <2>2
  <2>3. CASE i \notin 1 .. Len(rows)
    BY <1>2, <1>3, <1>4, <2>3
  <2> QED
    BY <2>2, <2>3
<1> HIDE DEF JobWrites
<1> QED
  BY <1>2, <1>3, <1>10, <1>11, <1>12, <1>13 DEF Next
-----------------------------------------------------------------------------
(* No row left in flight. *)

LEMMA KilledStays ==
    ASSUME DeliveryInv, [Next]_vars, killed
    PROVE  killed'
<1>1. CASE ScanRow
  BY <1>1, ScanRowDoes DEF DeliveryInv
<1>2. CASE \/ StartCell \/ EndCell \/ StartCommand \/ ForeignPush \/ MarkReady
           \/ RequestChanges \/ Close \/ Merge \/ StartScan \/ EndScan \/ UNCHANGED vars
  BY <1>2 DEF StartCell, EndCell, StartCommand, ForeignPush, MarkReady, RequestChanges,
     Close, Merge, StartScan, EndScan, vars
<1>3. ASSUME NEW p \in Jobs,
             \/ PackageRaises(p) \/ PackageRefuses(p) \/ PackageBuilds(p)
             \/ PushWithLease(p) \/ LeaseRejected(p) \/ RecordPush(p) \/ OpenDraftPr(p)
             \/ UnpackagedBuilds(p) \/ UnpackagedRefuses(p) \/ Kill(p)
      PROVE  killed'
  BY <1>3 DEF PackageRaises, PackageRefuses, PackageBuilds, PushWithLease, LeaseRejected,
     RecordPush, OpenDraftPr, UnpackagedBuilds, UnpackagedRefuses, Kill, Squash
<1> QED
  BY <1>1, <1>2, <1>3 DEF Next

(* The cell's process lets go of a row in flight by no step but a kill: out  *)
(* of PACKAGE the row goes back to wait, is refused, or is exhausted.        *)
LEMMA CellHolds ==
    ASSUME DeliveryInv, [Next]_vars, job["cell"] # NoJob,
           rows'[job["cell"].row].state = "REVIEWING"
    PROVE  killed' \/ job'["cell"].row = job["cell"].row
<1> DEFINE j == job["cell"]
           Held == killed' \/ job'["cell"].row = j.row
<1>1. Shape /\ Fit /\ JobsFit /\ "cell" \in Jobs /\ "command" \in Jobs
  BY DEF DeliveryInv, Fit, Jobs
<1>2. CellFits /\ JobFits("cell") /\ j \in Work /\ j.row \in 1 .. Len(rows)
  BY <1>1, Elements DEF JobsFit, JobFits
<1>3. j.mode \notin {"none", "ready"} => rows[j.row].state = "EXHAUSTED"
  BY <1>2 DEF CellFits
<1>3a. ASSUME NEW p \in Jobs, p # "cell", \A q \in Jobs : q # p => job'[q] = job[q]
       PROVE  Held
  BY <1>1, <1>3a
<1>4. CASE \/ StartCell \/ StartCommand \/ ForeignPush \/ MarkReady \/ RequestChanges
           \/ Close \/ Merge \/ StartScan \/ ScanRow \/ EndScan \/ UNCHANGED vars
  <2>1. job'["cell"] = job["cell"]
    BY <1>1, <1>4, StartCommandDoes DEF StartCell, ForeignPush, MarkReady, RequestChanges,
       Close, Merge, StartScan, ScanRow, EndScan, vars
  <2> QED
    BY <2>1
<1>5. CASE EndCell
  BY <1>1, <1>5, EndCellDoes
<1>6. ASSUME j.at # "idle", j.at # "running", Raise("cell") PROVE FALSE
  <2>1. /\ j.mode = "ready" => rows'[j.row].state = "READY_FOR_REVIEW"
        /\ j.mode # "ready" => rows'[j.row].state = rows[j.row].state
    BY <1>1, <1>2, <1>6, RaiseDoes
  <2> QED
    BY <1>2, <1>3, <1>6, <2>1 DEF CellFits
<1>7. ASSUME NEW s \in {"READY_FOR_REVIEW", "MERGE_FAILED"}, NEW n \in Nat, NEW k \in Nat,
             Settle("cell", s, n, k)
      PROVE  FALSE
  <2>1. s \in States
    BY DEF States, Pending
  <2>2. rows'[j.row].state = IF j.mode = "blocked" THEN "EXHAUSTED" ELSE s
    BY <1>1, <1>2, <1>7, <2>1, SettleDoes
  <2> QED
    BY <2>2
<1>8. ASSUME j.at \notin {"running", "packaging"}, ~j.opens, rows'[j.row] = rows[j.row]
      PROVE  FALSE
  BY <1>2, <1>3, <1>8 DEF CellFits
<1>9. ASSUME NEW p \in Jobs, PackageRaises(p) PROVE Held
  <2>1. job[p].at # "idle" /\ job[p].at # "running" /\ Raise(p)
    BY <1>9 DEF PackageRaises
  <2>2. p # "cell"
    BY <1>6, <2>1
  <2>3. \A q \in Jobs : q # p => job'[q] = job[q]
    BY <1>1, <2>1, RaiseEnds
  <2> QED
    BY <1>3a, <2>2, <2>3
<1>10. ASSUME NEW p \in Jobs, PackageRefuses(p) PROVE Held
  <2>1. Settle(p, "MERGE_FAILED", 0, 0)
    BY <1>10 DEF PackageRefuses
  <2>2. p # "cell"
    BY <1>7, <2>1
  <2>3. \A q \in Jobs : q # p => job'[q] = job[q]
    BY <1>1, <2>1, SettleEnds
  <2> QED
    BY <1>3a, <2>2, <2>3
<1>11. ASSUME NEW p \in Jobs, Squash(p, TRUE) \/ Squash(p, FALSE) PROVE Held
  <2>1. job'[p].row = job[p].row /\ \A q \in Jobs : q # p => job'[q] = job[q]
    BY <1>1, <1>11, SquashDoes
  <2> QED
    BY <1>1, <2>1
<1>12. ASSUME NEW p \in Jobs, PushWithLease(p) PROVE Held
  BY <1>1, <1>12, PushDoes
<1>13. ASSUME NEW p \in Jobs, LeaseRejected(p) PROVE Held
  <2>1. CASE job[p].opens
    <3>1. Settle(p, "MERGE_FAILED", 0, 0)
      BY <1>13, <2>1 DEF LeaseRejected
    <3>2. p # "cell"
      BY <1>7, <3>1
    <3>3. \A q \in Jobs : q # p => job'[q] = job[q]
      BY <1>1, <3>1, SettleEnds
    <3> QED
      BY <1>3a, <3>2, <3>3
  <2>2. CASE ~job[p].opens
    <3>1. job[p].at = "pushing" /\ rows' = rows /\ job' = [job EXCEPT ![p] = NoJob]
      BY <1>13, <2>2 DEF LeaseRejected
    <3> QED
      BY <1>1, <1>8, <2>2, <3>1, GivesUp
  <2> QED
    BY <2>1, <2>2
<1>14. ASSUME NEW p \in Jobs, RecordPush(p) PROVE Held
  <2>1. job[p].at = "recording" /\ job[p].row \in 1 .. Len(rows)
    BY <1>1, <1>14, AtWork DEF RecordPush
  <2>2. /\ \A q \in Jobs : q # p => job'[q] = job[q]
        /\ rows'[job[p].row].state = rows[job[p].row].state
        /\ job'[p].row = job[p].row \/ ~job[p].opens
    BY <1>1, <1>14, <2>1, RecordDoes
  <2> QED
    BY <1>1, <1>2, <1>3, <2>1, <2>2 DEF CellFits
<1>15. ASSUME NEW p \in Jobs, OpenDraftPr(p) PROVE Held
  <2>1. PICK k \in 1 .. Len(prs') :
          Settle(p, "READY_FOR_REVIEW", job[p].commit, k) \/ Raise(p)
    BY <1>1, <1>15, OpenDoes
  <2>2. job[p].at = "opening" /\ job[p].commit \in Nat /\ k \in Nat
    BY <1>1, <1>15, Elements DEF OpenDraftPr, Work
  <2>3. CASE p = "cell"
    <3>1. ~Raise("cell")
      BY <1>6, <2>2, <2>3
    <3>2. ~Settle("cell", "READY_FOR_REVIEW", job[p].commit, k)
      BY <1>7, <2>2
    <3> QED
      BY <2>1, <2>3, <3>1, <3>2
  <2>4. CASE p # "cell"
    <3>1. \A q \in Jobs : q # p => job'[q] = job[q]
      BY <1>1, <2>1, SettleEnds, RaiseEnds
    <3> QED
      BY <1>3a, <2>4, <3>1
  <2> QED
    BY <2>3, <2>4
<1>16. ASSUME NEW p \in Jobs, UnpackagedRefuses(p) PROVE Held
  <2>1. /\ rows' = rows /\ job' = [job EXCEPT ![p] = NoJob]
        /\ job[p].at = "unpackaged" \/ (job[p].at = "pushing" /\ ~job[p].opens)
    BY <1>16 DEF UnpackagedRefuses
  <2>2. CASE p = "cell"
    BY <1>2, <1>3, <2>1, <2>2 DEF CellFits
  <2>3. CASE p # "cell"
    BY <1>1, <2>1, <2>3, GivesUp
  <2> QED
    BY <2>2, <2>3
<1>17. ASSUME NEW p \in Jobs, Kill(p) PROVE Held
  BY <1>17 DEF Kill
<1> HIDE DEF j, Held
<1>18. ASSUME NEW p \in Jobs, PackageBuilds(p) \/ UnpackagedBuilds(p) PROVE Held
  <2>1. Squash(p, TRUE) \/ Squash(p, FALSE)
    BY <1>18 DEF PackageBuilds, UnpackagedBuilds
  <2>2. CASE Squash(p, TRUE)
    BY <1>11, <2>2
  <2>3. CASE Squash(p, FALSE)
    BY <1>11, <2>3
  <2> QED
    BY <2>1, <2>2, <2>3
<1>19. ASSUME NEW p \in Jobs,
              \/ PackageRaises(p) \/ PackageRefuses(p) \/ PackageBuilds(p)
              \/ PushWithLease(p) \/ LeaseRejected(p) \/ RecordPush(p) \/ OpenDraftPr(p)
              \/ UnpackagedBuilds(p) \/ UnpackagedRefuses(p) \/ Kill(p)
       PROVE  Held
  BY <1>9, <1>10, <1>12, <1>13, <1>14, <1>15, <1>16, <1>17, <1>18, <1>19
<1> QED
  BY <1>4, <1>5, <1>19 DEF Next, Held, j

(* A step puts no row back in flight: only a new one starts there. *)
LEMMA WasInFlight ==
    ASSUME DeliveryInv, [Next]_vars, NEW i \in 1 .. Len(rows'),
           rows'[i].state = "REVIEWING"
    PROVE  \/ StartCell /\ i = Len(rows) + 1
           \/ i \in 1 .. Len(rows) /\ rows[i].state = "REVIEWING"
<1>1. ASSUME i \in 1 .. Len(rows), scan.on, i \in 1 .. Len(scan.rows),
             ScanWrites(i, scan.rows[i])
      PROVE  rows[i].state = "REVIEWING"
  BY <1>1, AnswerMeans DEF ScanWrites
<1> QED
  BY <1>1, RowMoves

LEMMA NoRowLeftStep ==
    ASSUME DeliveryInv, [Next]_vars, NoRowLeftInFlight
    PROVE  NoRowLeftInFlight'
<1> SUFFICES ASSUME NEW i \in 1 .. Len(rows'), rows'[i].state = "REVIEWING"
             PROVE  killed' \/ job'["cell"].row = i
  BY DEF NoRowLeftInFlight, InFlight
<1>1. CASE StartCell /\ i = Len(rows) + 1
  BY <1>1, StartCellDoes DEF DeliveryInv
<1>2. CASE i \in 1 .. Len(rows) /\ rows[i].state = "REVIEWING"
  <2>1. killed \/ job["cell"].row = i
    BY <1>2 DEF NoRowLeftInFlight, InFlight
  <2>2. job["cell"].row = i => job["cell"] # NoJob
    BY <1>2, IdleHasNone
  <2> QED
    BY <2>1, <2>2, KilledStays, CellHolds
<1> QED
  BY <1>1, <1>2, WasInFlight

(* A row is in flight only while its cell or its packaging is: no way out of *)
(* PACKAGE short of a kill leaves one that reads as still running.          *)
THEOREM NoRowIsLeft == Spec => []NoRowLeftInFlight
<1>1. Init => NoRowLeftInFlight
  BY DEF Init, NoRowLeftInFlight
<1>2. DeliveryInv /\ NoRowLeftInFlight /\ [Next]_vars => NoRowLeftInFlight'
  BY NoRowLeftStep
<1> QED
  BY <1>1, <1>2, DeliveryAlways, PTL DEF Spec
-----------------------------------------------------------------------------
(* Work pushed unpackaged. *)

(* The cell's process, between the guards of push_unpackaged_work and its    *)
(* push: no command packages, the commit the lease names is a cell's, and no *)
(* row carries an open pull request.                                        *)
UnpackagedFits ==
    job["cell"].at = "pushing" /\ ~job["cell"].opens =>
        /\ job["command"] = NoJob
        /\ job["cell"].expect # 0 => commits[job["cell"].expect] # 0
        /\ \A k \in Open : \A i \in 1 .. Len(rows) : rows[i].pr # k

(* Only `gh pr create` opens a pull request, and only its caller records it. *)
LEMMA NothingOpens ==
    ASSUME DeliveryInv, [Next]_vars, \A p \in Jobs : ~OpenDraftPr(p)
    PROVE  /\ Len(prs') = Len(prs)
           /\ \A k \in 1 .. Len(prs) : prs'[k].state = "open" => prs[k].state = "open"
           /\ \A i \in 1 .. Len(rows') : rows'[i].pr # 0 =>
                 i \in 1 .. Len(rows) /\ rows'[i].pr = rows[i].pr
<1>1. Shape /\ Fit
  BY DEF DeliveryInv
<1>2. PullsGrow /\ Len(prs') = Len(prs)
  <2>1. CASE MarkReady \/ RequestChanges \/ Close \/ Merge
    BY <1>1, <2>1, MarksDo
  <2>2. CASE ~(MarkReady \/ RequestChanges \/ Close \/ Merge)
    <3>1. ASSUME NEW p \in Jobs,
                 \/ PackageRaises(p) \/ PackageRefuses(p) \/ PackageBuilds(p)
                 \/ PushWithLease(p) \/ LeaseRejected(p) \/ RecordPush(p)
                 \/ UnpackagedBuilds(p) \/ UnpackagedRefuses(p) \/ Kill(p)
          PROVE  prs' = prs
      BY <3>1 DEF PackageRaises, PackageRefuses, PackageBuilds, PushWithLease,
         LeaseRejected, RecordPush, UnpackagedBuilds, UnpackagedRefuses, Kill, Squash
    <3>2. CASE \/ StartCell \/ EndCell \/ StartCommand \/ ForeignPush \/ StartScan
               \/ ScanRow \/ EndScan \/ UNCHANGED vars
      <4>1. prs' = prs
        BY <3>2 DEF StartCell, EndCell, StartCommand, ForeignPush, StartScan, ScanRow,
           EndScan, vars
      <4> QED
        BY <1>1, <4>1, NothingGrew
    <3>3. prs' = prs => PullsGrow /\ Len(prs') = Len(prs)
      BY <1>1, NothingGrew
    <3> QED
      BY <2>2, <3>1, <3>2, <3>3 DEF Next
  <2> QED
    BY <2>1, <2>2
<1>3. \A k \in 1 .. Len(prs) : prs'[k].state = "open" => prs[k].state = "open"
  BY <1>2 DEF PullsGrow
<1>4. ASSUME NEW i \in 1 .. Len(rows'), rows'[i].pr # 0
      PROVE  i \in 1 .. Len(rows) /\ rows'[i].pr = rows[i].pr
  <2>1. NewRow.pr = 0
    BY DEF NewRow
  <2> QED
    BY <1>4, <2>1, RowMoves DEF ScanWrites
<1> QED
  BY <1>2, <1>3, <1>4

(* push_unpackaged_work alone leaves the cell pushing unpackaged. *)
LEMMA BuiltUnpackaged ==
    ASSUME DeliveryInv, [Next]_vars,
           job'["cell"].at = "pushing", ~job'["cell"].opens
    PROVE  \/ job'["cell"] = job["cell"]
           \/ UnpackagedBuilds("cell")
<1>1. Shape /\ Fit /\ JobsFit /\ "cell" \in Jobs /\ NoJob.at = "idle"
  BY IdleHasNone DEF DeliveryInv, Fit, Jobs
<1> DEFINE Ended(p) ==
             /\ \A q \in Jobs : q # p => job'[q] = job[q]
             /\ \/ job'[p] = NoJob
                \/ job'[p] = [job[p] EXCEPT !.at = "unpackaged"]
<1>2. ASSUME NEW p \in Jobs, Ended(p) PROVE job'["cell"] = job["cell"]
  <2>1. job[p] \in Work
    BY <1>1, Elements
  <2>2. job'[p].at # "pushing"
    BY <1>1, <1>2, <2>1 DEF Work
  <2> QED
    BY <1>1, <1>2, <2>2
<1>3. ASSUME NEW p \in Jobs, NEW s, NEW n, NEW k, Settle(p, s, n, k) \/ Raise(p)
      PROVE  Ended(p)
  <2>1. CASE Settle(p, s, n, k)
    BY <1>1, <2>1, SettleEnds
  <2>2. CASE Raise(p)
    BY <1>1, <2>2, RaiseEnds
  <2> QED
    BY <1>3, <2>1, <2>2
<1>4. ASSUME NEW p \in Jobs, job' = [job EXCEPT ![p] = NoJob] PROVE Ended(p)
  BY <1>1, <1>4, GivesUp
<1>5. ASSUME NEW p \in Jobs, PackageRaises(p) \/ PackageRefuses(p) PROVE Ended(p)
  <2>1. Settle(p, "MERGE_FAILED", 0, 0) \/ Raise(p)
    BY <1>5 DEF PackageRaises, PackageRefuses
  <2> QED
    BY <1>3, <2>1
<1>6. ASSUME NEW p \in Jobs, LeaseRejected(p) PROVE Ended(p)
  <2>1. Settle(p, "MERGE_FAILED", 0, 0) \/ job' = [job EXCEPT ![p] = NoJob]
    BY <1>6 DEF LeaseRejected
  <2> QED
    BY <1>3, <1>4, <2>1
<1>7. ASSUME NEW p \in Jobs, UnpackagedRefuses(p) \/ Kill(p) PROVE Ended(p)
  BY <1>4, <1>7 DEF UnpackagedRefuses, Kill
<1>8. ASSUME NEW p \in Jobs, OpenDraftPr(p) PROVE Ended(p)
  <2>1. PICK k \in 1 .. Len(prs') :
          Settle(p, "READY_FOR_REVIEW", job[p].commit, k) \/ Raise(p)
    BY <1>1, <1>8, OpenDoes
  <2> HIDE DEF Ended
  <2> QED
    BY <1>3, <2>1
<1>9. ASSUME NEW p \in Jobs, PushWithLease(p) PROVE job'["cell"] = job["cell"]
  <2>1. job'[p].at = "recording" /\ \A q \in Jobs : q # p => job'[q] = job[q]
    BY <1>1, <1>9, PushDoes
  <2> QED
    BY <1>1, <2>1
<1>10. ASSUME NEW p \in Jobs, RecordPush(p) PROVE job'["cell"] = job["cell"]
  <2>1. job[p].row \in 1 .. Len(rows)
    BY <1>1, <1>10, AtWork DEF RecordPush
  <2>2. /\ job'[p] = NoJob \/ job'[p].at = "opening"
        /\ \A q \in Jobs : q # p => job'[q] = job[q]
    BY <1>1, <1>10, <2>1, RecordDoes
  <2> QED
    BY <1>1, <2>2
<1>11. ASSUME NEW p \in Jobs, PackageBuilds(p) PROVE job'["cell"] = job["cell"]
  <2>1. Squash(p, TRUE)
    BY <1>11 DEF PackageBuilds
  <2>2. job'[p].opens = TRUE /\ \A q \in Jobs : q # p => job'[q] = job[q]
    BY <1>1, <2>1, SquashDoes
  <2> QED
    BY <1>1, <2>2
<1>12. ASSUME NEW p \in Jobs, UnpackagedBuilds(p)
       PROVE  job'["cell"] = job["cell"] \/ UnpackagedBuilds("cell")
  <2>1. CASE p = "cell"
    BY <1>12, <2>1
  <2>2. CASE p # "cell"
    <3>1. Squash(p, FALSE)
      BY <1>12 DEF UnpackagedBuilds
    <3>2. \A q \in Jobs : q # p => job'[q] = job[q]
      BY <1>1, <3>1, SquashDoes
    <3> QED
      BY <1>1, <2>2, <3>2
  <2> QED
    BY <2>1, <2>2
<1>13. CASE \/ StartCell \/ EndCell \/ StartCommand
  BY <1>1, <1>13, StartCellDoes, EndCellDoes, StartCommandDoes
<1>14. CASE \/ ForeignPush \/ MarkReady \/ RequestChanges \/ Close \/ Merge \/ StartScan
            \/ ScanRow \/ EndScan \/ UNCHANGED vars
  BY <1>14 DEF ForeignPush, MarkReady, RequestChanges, Close, Merge, StartScan, ScanRow,
     EndScan, vars
<1> HIDE DEF Ended
<1>15. ASSUME NEW p \in Jobs,
              \/ PackageRaises(p) \/ PackageRefuses(p) \/ PackageBuilds(p)
              \/ PushWithLease(p) \/ LeaseRejected(p) \/ RecordPush(p) \/ OpenDraftPr(p)
              \/ UnpackagedBuilds(p) \/ UnpackagedRefuses(p) \/ Kill(p)
       PROVE  job'["cell"] = job["cell"] \/ UnpackagedBuilds("cell")
  BY <1>2, <1>5, <1>6, <1>7, <1>8, <1>9, <1>10, <1>11, <1>12, <1>15
<1> QED
  BY <1>13, <1>14, <1>15 DEF Next

LEMMA UnpackagedStep ==
    ASSUME DeliveryInv, [Next]_vars, UnpackagedFits
    PROVE  UnpackagedFits'
<1> SUFFICES ASSUME job'["cell"].at = "pushing", ~job'["cell"].opens
             PROVE  /\ job'["command"] = NoJob
                    /\ job'["cell"].expect # 0 => commits'[job'["cell"].expect] # 0
                    /\ \A k \in Open' : \A i \in 1 .. Len(rows') : rows'[i].pr # k
  BY DEF UnpackagedFits, NoJob
<1>1. /\ Shape /\ Fit /\ JobsFit /\ RowsFit /\ Shape' /\ Grows
      /\ "cell" \in Jobs /\ "command" \in Jobs
  BY ShapeStep, GrowsStep DEF DeliveryInv, Fit, Jobs
<1>2. Open \subseteq 1 .. Len(prs) /\ Open' \subseteq 1 .. Len(prs')
  BY DEF Open
<1>3. CASE job'["cell"] = job["cell"]
  <2>1. /\ job["cell"].at = "pushing" /\ ~job["cell"].opens
        /\ job["command"] = NoJob
        /\ job["cell"].expect # 0 => commits[job["cell"].expect] # 0
        /\ \A k \in Open : \A i \in 1 .. Len(rows) : rows[i].pr # k
    BY <1>3 DEF UnpackagedFits
  <2>2. /\ CellFits /\ JobFits("cell") /\ job["cell"] \in Work
        /\ rows[Len(rows)].state = "EXHAUSTED"
    <3>1. CellFits /\ JobFits("cell") /\ job["cell"] \in Work
      BY <1>1, <2>1, AtWork
    <3> QED
      BY <2>1, <3>1 DEF CellFits
  <2>3. ~StartCommand
    BY <1>1, <2>2, StartCommandDoes
  <2>4. job'["command"] = NoJob
    <3>1. CASE ScanRow \/ EndScan
      BY <2>1, <3>1 DEF ScanRow, EndScan
    <3>2. CASE ~ScanRow /\ ~EndScan
      BY <1>1, <2>1, <2>3, <3>2, OwnRowOnly
    <3> QED
      BY <3>1, <3>2
  <2>5. job["cell"].expect \in Nat /\ job["cell"].expect <= Len(commits)
    BY <2>2 DEF JobFits, Work
  <2>6. job'["cell"].expect # 0 => commits'[job'["cell"].expect] # 0
    BY <1>1, <1>3, <2>1, <2>5, Elements DEF Grows
  <2>7. \A p \in Jobs : ~OpenDraftPr(p)
    BY <2>1, IdleHasNone DEF OpenDraftPr, Jobs
  <2>8. \A k \in Open' : k \in Open /\ k # 0
    BY <1>2, <2>7, NothingOpens DEF Open
  <2>9. \A i \in 1 .. Len(rows') : rows'[i].pr # 0 =>
          i \in 1 .. Len(rows) /\ rows'[i].pr = rows[i].pr
    BY <2>7, NothingOpens
  <2> QED
    BY <2>1, <2>4, <2>6, <2>8, <2>9
<1>4. CASE UnpackagedBuilds("cell")
  <2> DEFINE r == job["cell"].row
  <2>1. Squash("cell", FALSE) /\ MayReplace(r) /\ job["cell"].at = "unpackaged"
    BY <1>4 DEF UnpackagedBuilds
  <2>2. r \in 1 .. Len(rows) /\ job["cell"] # NoJob
    BY <1>1, <2>1, AtWork
  <2>3. job["command"] = NoJob
    <3>1. SUFFICES ASSUME job["command"] # NoJob PROVE FALSE
      OBVIOUS
    <3>2. /\ job["command"].row # r /\ job["command"].row \in 1 .. Len(rows)
          /\ rows[job["command"].row].state = "READY_FOR_REVIEW"
      BY <1>1, <2>2, <3>1, RowsApart DEF JobsFit, CommandFits, JobFits
    <3> QED
      BY <2>1, <3>2 DEF MayReplace, KeepsBranch
  <2>4. job'["command"] = job["command"] /\ job'["cell"].expect = branch
    BY <1>1, <2>1, SquashDoes
  <2>5. /\ rows' = rows /\ prs' = prs
        /\ \A k \in 1 .. Len(commits) : commits'[k] = commits[k]
    BY <1>1, <2>1 DEF Squash, Grows
  <2>6. branch # 0 => commits'[branch] # 0
    <3>1. SUFFICES ASSUME branch # 0 PROVE commits'[branch] # 0
      OBVIOUS
    <3>2. PICK i \in 1 .. Len(rows) : branch = rows[i].pushed
      BY <2>1, <3>1 DEF MayReplace, Recorded
    <3>3. branch \in 1 .. Len(commits)
      BY <1>1, <3>1, Elements, SMTT(30) DEF Shape
    <3> QED
      BY <1>1, <2>5, <3>1, <3>2, <3>3 DEF RowsFit, RowFits
  <2>7. ASSUME NEW k \in Open, NEW i \in 1 .. Len(rows), rows[i].pr = k PROVE FALSE
    <3>1. k # 0 /\ prs[k].state = "open"
      BY <1>2, <2>7 DEF Open
    <3>2. i # r
      BY <2>1, <2>7, <3>1 DEF MayReplace
    <3>3. rows[i].state \in Pending \union MergeOnly
      BY <1>1, <2>7, <3>1 DEF RowsFit, RowFits
    <3> QED
      BY <2>1, <2>7, <3>1, <3>2, <3>3 DEF MayReplace, KeepsBranch, Pending, MergeOnly
  <2>8. Open' = Open
    BY <2>5 DEF Open
  <2> QED
    BY <2>3, <2>4, <2>5, <2>6, <2>7, <2>8
<1> QED
  BY <1>3, <1>4, BuiltUnpackaged

(* The lease is what holds it: the push of unpackaged work goes through only *)
(* over the head its guards read.                                           *)
LEMMA PushedOverExpected ==
    ASSUME DeliveryInv, [Next]_vars, NEW p \in Jobs, UnpackagedPush(p)
    PROVE  p = "cell" /\ branch = job["cell"].expect
<1>1. Shape /\ Fit /\ JobsFit /\ job[p].at = "pushing" /\ ~job[p].opens
  BY DEF DeliveryInv, Fit, UnpackagedPush
<1>2. JobFits(p) /\ job[p] \in Work
  BY <1>1, AtWork
<1>3. p = "cell"
  BY <1>1, AtWork DEF CommandFits, Jobs
<1>4. /\ branch \in Nat /\ Len(commits) \in Nat /\ job[p].commit \in Nat
      /\ job[p].commit <= Len(commits) /\ branch # job[p].commit /\ job[p].commit # 0
  BY <1>1, <1>2, Elements DEF JobFits, Work
<1>5. branch' # branch /\ branch' = job[p].commit
  BY <1>4 DEF UnpackagedPush
<1>6. ~ForeignPush /\ ~Merge
  BY <1>4, <1>5 DEF ForeignPush, Merge
<1>7. ASSUME NEW q \in Jobs,
             \/ PackageRaises(q) \/ PackageRefuses(q) \/ PackageBuilds(q)
             \/ LeaseRejected(q) \/ RecordPush(q) \/ OpenDraftPr(q)
             \/ UnpackagedBuilds(q) \/ UnpackagedRefuses(q) \/ Kill(q)
      PROVE  FALSE
  BY <1>5, <1>7 DEF PackageRaises, PackageRefuses, PackageBuilds, LeaseRejected,
     RecordPush, OpenDraftPr, UnpackagedBuilds, UnpackagedRefuses, Kill, Squash
<1>8. ~ \/ StartCell \/ EndCell \/ StartCommand \/ MarkReady \/ RequestChanges \/ Close
        \/ StartScan \/ ScanRow \/ EndScan \/ UNCHANGED vars
  BY <1>5 DEF StartCell, EndCell, StartCommand, MarkReady, RequestChanges, Close,
     StartScan, ScanRow, EndScan, vars
<1>9. PICK q \in Jobs : PushWithLease(q)
  BY <1>6, <1>7, <1>8 DEF Next
<1>10. job[q].at = "pushing" /\ branch = job[q].expect /\ branch' = job[q].commit
  BY <1>9 DEF PushWithLease
<1>11. q = "cell"
  BY <1>1, <1>3, <1>5, <1>10 DEF JobsFit, Jobs
<1> QED
  BY <1>3, <1>10, <1>11

(* Work pushed unpackaged replaces neither a head an operator pushed, even    *)
(* one pushed after the guards read the remote, nor the branch of an open     *)
(* pull request some row carries.                                           *)
THEOREM OthersHeadIsKept == Spec => OthersHeadStands
<1>1. Init => UnpackagedFits
  BY IdleHasNone DEF Init, UnpackagedFits, Jobs
<1>2. DeliveryInv /\ UnpackagedFits /\ [Next]_vars => UnpackagedFits'
  BY UnpackagedStep
<1>3. DeliveryInv /\ UnpackagedFits /\ [Next]_vars =>
        [\A p \in Jobs : UnpackagedPush(p) =>
            /\ branch # 0 => commits[branch] # 0
            /\ \A k \in Open : \A i \in 1 .. Len(rows) : rows[i].pr # k]_vars
  <2> SUFFICES ASSUME DeliveryInv, UnpackagedFits, [Next]_vars,
                      NEW p \in Jobs, UnpackagedPush(p)
               PROVE  /\ branch # 0 => commits[branch] # 0
                      /\ \A k \in Open : \A i \in 1 .. Len(rows) : rows[i].pr # k
    OBVIOUS
  <2>1. p = "cell" /\ branch = job["cell"].expect
    BY PushedOverExpected
  <2> QED
    BY <2>1 DEF UnpackagedFits, UnpackagedPush
<1> QED
  BY <1>1, <1>2, <1>3, DeliveryAlways, PTL DEF Spec, OthersHeadStands
-----------------------------------------------------------------------------
(* One process of the spec at a time. *)

OneJob == \E p \in Jobs : job[p] = NoJob

(* The directory's baseline is the newest cell's; the command has a row      *)
(* because the patch there was its cell's.                                  *)
DirFits ==
    /\ dir.patch <= Len(rows) /\ dir.baseline = Len(rows)
    /\ job["command"] # NoJob => dir.patch = job["command"].row

LEMMA OneJobStep ==
    ASSUME "together" \notin Mishaps, DeliveryInv, [Next]_vars, OneJob
    PROVE  OneJob'
<1>1. Shape /\ Fit /\ "cell" \in Jobs /\ "command" \in Jobs
  BY DEF DeliveryInv, Jobs
<1> SUFFICES job'["cell"] = NoJob \/ job'["command"] = NoJob
  BY <1>1 DEF OneJob, NoJob
<1>2. job["cell"] = NoJob \/ job["command"] = NoJob
  BY DEF OneJob, Jobs
<1>3. CASE ScanRow \/ EndScan
  BY <1>2, <1>3 DEF ScanRow, EndScan
<1>4. CASE StartCell
  <2>1. job["command"] = NoJob
    BY <1>1, <1>4 DEF StartCell, Alone, Jobs
  <2> QED
    BY <1>1, <1>4, <2>1, StartCellDoes
<1>5. CASE StartCommand
  <2>1. job["cell"] = NoJob
    BY <1>1, <1>5 DEF StartCommand, Alone, Jobs
  <2> QED
    BY <1>1, <1>5, <2>1, StartCommandDoes
<1> QED
  BY <1>1, <1>2, <1>3, <1>4, <1>5, OwnRowOnly

(* The command's process keeps its row, and builds its commit but once. *)
CommandKeeps ==
    \/ job'["command"] = NoJob
    \/ StartCommand
    \/ /\ job["command"] # NoJob
       /\ job'["command"].row = job["command"].row
       /\ \/ job'["command"].commit = job["command"].commit
          \/ PackageBuilds("command")

LEMMA CommandStep ==
    ASSUME DeliveryInv, [Next]_vars
    PROVE  CommandKeeps
<1>1. Shape /\ Fit /\ JobsFit /\ "cell" \in Jobs /\ "command" \in Jobs
  BY DEF DeliveryInv, Fit, Jobs
<1> DEFINE Kept(p) ==
             /\ \A q \in Jobs : q # p => job'[q] = job[q]
             /\ \/ job'[p] = NoJob
                \/ /\ job'[p].row = job[p].row
                   /\ job'[p].commit = job[p].commit \/ PackageBuilds(p)
<1>2. ASSUME job["command"] = NoJob, ~StartCommand PROVE job'["command"] = NoJob
  <2>1. CASE ScanRow \/ EndScan
    BY <1>2, <2>1 DEF ScanRow, EndScan
  <2> QED
    BY <1>1, <1>2, <2>1, OwnRowOnly
<1>3. ASSUME NEW p \in Jobs, Kept(p), job["command"] # NoJob PROVE CommandKeeps
  BY <1>1, <1>3 DEF CommandKeeps
<1>4. ASSUME NEW p \in Jobs, NEW s, NEW n, NEW k, Settle(p, s, n, k) \/ Raise(p)
      PROVE  Kept(p)
  <2>1. job[p] \in Work
    BY <1>1, Elements
  <2>2. /\ \A q \in Jobs : q # p => job'[q] = job[q]
        /\ job'[p] = NoJob \/ job'[p] = [job[p] EXCEPT !.at = "unpackaged"]
    <3>1. CASE Settle(p, s, n, k)
      BY <1>1, <3>1, SettleEnds
    <3>2. CASE Raise(p)
      BY <1>1, <3>2, RaiseEnds
    <3> QED
      BY <1>4, <3>1, <3>2
  <2> QED
    BY <2>1, <2>2 DEF Work
<1>5. ASSUME NEW p \in Jobs, job' = [job EXCEPT ![p] = NoJob] PROVE Kept(p)
  BY <1>1, <1>5, GivesUp
<1>6. ASSUME NEW p \in Jobs, PackageRaises(p) \/ PackageRefuses(p) PROVE Kept(p)
  <2>1. Settle(p, "MERGE_FAILED", 0, 0) \/ Raise(p)
    BY <1>6 DEF PackageRaises, PackageRefuses
  <2> HIDE DEF Kept
  <2> QED
    BY <1>4, <2>1
<1>7. ASSUME NEW p \in Jobs, LeaseRejected(p) PROVE Kept(p)
  <2>1. Settle(p, "MERGE_FAILED", 0, 0) \/ job' = [job EXCEPT ![p] = NoJob]
    BY <1>7 DEF LeaseRejected
  <2> HIDE DEF Kept
  <2> QED
    BY <1>4, <1>5, <2>1
<1>8. ASSUME NEW p \in Jobs, UnpackagedRefuses(p) \/ Kill(p) PROVE Kept(p)
  <2> HIDE DEF Kept
  <2> QED
    BY <1>5, <1>8 DEF UnpackagedRefuses, Kill
<1>9. ASSUME NEW p \in Jobs, OpenDraftPr(p) PROVE Kept(p)
  <2>1. PICK k \in 1 .. Len(prs') :
          Settle(p, "READY_FOR_REVIEW", job[p].commit, k) \/ Raise(p)
    BY <1>1, <1>9, OpenDoes
  <2> HIDE DEF Kept
  <2> QED
    BY <1>4, <2>1
<1>10. ASSUME NEW p \in Jobs, PushWithLease(p) PROVE Kept(p)
  BY <1>1, <1>10, PushDoes
<1>11. ASSUME NEW p \in Jobs, RecordPush(p) PROVE Kept(p)
  <2>1. job[p].row \in 1 .. Len(rows)
    BY <1>1, <1>11, AtWork DEF RecordPush
  <2> QED
    BY <1>1, <1>11, <2>1, RecordDoes
<1>12. ASSUME NEW p \in Jobs, PackageBuilds(p) PROVE Kept(p)
  <2>1. Squash(p, TRUE)
    BY <1>12 DEF PackageBuilds
  <2>2. job'[p].row = job[p].row /\ \A q \in Jobs : q # p => job'[q] = job[q]
    BY <1>1, <2>1, SquashDoes
  <2> QED
    BY <1>12, <2>2
<1>13. ASSUME NEW p \in Jobs, UnpackagedBuilds(p) PROVE CommandKeeps
  <2>1. job[p].at = "unpackaged" /\ Squash(p, FALSE)
    BY <1>13 DEF UnpackagedBuilds
  <2>2. p = "cell"
    BY <1>1, <2>1, AtWork DEF CommandFits, Jobs
  <2>3. job'["command"] = job["command"]
    BY <1>1, <2>1, <2>2, SquashDoes
  <2> QED
    BY <2>3 DEF CommandKeeps
<1>14. CASE StartCell \/ EndCell
  <2>1. job'["command"] = job["command"]
    BY <1>1, <1>14, StartCellDoes, EndCellDoes
  <2> QED
    BY <2>1 DEF CommandKeeps
<1>15. CASE \/ ForeignPush \/ MarkReady \/ RequestChanges \/ Close \/ Merge \/ StartScan
            \/ ScanRow \/ EndScan \/ UNCHANGED vars
  <2>1. job' = job
    BY <1>15 DEF ForeignPush, MarkReady, RequestChanges, Close, Merge, StartScan, ScanRow,
       EndScan, vars
  <2> QED
    BY <2>1 DEF CommandKeeps
<1>16. CASE StartCommand
  BY <1>16 DEF CommandKeeps
<1> HIDE DEF Kept
<1>17. ASSUME NEW p \in Jobs, job["command"] # NoJob,
              \/ PackageRaises(p) \/ PackageRefuses(p) \/ PackageBuilds(p)
              \/ PushWithLease(p) \/ LeaseRejected(p) \/ RecordPush(p) \/ OpenDraftPr(p)
              \/ UnpackagedBuilds(p) \/ UnpackagedRefuses(p) \/ Kill(p)
       PROVE  CommandKeeps
  BY <1>3, <1>6, <1>7, <1>8, <1>9, <1>10, <1>11, <1>12, <1>13, <1>17
<1>18. CASE job["command"] = NoJob
  BY <1>2, <1>16, <1>18 DEF CommandKeeps
<1> QED
  BY <1>14, <1>15, <1>16, <1>17, <1>18 DEF Next

(* Only a cell starts with the directory, and only it leaves a patch there. *)
LEMMA DirStep ==
    ASSUME DeliveryInv, [Next]_vars, OneJob, DirFits
    PROVE  DirFits'
<1>1. /\ Shape /\ Fit /\ JobsFit /\ Len(rows) \in Nat /\ dir.patch \in Nat
      /\ "cell" \in Jobs /\ "command" \in Jobs
  BY Elements DEF DeliveryInv, Fit, Shape, Jobs
<1>2. dir.patch <= Len(rows) /\ dir.baseline = Len(rows)
  BY DEF DirFits
<1>3. job["cell"] # NoJob => job["command"] = NoJob
  BY DEF OneJob, Jobs
<1>4. CASE StartCell
  <2>1. /\ Len(rows') = Len(rows) + 1 /\ dir'.patch = dir.patch
        /\ dir'.baseline = Len(rows) + 1 /\ job'["command"] = job["command"]
    <3>1. dir' = [dir EXCEPT !.baseline = Len(rows) + 1]
      BY <1>4 DEF StartCell
    <3>2. dir'.patch = dir.patch /\ dir'.baseline = Len(rows) + 1
      BY <1>1, <3>1 DEF Shape
    <3> QED
      BY <1>1, <1>4, <3>2, StartCellDoes
  <2> QED
    BY <1>1, <1>2, <2>1 DEF DirFits, NoJob
<1>5. CASE EndCell
  <2>1. /\ job["cell"].row \in 1 .. Len(rows) /\ Len(rows') = Len(rows)
        /\ dir'.baseline = dir.baseline /\ dir'.patch \in {dir.patch, job["cell"].row}
        /\ job'["command"] = job["command"]
    BY <1>1, <1>5, EndCellDoes
  <2>2. job["command"] = NoJob
    BY <1>1, <1>3, <1>5, AtWork DEF EndCell
  <2> QED
    BY <1>1, <1>2, <2>1, <2>2 DEF DirFits, NoJob
<1>6. CASE StartCommand
  <2>1. /\ dir.patch >= dir.baseline /\ job'["command"].row = Len(rows)
        /\ rows' = rows /\ dir' = dir
    BY <1>1, <1>6, StartCommandDoes DEF StartCommand
  <2> QED
    BY <1>1, <1>2, <2>1 DEF DirFits
<1>7. CASE ~StartCell /\ ~EndCell /\ ~StartCommand
  <2>1. dir' = dir
    <3>1. ASSUME NEW p \in Jobs,
                 \/ PackageRaises(p) \/ PackageRefuses(p) \/ PackageBuilds(p)
                 \/ PushWithLease(p) \/ LeaseRejected(p) \/ RecordPush(p) \/ OpenDraftPr(p)
                 \/ UnpackagedBuilds(p) \/ UnpackagedRefuses(p) \/ Kill(p)
          PROVE  dir' = dir
      BY <3>1 DEF PackageRaises, PackageRefuses, PackageBuilds, PushWithLease,
         LeaseRejected, RecordPush, OpenDraftPr, UnpackagedBuilds, UnpackagedRefuses, Kill,
         Squash
    <3>2. CASE \/ ForeignPush \/ MarkReady \/ RequestChanges \/ Close \/ Merge
               \/ StartScan \/ ScanRow \/ EndScan \/ UNCHANGED vars
      BY <3>2 DEF ForeignPush, MarkReady, RequestChanges, Close, Merge, StartScan, ScanRow,
         EndScan, vars
    <3> QED
      BY <1>7, <3>1, <3>2 DEF Next
  <2>2. Len(rows') = Len(rows)
    BY <1>1, <1>7, OwnRowOnly, ScanRowDoes, EndScanDoes DEF ScanWrites
  <2>3. job'["command"] # NoJob =>
          job["command"] # NoJob /\ job'["command"].row = job["command"].row
    BY <1>7, CommandStep DEF CommandKeeps
  <2> QED
    BY <1>2, <2>1, <2>2, <2>3 DEF DirFits, NoJob
<1> QED
  BY <1>4, <1>5, <1>6, <1>7

LEMMA FreshStep ==
    ASSUME DeliveryInv, [Next]_vars, OneJob, DirFits, ReadyTaskIsFresh
    PROVE  ReadyTaskIsFresh'
<1> DEFINE j == job["command"]
<1> SUFFICES ASSUME job'["command"].commit # 0
             PROVE  commits'[job'["command"].commit] = job'["command"].row
  BY DEF ReadyTaskIsFresh
<1>1. Shape /\ Fit /\ JobsFit /\ Grows /\ Len(commits) \in Nat /\ "command" \in Jobs
  BY GrowsStep, Elements DEF DeliveryInv, Fit, Jobs
<1>2. job'["command"] # NoJob /\ ~StartCommand
  BY <1>1, IdleHasNone, StartCommandDoes
<1>3. j # NoJob /\ job'["command"].row = j.row
  BY <1>2, CommandStep DEF CommandKeeps
<1>4. CASE job'["command"].commit = j.commit
  <2>1. j.commit \in 1 .. Len(commits)
    BY <1>1, <1>3, <1>4, Elements DEF JobsFit, JobFits, Work
  <2> QED
    BY <1>1, <1>3, <1>4, <2>1 DEF ReadyTaskIsFresh, Grows
<1>5. CASE PackageBuilds("command")
  <2>1. Squash("command", TRUE)
    BY <1>5 DEF PackageBuilds
  <2>2. job'["command"].commit = Len(commits) + 1 /\ commits'[Len(commits) + 1] = dir.patch
    BY <1>1, <2>1, SquashDoes
  <2> QED
    BY <1>3, <2>2 DEF DirFits
<1> QED
  BY <1>2, <1>4, <1>5, CommandStep DEF CommandKeeps

(* `saffron package` packages the patch of the cell whose row it ships: with *)
(* one process of the spec at a time, ready_task's ages suffice, whatever    *)
(* kills, failed exports and failed cells left in the task directory.       *)
THEOREM CommandPackagesItsOwn ==
    ASSUME "together" \notin Mishaps
    PROVE  Spec => []ReadyTaskIsFresh
<1>1. Init => OneJob /\ DirFits /\ ReadyTaskIsFresh
  BY IdleHasNone, EmptySeq DEF Init, OneJob, DirFits, ReadyTaskIsFresh, Jobs
<1>2. DeliveryInv /\ OneJob /\ DirFits /\ ReadyTaskIsFresh /\ [Next]_vars =>
        (OneJob /\ DirFits /\ ReadyTaskIsFresh)'
  BY OneJobStep, DirStep, FreshStep
<1> QED
  BY <1>1, <1>2, DeliveryAlways, PTL DEF Spec
-----------------------------------------------------------------------------
(* What the operator saw. *)

OneOpen == \A k, l \in Open : k = l

(* Where the branch's head is by the pushes made: under an open pull request *)
(* it is there, and a push past its lease is at it or under it.             *)
HeadFits ==
    /\ Open # {} => branch # 0
    /\ \A p \in Jobs : job[p].at \in {"recording", "opening"} =>
                         branch = 0 \/ job[p].commit <= branch

(* What a row with a pull request pushed: still at the head or under it, and *)
(* seen by whoever marked the pull request ready.                           *)
SeenFits(row) ==
    row.pr # 0 =>
        /\ prs[row.pr].state = "open" => row.pushed <= branch
        /\ prs[row.pr].draft \/ row.pushed <= prs[row.pr].readied

SeenFit == \A i \in 1 .. Len(rows) : SeenFits(rows[i])

(* What a step makes of a pull request: only an operator takes it out of     *)
(* draft, over the head there is.                                           *)
LEMMA PullMoves ==
    ASSUME DeliveryInv, [Next]_vars, NEW k \in 1 .. Len(prs)
    PROVE  /\ k \in 1 .. Len(prs')
           /\ prs'[k].state = "open" => prs[k].state = "open"
           /\ \/ /\ prs'[k].readied = prs[k].readied
                 /\ prs[k].draft => prs'[k].draft
              \/ /\ MarkReady /\ prs[k].state = "open"
                 /\ prs'[k].readied = branch
<1>1. /\ Shape /\ Fit /\ Shape' /\ PullsGrow
      /\ Len(prs) \in Nat /\ Len(prs') \in Nat
  BY ShapeStep, GrowsStep, LenProperties DEF DeliveryInv, Shape, Grows
<1>2. k \in 1 .. Len(prs') /\ (prs[k].state # "open" => prs'[k] = prs[k])
  BY <1>1 DEF PullsGrow
<1>3. CASE MarkReady \/ RequestChanges \/ Close \/ Merge
  <2>1. PICK l \in Open :
          /\ \A m \in 1 .. Len(prs) : m # l => prs'[m] = prs[m]
          /\ \/ MarkReady /\ prs'[l].state = "open" /\ prs'[l].readied = branch
             \/ prs'[l].draft = prs[l].draft /\ prs'[l].readied = prs[l].readied
    BY <1>1, <1>3, MarksDo
  <2>2. prs[l].state = "open"
    BY <1>1, OpenIsAPull
  <2> QED
    BY <1>2, <2>1, <2>2
<1>4. ASSUME NEW p \in Jobs, OpenDraftPr(p)
      PROVE  prs'[k].readied = prs[k].readied /\ (prs[k].draft => prs'[k].draft)
  <2>1. PICK l \in 1 .. Len(prs') :
          /\ prs'[l].draft = TRUE
          /\ l = Len(prs) + 1 \/ prs'[l].readied = prs[l].readied
          /\ \A m \in 1 .. Len(prs) : m # l => prs'[m] = prs[m]
    BY <1>1, <1>4, OpenDoes
  <2> QED
    BY <1>1, <2>1
<1>5. ASSUME NEW p \in Jobs,
             \/ PackageRaises(p) \/ PackageRefuses(p) \/ PackageBuilds(p)
             \/ PushWithLease(p) \/ LeaseRejected(p) \/ RecordPush(p)
             \/ UnpackagedBuilds(p) \/ UnpackagedRefuses(p) \/ Kill(p)
      PROVE  prs' = prs
  BY <1>5 DEF PackageRaises, PackageRefuses, PackageBuilds, PushWithLease,
     LeaseRejected, RecordPush, UnpackagedBuilds, UnpackagedRefuses, Kill, Squash
<1>6. CASE \/ StartCell \/ EndCell \/ StartCommand \/ ForeignPush \/ StartScan
           \/ ScanRow \/ EndScan \/ UNCHANGED vars
  <2>1. prs' = prs
    BY <1>6 DEF StartCell, EndCell, StartCommand, ForeignPush, StartScan, ScanRow,
       EndScan, vars
  <2> QED
    BY <1>2, <2>1
<1> QED
  BY <1>2, <1>3, <1>4, <1>5, <1>6 DEF Next

(* What a step makes of the branch. *)
LEMMA HeadMoves ==
    ASSUME DeliveryInv, [Next]_vars
    PROVE  \/ branch' = branch
           \/ /\ branch < branch' /\ prs' = prs /\ rows' = rows
              /\ ForeignPush \/ \E p \in Jobs : PushWithLease(p)
           \/ Merge /\ branch' = 0
<1>1. /\ Shape /\ Fit /\ JobsFit /\ branch \in Nat /\ Len(commits) \in Nat
      /\ branch <= Len(commits)
  BY Elements DEF DeliveryInv, Fit, Shape
<1>2. CASE ForeignPush
  BY <1>1, <1>2 DEF ForeignPush
<1>3. ASSUME NEW p \in Jobs, PushWithLease(p)
      PROVE  branch < branch' /\ prs' = prs /\ rows' = rows
  <2>1. JobFits(p) /\ job[p].at = "pushing"
    BY <1>1, <1>3, AtWork DEF PushWithLease
  <2> QED
    BY <1>3, <2>1 DEF PushWithLease, JobFits
<1>4. CASE Merge
  BY <1>4 DEF Merge
<1>5. CASE \/ StartCell \/ EndCell \/ StartCommand \/ MarkReady \/ RequestChanges
           \/ Close \/ StartScan \/ ScanRow \/ EndScan \/ UNCHANGED vars
  BY <1>5 DEF StartCell, EndCell, StartCommand, MarkReady, RequestChanges, Close,
     StartScan, ScanRow, EndScan, vars
<1>6. ASSUME NEW p \in Jobs,
             \/ PackageRaises(p) \/ PackageRefuses(p) \/ PackageBuilds(p)
             \/ LeaseRejected(p) \/ RecordPush(p) \/ OpenDraftPr(p)
             \/ UnpackagedBuilds(p) \/ UnpackagedRefuses(p) \/ Kill(p)
      PROVE  branch' = branch
  BY <1>6 DEF PackageRaises, PackageRefuses, PackageBuilds, LeaseRejected, RecordPush,
     OpenDraftPr, UnpackagedBuilds, UnpackagedRefuses, Kill, Squash
<1> QED
  BY <1>2, <1>3, <1>4, <1>5, <1>6 DEF Next

(* The pull request that is open, after a step. *)
LEMMA OpenStep ==
    ASSUME DeliveryInv, [Next]_vars, OneOpen
    PROVE  /\ OneOpen'
           /\ Merge => Open' = {}
           /\ Open' # {} => Open # {} \/ (branch # 0 /\ branch' = branch)
<1>1. Shape /\ Fit /\ Shape' /\ Len(prs) \in Nat /\ Len(prs') \in Nat
  BY ShapeStep, LenProperties DEF DeliveryInv, Shape
<1>2. /\ \A k \in 1 .. Len(prs) : prs[k].state = "open" <=> k \in Open
      /\ \A k \in 1 .. Len(prs') : prs'[k].state = "open" <=> k \in Open'
      /\ Open \subseteq 1 .. Len(prs) /\ Open' \subseteq 1 .. Len(prs')
  BY DEF Open
<1>3. CASE \A p \in Jobs : ~OpenDraftPr(p)
  <2>1. Open' \subseteq Open
    BY <1>2, <1>3, NothingOpens
  <2>2. ASSUME Merge PROVE Open' = {}
    <3>1. PICK k \in Open :
             prs' = [prs EXCEPT ![k].state = "merged", ![k].head = branch]
      BY <2>2 DEF Merge
    <3>2. k \in 1 .. Len(prs) /\ prs[k] \in Pull
      BY <1>1, OpenIsAPull
    <3> DEFINE pull == [prs[k] EXCEPT !.state = "merged", !.head = branch]
    <3>3. prs'[k].state = "merged"
      <4>1. prs' = [prs EXCEPT ![k] = pull]
        BY <1>1, <3>1, <3>2 DEF Shape, Pull
      <4>2. pull \in Pull /\ pull.state = "merged"
        BY <1>1, <3>2, Elements DEF Pull
      <4> HIDE DEF pull
      <4> QED
        BY <1>1, <3>2, <4>1, <4>2, PullPut
    <3>4. k \notin Open'
      BY <1>2, <3>3
    <3> QED
      BY <2>1, <3>4 DEF OneOpen
  <2> QED
    BY <2>1, <2>2 DEF OneOpen
<1>4. ASSUME NEW p \in Jobs, OpenDraftPr(p)
      PROVE  OneOpen' /\ ~Merge /\ (Open # {} \/ (branch # 0 /\ branch' = branch))
  <2>1. PICK k \in 1 .. Len(prs') :
          /\ (Open = {} /\ branch # 0 /\ k = Len(prs) + 1) \/ k \in Open
          /\ \A l \in 1 .. Len(prs) : l # k => prs'[l] = prs[l]
          /\ Len(prs') \in {Len(prs), k}
    BY <1>1, <1>4, OpenDoes
  <2>2. \A l \in Open' : l = k
    <3>1. TAKE l \in Open'
    <3>2. SUFFICES ASSUME l # k PROVE FALSE
      OBVIOUS
    <3>3. l \in 1 .. Len(prs)
      BY <1>1, <1>2, <2>1, <3>2
    <3>4. l \in Open
      BY <1>2, <2>1, <3>2, <3>3
    <3> QED
      BY <2>1, <3>2, <3>4 DEF OneOpen
  <2>3. branch' = branch
    BY <1>4 DEF OpenDraftPr
  <2>4. ~Merge
    <3>1. SUFFICES ASSUME Merge PROVE FALSE
      OBVIOUS
    <3>2. job' = job
      BY <3>1 DEF Merge
    <3>3. job'[p].at # "opening"
      <4>1. PICK m \in 1 .. Len(prs') :
              Settle(p, "READY_FOR_REVIEW", job[p].commit, m) \/ Raise(p)
        BY <1>1, <1>4, OpenDoes
      <4>2. \/ job'[p] = NoJob
            \/ job'[p] = [job[p] EXCEPT !.at = "unpackaged"]
        BY <1>1, <4>1, SettleEnds, RaiseEnds
      <4> QED
        BY <1>1, <4>2, IdleHasNone, Elements DEF Work
    <3> QED
      BY <1>4, <3>2, <3>3 DEF OpenDraftPr
  <2> QED
    BY <2>1, <2>2, <2>3, <2>4 DEF OneOpen
<1> QED
  BY <1>3, <1>4

(* A job past its lease was there before the step, or has just got there. *)
LEMMA PushedStep ==
    ASSUME DeliveryInv, [Next]_vars, NEW p \in Jobs,
           job'[p].at \in {"recording", "opening"}
    PROVE  \/ /\ job[p].at \in {"recording", "opening"}
              /\ job'[p].commit = job[p].commit
           \/ PushWithLease(p) /\ job'[p].commit = branch'
<1>1. /\ Shape /\ Fit /\ JobsFit /\ NoJob.at = "idle" /\ Jobs = {"cell", "command"}
      /\ \A q \in Jobs : job[q] \in Work
  BY IdleHasNone, Elements DEF DeliveryInv, Fit, Jobs
<1> DEFINE Was == /\ job[p].at \in {"recording", "opening"}
                  /\ job'[p].commit = job[p].commit
           Ended(q) ==
             /\ \A r \in Jobs : r # q => job'[r] = job[r]
             /\ \/ job'[q] = NoJob
                \/ job'[q] = [job[q] EXCEPT !.at = "unpackaged"]
<1>2. ASSUME NEW q \in Jobs, Ended(q) PROVE Was
  <2>1. job'[q].at \in {"idle", "unpackaged"}
    BY <1>1, <1>2 DEF Work
  <2> QED
    BY <1>2, <2>1
<1>3. ASSUME NEW q \in Jobs, NEW s, NEW n, NEW k, Settle(q, s, n, k) \/ Raise(q)
      PROVE  Ended(q)
  <2>1. CASE Settle(q, s, n, k)
    BY <1>1, <2>1, SettleEnds
  <2>2. CASE Raise(q)
    BY <1>1, <2>2, RaiseEnds
  <2> QED
    BY <1>3, <2>1, <2>2
<1>4. ASSUME NEW q \in Jobs, job' = [job EXCEPT ![q] = NoJob] PROVE Ended(q)
  BY <1>1, <1>4, GivesUp
<1>5. ASSUME NEW q \in Jobs,
             \/ PackageRaises(q) \/ PackageRefuses(q) \/ LeaseRejected(q)
             \/ UnpackagedRefuses(q) \/ Kill(q)
      PROVE  Ended(q)
  <2>1. \/ Settle(q, "MERGE_FAILED", 0, 0) \/ Raise(q)
        \/ job' = [job EXCEPT ![q] = NoJob]
    BY <1>5 DEF PackageRaises, PackageRefuses, LeaseRejected, UnpackagedRefuses, Kill
  <2> HIDE DEF Ended
  <2> QED
    BY <1>3, <1>4, <2>1
<1>6. ASSUME NEW q \in Jobs, OpenDraftPr(q) PROVE Ended(q)
  <2>1. PICK k \in 1 .. Len(prs') :
          Settle(q, "READY_FOR_REVIEW", job[q].commit, k) \/ Raise(q)
    BY <1>1, <1>6, OpenDoes
  <2> HIDE DEF Ended
  <2> QED
    BY <1>3, <2>1
<1>7. ASSUME NEW q \in Jobs, PushWithLease(q)
      PROVE  Was \/ (PushWithLease(p) /\ job'[p].commit = branch')
  <2>1. /\ \A r \in Jobs : r # q => job'[r] = job[r]
        /\ job'[q].commit = branch'
    BY <1>1, <1>7, PushDoes
  <2>2. CASE p = q
    BY <1>7, <2>1, <2>2
  <2>3. CASE p # q
    BY <2>1, <2>3
  <2> QED
    BY <2>2, <2>3
<1>8. ASSUME NEW q \in Jobs, RecordPush(q) PROVE Was
  <2>1. job[q].row \in 1 .. Len(rows) /\ job[q].at = "recording"
    BY <1>1, <1>8, AtWork DEF RecordPush
  <2>2. /\ \A r \in Jobs : r # q => job'[r] = job[r]
        /\ job'[q] = NoJob \/ job'[q].commit = job[q].commit
    BY <1>1, <1>8, <2>1, RecordDoes
  <2> QED
    BY <1>1, <2>1, <2>2
<1>9. ASSUME NEW q \in Jobs, PackageBuilds(q) \/ UnpackagedBuilds(q) PROVE Was
  <2>1. Squash(q, TRUE) \/ Squash(q, FALSE)
    BY <1>9 DEF PackageBuilds, UnpackagedBuilds
  <2>2. job'[q].at = "pushing" /\ \A r \in Jobs : r # q => job'[r] = job[r]
    BY <1>1, <2>1, SquashDoes
  <2> QED
    BY <2>2
<1>10. CASE StartCell
  BY <1>1, <1>10, StartCellDoes
<1>11. CASE EndCell
  BY <1>1, <1>11, EndCellDoes
<1>12. CASE StartCommand
  BY <1>1, <1>12, StartCommandDoes
<1>13. CASE \/ ForeignPush \/ MarkReady \/ RequestChanges \/ Close \/ Merge \/ StartScan
            \/ ScanRow \/ EndScan \/ UNCHANGED vars
  BY <1>13 DEF ForeignPush, MarkReady, RequestChanges, Close, Merge, StartScan, ScanRow,
     EndScan, vars
<1> HIDE DEF Was, Ended
<1>14. ASSUME NEW q \in Jobs,
              \/ PackageRaises(q) \/ PackageRefuses(q) \/ PackageBuilds(q)
              \/ PushWithLease(q) \/ LeaseRejected(q) \/ RecordPush(q) \/ OpenDraftPr(q)
              \/ UnpackagedBuilds(q) \/ UnpackagedRefuses(q) \/ Kill(q)
       PROVE  Was \/ (PushWithLease(p) /\ job'[p].commit = branch')
  BY <1>2, <1>5, <1>6, <1>7, <1>8, <1>9, <1>14
<1> QED
  BY <1>10, <1>11, <1>12, <1>13, <1>14 DEF Next, Was

LEMMA HeadStep ==
    ASSUME DeliveryInv, [Next]_vars, OneJob, OneOpen, HeadFits
    PROVE  HeadFits'
<1>1. /\ Shape /\ Fit /\ JobsFit /\ Shape' /\ branch \in Nat /\ Len(commits) \in Nat
      /\ branch' \in Nat
  BY ShapeStep, Elements, LenProperties DEF DeliveryInv, Fit, Shape
<1>2. Open' # {} => branch' # 0
  BY <1>1, HeadMoves, OpenStep DEF HeadFits
<1>3. ASSUME NEW p \in Jobs, job'[p].at \in {"recording", "opening"}
      PROVE  branch' = 0 \/ job'[p].commit <= branch'
  <2>1. CASE PushWithLease(p) /\ job'[p].commit = branch'
    BY <1>1, <2>1
  <2>2. CASE /\ job[p].at \in {"recording", "opening"}
             /\ job'[p].commit = job[p].commit
    <3>1. /\ branch = 0 \/ job[p].commit <= branch
          /\ job[p].commit \in Nat /\ job[p].commit <= Len(commits)
      BY <1>1, <2>2, AtWork DEF HeadFits, JobFits, Work
    <3>2. CASE branch' = branch \/ branch' = 0
      BY <2>2, <3>1, <3>2
    <3>3. CASE ForeignPush
      BY <1>1, <2>2, <3>1, <3>3 DEF ForeignPush
    <3>4. ASSUME NEW q \in Jobs, PushWithLease(q) PROVE FALSE
      BY <2>2, <3>4, IdleHasNone DEF PushWithLease, OneJob, Jobs
    <3> QED
      BY <3>2, <3>3, <3>4, HeadMoves
  <2> QED
    BY <1>3, <2>1, <2>2, PushedStep
<1> QED
  BY <1>2, <1>3 DEF HeadFits

(* A row that keeps its push and its pull request goes on fitting: a push    *)
(* only raises the head, and the operator marks what is at it.              *)
LEMMA SeenStays ==
    ASSUME DeliveryInv, [Next]_vars, OneOpen, NEW i \in 1 .. Len(rows),
           SeenFits(rows[i]), i \in 1 .. Len(rows'),
           rows'[i].pr = rows[i].pr, rows'[i].pushed = rows[i].pushed
    PROVE  SeenFits(rows[i])'
<1> DEFINE k == rows[i].pr
           n == rows[i].pushed
<1> SUFFICES ASSUME k # 0
             PROVE  /\ prs'[k].state = "open" => n <= branch'
                    /\ prs'[k].draft \/ n <= prs'[k].readied
  BY DEF SeenFits
<1>1. /\ Shape /\ Fit /\ RowsFit /\ branch \in Nat /\ branch' \in Nat
      /\ Len(prs) \in Nat /\ rows[i] \in Row
  <2>1. Shape /\ Fit /\ RowsFit /\ branch \in Nat /\ Len(prs) \in Nat /\ rows[i] \in Row
    BY Elements DEF DeliveryInv, Fit
  <2>2. branch' \in Nat
    BY ShapeStep, LenProperties DEF DeliveryInv, Shape
  <2> QED
    BY <2>1, <2>2
<1>2. n \in Nat /\ k \in 1 .. Len(prs)
  BY <1>1 DEF RowsFit, RowFits, Row
<1>3. /\ prs[k].state = "open" => n <= branch
      /\ prs[k].draft \/ n <= prs[k].readied
  BY DEF SeenFits
<1>4. /\ k \in 1 .. Len(prs')
      /\ prs'[k].state = "open" => prs[k].state = "open"
      /\ \/ prs'[k].readied = prs[k].readied /\ (prs[k].draft => prs'[k].draft)
         \/ prs[k].state = "open" /\ prs'[k].readied = branch
  BY <1>2, PullMoves
<1>5. prs'[k].draft \/ n <= prs'[k].readied
  BY <1>3, <1>4
<1>6. ASSUME prs'[k].state = "open" PROVE n <= branch'
  <2>1. n <= branch /\ k \in Open'
    BY <1>3, <1>4, <1>6 DEF Open
  <2>2. ~Merge
    BY <2>1, OpenStep
  <2>3. branch' = branch \/ branch < branch'
    BY <2>2, HeadMoves
  <2> QED
    BY <1>1, <1>2, <2>1, <2>3
<1> QED
  BY <1>5, <1>6

LEMMA SeenStep ==
    ASSUME DeliveryInv, [Next]_vars, OneOpen, HeadFits, SeenFit
    PROVE  SeenFit'
<1> SUFFICES ASSUME NEW i \in 1 .. Len(rows') PROVE SeenFits(rows[i])'
  BY DEF SeenFit
<1>1. /\ Shape /\ Fit /\ JobsFit /\ branch \in Nat /\ Len(rows) \in Nat
      /\ branch' \in Nat
  BY ShapeStep, Elements, LenProperties DEF DeliveryInv, Fit, Shape
<1>2. ASSUME rows'[i].pr = 0 PROVE SeenFits(rows[i])'
  BY <1>2 DEF SeenFits
<1>3. ASSUME i \in 1 .. Len(rows), rows'[i].pr = rows[i].pr,
             rows'[i].pushed = rows[i].pushed
      PROVE  SeenFits(rows[i])'
  BY <1>3, SeenStays DEF SeenFit
<1>4. ASSUME NEW p \in Jobs, OpenDraftPr(p), i \in 1 .. Len(rows)
      PROVE  SeenFits(rows[i])'
  <2>1. /\ job[p].at = "opening" /\ job[p] # NoJob /\ JobFits(p) /\ job[p] \in Work
        /\ job[p].row \in 1 .. Len(rows) /\ job[p].commit \in Nat
    BY <1>1, <1>4, AtWork DEF OpenDraftPr, Work
  <2>2. PICK k \in 1 .. Len(prs') :
          /\ prs'[k].draft = TRUE
          /\ (Open = {} /\ branch # 0) \/ k \in Open
          /\ Settle(p, "READY_FOR_REVIEW", job[p].commit, k) \/ Raise(p)
    BY <1>1, <1>4, OpenDoes
  <2>3. k \in Nat /\ "READY_FOR_REVIEW" \in States
    BY <2>2 DEF States, Pending
  <2>4. CASE i # job[p].row
    <3>1. rows'[i] = rows[i]
      BY <1>1, <1>4, <2>1, <2>2, <2>3, <2>4, SettleDoes, RaiseDoes
    <3> QED
      BY <1>3, <1>4, <3>1
  <2>5. CASE i = job[p].row /\ Raise(p)
    <3>1. rows'[i].pr = 0
      BY <1>1, <2>1, <2>5, RaiseDoes DEF JobFits
    <3> QED
      BY <1>2, <3>1
  <2>6. CASE i = job[p].row /\ Settle(p, "READY_FOR_REVIEW", job[p].commit, k)
    <3>1. rows'[i].pushed = job[p].commit /\ rows'[i].pr = k
      BY <1>1, <2>1, <2>3, <2>6, SettleDoes
    <3>2. branch' = branch
      BY <1>4 DEF OpenDraftPr
    <3>3. branch # 0 /\ (branch = 0 \/ job[p].commit <= branch)
      BY <2>1, <2>2 DEF HeadFits
    <3> QED
      BY <2>2, <3>1, <3>2, <3>3 DEF SeenFits
  <2> QED
    BY <2>2, <2>4, <2>5, <2>6
<1>5. NewRow.pr = 0
  BY DEF NewRow
<1> QED
  BY <1>2, <1>3, <1>4, <1>5, RowMoves DEF ScanWrites

LEMMA ApprovedStep ==
    ASSUME DeliveryInv, [Next]_vars, SeenFit, ApprovedHeadWasReadied
    PROVE  ApprovedHeadWasReadied'
<1> SUFFICES ASSUME NEW i \in 1 .. Len(rows'), rows'[i].state = "APPROVED"
             PROVE  rows'[i].pushed <= prs'[rows'[i].pr].readied
  BY DEF ApprovedHeadWasReadied
<1>1. Shape /\ Fit /\ RowsFit /\ JobsFit /\ ScanFits /\ Len(rows) \in Nat /\ Len(prs) \in Nat
  BY Elements DEF DeliveryInv, Fit
<1>2. ASSUME i \in 1 .. Len(rows), rows[i].state = "APPROVED",
             rows'[i].pr = rows[i].pr, rows'[i].pushed = rows[i].pushed
      PROVE  rows'[i].pushed <= prs'[rows'[i].pr].readied
  <2>1. rows[i].pr \in 1 .. Len(prs)
    BY <1>1, <1>2, Elements DEF RowsFit, RowFits, Row
  <2>2. rows[i].pushed <= prs[rows[i].pr].readied /\ SeenFits(rows[i])
    BY <1>2 DEF ApprovedHeadWasReadied, SeenFit
  <2> QED
    BY <1>2, <2>1, <2>2, PullMoves DEF SeenFits
<1>3. ASSUME i \in 1 .. Len(rows), ScanRow, scan.on, i \in 1 .. Len(scan.rows),
             ScanWrites(i, scan.rows[i])
      PROVE  rows'[i].pushed <= prs'[rows'[i].pr].readied
  <2> DEFINE row == scan.rows[i]
  <2>1. /\ rows'[i].pushed = rows[i].pushed /\ rows'[i].pr = rows[i].pr /\ Asked(row)
        /\ \/ rows'[i].state = "MERGED"
           \/ \E s \in Answer(row) : rows'[i].state \in {s, rows[i].state}
    BY <1>3 DEF ScanWrites
  <2>2. CASE rows[i].state = "APPROVED"
    BY <1>2, <1>3, <2>1, <2>2
  <2>3. CASE "APPROVED" \in Answer(row)
    <3>1. row.pr # 0 /\ rows[i].pr = row.pr
      BY <1>1, <1>3, <2>1 DEF Asked, ScanFits
    <3>2. ~prs[row.pr].draft
      BY <2>3, AnswerMeans
    <3>3. prs' = prs
      BY <1>3 DEF ScanRow
    <3> QED
      BY <1>3, <2>1, <3>1, <3>2, <3>3 DEF SeenFit, SeenFits
  <2> QED
    BY <2>1, <2>2, <2>3
<1>4. ASSUME NEW p \in Jobs, job[p] # NoJob, i = job[p].row, i \in 1 .. Len(rows),
             rows[i].state = "APPROVED"
      PROVE  FALSE
  BY <1>1, <1>4 DEF JobsFit, JobFits, RowsFit, RowFits
<1>5. NewRow.state # "APPROVED"
  BY DEF NewRow
<1> QED
  BY <1>2, <1>3, <1>4, <1>5, RowMoves

(* A row is approved only by an operator who marked its pull request ready    *)
(* with the row's own push, or a later one, at its head, with one process of *)
(* the spec at a time.                                                      *)
THEOREM ApprovedWasSeen ==
    ASSUME "together" \notin Mishaps
    PROVE  Spec => []ApprovedHeadWasReadied
<1> DEFINE Inv == OneJob /\ OneOpen /\ HeadFits /\ SeenFit /\ ApprovedHeadWasReadied
<1>1. Init => Inv
  BY IdleHasNone, EmptySeq DEF Init, OneJob, OneOpen, HeadFits, SeenFit,
     ApprovedHeadWasReadied, Open, Jobs
<1>2. DeliveryInv /\ Inv /\ [Next]_vars => Inv'
  BY OneJobStep, OpenStep, HeadStep, SeenStep, ApprovedStep
<1>3. Inv => ApprovedHeadWasReadied
  OBVIOUS
<1> QED
  BY <1>1, <1>2, <1>3, DeliveryAlways, PTL DEF Spec
=============================================================================
