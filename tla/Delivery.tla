------------------------------ MODULE Delivery ------------------------------
(***************************************************************************)
(* How the work of one spec's cells leaves the host.  Every cell of a spec *)
(* shares one task directory and one branch, saffron/<SPEC-ID>: run_task   *)
(* runs a cell, package() pushes its patch and opens a draft pull request, *)
(* push_unpackaged_work pushes what was not packaged, `saffron package`    *)
(* packages a row whose own PACKAGE raised, and reconcile reads back what  *)
(* GitHub decided.                                                         *)
(*                                                                         *)
(* A cell is its row's number.  A commit is its place in `commits`, which  *)
(* holds the cell whose patch it is and 0 for one an operator pushed.      *)
(***************************************************************************)
EXTENDS Naturals, Sequences, FiniteSets, SequencesExt

CONSTANTS
    MaxCells,    \* cells of the spec
    MaxCommits,  \* commits made for its branch
    MaxForeign,  \* those of them an operator pushes
    Mishaps      \* what may go wrong, of the names below

ASSUME MishapsAssumption ==
    /\ MaxCells \in Nat /\ MaxCommits \in Nat /\ MaxForeign \in Nat
    /\ Mishaps \subseteq {"kill", "exportFails", "noUrl", "ghFails", "together"}

VARIABLES
    rows,     \* the spec's task rows, oldest first
    dir,      \* whose patch.diff, baseline.json and findings.json the task directory holds
    commits,  \* whose patch each commit is
    branch,   \* the commit the remote's branch is at, 0 for no branch
    prs,      \* the pull requests opened from the branch
    job,      \* where run_task ("cell") and `saffron package` ("command") are
    scan,     \* a reconcile under way: the rows it read, and the next to visit
    killed    \* a process was killed

vars == <<rows, dir, commits, branch, prs, job, scan, killed>>

Jobs == {"cell", "command"}

NoJob  == [at |-> "idle", row |-> 0, mode |-> "none", opens |-> FALSE, commit |-> 0,
           expect |-> 0]
NoScan == [on |-> FALSE, rows |-> <<>>, next |-> 1, stamp |-> FALSE]
NewRow == [state |-> "REVIEWING", pushed |-> 0, pr |-> 0, merged |-> 0]

(* The states in flight, as one. *)
InFlight  == {"REVIEWING"}
Pending   == {"READY_FOR_REVIEW", "APPROVED", "CHANGES_REQUESTED"}
MergeOnly == {"EXHAUSTED"}

TypeOK ==
    /\ \A i \in 1 .. Len(rows) :
          /\ rows[i].state \in InFlight \union Pending \union MergeOnly
                               \union {"MERGE_FAILED", "MERGED", "REJECTED", "ORPHANED"}
          /\ rows[i].pushed \in 0 .. Len(commits) /\ rows[i].pr \in 0 .. Len(prs)
          /\ rows[i].pr # 0 => rows[i].pushed # 0
    /\ branch \in 0 .. Len(commits)
    /\ \A k \in 1 .. Len(prs) : prs[k].state \in {"open", "closed", "merged"}
    /\ Cardinality({k \in 1 .. Len(prs) : prs[k].state = "open"}) <= 1
    /\ \A p \in Jobs : job[p].at \in {"idle", "running", "packaging", "pushing",
                                      "recording", "opening", "unpackaged"}

Init ==
    /\ rows = <<>> /\ commits = <<>> /\ branch = 0 /\ prs = <<>>
    /\ dir = [patch |-> 0, baseline |-> 0, findings |-> 0]
    /\ job = [p \in Jobs |-> NoJob]
    /\ scan = NoScan /\ killed = FALSE
-----------------------------------------------------------------------------
(* The cell. *)

Alone(p) == "together" \in Mishaps \/ \A q \in Jobs \ {p} : job[q] = NoJob

StartCell ==
    /\ job["cell"] = NoJob /\ Alone("cell") /\ Len(rows) < MaxCells
    /\ rows' = Append(rows, NewRow)
    /\ dir' = [dir EXCEPT !.baseline = Len(rows) + 1]
    /\ job' = [job EXCEPT !["cell"] = [NoJob EXCEPT !.at = "running", !.row = Len(rows) + 1]]
    /\ UNCHANGED <<commits, branch, prs, scan, killed>>

(* A green cell, one green with a blocker standing, or one that did not make *)
(* it, which may have committed nothing.  Its patch is exported over the     *)
(* directory's, or there is none, or the export failed and is reported.      *)
EndCell ==
    LET c == job["cell"].row IN
    /\ job["cell"].at = "running"
    /\ \E end \in {"ready", "blocked", "failed"}, export \in {"wrote", "none", "failed"} :
          /\ export = "none" => end = "failed"
          /\ export = "failed" => "exportFails" \in Mishaps
          /\ dir' = [dir EXCEPT !.patch = IF export = "wrote" THEN c ELSE @,
                                !.findings = IF end = "failed" THEN @ ELSE c]
          /\ rows' = IF end = "ready" THEN rows
                     ELSE [rows EXCEPT ![c].state = "EXHAUSTED"]
          /\ job' = [job EXCEPT !["cell"] =
                       [@ EXCEPT !.mode = end,
                                 !.at = IF end = "failed" THEN "unpackaged" ELSE "packaging"]]
    /\ UNCHANGED <<commits, branch, prs, scan, killed>>

(* Variant: ready_task takes whatever the task directory holds. *)
ReadyTask_AnyPatch ==
    /\ rows # <<>>
    /\ Last(rows).state = "READY_FOR_REVIEW" /\ Last(rows).pr = 0
    /\ dir.patch # 0 /\ dir.findings # 0

(* ready_task: the newest row waits with no pull request, and no file of the *)
(* task directory is older than its baseline.                               *)
ReadyTask ==
    /\ rows # <<>>
    /\ Last(rows).state = "READY_FOR_REVIEW" /\ Last(rows).pr = 0
    /\ dir.patch # 0 /\ dir.patch >= dir.baseline
    /\ dir.findings # 0 /\ dir.findings >= dir.baseline

StartCommand ==
    /\ job["command"] = NoJob /\ Alone("command")
    /\ ReadyTask
    /\ job' = [job EXCEPT !["command"] =
                 [NoJob EXCEPT !.at = "packaging", !.row = Len(rows), !.mode = "command"]]
    /\ UNCHANGED <<rows, dir, commits, branch, prs, scan, killed>>
-----------------------------------------------------------------------------
(* package() *)

(* set_task_package: the row's state, sha and pull request, all three.  In   *)
(* the exhausted mode, work no pull request carries is pushed after it.     *)
Settle(p, state, pushed, pr) ==
    LET exhausted == job[p].mode = "blocked" IN
    /\ rows' = [rows EXCEPT ![job[p].row] =
                  [@ EXCEPT !.state = IF exhausted THEN "EXHAUSTED" ELSE state,
                            !.pushed = pushed, !.pr = pr]]
    /\ job' = [job EXCEPT ![p] =
                 IF exhausted /\ pr = 0 THEN [@ EXCEPT !.at = "unpackaged"] ELSE NoJob]

(* Variant: a raise out of PACKAGE is passed on and nothing else. *)
Raise_RowLeft(p) ==
    /\ UNCHANGED rows
    /\ job' = [job EXCEPT ![p] =
                 IF job[p].mode = "blocked" THEN [@ EXCEPT !.at = "unpackaged"] ELSE NoJob]

(* A raise out of PACKAGE.  run_task then writes the state its cell stopped  *)
(* short of, or in the exhausted mode, for a PackageError, pushes the work.  *)
Raise(p) ==
    /\ rows' = IF job[p].mode = "ready"
               THEN [rows EXCEPT ![job[p].row].state = "READY_FOR_REVIEW"] ELSE rows
    /\ \/ job' = [job EXCEPT ![p] = NoJob]
       \/ job[p].mode = "blocked" /\ job' = [job EXCEPT ![p].at = "unpackaged"]

(* Infrastructure: no patch, an unreachable remote, an errored gate, no gh,  *)
(* a pull request that does not go back to draft.                           *)
PackageRaises(p) ==
    /\ job[p].at \in {"packaging", "opening"} \/ (job[p].at = "pushing" /\ job[p].opens)
    /\ Raise(p)
    /\ UNCHANGED <<dir, commits, branch, prs, scan, killed>>

(* A parent gone, a conflict, a credential, new failures. *)
PackageRefuses(p) ==
    /\ job[p].at = "packaging" /\ dir.patch # 0
    /\ Settle(p, "MERGE_FAILED", 0, 0)
    /\ UNCHANGED <<dir, commits, branch, prs, scan, killed>>

(* A commit of the patch, and the remote read for the lease. *)
Squash(p, opens) ==
    /\ dir.patch # 0 /\ Len(commits) < MaxCommits
    /\ commits' = Append(commits, dir.patch)
    /\ job' = [job EXCEPT ![p] = [@ EXCEPT !.at = "pushing", !.opens = opens,
                                           !.commit = Len(commits) + 1, !.expect = branch]]
    /\ UNCHANGED <<rows, dir, branch, prs, scan, killed>>

PackageBuilds(p) == job[p].at = "packaging" /\ Squash(p, TRUE)

(* Variant: a plain --force. *)
PushWithLease_Forced(p) ==
    /\ job[p].at = "pushing"
    /\ branch' = job[p].commit
    /\ job' = [job EXCEPT ![p].at = "recording"]
    /\ UNCHANGED <<rows, dir, commits, prs, scan, killed>>

PushWithLease(p) ==
    /\ job[p].at = "pushing" /\ branch = job[p].expect
    /\ branch' = job[p].commit
    /\ job' = [job EXCEPT ![p].at = "recording"]
    /\ UNCHANGED <<rows, dir, commits, prs, scan, killed>>

LeaseRejected(p) ==
    /\ job[p].at = "pushing" /\ branch # job[p].expect
    /\ IF job[p].opens THEN Settle(p, "MERGE_FAILED", 0, 0)
       ELSE job' = [job EXCEPT ![p] = NoJob] /\ UNCHANGED rows
    /\ UNCHANGED <<dir, commits, branch, prs, scan, killed>>

RecordPush(p) ==
    /\ job[p].at = "recording"
    /\ rows' = [rows EXCEPT ![job[p].row].pushed = job[p].commit]
    /\ job' = [job EXCEPT ![p] = IF job[p].opens THEN [@ EXCEPT !.at = "opening"] ELSE NoJob]
    /\ UNCHANGED <<dir, commits, branch, prs, scan, killed>>

Open == {k \in 1 .. Len(prs) : prs[k].state = "open"}

(* Variant: an existing pull request is returned as it stands. *)
Redraft_Not(k) == prs' = prs

(* gh pr ready --undo *)
Redraft(k) == prs' = [prs EXCEPT ![k].draft = TRUE]

OpenDraftPr(p) ==
    /\ job[p].at = "opening"
    /\ \/ /\ Open = {} /\ branch # 0
          /\ prs' = Append(prs, [state |-> "open", draft |-> TRUE, changes |-> FALSE,
                                 readied |-> 0, head |-> 0])
          /\ \/ Settle(p, "READY_FOR_REVIEW", job[p].commit, Len(prs) + 1)
             \/ "noUrl" \in Mishaps /\ Raise(p)
       \/ \E k \in Open :
             /\ Redraft(k)
             /\ Settle(p, "READY_FOR_REVIEW", job[p].commit, k)
    /\ UNCHANGED <<dir, commits, branch, scan, killed>>
-----------------------------------------------------------------------------
(* push_unpackaged_work *)

Recorded == {rows[i].pushed : i \in 1 .. Len(rows)} \ {0}

(* Variant: an exhausted row's pull request does not count. *)
KeepsBranch_NotExhausted(row) ==
    \/ row.state = "READY_FOR_REVIEW"
    \/ row.state \in {"CHANGES_REQUESTED", "APPROVED"} /\ row.pr # 0

KeepsBranch(row) ==
    \/ row.state = "READY_FOR_REVIEW"
    \/ row.state \in {"EXHAUSTED", "CHANGES_REQUESTED", "APPROVED"} /\ row.pr # 0

MayReplace(r) ==
    /\ rows[r].pr = 0
    /\ \A i \in 1 .. Len(rows) : i # r => ~KeepsBranch(rows[i])
    /\ branch # 0 => branch \in Recorded

UnpackagedBuilds(p) ==
    /\ job[p].at = "unpackaged" /\ MayReplace(job[p].row)
    /\ Squash(p, FALSE)

(* One of its guards, or any failure, each of them reported as a refusal.    *)
UnpackagedRefuses(p) ==
    /\ job[p].at = "unpackaged" \/ (job[p].at = "pushing" /\ ~job[p].opens)
    /\ job' = [job EXCEPT ![p] = NoJob]
    /\ UNCHANGED <<rows, dir, commits, branch, prs, scan, killed>>

Kill(p) ==
    /\ "kill" \in Mishaps /\ job[p] # NoJob
    /\ job' = [job EXCEPT ![p] = NoJob] /\ killed' = TRUE
    /\ UNCHANGED <<rows, dir, commits, branch, prs, scan>>
-----------------------------------------------------------------------------
(* The operator, and GitHub. *)

ForeignPush ==
    /\ Len(commits) < MaxCommits
    /\ Cardinality({i \in 1 .. Len(commits) : commits[i] = 0}) < MaxForeign
    /\ commits' = Append(commits, 0) /\ branch' = Len(commits) + 1
    /\ UNCHANGED <<rows, dir, prs, job, scan, killed>>

MarkReady ==
    /\ \E k \in Open :
          /\ prs[k].draft
          /\ prs' = [prs EXCEPT ![k].draft = FALSE, ![k].readied = branch]
    /\ UNCHANGED <<rows, dir, commits, branch, job, scan, killed>>

RequestChanges ==
    /\ \E k \in Open : ~prs[k].changes /\ prs' = [prs EXCEPT ![k].changes = TRUE]
    /\ UNCHANGED <<rows, dir, commits, branch, job, scan, killed>>

Close ==
    /\ \E k \in Open : prs' = [prs EXCEPT ![k].state = "closed", ![k].head = branch]
    /\ UNCHANGED <<rows, dir, commits, branch, job, scan, killed>>

Merge ==
    /\ branch # 0
    /\ \E k \in Open : prs' = [prs EXCEPT ![k].state = "merged", ![k].head = branch]
    /\ branch' \in {0, branch}
    /\ UNCHANGED <<rows, dir, commits, job, scan, killed>>
-----------------------------------------------------------------------------
(* reconcile *)

(* One at a time; the batch's scan stamps, and runs before its own cells.    *)
StartScan ==
    /\ ~scan.on /\ rows # <<>>
    /\ \E stamp \in BOOLEAN :
          /\ stamp => \A p \in Jobs : job[p] = NoJob
          /\ scan' = [on |-> TRUE, rows |-> rows, next |-> 1, stamp |-> stamp]
    /\ UNCHANGED <<rows, dir, commits, branch, prs, job, killed>>

Asked(row) == row.pr # 0 /\ row.state \in Pending \union MergeOnly

NextState(pr) ==
    IF pr.state = "merged" THEN {"MERGED"}
    ELSE IF pr.state = "closed" THEN {"REJECTED"}
    ELSE IF pr.changes THEN {"CHANGES_REQUESTED"}
    ELSE IF ~pr.draft THEN {"APPROVED"} ELSE {}

(* Where GitHub's answer about row i, as it was read, moves it. *)
Answer(row) ==
    IF row.state \in MergeOnly THEN NextState(prs[row.pr]) \intersect {"MERGED"}
    ELSE NextState(prs[row.pr]) \ {row.state}

(* Variant: GitHub is asked about a row whose merge is already recorded.     *)
MergedAlready_Asked(row) == FALSE

MergedAlready(row) == row.merged # 0

HeadOf(pr) == IF pr.state = "open" THEN branch ELSE pr.head

Visited(i) == scan' = [scan EXCEPT !.next = i + 1]

ScanRow ==
    LET i == scan.next
        row == scan.rows[i]
    IN  /\ scan.on /\ i <= Len(scan.rows)
        /\ \/ ~Asked(row) /\ Visited(i) /\ UNCHANGED <<rows, killed>>
           \/ /\ Asked(row) /\ MergedAlready(row)
              /\ rows' = [rows EXCEPT ![i].state = "MERGED"]
              /\ Visited(i) /\ UNCHANGED killed
           \/ /\ Asked(row) /\ ~MergedAlready(row)
              /\ "ghFails" \in Mishaps \/ Answer(row) = {}
              /\ Visited(i) /\ UNCHANGED <<rows, killed>>
           \/ /\ Asked(row) /\ ~MergedAlready(row)
              /\ \E s \in Answer(row) :
                    LET head == IF s = "MERGED" THEN HeadOf(prs[row.pr]) ELSE row.merged IN
                    \/ /\ rows' = [rows EXCEPT ![i].state = s, ![i].merged = head]
                       /\ Visited(i) /\ UNCHANGED killed
                    \/ /\ "kill" \in Mishaps
                       /\ rows' = [rows EXCEPT ![i].merged = head]
                       /\ scan' = NoScan /\ killed' = TRUE
        /\ UNCHANGED <<dir, commits, branch, prs, job>>

EndScan ==
    /\ scan.on /\ scan.next > Len(scan.rows)
    /\ rows' = [i \in 1 .. Len(rows) |->
                  IF scan.stamp /\ i <= Len(scan.rows) /\ scan.rows[i].state \in InFlight
                  THEN [rows[i] EXCEPT !.state = "ORPHANED"] ELSE rows[i]]
    /\ scan' = NoScan
    /\ UNCHANGED <<dir, commits, branch, prs, job, killed>>

Next ==
    \/ StartCell \/ EndCell \/ StartCommand
    \/ \E p \in Jobs :
          \/ PackageRaises(p) \/ PackageRefuses(p) \/ PackageBuilds(p)
          \/ PushWithLease(p) \/ LeaseRejected(p) \/ RecordPush(p) \/ OpenDraftPr(p)
          \/ UnpackagedBuilds(p) \/ UnpackagedRefuses(p)
          \/ Kill(p)
    \/ ForeignPush \/ MarkReady \/ RequestChanges \/ Close \/ Merge
    \/ StartScan \/ ScanRow \/ EndScan

Spec == Init /\ [][Next]_vars
-----------------------------------------------------------------------------
(* Properties. *)

(* A row is in flight only while its cell or its packaging is: no way out of *)
(* PACKAGE short of a kill leaves one that reads as still running.          *)
NoRowLeftInFlight ==
    \A i \in 1 .. Len(rows) :
        rows[i].state \in InFlight => killed \/ job["cell"].row = i

UnpackagedPush(p) ==
    job[p].at = "pushing" /\ ~job[p].opens /\ branch' = job[p].commit

(* Work pushed unpackaged replaces neither a head an operator pushed, even    *)
(* one pushed after the guards read the remote, nor the branch of an open     *)
(* pull request some row carries.                                           *)
OthersHeadStands ==
    [][\A p \in Jobs : UnpackagedPush(p) =>
          /\ branch # 0 => commits[branch] # 0
          /\ \A k \in Open : \A i \in 1 .. Len(rows) : rows[i].pr # k]_vars

(* A row is approved only by an operator who marked its pull request ready    *)
(* with the row's own push, or a later one, at its head.                     *)
ApprovedHeadWasReadied ==
    \A i \in 1 .. Len(rows) :
        rows[i].state = "APPROVED" => rows[i].pushed <= prs[rows[i].pr].readied

(* A reconcile killed between a merge's two writes is finished by the next    *)
(* one, whatever gh answers by then.                                        *)
MergedHeadSettles ==
    [][(scan.on /\ scan.next > Len(scan.rows)) =>
          \A i \in 1 .. Len(scan.rows) :
              (Asked(scan.rows[i]) /\ scan.rows[i].merged # 0) => rows[i].state = "MERGED"]_vars

(* `saffron package` packages the patch of the cell whose row it ships.      *)
ReadyTaskIsFresh ==
    job["command"].commit # 0 => commits[job["command"].commit] = job["command"].row

(* So does every other way out: a row's push carries its own cell's patch.   *)
ShippedIsThisCells ==
    \A p \in Jobs : job[p].commit # 0 => commits[job[p].commit] = job[p].row
=============================================================================
