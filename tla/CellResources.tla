--------------------------- MODULE CellResources ---------------------------
(***************************************************************************)
(* What one spec's cells leave on the host: the networks, volumes and      *)
(* containers that `cell_up` and `critic_cell` make under names derived    *)
(* from the spec id alone, the `created` set each run keeps of them, and   *)
(* the teardown that reports a survivor by that set.  A run may be killed  *)
(* between any two runtime calls; the next run of the spec starts from     *)
(* what is left.                                                           *)
(*                                                                         *)
(* A piece of the program is a sequence of runtime calls.  The container   *)
(* runtime is external: a removal of a name that is not there fails, and   *)
(* so does that of a network with a container on it, which is what         *)
(* cell_down's and critic_cell's order is for.                             *)
(***************************************************************************)
EXTENDS Naturals, Sequences

CONSTANTS
    MaxRuns,      \* runs of the spec, killed ones included
    MaxShortCells \* short-lived cells one run opens

ASSUME BoundsAssumption == MaxRuns \in Nat \ {0} /\ MaxShortCells \in Nat

Networks   == {"network", "criticNetwork", "gateNetwork"}
Volumes    == {"volume", "state", "criticVolume", "criticState", "gateVolume", "gateState"}
Containers == {"container", "proxy", "criticContainer", "gateContainer"}

(* The networks each container is started on. *)
Joins(c) ==
    CASE c = "container"       -> {"network"}
      [] c = "proxy"           -> {"network", "criticNetwork"}
      [] c = "criticContainer" -> {"criticNetwork"}
      [] c = "gateContainer"   -> {"gateNetwork"}

Rm(x)    == [call |-> "remove", name |-> x]
Make(x)  == [call |-> "make",   name |-> x]
Check(x) == [call |-> "check",  name |-> x]

(* `_drive_cell`'s own pre-clean, then cell_up. *)
CellUp ==
    << Rm("container"), Rm("network"), Rm("criticNetwork"), Rm("volume"), Rm("state"),
       Make("network"), Make("criticNetwork"),
       Rm("proxy"), Make("proxy"), Check("isolation"),
       Make("volume"), Make("state"), Check("seed"), Make("container") >>

(* Variant: the networks go before the proxy that is on them. *)
CellDown_ProxyLast(stateName) ==
    << Rm("container"), Rm("network"), Rm("criticNetwork"), Rm("volume"), Rm(stateName),
       Rm("proxy") >>

(* cell_down, given the name its caller's `state` variable then holds. *)
CellDown(stateName) ==
    << Rm("container"), Rm("proxy"), Rm("network"), Rm("criticNetwork"), Rm("volume"),
       Rm(stateName) >>

(* Variant: the network is pre-cleaned before the container on it. *)
ShortUp_NetworkFirst(kind) ==
    IF kind = "gate"
    THEN << Rm("gateNetwork"), Rm("gateContainer"), Rm("gateVolume"), Rm("gateState"),
            Make("gateNetwork"), Make("gateVolume"), Make("gateState"), Check("seed"),
            Make("gateContainer"), Check("apply") >>
    ELSE << Rm("criticContainer"), Rm("criticVolume"), Rm("criticState"),
            Make("criticVolume"), Make("criticState"), Check("seed"),
            Make("criticContainer"), Check("apply") >>

(* critic_cell up to its yield: a Gate-only cell makes a network of its own, *)
(* a critic cell joins the task's.                                          *)
ShortUp(kind) ==
    IF kind = "gate"
    THEN << Rm("gateContainer"), Rm("gateNetwork"), Rm("gateVolume"), Rm("gateState"),
            Make("gateNetwork"), Make("gateVolume"), Make("gateState"), Check("seed"),
            Make("gateContainer"), Check("apply") >>
    ELSE << Rm("criticContainer"), Rm("criticVolume"), Rm("criticState"),
            Make("criticVolume"), Make("criticState"), Check("seed"),
            Make("criticContainer"), Check("apply") >>

(* critic_cell's finally. *)
ShortDown(kind) ==
    IF kind = "gate"
    THEN <<Rm("gateContainer"), Rm("gateVolume"), Rm("gateState"), Rm("gateNetwork")>>
    ELSE <<Rm("criticContainer"), Rm("criticVolume"), Rm("criticState")>>

VARIABLES
    stage,    \* up, body, shortUp, shortBody, shortDown, down, done, killed
    calls,    \* the runtime calls left of the current piece
    kind,     \* the open short-lived cell's kind
    shorts,   \* short-lived cells opened by this run
    live,     \* names that exist on the host
    created,  \* the run's leak ledger
    reached,  \* names this run reached the creation of
    failed,   \* names the current teardown could not remove
    survived, \* names this run reported as survivors
    clashed,  \* names whose create found them still there, in this run
    raising,  \* what closes the short-lived cell is an exception
    balked,   \* the runtime has refused a removal it could have made
    shadowed, \* the local `state` no longer names the volume
    run,      \* runs started
    history   \* how the run before this one ended: none, done or killed

vars == <<stage, calls, kind, shorts, live, created, reached, failed, survived,
          clashed, raising, balked, shadowed, run, history>>

Names == Networks \union Volumes \union Containers

TypeOK ==
    /\ stage \in {"up", "body", "shortUp", "shortBody", "shortDown", "down", "done",
                  "killed"}
    /\ kind \in {"gate", "critic"} /\ shorts \in 0 .. MaxShortCells
    /\ live \subseteq Names /\ created \subseteq reached /\ reached \subseteq Names
    /\ failed \subseteq Names \union {"taskState"}
    /\ survived \subseteq Names /\ clashed \subseteq Names
    /\ raising \in BOOLEAN /\ balked \in BOOLEAN /\ shadowed \in BOOLEAN
    /\ run \in 1 .. MaxRuns
    /\ history \in {"none", "done", "killed"}

Init ==
    /\ stage = "up" /\ calls = CellUp /\ kind = "gate" /\ shorts = 0
    /\ live = {} /\ created = {}
    /\ reached = {} /\ failed = {} /\ survived = {}
    /\ clashed = {} /\ raising = FALSE /\ balked = FALSE /\ shadowed = FALSE
    /\ run = 1 /\ history = "none"
-----------------------------------------------------------------------------
(* Runtime calls. *)

InPiece(c) == calls # <<>> /\ Head(calls).call = c

OccupiedNetwork(x) == \E c \in live \intersect Containers : x \in Joins(c)

(* What the runtime makes of a removal. *)
Removable(x) == x \in live /\ ~OccupiedNetwork(x)

(* stop_proxy and the pre-cleans look at no return code. *)
Looked(x) == stage \in {"down", "shortDown"} /\ x # "proxy"

Remove ==
    /\ InPiece("remove")
    /\ LET x == Head(calls).name IN
         \/ /\ Removable(x)
            /\ live' = live \ {x}
            /\ UNCHANGED <<failed, balked>>
         \/ /\ failed' = IF Looked(x) THEN failed \union {x} ELSE failed
            /\ balked' = (balked \/ Removable(x))
            /\ UNCHANGED live
    /\ calls' = Tail(calls)
    /\ UNCHANGED <<stage, kind, shorts, created, reached, survived, clashed,
                   raising, shadowed, run, history>>

(* Unwinding: the piece that raised gives way to its own teardown. *)
Unwind ==
    /\ raising' = TRUE
    /\ IF stage \in {"shortUp", "shortBody"}
       THEN stage' = "shortDown" /\ calls' = ShortDown(kind)
       ELSE stage' = "down" /\ calls' = CellDown("state")

(* What the runtime makes of a create.  One that is refused may still have  *)
(* left its resource, and a volume it already has may be handed back.       *)
Creates(x) ==
    \/ /\ x \notin live \/ x \in Volumes
       /\ live' = live \union {x}
       /\ calls' = Tail(calls)
       /\ UNCHANGED <<stage, clashed, raising>>
    \/ /\ x \in live
       /\ clashed' = clashed \union {x}
       /\ Unwind
       /\ UNCHANGED live
    \/ /\ x \notin live
       /\ live' \in {live, live \union {x}}
       /\ Unwind
       /\ UNCHANGED clashed

(* Variant: a name is recorded once its create has answered. *)
MakeIt_RecordedAfter ==
    /\ InPiece("make")
    /\ LET x == Head(calls).name IN
         /\ Creates(x)
         /\ reached' = reached \union {x}
         /\ created' = IF x = "proxy" \/ raising' THEN created ELSE created \union {x}
    /\ UNCHANGED <<kind, shorts, failed, survived, balked, shadowed, run, history>>

(* Each name is recorded immediately before its own create, the proxy's nowhere. *)
MakeIt ==
    /\ InPiece("make")
    /\ LET x == Head(calls).name IN
         /\ created' = IF x = "proxy" THEN created ELSE created \union {x}
         /\ reached' = reached \union {x}
         /\ Creates(x)
    /\ UNCHANGED <<kind, shorts, failed, survived, balked, shadowed, run, history>>

(* A preflight assert, the seed container, or the patch that is applied. *)
CheckIt ==
    /\ InPiece("check")
    /\ \/ calls' = Tail(calls) /\ UNCHANGED <<stage, raising>>
       \/ Unwind
    /\ UNCHANGED <<kind, shorts, live, created, reached, failed, survived, clashed,
                   balked, shadowed, run, history>>

(* The cell is up, or the short-lived one has yielded. *)
Up ==
    /\ stage \in {"up", "shortUp"} /\ calls = <<>>
    /\ stage' = IF stage = "up" THEN "body" ELSE "shortBody"
    /\ UNCHANGED <<calls, kind, shorts, live, created, reached, failed, survived,
                   clashed, raising, balked, shadowed, run, history>>

OpenShortCell ==
    /\ stage = "body" /\ shorts < MaxShortCells
    /\ shorts' = shorts + 1
    /\ kind' \in {"gate", "critic"}
    /\ stage' = "shortUp" /\ calls' = ShortUp(kind')
    /\ raising' = FALSE
    /\ UNCHANGED <<live, created, reached, failed, survived, clashed, balked, shadowed, run,
                   history>>

(* The with block ends, or something raised in it. *)
CloseShortCell ==
    /\ stage = "shortBody"
    /\ stage' = "shortDown" /\ calls' = ShortDown(kind)
    /\ raising' \in BOOLEAN
    /\ UNCHANGED <<kind, shorts, live, created, reached, failed, survived, clashed,
                   balked, shadowed, run, history>>

(* A removal that failed is a survivor only for a name this run created. *)
Report ==
    /\ survived' = survived \union (failed \intersect created)
    /\ failed' = {}

(* The session goes on, past a probe's Gate-only cell even if that one       *)
(* raised, or ends on what was raised or refused.                           *)
ShortCellClosed ==
    /\ stage = "shortDown" /\ calls = <<>>
    /\ Report
    /\ \/ /\ ~raising \/ kind = "gate"
          /\ stage' = "body" /\ UNCHANGED calls
       \/ /\ raising
          /\ stage' = "down" /\ calls' = CellDown("state")
    /\ UNCHANGED <<kind, shorts, live, created, reached, clashed, raising,
                   balked, shadowed, run, history>>

(***************************************************************************)
(* The body ends.  Two of its returns, a failed plan turn's and one with   *)
(* nothing committed, have assigned the task's state to the variable that  *)
(* held the state volume's name; both come before any short-lived cell.    *)
(***************************************************************************)
BodyEnds ==
    /\ stage = "body"
    /\ shadowed' \in IF shorts = 0 THEN BOOLEAN ELSE {FALSE}
    /\ stage' = "down"
    /\ calls' = CellDown(IF shadowed' THEN "taskState" ELSE "state")
    /\ UNCHANGED <<kind, shorts, live, created, reached, failed, survived, clashed, raising,
                   balked, run, history>>

TornDown ==
    /\ stage = "down" /\ calls = <<>>
    /\ Report
    /\ stage' = "done"
    /\ UNCHANGED <<calls, kind, shorts, live, created, reached, clashed, raising,
                   balked, shadowed, run, history>>

(* A SIGKILL, a host crash, or a second Ctrl-C inside the finally. *)
Kill ==
    /\ stage \notin {"done", "killed"}
    /\ stage' = "killed" /\ calls' = <<>>
    /\ UNCHANGED <<kind, shorts, live, created, reached, failed, survived, clashed, raising,
                   balked, shadowed, run, history>>

(* Another run of the spec, with a leak ledger of its own. *)
Rerun ==
    /\ stage \in {"done", "killed"} /\ run < MaxRuns
    /\ run' = run + 1
    /\ history' = stage
    /\ stage' = "up" /\ calls' = CellUp
    /\ kind' = "gate" /\ shorts' = 0
    /\ created' = {} /\ reached' = {} /\ failed' = {}
    /\ survived' = {} /\ clashed' = {}
    /\ raising' = FALSE /\ shadowed' = FALSE
    /\ UNCHANGED <<live, balked>>

Next ==
    \/ Remove \/ MakeIt \/ CheckIt \/ Up
    \/ OpenShortCell \/ CloseShortCell \/ ShortCellClosed
    \/ BodyEnds \/ TornDown \/ Kill \/ Rerun

Spec == Init /\ [][Next]_vars
-----------------------------------------------------------------------------
(* Properties. *)

(***************************************************************************)
(* What a run made and left shows in what it reports, on every way through *)
(* it, a create that failed half-way included.  The proxy is in no ledger  *)
(* and nobody looks at its removal, yet one that survives holds the        *)
(* network, which is reported.  Left aside is the state volume, once two   *)
(* of the returns have reused its variable for the outcome.                *)
(***************************************************************************)
LeakShows ==
    stage = "done" =>
        /\ live \intersect reached \subseteq survived \union {"proxy"} \union
               (IF shadowed THEN {"state"} ELSE {})
        /\ "proxy" \in live => "network" \in survived

(***************************************************************************)
(* With a runtime that removes what it can, the orders suffice: a          *)
(* short-lived cell's names clash with nothing, whatever a killed run      *)
(* left, and a run that nothing stood in the way of leaves nothing it      *)
(* made, the state volume apart as above.                                  *)
(***************************************************************************)
OrdersSuffice ==
    ~balked =>
        /\ clashed \intersect {"gateNetwork", "gateContainer", "criticContainer",
                               "container", "proxy"} = {}
        /\ (stage = "done" /\ clashed = {}) =>
               live \intersect created \subseteq (IF shadowed THEN {"state"} ELSE {})
=============================================================================
