------------------------ MODULE CellResourcesProofs ------------------------
(***************************************************************************)
(* What CellResources.tla's runs check on three runs of two short-lived    *)
(* cells, proved for any number of both.  The inductive invariant is       *)
(* ResourcesInv: where each piece of runtime calls has come to, and what   *)
(* the calls before that point have made sure of.                          *)
(***************************************************************************)
EXTENDS CellResources, SequenceTheorems, TLAPS

(* The calls that are left are the piece's from its i-th on. *)
Left(rest, piece, i) == i \in 1 .. Len(piece) + 1 /\ rest = SubSeq(piece, i, Len(piece))

(* The names a runtime call or a check is about. *)
Callable == Names \union {"taskState", "isolation", "seed", "apply"}

Call == [call : {"remove", "make", "check"}, name : Callable]

(* The names a short-lived cell of each kind makes, and the task's cell. *)
OfKind(k) == IF k = "gate" THEN {"gateNetwork", "gateVolume", "gateState", "gateContainer"}
             ELSE {"criticVolume", "criticState", "criticContainer"}

ShortNames == OfKind("gate") \union OfKind("critic")
TaskNames  == {"network", "criticNetwork", "proxy", "volume", "state", "container"}

ShortStages == {"shortUp", "shortBody", "shortDown"}
InShort(x)  == stage \in ShortStages /\ x \in OfKind(kind)

StateName == IF shadowed THEN "taskState" ELSE "state"

(* Which stages a flag may be up in, and which have no call left. *)
Shape ==
    /\ created = reached \ {"proxy"}
    /\ shadowed => stage \in {"down", "done", "killed"}
    /\ failed # {} => stage \in {"shortDown", "down", "killed"}
    /\ stage \in {"body", "shortBody", "done", "killed"} => calls = <<>>

(* A name whose removal was looked at: what is left of it failed, and with a *)
(* runtime that removes what it can, nothing is left.                       *)
Removed(x) == (x \in live => x \in failed) /\ (~balked => x \notin live)

(***************************************************************************)
(* What is so before the i-th call of each piece.  The container is        *)
(* pre-cleaned and not made again before its create, and the proxy right   *)
(* before its own; the network is the first create, so a run that unwinds  *)
(* has recorded it; in a teardown every removal already made has left      *)
(* nothing, or a failure.                                                  *)
(***************************************************************************)
UpFits(i) ==
    /\ Left(calls, CellUp, i)
    /\ reached \subseteq TaskNames
    /\ i > 6 => "network" \in reached
    /\ i <= 7 => "criticNetwork" \notin reached
    /\ i > 7 => "criticNetwork" \in live
    /\ ~balked => /\ i \in 2 .. 14 => "container" \notin live
                  /\ i = 9 => "proxy" \notin live

ShortUpFits(i) ==
    /\ Left(calls, ShortUp(kind), i)
    /\ ~balked =>
          /\ kind = "gate" => /\ i \in 2 .. 9 => "gateContainer" \notin live
                              /\ i \in 3 .. 5 => "gateNetwork" \notin live
          /\ kind = "critic" /\ i \in 2 .. 7 => "criticContainer" \notin live

ShortDownFits(i) ==
    /\ Left(calls, ShortDown(kind), i)
    /\ \A j \in 1 .. i - 1 : Removed(ShortDown(kind)[j].name)

DownFits(i) ==
    /\ Left(calls, CellDown(StateName), i)
    /\ i > 1 => Removed("container")
    /\ i > 2 => (~balked => "proxy" \notin live)
    /\ i > 3 => Removed("network") /\ ("proxy" \in live => "network" \in failed)
    /\ i > 4 => /\ "criticNetwork" \in live => "criticNetwork" \in failed
                /\ ~balked /\ clashed = {} /\ "criticNetwork" \in reached =>
                      "criticNetwork" \notin live
    /\ i > 5 => Removed("volume")
    /\ i > 6 => Removed(StateName)

CallsFit ==
    /\ stage = "up"        => \E i \in Nat : UpFits(i)
    /\ stage = "shortUp"   => \E i \in Nat : ShortUpFits(i)
    /\ stage = "shortDown" => \E i \in Nat : ShortDownFits(i)
    /\ stage = "down"      => \E i \in Nat : DownFits(i)

(* What a short-lived cell made and left is reported, or its teardown is to   *)
(* come; with a runtime that removes what it can, the second.               *)
ShortFits ==
    stage # "killed" => \A x \in ShortNames \intersect live \intersect reached :
        InShort(x) \/ (x \in survived /\ balked)

(* The task's critic network, and the critic that may stand on it. *)
CriticFits ==
    /\ "criticContainer" \in live => "criticNetwork" \in live
    /\ stage \in {"body"} \union ShortStages => "criticNetwork" \in live
    /\ ~balked /\ clashed = {} /\ "criticNetwork" \in reached /\ stage # "killed"
          /\ "criticContainer" \in live => InShort("criticContainer")

(* Whatever comes after the first pieces has the network in its ledger. *)
NetworkReached == stage \notin {"up", "killed"} => "network" \in reached

ResourcesInv ==
    /\ TypeOK /\ Shape /\ CallsFit /\ ShortFits /\ CriticFits /\ NetworkReached
    /\ LeakShows /\ OrdersSuffice

-----------------------------------------------------------------------------
(* The pieces, as sequences. *)

(* A piece not begun, and one a call further. *)
LEMMA LeftAtFirst ==
    ASSUME NEW piece \in Seq(Call)
    PROVE  Left(piece, piece, 1)
<1>1. SubSeq(piece, 1, Len(piece)) = piece
  BY SubSeqFull
<1>2. Len(piece) \in Nat
  BY LenProperties
<1> QED
  BY <1>1, <1>2 DEF Left

LEMMA LeftAfter ==
    ASSUME NEW piece \in Seq(Call), NEW rest, NEW i, Left(rest, piece, i)
    PROVE  /\ rest = <<>> <=> i = Len(piece) + 1
           /\ i <= Len(piece) => /\ Head(rest) = piece[i]
                                 /\ Left(Tail(rest), piece, i + 1)
<1>1. Len(piece) \in Nat /\ i \in 1 .. Len(piece) + 1 /\ rest = SubSeq(piece, i, Len(piece))
  BY LenProperties DEF Left
<1>2. CASE i = Len(piece) + 1
  <2>1. rest = <<>>
    BY <1>1, <1>2, SubSeqEmpty
  <2> QED
    BY <1>1, <1>2, <2>1
<1>3. CASE i <= Len(piece)
  <2>1. i \in 1 .. Len(piece) /\ Len(piece) \in i .. Len(piece)
    BY <1>1, <1>3
  <2>0. \A j \in i .. Len(piece) : piece[j] \in Call
    BY <1>1, ElementOfSeq
  <2>2. Len(rest) = Len(piece) - i + 1
    BY <1>1, <1>3, <2>0, SubSeqProperties
  <2>3. rest # <<>>
    <3>1. Len(<<>>) = 0
      BY EmptySeq
    <3>2. Len(rest) > 0
      BY <1>1, <1>3, <2>2
    <3> QED
      BY <3>1, <3>2
  <2>4. Head(rest) = piece[i] /\ Tail(rest) = SubSeq(piece, i + 1, Len(piece))
    BY <1>1, <2>1, HeadTailOfSubSeq
  <2> QED
    BY <1>1, <1>3, <2>3, <2>4 DEF Left
<1> QED
  BY <1>1, <1>2, <1>3

LEMMA CallsAreCalls ==
    ASSUME NEW n \in Callable
    PROVE  Rm(n) \in Call /\ Make(n) \in Call /\ Check(n) \in Call
  BY DEF Rm, Make, Check, Call

LEMMA NamesAreCallable ==
    /\ "container" \in Callable /\ "proxy" \in Callable /\ "network" \in Callable
    /\ "criticNetwork" \in Callable /\ "volume" \in Callable /\ "state" \in Callable
    /\ "gateContainer" \in Callable /\ "gateNetwork" \in Callable
    /\ "gateVolume" \in Callable /\ "gateState" \in Callable
    /\ "criticContainer" \in Callable /\ "criticVolume" \in Callable
    /\ "criticState" \in Callable /\ "taskState" \in Callable
    /\ "isolation" \in Callable /\ "seed" \in Callable /\ "apply" \in Callable
  BY DEF Callable, Names, Networks, Volumes, Containers

(* The calls of each piece, one by one. *)
LEMMA UpPiece ==
    /\ CellUp \in Seq(Call) /\ Len(CellUp) = 14
    /\ CellUp[1] = Rm("container") /\ CellUp[2] = Rm("network")
    /\ CellUp[3] = Rm("criticNetwork") /\ CellUp[4] = Rm("volume")
    /\ CellUp[5] = Rm("state") /\ CellUp[6] = Make("network")
    /\ CellUp[7] = Make("criticNetwork") /\ CellUp[8] = Rm("proxy")
    /\ CellUp[9] = Make("proxy") /\ CellUp[10] = Check("isolation")
    /\ CellUp[11] = Make("volume") /\ CellUp[12] = Make("state")
    /\ CellUp[13] = Check("seed") /\ CellUp[14] = Make("container")
<1> DEFINE c1 == Rm("container")  c2 == Rm("network")  c3 == Rm("criticNetwork")
           c4 == Rm("volume")  c5 == Rm("state")  c6 == Make("network")
           c7 == Make("criticNetwork")  c8 == Rm("proxy")  c9 == Make("proxy")
           c10 == Check("isolation")  c11 == Make("volume")  c12 == Make("state")
           c13 == Check("seed")  c14 == Make("container")
<1>1. /\ c1 \in Call /\ c2 \in Call /\ c3 \in Call /\ c4 \in Call /\ c5 \in Call
      /\ c6 \in Call /\ c7 \in Call /\ c8 \in Call /\ c9 \in Call /\ c10 \in Call
      /\ c11 \in Call /\ c12 \in Call /\ c13 \in Call /\ c14 \in Call
  BY CallsAreCalls, NamesAreCallable
<1>2. CellUp = <<c1, c2, c3, c4, c5, c6, c7, c8, c9, c10, c11, c12, c13, c14>>
  BY DEF CellUp
<1> HIDE DEF c1, c2, c3, c4, c5, c6, c7, c8, c9, c10, c11, c12, c13, c14
<1>3. CellUp \in Seq(Call) /\ Len(CellUp) = 14
  BY <1>1, <1>2
<1>4. /\ CellUp[1] = c1 /\ CellUp[2] = c2 /\ CellUp[3] = c3 /\ CellUp[4] = c4
      /\ CellUp[5] = c5 /\ CellUp[6] = c6 /\ CellUp[7] = c7 /\ CellUp[8] = c8
      /\ CellUp[9] = c9 /\ CellUp[10] = c10 /\ CellUp[11] = c11 /\ CellUp[12] = c12
      /\ CellUp[13] = c13 /\ CellUp[14] = c14
  BY <1>2
<1> QED
  BY <1>3, <1>4 DEF c1, c2, c3, c4, c5, c6, c7, c8, c9, c10, c11, c12, c13, c14

LEMMA DownPiece ==
    ASSUME NEW n \in {"state", "taskState"}
    PROVE  /\ CellDown(n) \in Seq(Call) /\ Len(CellDown(n)) = 6
           /\ CellDown(n)[1] = Rm("container") /\ CellDown(n)[2] = Rm("proxy")
           /\ CellDown(n)[3] = Rm("network") /\ CellDown(n)[4] = Rm("criticNetwork")
           /\ CellDown(n)[5] = Rm("volume") /\ CellDown(n)[6] = Rm(n)
  BY CallsAreCalls, NamesAreCallable DEF CellDown

LEMMA GatePieces ==
    /\ ShortUp("gate") \in Seq(Call) /\ Len(ShortUp("gate")) = 10
    /\ ShortUp("gate")[1] = Rm("gateContainer") /\ ShortUp("gate")[2] = Rm("gateNetwork")
    /\ ShortUp("gate")[3] = Rm("gateVolume") /\ ShortUp("gate")[4] = Rm("gateState")
    /\ ShortUp("gate")[5] = Make("gateNetwork") /\ ShortUp("gate")[6] = Make("gateVolume")
    /\ ShortUp("gate")[7] = Make("gateState") /\ ShortUp("gate")[8] = Check("seed")
    /\ ShortUp("gate")[9] = Make("gateContainer") /\ ShortUp("gate")[10] = Check("apply")
    /\ ShortDown("gate") \in Seq(Call) /\ Len(ShortDown("gate")) = 4
    /\ ShortDown("gate")[1] = Rm("gateContainer") /\ ShortDown("gate")[2] = Rm("gateVolume")
    /\ ShortDown("gate")[3] = Rm("gateState") /\ ShortDown("gate")[4] = Rm("gateNetwork")
  BY CallsAreCalls, NamesAreCallable DEF ShortUp, ShortDown

LEMMA CriticPieces ==
    /\ ShortUp("critic") \in Seq(Call) /\ Len(ShortUp("critic")) = 8
    /\ ShortUp("critic")[1] = Rm("criticContainer")
    /\ ShortUp("critic")[2] = Rm("criticVolume")
    /\ ShortUp("critic")[3] = Rm("criticState")
    /\ ShortUp("critic")[4] = Make("criticVolume")
    /\ ShortUp("critic")[5] = Make("criticState") /\ ShortUp("critic")[6] = Check("seed")
    /\ ShortUp("critic")[7] = Make("criticContainer")
    /\ ShortUp("critic")[8] = Check("apply")
    /\ ShortDown("critic") \in Seq(Call) /\ Len(ShortDown("critic")) = 3
    /\ ShortDown("critic")[1] = Rm("criticContainer")
    /\ ShortDown("critic")[2] = Rm("criticVolume")
    /\ ShortDown("critic")[3] = Rm("criticState")
  BY CallsAreCalls, NamesAreCallable DEF ShortUp, ShortDown

-----------------------------------------------------------------------------
(* What a runtime call does, and which call stands where. *)

(* What holds a network, and what a container holds. *)
LEMMA Occupants ==
    ASSUME NEW x, OccupiedNetwork(x)
    PROVE  /\ x = "network" => "container" \in live \/ "proxy" \in live
           /\ x = "criticNetwork" => "criticContainer" \in live \/ "proxy" \in live
           /\ x = "gateNetwork" => "gateContainer" \in live
           /\ x \in Networks
<1>1. PICK c \in live \intersect Containers : x \in Joins(c)
  BY DEF OccupiedNetwork
<1>2. CASE c = "container"
  BY <1>1, <1>2 DEF Joins, Networks
<1>3. CASE c = "proxy"
  BY <1>1, <1>3 DEF Joins, Networks
<1>4. CASE c = "criticContainer"
  BY <1>1, <1>4 DEF Joins, Networks
<1>5. CASE c = "gateContainer"
  BY <1>1, <1>5 DEF Joins, Networks
<1> QED
  BY <1>1, <1>2, <1>3, <1>4, <1>5 DEF Containers

LEMMA Occupied ==
    /\ "proxy" \in live => OccupiedNetwork("network") /\ OccupiedNetwork("criticNetwork")
    /\ "criticContainer" \in live => OccupiedNetwork("criticNetwork")
  BY DEF OccupiedNetwork, Joins, Containers

(* What a removal leaves, whichever way the runtime answers. *)
LEMMA RemoveDoes ==
    ASSUME TypeOK, Remove
    PROVE  LET x == Head(calls).name IN
           /\ calls # <<>> /\ Head(calls).call = "remove" /\ calls' = Tail(calls)
           /\ live' \subseteq live /\ live \ {x} \subseteq live'
           /\ x \in live /\ x \notin live' => ~OccupiedNetwork(x)
           /\ x \in live' /\ ~balked' => OccupiedNetwork(x)
           /\ Looked(x) /\ (x \in live' \/ OccupiedNetwork(x)) => x \in failed'
           /\ failed \subseteq failed' /\ failed' \subseteq failed \union {x}
           /\ ~Looked(x) => failed' = failed
           /\ ~balked' => ~balked
           /\ balked' \in BOOLEAN
           /\ UNCHANGED <<stage, kind, shorts, created, reached, survived, clashed,
                          raising, shadowed, run, history>>
<1> DEFINE x == Head(calls).name
<1>1. /\ calls # <<>> /\ Head(calls).call = "remove" /\ calls' = Tail(calls)
      /\ balked \in BOOLEAN
      /\ UNCHANGED <<stage, kind, shorts, created, reached, survived, clashed,
                     raising, shadowed, run, history>>
      /\ \/ /\ Removable(x)
            /\ live' = live \ {x}
            /\ failed' = failed /\ balked' = balked
         \/ /\ failed' = IF Looked(x) THEN failed \union {x} ELSE failed
            /\ balked' = (balked \/ Removable(x))
            /\ live' = live
  BY DEF TypeOK, Remove, InPiece
<1> HIDE DEF x
<1>2. CASE /\ Removable(x)
           /\ live' = live \ {x}
           /\ failed' = failed /\ balked' = balked
  BY <1>1, <1>2 DEF Removable, x
<1>3. CASE /\ failed' = IF Looked(x) THEN failed \union {x} ELSE failed
           /\ balked' = (balked \/ Removable(x))
           /\ live' = live
  <2>1. x \in live' /\ ~balked' => OccupiedNetwork(x)
    BY <1>3 DEF Removable
  <2>2. balked' \in BOOLEAN /\ (~balked' => ~balked)
    BY <1>1, <1>3 DEF Removable
  <2>3. /\ Looked(x) => x \in failed'
        /\ failed \subseteq failed' /\ failed' \subseteq failed \union {x}
        /\ ~Looked(x) => failed' = failed
    BY <1>3
  <2> QED
    BY <1>1, <1>3, <2>1, <2>2, <2>3 DEF x
<1> QED
  BY <1>1, <1>2, <1>3

(* Where a piece has come to. *)
LEMMA UpStands ==
    ASSUME NEW i, UpFits(i)
    PROVE  /\ i \in 1 .. 15 /\ (calls = <<>> <=> i = 15)
           /\ i <= 14 => Head(calls) = CellUp[i] /\ Left(Tail(calls), CellUp, i + 1)
<1>1. Left(calls, CellUp, i) /\ CellUp \in Seq(Call) /\ Len(CellUp) = 14
  BY UpPiece DEF UpFits
<1>3. i \in 1 .. Len(CellUp) + 1
  BY <1>1 DEF Left
<1>4. /\ calls = <<>> <=> i = Len(CellUp) + 1
      /\ i <= Len(CellUp) => /\ Head(calls) = CellUp[i]
                         /\ Left(Tail(calls), CellUp, i + 1)
  BY <1>1, LeftAfter
<1> QED
  BY <1>1, <1>3, <1>4

LEMMA DownStands ==
    ASSUME NEW i, DownFits(i)
    PROVE  /\ i \in 1 .. 7 /\ (calls = <<>> <=> i = 7)
           /\ i <= 6 => /\ Head(calls) = CellDown(StateName)[i]
                        /\ Left(Tail(calls), CellDown(StateName), i + 1)
<1>1. StateName \in {"state", "taskState"}
  BY DEF StateName
<1>2. /\ Left(calls, CellDown(StateName), i) /\ CellDown(StateName) \in Seq(Call)
      /\ Len(CellDown(StateName)) = 6
  BY <1>1, DownPiece DEF DownFits
<1>3. i \in 1 .. Len(CellDown(StateName)) + 1
  BY <1>2 DEF Left
<1>4. /\ calls = <<>> <=> i = Len(CellDown(StateName)) + 1
      /\ i <= Len(CellDown(StateName)) =>
            /\ Head(calls) = CellDown(StateName)[i]
            /\ Left(Tail(calls), CellDown(StateName), i + 1)
  BY <1>2, LeftAfter
<1> QED
  BY <1>2, <1>3, <1>4

(* How many calls a short-lived cell's pieces have. *)
Ups == IF kind = "gate" THEN 10 ELSE 8
Downs == IF kind = "gate" THEN 4 ELSE 3

LEMMA ShortUpStands ==
    ASSUME kind \in {"gate", "critic"}, NEW i, ShortUpFits(i)
    PROVE  /\ i \in 1 .. Ups + 1 /\ (calls = <<>> <=> i = Ups + 1)
           /\ i <= Ups => /\ Head(calls) = ShortUp(kind)[i]
                          /\ Left(Tail(calls), ShortUp(kind), i + 1)
<1>1. /\ Left(calls, ShortUp(kind), i) /\ ShortUp(kind) \in Seq(Call)
      /\ Len(ShortUp(kind)) = Ups
  BY GatePieces, CriticPieces DEF ShortUpFits, Ups
<1>3. i \in 1 .. Len(ShortUp(kind)) + 1
  BY <1>1 DEF Left
<1>4. /\ calls = <<>> <=> i = Len(ShortUp(kind)) + 1
      /\ i <= Len(ShortUp(kind)) =>
            /\ Head(calls) = ShortUp(kind)[i]
            /\ Left(Tail(calls), ShortUp(kind), i + 1)
  BY <1>1, LeftAfter
<1> QED
  BY <1>1, <1>3, <1>4 DEF Ups

LEMMA ShortDownStands ==
    ASSUME kind \in {"gate", "critic"}, NEW i, ShortDownFits(i)
    PROVE  /\ i \in 1 .. Downs + 1 /\ (calls = <<>> <=> i = Downs + 1)
           /\ i <= Downs => /\ Head(calls) = ShortDown(kind)[i]
                            /\ Left(Tail(calls), ShortDown(kind), i + 1)
<1>1. /\ Left(calls, ShortDown(kind), i) /\ ShortDown(kind) \in Seq(Call)
      /\ Len(ShortDown(kind)) = Downs
  BY GatePieces, CriticPieces DEF ShortDownFits, Downs
<1>3. i \in 1 .. Len(ShortDown(kind)) + 1
  BY <1>1 DEF Left
<1>4. /\ calls = <<>> <=> i = Len(ShortDown(kind)) + 1
      /\ i <= Len(ShortDown(kind)) =>
            /\ Head(calls) = ShortDown(kind)[i]
            /\ Left(Tail(calls), ShortDown(kind), i + 1)
  BY <1>1, LeftAfter
<1> QED
  BY <1>1, <1>3, <1>4 DEF Downs

(* A call's fields. *)
LEMMA CallIs ==
    ASSUME NEW n
    PROVE  /\ Rm(n).call = "remove" /\ Rm(n).name = n
           /\ Make(n).call = "make" /\ Make(n).name = n
           /\ Check(n).call = "check" /\ Check(n).name = n
  BY DEF Rm, Make, Check

(* Which calls of a piece remove, which make, and what. *)
LEMMA UpRemoves ==
    ASSUME NEW i \in 1 .. 14, CellUp[i].call = "remove"
    PROVE  /\ i \in {1, 2, 3, 4, 5, 8} /\ CellUp[i].name \in TaskNames
           /\ i = 1 => CellUp[i].name = "container"
           /\ i = 8 => CellUp[i].name = "proxy"
  BY UpPiece, CallIs DEF TaskNames

LEMMA UpMakes ==
    ASSUME NEW i \in 1 .. 14, CellUp[i].call = "make"
    PROVE  \/ i = 6 /\ CellUp[i].name = "network"
           \/ i = 7 /\ CellUp[i].name = "criticNetwork"
           \/ i = 9 /\ CellUp[i].name = "proxy"
           \/ i = 11 /\ CellUp[i].name = "volume"
           \/ i = 12 /\ CellUp[i].name = "state"
           \/ i = 14 /\ CellUp[i].name = "container"
  BY UpPiece, CallIs

LEMMA UpChecks ==
    ASSUME NEW i \in 1 .. 14, CellUp[i].call = "check"
    PROVE  i \in {10, 13}
  BY UpPiece, CallIs

LEMMA DownRemoves ==
    ASSUME NEW n \in {"state", "taskState"}, NEW i \in 1 .. 6
    PROVE  /\ CellDown(n)[i].call = "remove"
           /\ i = 1 => CellDown(n)[i].name = "container"
           /\ i = 2 => CellDown(n)[i].name = "proxy"
           /\ i = 3 => CellDown(n)[i].name = "network"
           /\ i = 4 => CellDown(n)[i].name = "criticNetwork"
           /\ i = 5 => CellDown(n)[i].name = "volume"
           /\ i = 6 => CellDown(n)[i].name = n
  BY DownPiece, CallIs

LEMMA ShortUpCalls ==
    ASSUME NEW k \in {"gate", "critic"}, NEW i \in 1 .. Len(ShortUp(k))
    PROVE  /\ ShortUp(k)[i].call # "check" => ShortUp(k)[i].name \in OfKind(k)
           /\ k = "gate" /\ ShortUp(k)[i].call = "remove" => i \in 1 .. 4
           /\ k = "gate" /\ i = 1 => ShortUp(k)[i].name = "gateContainer"
           /\ k = "gate" /\ i = 2 => ShortUp(k)[i].name = "gateNetwork"
           /\ k = "gate" /\ ShortUp(k)[i].call = "make" =>
                \/ i = 5 /\ ShortUp(k)[i].name = "gateNetwork"
                \/ i = 6 /\ ShortUp(k)[i].name = "gateVolume"
                \/ i = 7 /\ ShortUp(k)[i].name = "gateState"
                \/ i = 9 /\ ShortUp(k)[i].name = "gateContainer"
           /\ k = "gate" /\ ShortUp(k)[i].call = "check" => i \in {8, 10}
           /\ k = "critic" /\ ShortUp(k)[i].call = "remove" => i \in 1 .. 3
           /\ k = "critic" /\ i = 1 => ShortUp(k)[i].name = "criticContainer"
           /\ k = "critic" /\ ShortUp(k)[i].call = "make" =>
                \/ i = 4 /\ ShortUp(k)[i].name = "criticVolume"
                \/ i = 5 /\ ShortUp(k)[i].name = "criticState"
                \/ i = 7 /\ ShortUp(k)[i].name = "criticContainer"
           /\ k = "critic" /\ ShortUp(k)[i].call = "check" => i \in {6, 8}
<1>1. CASE k = "gate"
  <2> DEFINE p == ShortUp("gate")
  <2>1. i \in 1 .. 10
    BY <1>1, GatePieces
  <2>2. /\ p[1].name = "gateContainer" /\ p[2].name = "gateNetwork"
        /\ p[3].name = "gateVolume" /\ p[4].name = "gateState" 
        /\ p[5].name = "gateNetwork" /\ p[6].name = "gateVolume"
        /\ p[7].name = "gateState" /\ p[9].name = "gateContainer"
        /\ p[1].call = "remove" /\ p[2].call = "remove" /\ p[3].call = "remove"
        /\ p[4].call = "remove" /\ p[5].call = "make" /\ p[6].call = "make"
        /\ p[7].call = "make" /\ p[8].call = "check" /\ p[9].call = "make"
        /\ p[10].call = "check"
    <3> USE GatePieces, CallIs
    <3>1. /\ p[1].name = "gateContainer" /\ p[1].call = "remove"
          /\ p[2].name = "gateNetwork" /\ p[2].call = "remove"
          /\ p[3].name = "gateVolume" /\ p[3].call = "remove"
          /\ p[4].name = "gateState" /\ p[4].call = "remove"
      OBVIOUS
    <3>2. /\ p[5].name = "gateNetwork" /\ p[5].call = "make"
          /\ p[6].name = "gateVolume" /\ p[6].call = "make"
          /\ p[7].name = "gateState" /\ p[7].call = "make"
      OBVIOUS
    <3>3. /\ p[8].call = "check" /\ p[9].name = "gateContainer" /\ p[9].call = "make"
          /\ p[10].call = "check"
      OBVIOUS
    <3> QED
      BY <3>1, <3>2, <3>3
  <2> HIDE DEF p
  <2>3. OfKind("gate") = {"gateNetwork", "gateVolume", "gateState", "gateContainer"}
    BY DEF OfKind
  <2>4. p[i].call # "check" => p[i].name \in OfKind("gate")
    BY <2>1, <2>2, <2>3
  <2>5. /\ p[i].call = "remove" => i \in 1 .. 4
        /\ i = 1 => p[i].name = "gateContainer"
        /\ i = 2 => p[i].name = "gateNetwork"
        /\ p[i].call = "make" =>
             \/ i = 5 /\ p[i].name = "gateNetwork"
             \/ i = 6 /\ p[i].name = "gateVolume"
             \/ i = 7 /\ p[i].name = "gateState"
             \/ i = 9 /\ p[i].name = "gateContainer"
        /\ p[i].call = "check" => i \in {8, 10}
    BY <2>1, <2>2
  <2> QED
    BY <1>1, <2>4, <2>5 DEF p
<1>2. CASE k = "critic"
  <2> DEFINE p == ShortUp("critic")
  <2>1. i \in 1 .. 8
    BY <1>2, CriticPieces
  <2>2. /\ p[1].name = "criticContainer" /\ p[2].name = "criticVolume"
        /\ p[3].name = "criticState" /\ p[4].name = "criticVolume"
        /\ p[5].name = "criticState" /\ p[7].name = "criticContainer"
        /\ p[1].call = "remove" /\ p[2].call = "remove" /\ p[3].call = "remove"
        /\ p[4].call = "make" /\ p[5].call = "make" /\ p[6].call = "check"
        /\ p[7].call = "make" /\ p[8].call = "check"
    <3> USE CriticPieces, CallIs
    <3>1. /\ p[1].name = "criticContainer" /\ p[1].call = "remove"
          /\ p[2].name = "criticVolume" /\ p[2].call = "remove"
          /\ p[3].name = "criticState" /\ p[3].call = "remove"
      OBVIOUS
    <3>2. /\ p[4].name = "criticVolume" /\ p[4].call = "make"
          /\ p[5].name = "criticState" /\ p[5].call = "make"
          /\ p[6].call = "check"
      OBVIOUS
    <3>3. /\ p[7].name = "criticContainer" /\ p[7].call = "make"
          /\ p[8].call = "check"
      OBVIOUS
    <3> QED
      BY <3>1, <3>2, <3>3
  <2> HIDE DEF p
  <2>3. OfKind("critic") = {"criticVolume", "criticState", "criticContainer"}
    BY DEF OfKind
  <2>4. p[i].call # "check" => p[i].name \in OfKind("critic")
    BY <2>1, <2>2, <2>3
  <2>5. /\ p[i].call = "remove" => i \in 1 .. 3
        /\ i = 1 => p[i].name = "criticContainer"
        /\ p[i].call = "make" =>
             \/ i = 4 /\ p[i].name = "criticVolume"
             \/ i = 5 /\ p[i].name = "criticState"
             \/ i = 7 /\ p[i].name = "criticContainer"
        /\ p[i].call = "check" => i \in {6, 8}
    BY <2>1, <2>2
  <2> QED
    BY <1>2, <2>4, <2>5 DEF p
<1> QED
  BY <1>1, <1>2

LEMMA ShortDownRemoves ==
    ASSUME NEW k \in {"gate", "critic"}
    PROVE  /\ \A i \in 1 .. Len(ShortDown(k)) :
                /\ ShortDown(k)[i].call = "remove" /\ ShortDown(k)[i].name \in OfKind(k)
                /\ ShortDown(k)[i].name \in Networks => k = "gate" /\ i = 4
           /\ \A x \in OfKind(k) :
                \E i \in 1 .. Len(ShortDown(k)) : ShortDown(k)[i].name = x
           /\ k = "gate" => ShortDown(k)[1].name = "gateContainer"
<1>1. CASE k = "gate"
  <2> DEFINE p == ShortDown("gate")
  <2>1. Len(p) = 4
    BY GatePieces
  <2>2. /\ p[1].name = "gateContainer" /\ p[2].name = "gateVolume"
        /\ p[3].name = "gateState" /\ p[4].name = "gateNetwork"
        /\ p[1].call = "remove" /\ p[2].call = "remove" /\ p[3].call = "remove"
        /\ p[4].call = "remove"
    BY GatePieces, CallIs
  <2> HIDE DEF p
  <2>3. OfKind("gate") = {"gateNetwork", "gateVolume", "gateState", "gateContainer"}
    BY DEF OfKind
  <2>4. ASSUME NEW i \in 1 .. 4
        PROVE  /\ p[i].call = "remove" /\ p[i].name \in OfKind("gate")
               /\ p[i].name \in Networks => i = 4
    BY <2>2, <2>3, <2>4 DEF Networks
  <2>5. \A x \in OfKind("gate") : \E i \in 1 .. 4 : p[i].name = x
    BY <2>2, <2>3
  <2> QED
    BY <1>1, <2>1, <2>2, <2>4, <2>5 DEF p
<1>2. CASE k = "critic"
  <2> DEFINE p == ShortDown("critic")
  <2>1. Len(p) = 3
    BY CriticPieces
  <2>2. /\ p[1].name = "criticContainer" /\ p[2].name = "criticVolume"
        /\ p[3].name = "criticState"
        /\ p[1].call = "remove" /\ p[2].call = "remove" /\ p[3].call = "remove"
    BY CriticPieces, CallIs
  <2> HIDE DEF p
  <2>3. OfKind("critic") = {"criticVolume", "criticState", "criticContainer"}
    BY DEF OfKind
  <2>4. ASSUME NEW i \in 1 .. 3
        PROVE  /\ p[i].call = "remove" /\ p[i].name \in OfKind("critic")
               /\ p[i].name \notin Networks
    BY <2>2, <2>3, <2>4 DEF Networks
  <2>5. \A x \in OfKind("critic") : \E i \in 1 .. 3 : p[i].name = x
    BY <2>2, <2>3
  <2> QED
    BY <1>2, <2>1, <2>2, <2>4, <2>5 DEF p
<1> QED
  BY <1>1, <1>2
-----------------------------------------------------------------------------
(***************************************************************************)
(* One lemma per action: what the whole invariant is after it.             *)
(***************************************************************************)
LEMMA StandsAtFirst ==
    /\ Left(CellUp, CellUp, 1)
    /\ \A n \in {"state", "taskState"} : Left(CellDown(n), CellDown(n), 1)
    /\ \A k \in {"gate", "critic"} : /\ Left(ShortUp(k), ShortUp(k), 1)
                                     /\ Left(ShortDown(k), ShortDown(k), 1)
<1>1. Left(CellUp, CellUp, 1)
  BY UpPiece, LeftAtFirst
<1>2. ASSUME NEW n \in {"state", "taskState"}
      PROVE  Left(CellDown(n), CellDown(n), 1)
  BY <1>2, DownPiece, LeftAtFirst
<1>3. ASSUME NEW k \in {"gate", "critic"}
      PROVE  /\ Left(ShortUp(k), ShortUp(k), 1)
             /\ Left(ShortDown(k), ShortDown(k), 1)
  BY <1>3, GatePieces, CriticPieces, LeftAtFirst
<1> QED
  BY <1>1, <1>2, <1>3

LEMMA InitFits ==
    Init => ResourcesInv
<1> SUFFICES ASSUME Init PROVE ResourcesInv
  OBVIOUS
<1>1. TypeOK
  <2>1. 1 \in 1 .. MaxRuns /\ 0 \in 0 .. MaxShortCells
    BY BoundsAssumption
  <2> QED
    BY <2>1 DEF Init, TypeOK
<1>2. Shape
  BY DEF Init, Shape
<1>3. CallsFit
  <2>1. UpFits(1)
    BY StandsAtFirst DEF Init, UpFits, TaskNames
  <2> QED
    BY <2>1 DEF Init, CallsFit
<1>4. ShortFits /\ CriticFits /\ NetworkReached /\ LeakShows /\ OrdersSuffice
  BY DEF Init, ShortFits, CriticFits, ShortStages, NetworkReached, LeakShows, OrdersSuffice
<1> QED
  BY <1>1, <1>2, <1>3, <1>4 DEF ResourcesInv

LEMMA NothingFits ==
    ASSUME ResourcesInv, UNCHANGED vars
    PROVE  ResourcesInv'
<1> USE DEF vars
<1>1. TypeOK'
  BY DEF ResourcesInv, TypeOK
<1>2. Shape'
  BY DEF ResourcesInv, Shape
<1>3. CallsFit'
  BY DEF ResourcesInv, CallsFit, UpFits, ShortUpFits, ShortDownFits, DownFits, Removed,
         StateName
<1>4. ShortFits' /\ CriticFits' /\ NetworkReached'
  BY DEF ResourcesInv, ShortFits, CriticFits, NetworkReached, InShort
<1>5. LeakShows' /\ OrdersSuffice'
  BY DEF ResourcesInv, LeakShows, OrdersSuffice
<1> QED
  BY <1>1, <1>2, <1>3, <1>4, <1>5 DEF ResourcesInv

LEMMA RerunFits ==
    ASSUME ResourcesInv, Rerun
    PROVE  ResourcesInv'
<1>1. TypeOK'
  <2>1. run' \in 1 .. MaxRuns /\ shorts' \in 0 .. MaxShortCells
    BY BoundsAssumption DEF ResourcesInv, TypeOK, Rerun
  <2> QED
    BY <2>1 DEF ResourcesInv, TypeOK, Rerun
<1>2. Shape'
  BY DEF Rerun, Shape
<1>3. CallsFit'
  <2>1. UpFits(1)'
    BY StandsAtFirst DEF Rerun, UpFits, TaskNames
  <2> QED
    BY <2>1 DEF Rerun, CallsFit
<1>4. ShortFits' /\ NetworkReached' /\ LeakShows' /\ OrdersSuffice'
  BY DEF Rerun, ShortFits, NetworkReached, LeakShows, OrdersSuffice
<1>5. CriticFits'
  BY DEF ResourcesInv, Rerun, CriticFits, ShortStages
<1> QED
  BY <1>1, <1>2, <1>3, <1>4, <1>5 DEF ResourcesInv

LEMMA KillFits ==
    ASSUME ResourcesInv, Kill
    PROVE  ResourcesInv'
<1>1. TypeOK'
  BY DEF ResourcesInv, TypeOK, Kill
<1>2. Shape'
  BY DEF ResourcesInv, Kill, Shape
<1>3. CallsFit' /\ ShortFits' /\ NetworkReached' /\ LeakShows'
  BY DEF Kill, CallsFit, ShortFits, NetworkReached, LeakShows
<1>4. CriticFits' /\ OrdersSuffice'
  BY DEF ResourcesInv, Kill, CriticFits, ShortStages, OrdersSuffice
<1> QED
  BY <1>1, <1>2, <1>3, <1>4 DEF ResourcesInv

LEMMA UpKeeps ==
    ASSUME ResourcesInv, Up
    PROVE  ResourcesInv'
<1>1. TypeOK'
  BY DEF ResourcesInv, TypeOK, Up
<1>2. Shape'
  BY DEF ResourcesInv, Up, Shape
<1>3. CallsFit'
  BY DEF ResourcesInv, Up, CallsFit
<1>4. CASE stage = "up"
  <2>1. PICK i \in Nat : UpFits(i)
    BY <1>4 DEF ResourcesInv, CallsFit
  <2>2. i = 15
    BY <2>1, UpStands DEF Up
  <2>3. "network" \in reached /\ "criticNetwork" \in live
    BY <2>1, <2>2 DEF UpFits
  <2>4. ShortFits'
    BY <1>4 DEF ResourcesInv, Up, ShortFits, InShort, ShortStages
  <2>5. CriticFits'
    BY <1>4, <2>3 DEF ResourcesInv, Up, CriticFits, InShort, ShortStages
  <2>6. NetworkReached' /\ LeakShows' /\ OrdersSuffice'
    BY <1>4, <2>3 DEF ResourcesInv, Up, NetworkReached, LeakShows, OrdersSuffice
  <2> QED
    BY <1>1, <1>2, <1>3, <2>4, <2>5, <2>6 DEF ResourcesInv
<1>5. CASE stage = "shortUp"
  <2>1. ShortFits'
    BY <1>5 DEF ResourcesInv, Up, ShortFits, InShort, ShortStages
  <2>2. CriticFits'
    BY <1>5 DEF ResourcesInv, Up, CriticFits, InShort, ShortStages
  <2>3. NetworkReached' /\ LeakShows' /\ OrdersSuffice'
    BY <1>5 DEF ResourcesInv, Up, NetworkReached, LeakShows, OrdersSuffice
  <2> QED
    BY <1>1, <1>2, <1>3, <2>1, <2>2, <2>3 DEF ResourcesInv
<1> QED
  BY <1>4, <1>5 DEF Up

LEMMA OpenShortCellFits ==
    ASSUME ResourcesInv, OpenShortCell
    PROVE  ResourcesInv'
<1>1. TypeOK'
  <2>1. shorts' \in 0 .. MaxShortCells
    BY BoundsAssumption DEF ResourcesInv, TypeOK, OpenShortCell
  <2> QED
    BY <2>1 DEF ResourcesInv, TypeOK, OpenShortCell
<1>2. Shape'
  BY DEF ResourcesInv, OpenShortCell, Shape
<1>3. CallsFit'
  <2>1. ShortUpFits(1)'
    BY StandsAtFirst DEF OpenShortCell, ShortUpFits
  <2> QED
    BY <2>1 DEF OpenShortCell, CallsFit
<1>4. ShortFits'
  BY DEF ResourcesInv, OpenShortCell, ShortFits, InShort, ShortStages
<1>5. CriticFits'
  BY DEF ResourcesInv, OpenShortCell, CriticFits, InShort, ShortStages
<1>6. NetworkReached' /\ LeakShows' /\ OrdersSuffice'
  BY DEF ResourcesInv, OpenShortCell, NetworkReached, LeakShows, OrdersSuffice
<1> QED
  BY <1>1, <1>2, <1>3, <1>4, <1>5, <1>6 DEF ResourcesInv

LEMMA CloseShortCellFits ==
    ASSUME ResourcesInv, CloseShortCell
    PROVE  ResourcesInv'
<1>1. TypeOK'
  BY DEF ResourcesInv, TypeOK, CloseShortCell
<1>2. Shape'
  BY DEF ResourcesInv, CloseShortCell, Shape
<1>3. CallsFit'
  <2>1. ShortDownFits(1)'
    BY StandsAtFirst DEF ResourcesInv, TypeOK, CloseShortCell, ShortDownFits
  <2> QED
    BY <2>1 DEF CloseShortCell, CallsFit
<1>4. ShortFits'
  BY DEF ResourcesInv, CloseShortCell, ShortFits, InShort, ShortStages
<1>5. CriticFits'
  BY DEF ResourcesInv, CloseShortCell, CriticFits, InShort, ShortStages
<1>6. NetworkReached' /\ LeakShows' /\ OrdersSuffice'
  BY DEF ResourcesInv, CloseShortCell, NetworkReached, LeakShows, OrdersSuffice
<1> QED
  BY <1>1, <1>2, <1>3, <1>4, <1>5, <1>6 DEF ResourcesInv

LEMMA BodyEndsFits ==
    ASSUME ResourcesInv, BodyEnds
    PROVE  ResourcesInv'
<1>0. stage = "body" /\ stage' = "down" /\ shadowed' \in BOOLEAN
  BY DEF BodyEnds
<1>1. TypeOK'
  BY <1>0 DEF ResourcesInv, TypeOK, BodyEnds
<1>2. Shape'
  BY <1>0 DEF ResourcesInv, BodyEnds, Shape
<1>3. CallsFit'
  <2>1. calls' = CellDown(StateName') /\ StateName' \in {"state", "taskState"}
    BY <1>0 DEF BodyEnds, StateName
  <2>2. DownFits(1)'
    BY <2>1, StandsAtFirst DEF DownFits
  <2> QED
    BY <1>0, <2>2 DEF CallsFit
<1>4. ShortFits'
  BY <1>0 DEF ResourcesInv, BodyEnds, ShortFits, InShort, ShortStages
<1>5. CriticFits'
  BY <1>0 DEF ResourcesInv, BodyEnds, CriticFits, InShort, ShortStages
<1>6. NetworkReached' /\ LeakShows' /\ OrdersSuffice'
  BY <1>0 DEF ResourcesInv, BodyEnds, NetworkReached, LeakShows, OrdersSuffice
<1> QED
  BY <1>1, <1>2, <1>3, <1>4, <1>5, <1>6 DEF ResourcesInv

LEMMA ShortCellClosedFits ==
    ASSUME ResourcesInv, ShortCellClosed
    PROVE  ResourcesInv'
<1>0. /\ stage = "shortDown" /\ calls = <<>> /\ failed' = {}
      /\ survived' = survived \union (failed \intersect created)
      /\ \/ stage' = "body" /\ calls' = calls
         \/ stage' = "down" /\ calls' = CellDown("state")
      /\ UNCHANGED <<kind, shorts, live, created, reached, clashed, raising,
                     balked, shadowed, run, history>>
  BY DEF ShortCellClosed, Report
<1>1. TypeOK'
  BY <1>0 DEF ResourcesInv, TypeOK
<1>2. Shape'
  BY <1>0 DEF ResourcesInv, Shape
<1>3. CallsFit'
  <2>1. CASE stage' = "down"
    <3>1. calls' = CellDown(StateName') /\ StateName' \in {"state", "taskState"}
      BY <1>0, <2>1 DEF ResourcesInv, Shape, StateName
    <3>2. DownFits(1)'
      BY <3>1, StandsAtFirst DEF DownFits
    <3> QED
      BY <2>1, <3>2 DEF CallsFit
  <2> QED
    BY <1>0, <2>1 DEF CallsFit
<1>4. ASSUME NEW x \in OfKind(kind)
      PROVE  Removed(x)
  <2>1. kind \in {"gate", "critic"}
    BY DEF ResourcesInv, TypeOK
  <2>2. PICK i \in Nat : ShortDownFits(i)
    BY <1>0 DEF ResourcesInv, CallsFit
  <2>3. i = Len(ShortDown(kind)) + 1
    <3>1. Len(ShortDown(kind)) = Downs
      BY <2>1, GatePieces, CriticPieces DEF Downs
    <3>2. i = Downs + 1
      BY <1>0, <2>1, <2>2, ShortDownStands
    <3> QED
      BY <3>1, <3>2
  <2>4. PICK j \in 1 .. Len(ShortDown(kind)) : ShortDown(kind)[j].name = x
    BY <1>4, <2>1, ShortDownRemoves
  <2>5. Len(ShortDown(kind)) \in Nat
    BY <2>1, GatePieces, CriticPieces
  <2> QED
    BY <2>2, <2>3, <2>4, <2>5 DEF ShortDownFits
<1>5. ShortFits'
  <2>1. ASSUME NEW x \in ShortNames, x \in live, x \in reached
        PROVE  x \in survived' /\ balked
    <3>1. CASE InShort(x)
      <4>1. x \in failed /\ balked
        BY <1>0, <1>4, <2>1, <3>1 DEF InShort, Removed
      <4>2. x \in created
        BY <2>1 DEF ResourcesInv, Shape, ShortNames, OfKind
      <4> QED
        BY <1>0, <4>1, <4>2
    <3>2. CASE ~InShort(x)
      BY <1>0, <2>1, <3>2 DEF ResourcesInv, ShortFits
    <3> QED
      BY <3>1, <3>2
  <2> QED
    BY <1>0, <2>1 DEF ShortFits
<1>6. CriticFits'
  <2>1. InShort("criticContainer") /\ "criticContainer" \in live => balked
    BY <1>4 DEF InShort, Removed
  <2> QED
    BY <1>0, <2>1 DEF ResourcesInv, CriticFits, ShortStages
<1>7. NetworkReached' /\ LeakShows' /\ OrdersSuffice'
  BY <1>0 DEF ResourcesInv, NetworkReached, LeakShows, OrdersSuffice
<1> QED
  BY <1>1, <1>2, <1>3, <1>5, <1>6, <1>7 DEF ResourcesInv

LEMMA TornDownFits ==
    ASSUME ResourcesInv, TornDown
    PROVE  ResourcesInv'
<1>0. /\ stage = "down" /\ calls = <<>> /\ failed' = {} /\ stage' = "done"
      /\ survived' = survived \union (failed \intersect created)
      /\ UNCHANGED <<calls, kind, shorts, live, created, reached, clashed, raising,
                     balked, shadowed, run, history>>
  BY DEF TornDown, Report
<1>1. TypeOK'
  BY <1>0 DEF ResourcesInv, TypeOK
<1>2. Shape'
  BY <1>0 DEF ResourcesInv, Shape
<1>3. CallsFit'
  BY <1>0 DEF CallsFit
<1>4. ShortFits'
  BY <1>0 DEF ResourcesInv, ShortFits, InShort, ShortStages
<1>5. CriticFits'
  BY <1>0 DEF ResourcesInv, CriticFits, InShort, ShortStages
<1>6. NetworkReached'
  BY <1>0 DEF ResourcesInv, NetworkReached
<1>7. PICK i \in Nat : DownFits(i)
  BY <1>0 DEF ResourcesInv, CallsFit
<1>8. i = 7
  BY <1>0, <1>7, DownStands
<1>9. /\ Removed("container") /\ Removed("network") /\ Removed("volume")
      /\ Removed(StateName)
      /\ "proxy" \in live => balked /\ "network" \in failed
      /\ "criticNetwork" \in live => "criticNetwork" \in failed
      /\ ~balked /\ clashed = {} /\ "criticNetwork" \in reached =>
            "criticNetwork" \notin live
  BY <1>7, <1>8 DEF DownFits
<1>10. \A x \in ShortNames : x \in live /\ x \in reached => x \in survived /\ balked
  BY <1>0 DEF ResourcesInv, ShortFits, InShort, ShortStages
<1>11. \A x \in reached : x # "proxy" => x \in created
  BY DEF ResourcesInv, Shape
<1>12. \A x \in live : x \in TaskNames \/ x \in ShortNames
  BY DEF ResourcesInv, TypeOK, Names, Networks, Volumes, Containers, TaskNames,
         ShortNames, OfKind
<1>13. ASSUME NEW x \in live, x \in reached, x # "proxy", shadowed => x # "state"
       PROVE  x \in survived' /\ (clashed = {} => balked)
  <2>1. CASE x \in ShortNames
    BY <1>0, <1>10, <1>13, <2>1
  <2>2. CASE x \in TaskNames
    <3>1. x \in failed /\ (clashed = {} => balked)
      BY <1>9, <1>13, <2>2 DEF Removed, StateName, TaskNames
    <3> QED
      BY <1>0, <1>11, <1>13, <3>1
  <2> QED
    BY <1>12, <2>1, <2>2
<1>14. "proxy" \in live => "network" \in survived'
  BY <1>0, <1>9, <1>11 DEF ResourcesInv, NetworkReached
<1>15. LeakShows'
  <2>1. \A x \in live \intersect reached :
            x \in survived' \/ x = "proxy" \/ (shadowed /\ x = "state")
    BY <1>13
  <2> QED
    BY <1>0, <1>14, <2>1 DEF LeakShows
<1>16. OrdersSuffice'
  <2>1. created \subseteq reached /\ "proxy" \notin created
    BY DEF ResourcesInv, Shape
  <2>2. ~balked /\ clashed = {} =>
            \A x \in live \intersect created : shadowed /\ x = "state"
    BY <1>13, <2>1
  <2> QED
    BY <1>0, <2>2 DEF ResourcesInv, OrdersSuffice
<1> QED
  BY <1>1, <1>2, <1>3, <1>4, <1>5, <1>6, <1>15, <1>16 DEF ResourcesInv

(* A stage with calls left is a piece under way. *)
LEMMA WhereCallsAre ==
    ASSUME ResourcesInv, calls # <<>>
    PROVE  stage \in {"up", "shortUp", "shortDown", "down"}
  BY DEF ResourcesInv, TypeOK, Shape

LEMMA RemoveFits ==
    ASSUME ResourcesInv, Remove
    PROVE  ResourcesInv'
<1>0. PICK x : x = Head(calls).name
  OBVIOUS
<1>1. /\ calls # <<>> /\ Head(calls).call = "remove" /\ calls' = Tail(calls)
      /\ live' \subseteq live /\ live \ {x} \subseteq live'
      /\ x \in live /\ x \notin live' => ~OccupiedNetwork(x)
      /\ x \in live' /\ ~balked' => OccupiedNetwork(x)
      /\ Looked(x) /\ (x \in live' \/ OccupiedNetwork(x)) => x \in failed'
      /\ failed \subseteq failed' /\ failed' \subseteq failed \union {x}
      /\ ~Looked(x) => failed' = failed
      /\ ~balked' => ~balked
      /\ balked' \in BOOLEAN
      /\ UNCHANGED <<stage, kind, shorts, created, reached, survived, clashed,
                     raising, shadowed, run, history>>
  BY <1>0, RemoveDoes DEF ResourcesInv
<1>2. stage \in {"up", "shortUp", "shortDown", "down"} /\ kind \in {"gate", "critic"}
  BY <1>1, WhereCallsAre DEF ResourcesInv, TypeOK
<1>3. /\ x = "network" /\ OccupiedNetwork(x) => "container" \in live \/ "proxy" \in live
      /\ x = "criticNetwork" /\ OccupiedNetwork(x) =>
            "criticContainer" \in live \/ "proxy" \in live
      /\ x = "gateNetwork" /\ OccupiedNetwork(x) => "gateContainer" \in live
      /\ OccupiedNetwork(x) => x \in Networks
  BY Occupants
<1>4. ShortFits'
  BY <1>1 DEF ResourcesInv, ShortFits, InShort
<1>5. "criticContainer" \in live' => "criticNetwork" \in live'
  BY <1>1, Occupied DEF ResourcesInv, CriticFits
<1>6. /\ ~balked' /\ clashed' = {} /\ "criticNetwork" \in reached' /\ stage' # "killed"
           /\ "criticContainer" \in live' => InShort("criticContainer")'
      /\ NetworkReached' /\ LeakShows' /\ OrdersSuffice'
  BY <1>1, <1>2 DEF ResourcesInv, CriticFits, InShort, NetworkReached, LeakShows,
                    OrdersSuffice
<1>7. ASSUME x \in Callable \ {"isolation", "seed", "apply"},
             stage \in {"up", "shortUp"} => ~Looked(x)
      PROVE  TypeOK' /\ Shape'
  BY <1>1, <1>2, <1>7 DEF ResourcesInv, TypeOK, Shape, Callable
<1>8. stage \in {"up", "shortUp"} => ~Looked(x)
  BY DEF Looked
<1>9. CASE stage = "up"
  <2>1. PICK i \in Nat : UpFits(i)
    BY <1>9 DEF ResourcesInv, CallsFit
  <2>2. i \in 1 .. 14 /\ Head(calls) = CellUp[i] /\ Left(calls', CellUp, i + 1)
    BY <1>1, <2>1, UpStands
  <2>3. /\ i \in {1, 2, 3, 4, 5, 8} /\ x \in TaskNames
        /\ i = 1 => x = "container"
        /\ i = 8 => x = "proxy"
    BY <1>0, <1>1, <2>2, UpRemoves
  <2>4. UpFits(i + 1)'
    <3>1. i + 1 > 6 => "network" \in reached'
      BY <1>1, <2>1, <2>3 DEF UpFits
    <3>2. i + 1 <= 7 => "criticNetwork" \notin reached'
      BY <1>1, <2>1, <2>3 DEF UpFits
    <3>3. i + 1 > 7 => "criticNetwork" \in live'
      BY <1>1, <2>1, <2>3 DEF UpFits
    <3>4. ~balked' /\ i + 1 \in 2 .. 14 => "container" \notin live'
      <4>1. CASE i = 1
        BY <1>1, <1>3, <2>3, <4>1 DEF Networks
      <4>2. CASE i # 1
        BY <1>1, <2>1, <2>3, <4>2 DEF UpFits
      <4> QED
        BY <4>1, <4>2
    <3>5. ~balked' /\ i + 1 = 9 => "proxy" \notin live'
      BY <1>1, <1>3, <2>3 DEF Networks
    <3> QED
      BY <1>1, <2>1, <2>2, <3>1, <3>2, <3>3, <3>4, <3>5 DEF UpFits
  <2>5. CallsFit'
    BY <1>1, <1>9, <2>2, <2>4 DEF CallsFit
  <2>6. CriticFits'
    BY <1>1, <1>5, <1>6, <1>9 DEF CriticFits, ShortStages
  <2>7. x \in Callable \ {"isolation", "seed", "apply"}
    BY <2>3 DEF TaskNames, Callable, Names, Networks, Volumes, Containers
  <2> QED
    BY <1>4, <1>6, <1>7, <1>8, <2>5, <2>6, <2>7 DEF ResourcesInv
<1>10. ASSUME x \in OfKind(kind)
       PROVE  CriticFits' /\ x \in Callable \ {"isolation", "seed", "apply"}
  <2>1. x # "criticNetwork"
    BY <1>2, <1>10 DEF OfKind
  <2>2. "criticNetwork" \in live /\ stage \in {"body"} \union ShortStages =>
             "criticNetwork" \in live'
    BY <1>1, <2>1
  <2>3. CriticFits'
    BY <1>1, <1>5, <1>6, <2>2 DEF ResourcesInv, CriticFits
  <2> QED
    BY <1>2, <1>10, <2>3 DEF OfKind, Callable, Names, Networks, Volumes, Containers
<1>11. CASE stage = "shortUp"
  <2>1. PICK i \in Nat : ShortUpFits(i)
    BY <1>11 DEF ResourcesInv, CallsFit
  <2>2. /\ i \in 1 .. Ups /\ Head(calls) = ShortUp(kind)[i]
        /\ Left(calls', ShortUp(kind), i + 1)
    BY <1>1, <1>2, <2>1, ShortUpStands DEF Ups
  <2>3. Len(ShortUp(kind)) = Ups
    BY <1>2, GatePieces, CriticPieces DEF Ups
  <2>4. /\ x \in OfKind(kind)
        /\ kind = "gate" => i \in 1 .. 4
        /\ kind = "gate" /\ i = 1 => x = "gateContainer"
        /\ kind = "gate" /\ i = 2 => x = "gateNetwork"
        /\ kind = "critic" => i \in 1 .. 3
        /\ kind = "critic" /\ i = 1 => x = "criticContainer"
    BY <1>0, <1>1, <1>2, <2>2, <2>3, ShortUpCalls
  <2>5. ShortUpFits(i + 1)'
    <3>1. CASE kind = "gate"
      <4>1. ~balked' /\ i + 1 \in 2 .. 9 => "gateContainer" \notin live'
        <5>1. CASE i = 1
          BY <1>1, <1>3, <2>4, <3>1, <5>1 DEF Networks
        <5>2. CASE i # 1
          BY <1>1, <2>1, <2>4, <3>1, <5>2 DEF ShortUpFits
        <5> QED
          BY <5>1, <5>2
      <4>2. ~balked' /\ i + 1 \in 3 .. 5 => "gateNetwork" \notin live'
        <5>1. CASE i = 2
          BY <1>1, <1>3, <2>1, <2>4, <3>1, <5>1 DEF ShortUpFits
        <5>2. CASE i # 2
          BY <1>1, <2>1, <2>4, <3>1, <5>2 DEF ShortUpFits
        <5> QED
          BY <5>1, <5>2
      <4> QED
        BY <1>1, <2>2, <3>1, <4>1, <4>2 DEF ShortUpFits
    <3>2. CASE kind = "critic"
      <4>1. ~balked' /\ i + 1 \in 2 .. 7 => "criticContainer" \notin live'
        <5>1. CASE i = 1
          BY <1>1, <1>3, <2>4, <3>2, <5>1 DEF Networks
        <5>2. CASE i # 1
          BY <1>1, <2>1, <2>4, <3>2, <5>2 DEF ShortUpFits
        <5> QED
          BY <5>1, <5>2
      <4> QED
        BY <1>1, <2>2, <3>2, <4>1 DEF ShortUpFits
    <3> QED
      BY <1>2, <3>1, <3>2
  <2>6. i + 1 \in Nat
    BY <2>1
  <2>7. CallsFit'
    BY <1>1, <1>11, <2>5, <2>6 DEF CallsFit
  <2> QED
    BY <1>4, <1>6, <1>7, <1>8, <1>10, <2>4, <2>7 DEF ResourcesInv
<1>12. CASE stage = "shortDown"
  <2>1. PICK i \in Nat : ShortDownFits(i)
    BY <1>12 DEF ResourcesInv, CallsFit
  <2>2. /\ i \in 1 .. Downs /\ Head(calls) = ShortDown(kind)[i]
        /\ Left(calls', ShortDown(kind), i + 1)
    BY <1>1, <1>2, <2>1, ShortDownStands DEF Downs
  <2>3. Len(ShortDown(kind)) = Downs
    BY <1>2, GatePieces, CriticPieces DEF Downs
  <2>4. /\ x \in OfKind(kind) /\ x = ShortDown(kind)[i].name
        /\ x \in Networks => kind = "gate" /\ i = 4
        /\ kind = "gate" => ShortDown(kind)[1].name = "gateContainer"
    BY <1>0, <1>1, <1>2, <2>2, <2>3, ShortDownRemoves
  <2>5. x # "proxy" /\ (x \in Networks => x = "gateNetwork")
    BY <1>2, <2>4 DEF OfKind, Networks
  <2>6. Removed(x)'
    <3>1. x \in live' => x \in failed'
      BY <1>1, <1>12, <2>5 DEF Looked
    <3>2. x \in live' /\ ~balked' => FALSE
      <4>1. CASE x \in Networks
        <5>1. kind = "gate" /\ i = 4 /\ x = "gateNetwork"
          BY <2>4, <2>5, <4>1
        <5>2. Removed("gateContainer")
          BY <2>1, <2>4, <5>1 DEF ShortDownFits
        <5> QED
          BY <1>1, <1>3, <5>1, <5>2 DEF Removed
      <4>2. CASE x \notin Networks
        BY <1>1, <1>3, <4>2
      <4> QED
        BY <4>1, <4>2
    <3> QED
      BY <3>1, <3>2 DEF Removed
  <2>7. ASSUME NEW j \in 1 .. (i + 1) - 1
        PROVE  Removed(ShortDown(kind)[j].name)'
    <3>1. CASE j = i
      BY <1>1, <2>4, <2>6, <3>1 DEF Removed
    <3>2. CASE j # i
      <4>1. j \in 1 .. i - 1
        BY <2>1, <2>7, <3>2
      <4>2. Removed(ShortDown(kind)[j].name)
        BY <2>1, <4>1 DEF ShortDownFits
      <4> QED
        BY <1>1, <4>2 DEF Removed
    <3> QED
      BY <3>1, <3>2
  <2>8. ShortDownFits(i + 1)' /\ i + 1 \in Nat
    BY <1>1, <2>1, <2>2, <2>7 DEF ShortDownFits
  <2>9. CallsFit'
    BY <1>1, <1>12, <2>8 DEF CallsFit
  <2>10. CriticFits' /\ TypeOK' /\ Shape'
    BY <1>7, <1>8, <1>10, <1>12, <2>4
  <2> QED
    BY <1>4, <1>6, <2>9, <2>10 DEF ResourcesInv
<1>13. CASE stage = "down"
  <2>1. PICK i \in Nat : DownFits(i)
    BY <1>13 DEF ResourcesInv, CallsFit
  <2>2. /\ i \in 1 .. 6 /\ Head(calls) = CellDown(StateName)[i]
        /\ Left(calls', CellDown(StateName), i + 1)
    BY <1>1, <2>1, DownStands
  <2>3. StateName' = StateName /\ StateName \in {"state", "taskState"}
    BY <1>1 DEF StateName
  <2>4. /\ i = 1 => x = "container"
        /\ i = 2 => x = "proxy"
        /\ i = 3 => x = "network"
        /\ i = 4 => x = "criticNetwork"
        /\ i = 5 => x = "volume"
        /\ i = 6 => x = StateName
    BY <1>0, <2>2, <2>3, DownRemoves
  <2>5. x \in Callable \ {"isolation", "seed", "apply"}
    BY <2>2, <2>3, <2>4 DEF Callable, Names, Networks, Volumes, Containers
  <2>6. CriticFits' /\ TypeOK' /\ Shape'
    BY <1>1, <1>5, <1>6, <1>7, <1>8, <1>13, <2>5 DEF CriticFits, ShortStages
  <2>7. ASSUME NEW n, Removed(n)
        PROVE  Removed(n)'
    BY <1>1, <2>7 DEF Removed
  <2>8. ASSUME i # 2, x \notin Networks
        PROVE  Removed(x)'
    <3>1. Looked(x)
      BY <1>13, <2>2, <2>3, <2>4, <2>8 DEF Looked
    <3> QED
      BY <1>1, <1>3, <2>8, <3>1 DEF Removed
  <2>9. i + 1 > 1 => Removed("container")'
    <3>1. CASE i = 1
      BY <2>4, <2>8, <3>1 DEF Networks
    <3>2. CASE i > 1
      BY <2>1, <2>7, <3>2 DEF DownFits
    <3> QED
      BY <2>2, <3>1, <3>2
  <2>10. i + 1 > 2 => (~balked' => "proxy" \notin live')
    <3>1. CASE i = 2
      BY <1>1, <1>3, <2>4, <3>1 DEF Networks
    <3>2. CASE i > 2
      BY <1>1, <2>1, <3>2 DEF DownFits
    <3> QED
      BY <2>2, <3>1, <3>2
  <2>11. i + 1 > 3 => Removed("network")' /\ ("proxy" \in live' => "network" \in failed')
    <3>1. CASE i = 3
      <4>1. x = "network" /\ Looked(x)
        BY <1>13, <2>4, <3>1 DEF Looked
      <4>2. ~balked => "container" \notin live /\ "proxy" \notin live
        BY <2>1, <3>1 DEF DownFits, Removed
      <4>3. Removed("network")'
        BY <1>1, <1>3, <4>1, <4>2 DEF Removed
      <4>4. "proxy" \in live' => "network" \in failed'
        BY <1>1, <4>1, Occupied
      <4> QED
        BY <4>3, <4>4
    <3>2. CASE i > 3
      BY <1>1, <2>1, <2>7, <3>2 DEF DownFits
    <3> QED
      BY <2>2, <3>1, <3>2
  <2>12. i + 1 > 4 =>
            /\ "criticNetwork" \in live' => "criticNetwork" \in failed'
            /\ ~balked' /\ clashed' = {} /\ "criticNetwork" \in reached' =>
                  "criticNetwork" \notin live'
    <3>1. CASE i = 4
      <4>1. x = "criticNetwork" /\ Looked(x)
        BY <1>13, <2>4, <3>1 DEF Looked
      <4>2. ~balked => "proxy" \notin live
        BY <2>1, <3>1 DEF DownFits
      <4>3. ~balked /\ clashed = {} /\ "criticNetwork" \in reached =>
                "criticContainer" \notin live
        BY <1>13 DEF ResourcesInv, CriticFits, InShort, ShortStages
      <4> QED
        BY <1>1, <1>3, <4>1, <4>2, <4>3
    <3>2. CASE i > 4
      BY <1>1, <2>1, <3>2 DEF DownFits
    <3> QED
      BY <2>2, <3>1, <3>2
  <2>13. i + 1 > 5 => Removed("volume")'
    <3>1. CASE i = 5
      BY <2>4, <2>8, <3>1 DEF Networks
    <3>2. CASE i > 5
      BY <2>1, <2>7, <3>2 DEF DownFits
    <3> QED
      BY <2>2, <3>1, <3>2
  <2>14. i + 1 > 6 => Removed(StateName)'
    <3>1. CASE i = 6
      <4>1. x = StateName /\ x \notin Networks
        BY <2>3, <2>4, <3>1 DEF Networks
      <4> QED
        BY <2>3, <2>8, <3>1, <4>1 DEF Removed
    <3> QED
      BY <2>2, <3>1
  <2>15. Left(calls', CellDown(StateName'), i + 1) /\ i + 1 \in Nat
    BY <2>1, <2>2, <2>3
  <2>16. DownFits(i + 1)'
    BY <2>9, <2>10, <2>11, <2>12, <2>13, <2>14, <2>15 DEF DownFits
  <2>17. CallsFit'
    BY <1>1, <1>13, <2>15, <2>16 DEF CallsFit
  <2> QED
    BY <1>4, <1>6, <2>6, <2>17 DEF ResourcesInv
<1> QED
  BY <1>2, <1>9, <1>11, <1>12, <1>13

(* A piece that raises gives way to the whole of its own teardown. *)
LEMMA UnwindDoes ==
    ASSUME ResourcesInv, Unwind, stage \in {"up", "shortUp"},
           UNCHANGED <<kind, shadowed>>
    PROVE  /\ raising' = TRUE /\ CallsFit'
           /\ stage = "up" => stage' = "down"
           /\ stage = "shortUp" => stage' = "shortDown"
<1>1. ~shadowed /\ kind \in {"gate", "critic"}
  BY DEF ResourcesInv, Shape, TypeOK
<1>2. CASE stage = "up"
  <2>1. raising' = TRUE /\ stage' = "down" /\ calls' = CellDown("state")
    BY <1>2 DEF Unwind
  <2>2. calls' = CellDown(StateName') /\ StateName' \in {"state", "taskState"}
    BY <1>1, <2>1 DEF StateName
  <2>3. DownFits(1)'
    BY <2>2, StandsAtFirst DEF DownFits
  <2> QED
    BY <1>2, <2>1, <2>3 DEF CallsFit
<1>3. CASE stage = "shortUp"
  <2>1. raising' = TRUE /\ stage' = "shortDown" /\ calls' = ShortDown(kind)
    BY <1>3 DEF Unwind
  <2>2. ShortDownFits(1)'
    BY <1>1, <2>1, StandsAtFirst DEF ShortDownFits
  <2> QED
    BY <1>3, <2>1, <2>2 DEF CallsFit
<1> QED
  BY <1>2, <1>3

(* Teardowns only remove. *)
LEMMA WhereWorkIs ==
    ASSUME ResourcesInv, calls # <<>>, Head(calls).call # "remove"
    PROVE  stage \in {"up", "shortUp"}
<1>1. stage \in {"up", "shortUp", "shortDown", "down"} /\ kind \in {"gate", "critic"}
  BY WhereCallsAre DEF ResourcesInv, TypeOK
<1>2. stage # "shortDown"
  <2> SUFFICES ASSUME stage = "shortDown" PROVE FALSE
    OBVIOUS
  <2>1. PICK i \in Nat : ShortDownFits(i)
    BY DEF ResourcesInv, CallsFit
  <2>2. i \in 1 .. Downs /\ Head(calls) = ShortDown(kind)[i]
    BY <1>1, <2>1, ShortDownStands DEF Downs
  <2>3. Len(ShortDown(kind)) = Downs
    BY <1>1, GatePieces, CriticPieces DEF Downs
  <2> QED
    BY <1>1, <2>2, <2>3, ShortDownRemoves
<1>3. stage # "down"
  <2> SUFFICES ASSUME stage = "down" PROVE FALSE
    OBVIOUS
  <2>1. PICK i \in Nat : DownFits(i)
    BY DEF ResourcesInv, CallsFit
  <2>2. i \in 1 .. 6 /\ Head(calls) = CellDown(StateName)[i]
    BY <2>1, DownStands
  <2>3. StateName \in {"state", "taskState"}
    BY DEF StateName
  <2> QED
    BY <2>2, <2>3, DownRemoves
<1> QED
  BY <1>1, <1>2, <1>3

LEMMA CheckItFits ==
    ASSUME ResourcesInv, CheckIt
    PROVE  ResourcesInv'
<1>1. /\ calls # <<>> /\ Head(calls).call = "check"
      /\ \/ calls' = Tail(calls) /\ UNCHANGED <<stage, raising>>
         \/ Unwind
      /\ UNCHANGED <<kind, shorts, live, created, reached, failed, survived, clashed,
                     balked, shadowed, run, history>>
  BY DEF CheckIt, InPiece
<1>2. stage \in {"up", "shortUp"} /\ kind \in {"gate", "critic"}
  BY <1>1, WhereWorkIs DEF ResourcesInv, TypeOK
<1>3. /\ stage = "up" => "network" \in reached
      /\ calls' = Tail(calls) /\ stage' = stage => CallsFit'
  <2>1. CASE stage = "up"
    <3>1. PICK i \in Nat : UpFits(i)
      BY <2>1 DEF ResourcesInv, CallsFit
    <3>2. i \in 1 .. 14 /\ Head(calls) = CellUp[i] /\ Left(Tail(calls), CellUp, i + 1)
      BY <1>1, <3>1, UpStands
    <3>3. i \in {10, 13}
      BY <1>1, <3>2, UpChecks
    <3>4. "network" \in reached
      BY <3>1, <3>3 DEF UpFits
    <3>5. ASSUME calls' = Tail(calls), stage' = stage
          PROVE  CallsFit'
      <4>1. UpFits(i + 1)'
        BY <1>1, <3>1, <3>2, <3>3, <3>5 DEF UpFits
      <4> QED
        BY <2>1, <3>1, <3>5, <4>1 DEF CallsFit
    <3> QED
      BY <3>4, <3>5
  <2>2. CASE stage = "shortUp"
    <3>1. PICK i \in Nat : ShortUpFits(i)
      BY <2>2 DEF ResourcesInv, CallsFit
    <3>2. /\ i \in 1 .. Ups /\ Head(calls) = ShortUp(kind)[i]
          /\ Left(Tail(calls), ShortUp(kind), i + 1)
      BY <1>1, <1>2, <3>1, ShortUpStands DEF Ups
    <3>3. Len(ShortUp(kind)) = Ups
      BY <1>2, GatePieces, CriticPieces DEF Ups
    <3>4. /\ kind = "gate" => i \in {8, 10}
          /\ kind = "critic" => i \in {6, 8}
      BY <1>1, <1>2, <3>2, <3>3, ShortUpCalls
    <3>5. ASSUME calls' = Tail(calls), stage' = stage
          PROVE  CallsFit'
      <4>1. ShortUpFits(i + 1)'
        BY <1>1, <3>1, <3>2, <3>4, <3>5 DEF ShortUpFits
      <4> QED
        BY <2>2, <3>1, <3>5, <4>1 DEF CallsFit
    <3> QED
      BY <2>2, <3>5
  <2> QED
    BY <1>2, <2>1, <2>2
<1>4. /\ CallsFit' /\ raising' \in BOOLEAN
      /\ \/ stage' = stage
         \/ stage = "up" /\ stage' = "down"
         \/ stage = "shortUp" /\ stage' = "shortDown"
  BY <1>1, <1>2, <1>3, UnwindDoes DEF ResourcesInv, TypeOK
<1>5. TypeOK' /\ Shape'
  BY <1>1, <1>2, <1>4 DEF ResourcesInv, TypeOK, Shape
<1>6. ShortFits'
  BY <1>1, <1>2, <1>4 DEF ResourcesInv, ShortFits, InShort, ShortStages
<1>7. CriticFits'
  BY <1>1, <1>2, <1>4 DEF ResourcesInv, CriticFits, InShort, ShortStages
<1>8. NetworkReached' /\ LeakShows' /\ OrdersSuffice'
  BY <1>1, <1>2, <1>3, <1>4 DEF ResourcesInv, NetworkReached, LeakShows, OrdersSuffice
<1> QED
  BY <1>4, <1>5, <1>6, <1>7, <1>8 DEF ResourcesInv

(* What a create leaves, whichever way the runtime answers. *)
LEMMA MakeDoes ==
    ASSUME ResourcesInv, MakeIt, NEW x, x = Head(calls).name
    PROVE  /\ calls # <<>> /\ Head(calls).call = "make"
           /\ reached' = reached \union {x}
           /\ created' = IF x = "proxy" THEN created ELSE created \union {x}
           /\ live \subseteq live' /\ live' \subseteq live \union {x}
           /\ \/ /\ clashed' = clashed /\ (x \notin live \/ x \in Volumes)
              \/ /\ clashed' = clashed \union {x} /\ x \in live /\ live' = live
           /\ \/ calls' = Tail(calls) /\ stage' = stage /\ raising' = raising /\ x \in live'
              \/ Unwind
           /\ UNCHANGED <<kind, shorts, failed, survived, balked, shadowed, run, history>>
<1>1. /\ calls # <<>> /\ Head(calls).call = "make"
      /\ reached' = reached \union {x}
      /\ created' = IF x = "proxy" THEN created ELSE created \union {x}
      /\ Creates(x)
      /\ UNCHANGED <<kind, shorts, failed, survived, balked, shadowed, run, history>>
  BY DEF MakeIt, InPiece
<1>2. CASE /\ x \notin live \/ x \in Volumes
           /\ live' = live \union {x}
           /\ calls' = Tail(calls)
           /\ UNCHANGED <<stage, clashed, raising>>
  BY <1>1, <1>2
<1>3. CASE x \in live /\ clashed' = clashed \union {x} /\ Unwind /\ UNCHANGED live
  BY <1>1, <1>3
<1>4. CASE x \notin live /\ live' \in {live, live \union {x}} /\ Unwind /\ UNCHANGED clashed
  BY <1>1, <1>4
<1> QED
  BY <1>1, <1>2, <1>3, <1>4 DEF Creates

LEMMA MakeItFits ==
    ASSUME ResourcesInv, MakeIt
    PROVE  ResourcesInv'
<1>0. PICK x : x = Head(calls).name
  OBVIOUS
<1>1. /\ calls # <<>> /\ Head(calls).call = "make"
      /\ reached' = reached \union {x}
      /\ created' = IF x = "proxy" THEN created ELSE created \union {x}
      /\ live \subseteq live' /\ live' \subseteq live \union {x}
      /\ \/ /\ clashed' = clashed /\ (x \notin live \/ x \in Volumes)
         \/ /\ clashed' = clashed \union {x} /\ x \in live /\ live' = live
      /\ \/ calls' = Tail(calls) /\ stage' = stage /\ raising' = raising /\ x \in live'
         \/ Unwind
      /\ UNCHANGED <<kind, shorts, failed, survived, balked, shadowed, run, history>>
  BY <1>0, MakeDoes
<1>2. stage \in {"up", "shortUp"} /\ kind \in {"gate", "critic"}
  BY <1>1, WhereWorkIs DEF ResourcesInv, TypeOK
<1>3. /\ raising' \in BOOLEAN
      /\ \/ calls' = Tail(calls) /\ stage' = stage /\ x \in live'
         \/ CallsFit' /\ stage = "up" /\ stage' = "down"
         \/ CallsFit' /\ stage = "shortUp" /\ stage' = "shortDown"
  BY <1>1, <1>2, UnwindDoes DEF ResourcesInv, TypeOK
<1>4. ASSUME x \in Names
      PROVE  TypeOK' /\ Shape'
  <2>1. TypeOK'
    BY <1>1, <1>2, <1>3, <1>4 DEF ResourcesInv, TypeOK
  <2>2. Shape'
    BY <1>1, <1>2, <1>3 DEF ResourcesInv, Shape
  <2> QED
    BY <2>1, <2>2
<1>5. LeakShows'
  BY <1>1, <1>2, <1>3 DEF LeakShows
<1>6. CASE stage = "up"
  <2>1. PICK i \in Nat : UpFits(i)
    BY <1>6 DEF ResourcesInv, CallsFit
  <2>2. i \in 1 .. 14 /\ Head(calls) = CellUp[i] /\ Left(Tail(calls), CellUp, i + 1)
    BY <1>1, <2>1, UpStands
  <2>3. \/ i = 6 /\ x = "network"
        \/ i = 7 /\ x = "criticNetwork"
        \/ i = 9 /\ x = "proxy"
        \/ i = 11 /\ x = "volume"
        \/ i = 12 /\ x = "state"
        \/ i = 14 /\ x = "container"
    BY <1>0, <1>1, <2>2, UpMakes
  <2>4. x \in TaskNames /\ x \in Names /\ x \notin ShortNames /\ "network" \in reached'
    BY <1>1, <2>1, <2>3
       DEF UpFits, TaskNames, Names, Networks, Volumes, Containers, ShortNames, OfKind
  <2>5. CallsFit'
    <3>1. ASSUME calls' = Tail(calls), stage' = stage, x \in live'
          PROVE  UpFits(i + 1)'
      <4>1. reached' \subseteq TaskNames
        BY <1>1, <2>1, <2>4 DEF UpFits
      <4>2. i + 1 <= 7 => "criticNetwork" \notin reached'
        BY <1>1, <2>1, <2>3 DEF UpFits
      <4>3. i + 1 > 7 => "criticNetwork" \in live'
        BY <1>1, <2>1, <2>3, <3>1 DEF UpFits
      <4>4. ~balked' => /\ i + 1 \in 2 .. 14 => "container" \notin live'
                        /\ i + 1 = 9 => "proxy" \notin live'
        BY <1>1, <2>1, <2>3 DEF UpFits
      <4> QED
        BY <2>2, <2>4, <3>1, <4>1, <4>2, <4>3, <4>4 DEF UpFits
    <3>2. i + 1 \in Nat
      BY <2>1
    <3> QED
      BY <1>3, <1>6, <3>1, <3>2 DEF CallsFit
  <2>6. ShortFits'
    <3>1. reached' \subseteq TaskNames
      BY <1>1, <2>1, <2>4 DEF UpFits
    <3>2. ShortNames \intersect TaskNames = {}
      BY DEF ShortNames, TaskNames, OfKind
    <3> QED
      BY <3>1, <3>2 DEF ShortFits
  <2>7. ~balked /\ clashed' = {} /\ "criticNetwork" \in reached' =>
            "criticContainer" \notin live'
    <3>1. x # "criticContainer"
      BY <2>3
    <3>2. CASE i = 7
      <4>1. x = "criticNetwork" /\ x \notin Volumes
        BY <2>3, <3>2 DEF Volumes
      <4>2. clashed' = {} => "criticNetwork" \notin live
        BY <1>1, <4>1
      <4> QED
        BY <1>1, <3>1, <4>2 DEF ResourcesInv, CriticFits
    <3>3. CASE i # 7
      <4>1. x # "criticNetwork"
        BY <2>3, <3>3
      <4>2. clashed' = {} => clashed = {}
        BY <1>1
      <4> QED
        BY <1>1, <1>6, <3>1, <4>1, <4>2 DEF ResourcesInv, CriticFits, InShort, ShortStages
    <3> QED
      BY <3>2, <3>3
  <2>8. CriticFits'
    <3>1. "criticContainer" \in live' => "criticNetwork" \in live'
      BY <1>1, <2>3 DEF ResourcesInv, CriticFits
    <3> QED
      BY <1>1, <1>3, <1>6, <2>7, <3>1 DEF CriticFits, ShortStages
  <2>9. NetworkReached'
    BY <2>4 DEF NetworkReached
  <2>10. OrdersSuffice'
    <3>1. ~balked /\ x \in {"container", "proxy"} => clashed' = clashed
      <4>1. x \in {"container", "proxy"} => x \notin Volumes
        BY DEF Volumes
      <4>2. ~balked /\ x \in {"container", "proxy"} => x \notin live
        BY <2>1, <2>3 DEF UpFits
      <4> QED
        BY <1>1, <4>1, <4>2
    <3>2. stage' # "done"
      BY <1>3, <1>6
    <3> QED
      BY <1>1, <2>3, <3>1, <3>2 DEF ResourcesInv, OrdersSuffice
  <2> QED
    BY <1>4, <1>5, <2>4, <2>5, <2>6, <2>8, <2>9, <2>10 DEF ResourcesInv
<1>7. CASE stage = "shortUp"
  <2>1. PICK i \in Nat : ShortUpFits(i)
    BY <1>7 DEF ResourcesInv, CallsFit
  <2>2. /\ i \in 1 .. Ups /\ Head(calls) = ShortUp(kind)[i]
        /\ Left(Tail(calls), ShortUp(kind), i + 1)
    BY <1>1, <1>2, <2>1, ShortUpStands DEF Ups
  <2>3. Len(ShortUp(kind)) = Ups
    BY <1>2, GatePieces, CriticPieces DEF Ups
  <2>4. /\ x \in OfKind(kind)
        /\ kind = "gate" => \/ i = 5 /\ x = "gateNetwork"
                            \/ i = 6 /\ x = "gateVolume"
                            \/ i = 7 /\ x = "gateState"
                            \/ i = 9 /\ x = "gateContainer"
        /\ kind = "critic" => \/ i = 4 /\ x = "criticVolume"
                              \/ i = 5 /\ x = "criticState"
                              \/ i = 7 /\ x = "criticContainer"
    BY <1>0, <1>1, <1>2, <2>2, <2>3, ShortUpCalls
  <2>5. x \in Names /\ x # "criticNetwork" /\ x # "network"
    BY <1>2, <2>4 DEF Names, Networks, Volumes, Containers
  <2>6. CallsFit'
    <3>1. ASSUME calls' = Tail(calls), stage' = stage
          PROVE  ShortUpFits(i + 1)'
      BY <1>1, <1>2, <2>1, <2>2, <2>4, <3>1 DEF ShortUpFits
    <3>2. i + 1 \in Nat
      BY <2>1
    <3> QED
      BY <1>3, <1>7, <3>1, <3>2 DEF CallsFit
  <2>7. stage' \in ShortStages /\ stage' \in {"shortUp", "shortDown"}
    BY <1>3, <1>7 DEF ShortStages
  <2>8. ShortFits'
    <3>1. InShort(x)'
      BY <1>1, <2>4, <2>7 DEF InShort
    <3>2. ASSUME NEW y \in ShortNames \intersect live' \intersect reached', y # x
          PROVE  InShort(y)' \/ (y \in survived' /\ balked')
      <4>1. y \in live /\ y \in reached
        BY <1>1, <3>2
      <4>2. InShort(y) \/ (y \in survived /\ balked)
        BY <1>7, <3>2, <4>1 DEF ResourcesInv, ShortFits
      <4> QED
        BY <1>1, <2>7, <4>2 DEF InShort
    <3> QED
      BY <3>1, <3>2 DEF ShortFits
  <2>9. CriticFits'
    <3>1. "criticNetwork" \in live'
      BY <1>1, <1>7 DEF ResourcesInv, CriticFits, ShortStages
    <3>2. ASSUME ~balked', clashed' = {}, "criticNetwork" \in reached',
                 "criticContainer" \in live'
          PROVE  InShort("criticContainer")'
      <4>1. CASE x = "criticContainer"
        BY <1>1, <2>4, <2>7, <4>1 DEF InShort
      <4>2. CASE x # "criticContainer"
        <5>1. /\ ~balked /\ clashed = {} /\ "criticNetwork" \in reached
              /\ "criticContainer" \in live
          BY <1>1, <2>5, <3>2, <4>2
        <5>2. InShort("criticContainer")
          BY <1>7, <5>1 DEF ResourcesInv, CriticFits
        <5> QED
          BY <1>1, <2>7, <5>2 DEF InShort
      <4> QED
        BY <4>1, <4>2
    <3> QED
      BY <3>1, <3>2 DEF CriticFits
  <2>10. NetworkReached'
    BY <1>1, <1>7 DEF ResourcesInv, NetworkReached
  <2>11. OrdersSuffice'
    <3>1. ~balked /\ x \in {"gateNetwork", "gateContainer", "criticContainer"} =>
              clashed' = clashed
      <4>1. x \in {"gateNetwork", "gateContainer", "criticContainer"} => x \notin Volumes
        BY DEF Volumes
      <4>2. ~balked /\ x \in {"gateNetwork", "gateContainer", "criticContainer"} =>
                x \notin live
        BY <1>2, <2>1, <2>4 DEF ShortUpFits
      <4> QED
        BY <1>1, <4>1, <4>2
    <3>2. x \notin {"container", "proxy"}
      BY <1>2, <2>4
    <3>3. stage' # "done"
      BY <2>7
    <3> QED
      BY <1>1, <3>1, <3>2, <3>3 DEF ResourcesInv, OrdersSuffice
  <2> QED
    BY <1>4, <1>5, <2>5, <2>6, <2>8, <2>9, <2>10, <2>11 DEF ResourcesInv
<1> QED
  BY <1>2, <1>6, <1>7

(***************************************************************************)
(* The invariant, of every behaviour.                                      *)
(***************************************************************************)
THEOREM ResourcesStand ==
    Spec => []ResourcesInv
<1>1. Init => ResourcesInv
  BY InitFits
<1>2. ResourcesInv /\ [Next]_vars => ResourcesInv'
  <2> SUFFICES ASSUME ResourcesInv, [Next]_vars
               PROVE  ResourcesInv'
    OBVIOUS
  <2>1. CASE Remove
    BY <2>1, RemoveFits
  <2>2. CASE MakeIt
    BY <2>2, MakeItFits
  <2>3. CASE CheckIt
    BY <2>3, CheckItFits
  <2>4. CASE Up
    BY <2>4, UpKeeps
  <2>5. CASE OpenShortCell
    BY <2>5, OpenShortCellFits
  <2>6. CASE CloseShortCell
    BY <2>6, CloseShortCellFits
  <2>7. CASE ShortCellClosed
    BY <2>7, ShortCellClosedFits
  <2>8. CASE BodyEnds
    BY <2>8, BodyEndsFits
  <2>9. CASE TornDown
    BY <2>9, TornDownFits
  <2>10. CASE Kill
    BY <2>10, KillFits
  <2>11. CASE Rerun
    BY <2>11, RerunFits
  <2>12. CASE UNCHANGED vars
    BY <2>12, NothingFits
  <2> QED
    BY <2>1, <2>2, <2>3, <2>4, <2>5, <2>6, <2>7, <2>8, <2>9, <2>10, <2>11, <2>12 DEF Next
<1> QED
  BY <1>1, <1>2, PTL DEF Spec

(***************************************************************************)
(* What a run made and left shows in what it reports, for any number of    *)
(* runs and of short-lived cells, wherever a run was killed.               *)
(***************************************************************************)
THEOREM LeaksAreReported ==
    Spec => []LeakShows
<1>1. ResourcesInv => LeakShows
  BY DEF ResourcesInv
<1> QED
  BY <1>1, ResourcesStand, PTL

(***************************************************************************)
(* With a runtime that removes what it can, the orders of the pre-cleans   *)
(* and the teardowns suffice.                                              *)
(***************************************************************************)
THEOREM OrdersAreRight ==
    Spec => []OrdersSuffice
<1>1. ResourcesInv => OrdersSuffice
  BY DEF ResourcesInv
<1> QED
  BY <1>1, ResourcesStand, PTL
=============================================================================
