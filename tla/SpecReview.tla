----------------------------- MODULE SpecReview -----------------------------
(***************************************************************************)
(* What one spec review, or one spec writer, comes to: a session of tool   *)
(* use, a turn that extracts its answer through a schema, and one more if  *)
(* the answer does not fit it.                                             *)
(***************************************************************************)
EXTENDS Integers, Sequences, FiniteSets

SpecReviewTags      == {"scope", "build", "witness"}
SpecReviewRevisable == {"build", "witness"}

(* A turn dies before it is an attempt, fails, meets the account's limit   *)
(* (failed or not), names no session, or is done; then its answer may fit. *)
Turn(end)   == [end |-> end, fits |-> FALSE, found |-> {}]
Done        == Turn("done")
Says(found) == [end |-> "done", fits |-> TRUE, found |-> found]
Finding(severity, fixes) == [severity |-> severity, fixes |-> fixes]

(* The first turn answers nothing, and must name the session the others    *)
(* resume; the first answer that fits ends it, and so does a second that   *)
(* does not.                                                               *)
EndsAt(turns, i) ==
    \/ turns[i].end \in {"died", "failed", "limited"}
    \/ i = 1 /\ turns[i].end = "anonymous"
    \/ i > 1 /\ turns[i].fits
    \/ i = 3

LastTurn(turns) == CHOOSE i \in DOMAIN turns :
                       EndsAt(turns, i) /\ \A j \in 1 .. i - 1 : ~EndsAt(turns, j)

(* A limit is no error, and every turn that was an attempt is paid for,    *)
(* the one that met the limit too.                                         *)
ReviewSession(turns) ==
    LET n == LastTurn(turns)
        t == turns[n]
    IN  [limited |-> t.end = "limited",
         error   |-> t.end # "limited" /\ ~(n > 1 /\ t.fits),
         paid    |-> n > 1 \/ t.end # "died",
         found   |-> IF n > 1 THEN t.found ELSE {}]

(* The writer's answer is a spec's whole text. *)
WriterSession(turns) ==
    LET n == LastTurn(turns)
        t == turns[n]
    IN  [limited |-> t.end = "limited",
         error   |-> t.end # "limited" /\ ~(n > 1 /\ t.fits),
         paid    |-> n > 1 \/ t.end # "died"]

(* A finding that names no known fix leaves the whole review unread. *)
ReadSpecReview(session) ==
    [session EXCEPT !.error = @ \/ \E f \in session.found : f.fixes \notin SpecReviewTags \union {"none"}]

Blockers(review) == {f \in review.found : f.severity = "blocker"}

SpecReviewRoute(review) ==
    IF review.limited THEN "wait"
    ELSE IF review.error THEN "error"
    ELSE IF Blockers(review) # {}
    THEN IF \A f \in Blockers(review) : f.fixes \in SpecReviewRevisable THEN "revise" ELSE "escalate"
    ELSE IF Finding("concern", "witness") \in review.found THEN "revise" ELSE "run"

RouteOf(turns) == SpecReviewRoute(ReadSpecReview(ReviewSession(turns)))
=============================================================================
