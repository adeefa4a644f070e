------------------------------- MODULE Reviews -------------------------------
(***************************************************************************)
(* The reviews of one trader, of one job, one direct job or none, and the  *)
(* figures of TraderMetrics that are computed from them: review.service.ts,*)
(* approveReview of admin.service.ts and the cleanupExpiredReviews cron.   *)
(*                                                                         *)
(* A handler reads a review, writes it by primary key, reads all approved  *)
(* reviews of the trader and writes the figures: four steps that other     *)
(* requests may interleave, the last three in no transaction.  req[s] is   *)
(* what the request in slot s remembers.                                   *)
(***************************************************************************)
EXTENDS Integers, FiniteSets, Functions

CONSTANTS
    Reviews,    \* the reviews that may exist at the same time
    NoReview,
    Ratings,    \* 1 .. 5 in the code
    Slots       \* requests the servers run at the same time

ASSUME ConstantsAssumption ==
    /\ NoReview \notin Reviews
    /\ IsFiniteSet(Reviews) /\ IsFiniteSet(Slots)
    /\ Ratings \subseteq Nat /\ Ratings # {}

VARIABLES
    status,  \* Review.status, "NONE" if there is no row
    kind,    \* of the review: of a JOB, of a DIRECT job, or of the DIRECTORY
    rating,  \* Review.rating
    total,   \* TraderMetrics.totalReviews
    sum,     \* TraderMetrics.averageRating times totalReviews
    drift,   \* history: since the last recalculation something happened that
             \* the figures do not follow
    req      \* the request each slot runs

row == <<status, kind, rating>>
metrics == <<total, sum>>
vars == <<row, metrics, drift, req>>

\* No code writes REJECTED, though approveReview would accept it.
ReviewStatus == {"NONE", "PENDING", "APPROVED", "ARCHIVED"}
\* A review of a direct job has a directJobId and, in general, another reviewType
\* than JOB.
Kind == {"JOB", "DIRECT", "DIRECTORY"}
\* Handlers that address a review by its id.
ReviewHandler == {"updateReview", "approveReview", "deleteReview", "deleteWrite"}
Handler == ReviewHandler \cup
    {"idle", "createReview", "recalculateRead", "recalculateWrite"}

Approved == {r \in Reviews : status[r] = "APPROVED"}
\* The rows a recalculation reads, and what it makes of them.
ApprovedRatings == [r \in Approved |-> rating[r]]
Sum(ratings) == IF DOMAIN ratings = {} THEN 0 ELSE SumFunction(ratings)
Figures == total = Cardinality(Approved) /\ sum = Sum(ApprovedRatings)

Creating(k) == {s \in Slots : req[s].op = "createReview" /\ req[s].was = k}

\* What a request keeps: the review, the kind of one it will create or the status
\* it read, the rows a recalculation read, and of a deletion the rating and then
\* the figures: totalReviews as it is and the sum as it will be.
Request(op, r, was, read, n, m) ==
    [op |-> op, review |-> r, was |-> was, read |-> read, total |-> n, sum |-> m]
Plain(op, r, was) == Request(op, r, was, <<>>, 0, 0)
Idle == Plain("idle", NoReview, "NONE")

Running(s, op) == req[s].op = op
\* The row is locked by the transaction that deletes it.
Locked(r) == \E s \in Slots : Running(s, "deleteWrite") /\ req[s].review = r
Begin(s, r) ==
    /\ req[s] = Idle
    /\ req' = [req EXCEPT ![s] = r]
    /\ UNCHANGED <<row, metrics, drift>>
Finish(s) == req' = [req EXCEPT ![s] = Idle]
Recalculate(s) == req' = [req EXCEPT ![s] = Plain("recalculateRead", NoReview, "NONE")]

-----------------------------------------------------------------------------
Init ==
    /\ status = [r \in Reviews |-> "NONE"]
    /\ kind = [r \in Reviews |-> "DIRECTORY"]
    /\ \E n \in Ratings : rating = [r \in Reviews |-> n]
    /\ total = 0 /\ sum = 0
    /\ drift = FALSE
    /\ req = [s \in Slots |-> Idle]

ReviewsOf(k) == {r \in Reviews : status[r] # "NONE" /\ kind[r] = k}

\* Mutant: an earlier review of the direct job is not looked for.
CreateReviewReadAgain(s, k) ==
    /\ k = "JOB" => ReviewsOf(k) = {}
    /\ Begin(s, Plain("createReview", NoReview, k))

\* One review of the job and one of the direct job, which is COMPLETED by now.
CreateReviewRead(s, k) ==
    /\ k # "DIRECTORY" => ReviewsOf(k) = {}
    /\ Begin(s, Plain("createReview", NoReview, k))

\* A review of a job or a direct job is approved at once.
CreateReviewCommit(s, r, n) ==
    LET k == req[s].was IN
    /\ Running(s, "createReview")
    /\ status[r] = "NONE"
    /\ kind' = [kind EXCEPT ![r] = k]
    /\ rating' = [rating EXCEPT ![r] = n]
    /\ \/ /\ k = "DIRECTORY"
          /\ status' = [status EXCEPT ![r] = "PENDING"]
          /\ Finish(s)
       \/ /\ k # "DIRECTORY"
          /\ status' = [status EXCEPT ![r] = "APPROVED"]
          /\ Recalculate(s)
    /\ UNCHANGED <<metrics, drift>>

\* The 48 hours for edits may end at any time.
UpdateReviewRead(s, r) ==
    /\ status[r] # "NONE"
    /\ Begin(s, Plain("updateReview", r, status[r]))

\* Mutant: an edit that takes a review down does not recalculate.
UpdateReviewCommitSilent(s, n) ==
    LET r == req[s].review IN
    /\ Running(s, "updateReview")
    /\ ~Locked(r)
    /\ rating' = [rating EXCEPT ![r] = n]
    /\ status' = [status EXCEPT ![r] = IF kind[r] = "JOB" THEN req[s].was ELSE "PENDING"]
    /\ IF kind[r] = "JOB" THEN Recalculate(s) ELSE Finish(s)
    /\ UNCHANGED <<kind, metrics, drift>>

\* An edited review must be approved again, but for that of a job, which gets
\* back the status it had when it was read.
UpdateReviewCommit(s, n) ==
    LET r == req[s].review IN
    /\ Running(s, "updateReview")
    /\ ~Locked(r)
    /\ rating' = [rating EXCEPT ![r] = n]
    /\ status' = [status EXCEPT ![r] = IF kind[r] = "JOB" THEN req[s].was ELSE "PENDING"]
    /\ Recalculate(s)
    /\ UNCHANGED <<kind, metrics, drift>>

ApproveReviewRead(s, r) ==
    /\ status[r] \notin {"NONE", "APPROVED"}
    /\ Begin(s, Plain("approveReview", r, "NONE"))

ApproveReviewCommit(s) ==
    /\ Running(s, "approveReview")
    /\ ~Locked(req[s].review)
    /\ status' = [status EXCEPT ![req[s].review] = "APPROVED"]
    /\ Recalculate(s)
    /\ UNCHANGED <<kind, rating, metrics, drift>>

\* recalculateTraderMetrics, of either service: a recalculation that reads while
\* nobody else is about to write makes up for what was missed before.
RecalculateRead(s) ==
    /\ Running(s, "recalculateRead")
    /\ req' = [req EXCEPT ![s] =
                 Request("recalculateWrite", NoReview, "NONE", ApprovedRatings, 0, 0)]
    /\ drift' = \E u \in Slots \ {s} : Running(u, "recalculateWrite")
    /\ UNCHANGED <<row, metrics>>

RecalculateWrite(s) ==
    /\ Running(s, "recalculateWrite")
    /\ total' = Cardinality(DOMAIN req[s].read)
    /\ sum' = Sum(req[s].read)
    /\ Finish(s)
    /\ UNCHANGED <<row, drift>>

DeleteReviewRead(s, r) ==
    /\ status[r] = "PENDING"
    /\ Begin(s, Request("deleteReview", r, "NONE", <<>>, 0, rating[r]))

\* The transaction locks the row and reads the figures ...
DeleteReviewFigures(s) ==
    /\ Running(s, "deleteReview")
    /\ ~Locked(req[s].review)
    /\ req' = [req EXCEPT ![s] =
                 Request("deleteWrite", req[s].review, "NONE", <<>>,
                         total, sum - req[s].sum)]
    /\ UNCHANGED <<row, metrics, drift>>

\* Mutant: totalReviews is not kept from going below zero.
OneReviewLessUnclamped(n, m) ==
    /\ total' = n - 1
    /\ sum' = IF n = 1 THEN 0 ELSE m

\* ... takes the review out of them, if they count any ...
OneReviewLess(n, m) ==
    \/ n = 0 /\ UNCHANGED metrics
    \/ n > 0 /\ total' = n - 1 /\ sum' = IF n = 1 THEN 0 ELSE m

\* ... and deletes the row.  Other requests that hold its id can only fail.
DeleteReviewCommit(s) ==
    LET r == req[s].review IN
    /\ Running(s, "deleteWrite")
    /\ status' = [status EXCEPT ![r] = "NONE"]
    /\ OneReviewLess(req[s].total, req[s].sum)
    /\ drift' = (drift \/ req[s].total > 0 \/ r \in Approved)
    /\ req' = [u \in Slots |->
                 IF req[u].op \in ReviewHandler /\ req[u].review = r THEN Idle ELSE req[u]]
    /\ UNCHANGED <<kind, rating>>

\* The nightly cron archives every approved review, expired or not.
CleanupExpiredReviews ==
    /\ Approved # {}
    /\ status' = [r \in Reviews |-> IF r \in Approved THEN "ARCHIVED" ELSE status[r]]
    /\ drift' = TRUE
    /\ UNCHANGED <<kind, rating, metrics, req>>

\* A request fails.  If it has written its review, the figures miss that.
Abandon(s) ==
    /\ req[s] # Idle
    /\ Finish(s)
    /\ drift' = (drift \/ req[s].op \in {"recalculateRead", "recalculateWrite"})
    /\ UNCHANGED <<row, metrics>>

Next ==
    \/ \E s \in Slots :
         \/ \E k \in Kind : CreateReviewRead(s, k)
         \/ \E r \in Reviews :
              \/ \E n \in Ratings : CreateReviewCommit(s, r, n)
              \/ UpdateReviewRead(s, r)
              \/ ApproveReviewRead(s, r)
              \/ DeleteReviewRead(s, r)
         \/ \E n \in Ratings : UpdateReviewCommit(s, n)
         \/ ApproveReviewCommit(s)
         \/ RecalculateRead(s)
         \/ RecalculateWrite(s)
         \/ DeleteReviewFigures(s)
         \/ DeleteReviewCommit(s)
         \/ Abandon(s)
    \/ CleanupExpiredReviews

Spec == Init /\ [][Next]_vars

-----------------------------------------------------------------------------
\* Columns and requests have their types; of the sum only the runs speak.
TypeOK ==
    /\ status \in [Reviews -> ReviewStatus]
    /\ kind \in [Reviews -> Kind]
    /\ rating \in [Reviews -> Ratings]
    /\ total \in Nat
    /\ drift \in BOOLEAN
    /\ \A s \in Slots :
          /\ req[s].op \in Handler
          /\ req[s].op \in ReviewHandler => req[s].review \in Reviews
          /\ req[s].total \in Nat

\* When no request is in flight, the figures are those of the approved reviews,
\* unless one of four things happened after the last recalculation began: a
\* pending review was deleted, the cron archived, a request died between its
\* review and the figures, or two recalculations overlapped.  No other
\* interleaving of edits, approvals and new reviews makes them wrong.
FiguresAtRest == (\A s \in Slots : req[s] = Idle) /\ ~drift => Figures

\* The test for an earlier review of the same job can be overrun, but by no more
\* than the other requests that passed it at the same time.
ReviewOvershoot ==
    \A k \in {"JOB", "DIRECT"} :
       Cardinality(ReviewsOf(k)) + Cardinality(Creating(k)) <= Cardinality(Slots)
=============================================================================
