---------------------------- MODULE Reviews_proofs ----------------------------
(***************************************************************************)
(* Proofs about Reviews for any number of reviews, ratings and requests at *)
(* the same time.                                                          *)
(***************************************************************************)
EXTENDS Reviews, FiniteSetTheorems, TLAPS

\* What the requests in flight remember.
RequestsRemember ==
    /\ req = [s \in Slots |-> req[s]]
    /\ \A s \in Slots :
          /\ Running(s, "createReview") => req[s].was \in Kind
          /\ Running(s, "updateReview") => req[s].was \in ReviewStatus \ {"NONE"}
          /\ req[s].op \in ReviewHandler => status[req[s].review] # "NONE"
          /\ Running(s, "recalculateWrite") => DOMAIN req[s].read \subseteq Reviews

\* Without a drift, somebody will still read what is approved; or the only request
\* that is about to write has read it; or the figures are right already.
OneWriter ==
    \A s, u \in Slots :
       Running(s, "recalculateWrite") /\ Running(u, "recalculateWrite") => s = u
FiguresComing ==
    \/ \E s \in Slots : Running(s, "recalculateRead")
    \/ \E s \in Slots : Running(s, "recalculateWrite") /\ req[s].read = ApprovedRatings
    \/ Figures /\ \A s \in Slots : ~Running(s, "recalculateWrite")

IInv ==
    /\ TypeOK
    /\ RequestsRemember
    /\ ~drift => OneWriter /\ FiguresComing

-----------------------------------------------------------------------------
LEMMA IdleRequest == Idle.op = "idle" /\ Idle.total = 0 /\ Idle.was = "NONE"
  BY DEF Idle, Plain, Request

\* Changing a review that is not approved leaves the approved ones alone.
LEMMA ApprovedUnchanged ==
    ASSUME TypeOK, TypeOK', NEW r \in Reviews,
           r \notin Approved, status'[r] # "APPROVED",
           \A u \in Reviews \ {r} : status'[u] = status[u] /\ rating'[u] = rating[u]
    PROVE  ApprovedRatings' = ApprovedRatings /\ Approved' = Approved
<1>1. Approved' = Approved
  BY DEF Approved
<1>2. \A u \in Approved : rating'[u] = rating[u]
  BY DEF Approved
<1> QED
  BY <1>1, <1>2 DEF ApprovedRatings

\* The figures depend on nothing else.
LEMMA FiguresUnchanged ==
    ASSUME ApprovedRatings' = ApprovedRatings, Approved' = Approved, UNCHANGED metrics
    PROVE  Figures' = Figures
  BY DEF Figures, metrics

LEMMA InitIInv == Init => IInv
<1> SUFFICES ASSUME Init PROVE IInv
  OBVIOUS
<1>1. TypeOK
  <2>1. rating \in [Reviews -> Ratings]
    BY DEF Init
  <2>2. status \in [Reviews -> ReviewStatus] /\ kind \in [Reviews -> Kind]
    BY DEF Init, ReviewStatus, Kind
  <2>3. total \in Nat /\ drift \in BOOLEAN
    BY DEF Init
  <2>4. ASSUME NEW s \in Slots
        PROVE  /\ req[s].op \in Handler /\ req[s].op \notin ReviewHandler
               /\ req[s].total \in Nat
    BY IdleRequest DEF Init, Handler, ReviewHandler
  <2> QED
    BY <2>1, <2>2, <2>3, <2>4 DEF TypeOK
<1>2. RequestsRemember
  BY IdleRequest DEF Init, RequestsRemember, Running, ReviewHandler
<1>3. OneWriter /\ \A s \in Slots : ~Running(s, "recalculateWrite")
  BY IdleRequest DEF Init, OneWriter, Running
<1>4. Approved = {}
  BY DEF Init, Approved
<1>5. Cardinality(Approved) = 0
  BY <1>4, FS_EmptySet
<1>6. Sum(ApprovedRatings) = 0
  BY <1>4 DEF Sum, ApprovedRatings
<1>7. Figures
  BY <1>5, <1>6 DEF Init, Figures
<1> QED
  BY <1>1, <1>2, <1>3, <1>7 DEF IInv, FiguresComing

-----------------------------------------------------------------------------
(***************************************************************************)
(* Types and what requests remember.                                       *)
(***************************************************************************)

LEMMA BeginTypes ==
    ASSUME TypeOK, RequestsRemember, NEW s \in Slots, NEW r, Begin(s, r),
           r.op \in Handler \ {"recalculateRead", "recalculateWrite", "deleteWrite"},
           r.op \in ReviewHandler => r.review \in Reviews /\ status[r.review] # "NONE",
           r.op = "createReview" => r.was \in Kind,
           r.op = "updateReview" => r.was \in ReviewStatus \ {"NONE"},
           r.total = 0
    PROVE  TypeOK' /\ RequestsRemember'
  BY DEF Begin, row, metrics, TypeOK, RequestsRemember, Running, ReviewHandler

LEMMA ReadTypes ==
    ASSUME TypeOK, RequestsRemember, NEW s \in Slots,
           \/ \E k \in Kind : CreateReviewRead(s, k)
           \/ \E r \in Reviews :
                UpdateReviewRead(s, r) \/ ApproveReviewRead(s, r) \/ DeleteReviewRead(s, r)
    PROVE  /\ TypeOK' /\ RequestsRemember'
           /\ UNCHANGED <<row, metrics, drift>>
           /\ req[s].op = "idle"
           /\ req'[s].op \notin {"recalculateRead", "recalculateWrite"}
           /\ \A u \in Slots \ {s} : req'[u] = req[u]
<1> USE DEF Plain, Request, Handler, ReviewHandler
<1>1. ASSUME NEW k \in Kind, CreateReviewRead(s, k)
      PROVE  /\ TypeOK' /\ RequestsRemember' /\ Begin(s, Plain("createReview", NoReview, k))
  <2>1. Begin(s, Plain("createReview", NoReview, k))
    BY <1>1 DEF CreateReviewRead
  <2> QED
    BY <2>1, BeginTypes
<1>2. ASSUME NEW r \in Reviews, UpdateReviewRead(s, r)
      PROVE  TypeOK' /\ RequestsRemember' /\ Begin(s, Plain("updateReview", r, status[r]))
  <2>1. /\ Begin(s, Plain("updateReview", r, status[r]))
        /\ status[r] \in ReviewStatus \ {"NONE"}
    BY <1>2 DEF UpdateReviewRead, TypeOK
  <2> QED
    BY <2>1, BeginTypes
<1>3. ASSUME NEW r \in Reviews, ApproveReviewRead(s, r)
      PROVE  TypeOK' /\ RequestsRemember' /\ Begin(s, Plain("approveReview", r, "NONE"))
  <2>1. Begin(s, Plain("approveReview", r, "NONE")) /\ status[r] # "NONE"
    BY <1>3 DEF ApproveReviewRead
  <2> QED
    BY <2>1, BeginTypes
<1>4. ASSUME NEW r \in Reviews, DeleteReviewRead(s, r)
      PROVE  /\ TypeOK' /\ RequestsRemember'
             /\ Begin(s, Request("deleteReview", r, "NONE", <<>>, 0, rating[r]))
  <2>1. /\ Begin(s, Request("deleteReview", r, "NONE", <<>>, 0, rating[r]))
        /\ status[r] # "NONE"
    BY <1>4 DEF DeleteReviewRead
  <2> QED
    BY <2>1, BeginTypes
<1>5. ASSUME NEW r, Begin(s, r), r.op \notin {"recalculateRead", "recalculateWrite"}
      PROVE  /\ UNCHANGED <<row, metrics, drift>>
             /\ req[s].op = "idle"
             /\ req'[s].op \notin {"recalculateRead", "recalculateWrite"}
             /\ \A u \in Slots \ {s} : req'[u] = req[u]
  BY <1>5, IdleRequest DEF Begin, RequestsRemember
<1> QED
  BY <1>1, <1>2, <1>3, <1>4, <1>5

\* A request that ends or goes on to recalculate holds no review.
LEMMA NextStage ==
    ASSUME TypeOK, RequestsRemember, NEW s \in Slots, Finish(s) \/ Recalculate(s)
    PROVE  /\ req' = [u \in Slots |-> req'[u]]
           /\ req'[s].op \in {"idle", "recalculateRead"} /\ req'[s].total = 0
           /\ \A u \in Slots \ {s} : req'[u] = req[u]
           /\ Finish(s) => req'[s].op = "idle"
           /\ Recalculate(s) => req'[s].op = "recalculateRead"
  BY DEF RequestsRemember, Finish, Recalculate, Idle, Plain, Request

\* If the rows are still there, the others' memories are still good.
LEMMA RowsStay ==
    ASSUME TypeOK, RequestsRemember, NEW s \in Slots, Finish(s) \/ Recalculate(s),
           \A r \in Reviews : status[r] # "NONE" => status'[r] # "NONE"
    PROVE  /\ RequestsRemember'
           /\ \A u \in Slots :
                 /\ req'[u].op \in Handler
                 /\ req'[u].op \in ReviewHandler => req'[u].review \in Reviews
                 /\ req'[u].total \in Nat
<1>1. /\ req' = [u \in Slots |-> req'[u]]
      /\ req'[s].op \in {"idle", "recalculateRead"} /\ req'[s].total = 0
      /\ \A u \in Slots \ {s} : req'[u] = req[u]
  BY NextStage
<1>2. ASSUME NEW u \in Slots
      PROVE  /\ req'[u].op \in Handler
             /\ req'[u].op \in ReviewHandler => req'[u].review \in Reviews
             /\ req'[u].total \in Nat
             /\ Running(u, "createReview")' => req'[u].was \in Kind
             /\ Running(u, "updateReview")' => req'[u].was \in ReviewStatus \ {"NONE"}
             /\ req'[u].op \in ReviewHandler => status'[req'[u].review] # "NONE"
             /\ Running(u, "recalculateWrite")' => DOMAIN req'[u].read \subseteq Reviews
  <2>1. CASE u = s
    BY <1>1, <2>1 DEF Handler, ReviewHandler, Running
  <2>2. CASE u # s
    BY <1>1, <2>2 DEF TypeOK, RequestsRemember, Running
  <2> QED
    BY <2>1, <2>2
<1> QED
  BY <1>1, <1>2 DEF RequestsRemember

\* The writes of a review.
Committing(s) ==
    \/ \E r \in Reviews, n \in Ratings : CreateReviewCommit(s, r, n)
    \/ \E n \in Ratings : UpdateReviewCommit(s, n)
    \/ ApproveReviewCommit(s)

\* What they have in common.
Commits(s) ==
    /\ Finish(s) \/ Recalculate(s)
    /\ status' \in [Reviews -> ReviewStatus]
    /\ kind' \in [Reviews -> Kind]
    /\ rating' \in [Reviews -> Ratings]
    /\ \A r \in Reviews : status[r] # "NONE" => status'[r] # "NONE"
    /\ UNCHANGED <<metrics, drift>>

LEMMA CommitTypes ==
    ASSUME TypeOK, RequestsRemember, NEW s \in Slots, Committing(s)
    PROVE  TypeOK' /\ RequestsRemember' /\ UNCHANGED <<metrics, drift>>
<1>1. Commits(s)
  <2>1. ASSUME NEW r \in Reviews, NEW n \in Ratings, CreateReviewCommit(s, r, n)
        PROVE  Commits(s)
    BY <2>1 DEF CreateReviewCommit, TypeOK, RequestsRemember, Running, ReviewStatus,
                metrics, Commits
  <2>2. ASSUME NEW n \in Ratings, UpdateReviewCommit(s, n)
        PROVE  Commits(s)
    <3>1. req[s].was \in ReviewStatus \ {"NONE"} /\ req[s].review \in Reviews
      BY <2>2 DEF UpdateReviewCommit, TypeOK, RequestsRemember, Running, ReviewHandler
    <3> QED
      BY <2>2, <3>1 DEF UpdateReviewCommit, TypeOK, ReviewStatus, metrics, Commits
  <2>3. ASSUME ApproveReviewCommit(s)
        PROVE  Commits(s)
    BY <2>3 DEF ApproveReviewCommit, TypeOK, Running, ReviewStatus, ReviewHandler,
                metrics, Commits
  <2> QED
    BY <2>1, <2>2, <2>3 DEF Committing
<1>2. RequestsRemember' /\ \A u \in Slots :
          /\ req'[u].op \in Handler
          /\ req'[u].op \in ReviewHandler => req'[u].review \in Reviews
          /\ req'[u].total \in Nat
  BY <1>1, RowsStay DEF Commits
<1> QED
  BY <1>1, <1>2 DEF TypeOK, metrics, Commits

LEMMA RecalculateTypes ==
    ASSUME TypeOK, RequestsRemember, NEW s \in Slots,
           RecalculateRead(s) \/ RecalculateWrite(s)
    PROVE  TypeOK' /\ RequestsRemember'
<1> USE DEF Handler, ReviewHandler
<1>1. CASE RecalculateRead(s)
  <2>1. DOMAIN ApprovedRatings \subseteq Reviews
    BY DEF ApprovedRatings, Approved
  <2>2. drift' \in BOOLEAN
    BY <1>1 DEF RecalculateRead
  <2>3. /\ req'[s].op = "recalculateWrite" /\ req'[s].total = 0
        /\ req'[s].read = ApprovedRatings
        /\ req' = [u \in Slots |-> req'[u]]
        /\ \A u \in Slots \ {s} : req'[u] = req[u]
    BY <1>1 DEF RecalculateRead, RequestsRemember, Request
  <2>4. UNCHANGED <<status, kind, rating, total>>
    BY <1>1 DEF RecalculateRead, row, metrics
  <2>5. TypeOK'
    BY <2>2, <2>3, <2>4 DEF TypeOK
  <2> QED
    BY <2>1, <2>3, <2>4, <2>5 DEF RequestsRemember, Running
<1>2. CASE RecalculateWrite(s)
  <2>1. DOMAIN req[s].read \subseteq Reviews
    BY <1>2 DEF RecalculateWrite, RequestsRemember
  <2>2. total' \in Nat
    BY <1>2, <2>1, FS_Subset, FS_CardinalityType, ConstantsAssumption DEF RecalculateWrite
  <2>3. Finish(s) /\ UNCHANGED <<status, kind, rating, drift>>
    BY <1>2 DEF RecalculateWrite, row
  <2>4. RequestsRemember' /\ \A u \in Slots :
            /\ req'[u].op \in Handler
            /\ req'[u].op \in ReviewHandler => req'[u].review \in Reviews
            /\ req'[u].total \in Nat
    BY <2>3, RowsStay
  <2> QED
    BY <2>2, <2>3, <2>4 DEF TypeOK
<1> QED
  BY <1>1, <1>2

LEMMA DeleteFiguresTypes ==
    ASSUME TypeOK, RequestsRemember, NEW s \in Slots, DeleteReviewFigures(s)
    PROVE  /\ TypeOK' /\ RequestsRemember'
           /\ UNCHANGED <<row, metrics, drift>>
           /\ req[s].op = "deleteReview" /\ req'[s].op = "deleteWrite"
           /\ \A u \in Slots \ {s} : req'[u] = req[u]
<1> USE DEF Handler, ReviewHandler
<1>1. /\ req[s].op = "deleteReview" /\ req'[s].op = "deleteWrite"
      /\ req'[s].review = req[s].review /\ req'[s].total = total
      /\ req' = [u \in Slots |-> req'[u]]
      /\ \A u \in Slots \ {s} : req'[u] = req[u]
  BY DEF DeleteReviewFigures, Running, RequestsRemember, Request
<1>2. UNCHANGED <<status, kind, rating, total, drift>> /\ UNCHANGED <<row, metrics, drift>>
  BY DEF DeleteReviewFigures, row, metrics
<1>3. TypeOK'
  BY <1>1, <1>2 DEF TypeOK
<1> QED
  BY <1>1, <1>2, <1>3 DEF RequestsRemember, Running

LEMMA DeleteTypes ==
    ASSUME TypeOK, RequestsRemember, NEW s \in Slots, DeleteReviewCommit(s)
    PROVE  /\ TypeOK' /\ RequestsRemember'
           /\ \A u \in Slots : \/ req'[u] = req[u]
                               \/ req[u].op \in ReviewHandler /\ req'[u] = Idle
<1> DEFINE r == req[s].review
<1> USE DEF Handler, ReviewHandler
<1>1. r \in Reviews
  BY DEF DeleteReviewCommit, Running, TypeOK
<1>2. status' \in [Reviews -> ReviewStatus] /\ UNCHANGED <<kind, rating>>
      /\ \A q \in Reviews \ {r} : status'[q] = status[q]
  BY <1>1 DEF DeleteReviewCommit, TypeOK, ReviewStatus
<1>3. total' \in Nat
  BY DEF DeleteReviewCommit, OneReviewLess, TypeOK, metrics
<1>4. drift' \in BOOLEAN
  BY DEF DeleteReviewCommit
<1>5. req' = [u \in Slots |->
                IF req[u].op \in ReviewHandler /\ req[u].review = r THEN Idle ELSE req[u]]
  BY DEF DeleteReviewCommit
<1> HIDE DEF r
<1>6. ASSUME NEW u \in Slots
      PROVE  \/ req'[u] = Idle /\ req[u].op \in ReviewHandler
             \/ /\ req'[u] = req[u]
                /\ req[u].op \in ReviewHandler => req[u].review # r
  BY <1>5
<1>7. ASSUME NEW u \in Slots
      PROVE  /\ req'[u].op \in Handler
             /\ req'[u].op \in ReviewHandler => req'[u].review \in Reviews
             /\ req'[u].total \in Nat
             /\ Running(u, "createReview")' => req'[u].was \in Kind
             /\ Running(u, "updateReview")' => req'[u].was \in ReviewStatus \ {"NONE"}
             /\ req'[u].op \in ReviewHandler => status'[req'[u].review] # "NONE"
             /\ Running(u, "recalculateWrite")' => DOMAIN req'[u].read \subseteq Reviews
  <2>1. CASE req'[u] = Idle
    BY <2>1, IdleRequest DEF Running
  <2>2. CASE req'[u] = req[u] /\ (req[u].op \in ReviewHandler => req[u].review # r)
    BY <2>2, <1>2 DEF TypeOK, RequestsRemember, Running
  <2> QED
    BY <1>6, <2>1, <2>2
<1>8. req' = [u \in Slots |-> req'[u]]
  BY <1>5
<1>9. TypeOK'
  BY <1>2, <1>3, <1>4, <1>7 DEF TypeOK
<1> QED
  BY <1>6, <1>7, <1>8, <1>9 DEF RequestsRemember

LEMMA CleanupTypes ==
    ASSUME TypeOK, RequestsRemember, CleanupExpiredReviews
    PROVE  TypeOK' /\ RequestsRemember'
<1>1. /\ status' \in [Reviews -> ReviewStatus]
      /\ \A r \in Reviews : status[r] # "NONE" => status'[r] # "NONE"
      /\ drift' \in BOOLEAN /\ UNCHANGED <<kind, rating, total, req>>
  BY DEF CleanupExpiredReviews, TypeOK, ReviewStatus, metrics
<1>2. TypeOK'
  BY <1>1 DEF TypeOK
<1> QED
  BY <1>1, <1>2 DEF TypeOK, RequestsRemember, Running

LEMMA AbandonTypes ==
    ASSUME TypeOK, RequestsRemember, NEW s \in Slots, Abandon(s)
    PROVE  TypeOK' /\ RequestsRemember'
<1>1. Finish(s) /\ UNCHANGED <<status, kind, rating, total>> /\ drift' \in BOOLEAN
  BY DEF Abandon, row, metrics
<1>2. RequestsRemember' /\ \A u \in Slots :
          /\ req'[u].op \in Handler
          /\ req'[u].op \in ReviewHandler => req'[u].review \in Reviews
          /\ req'[u].total \in Nat
  BY <1>1, RowsStay
<1> QED
  BY <1>1, <1>2 DEF TypeOK

-----------------------------------------------------------------------------
(***************************************************************************)
(* The figures.                                                            *)
(***************************************************************************)
Recalculating == {"recalculateRead", "recalculateWrite"}

\* A step that touches neither an approved review nor the figures nor a
\* recalculation in flight.
LEMMA QuietStep ==
    ASSUME OneWriter, FiguresComing,
           ApprovedRatings' = ApprovedRatings, Approved' = Approved, UNCHANGED metrics,
           \A u \in Slots : \/ req'[u] = req[u]
                            \/ /\ req[u].op \notin Recalculating
                               /\ req'[u].op \notin Recalculating
    PROVE  OneWriter' /\ FiguresComing'
<1>1. Figures' = Figures
  BY FiguresUnchanged
<1>2. ASSUME NEW u \in Slots
      PROVE  /\ Running(u, "recalculateRead")' = Running(u, "recalculateRead")
             /\ Running(u, "recalculateWrite")' = Running(u, "recalculateWrite")
             /\ Running(u, "recalculateWrite") => req'[u] = req[u]
  BY DEF Running, Recalculating
<1>3. OneWriter'
  BY <1>2 DEF OneWriter
<1>4. FiguresComing'
  <2>1. CASE \E u \in Slots : Running(u, "recalculateRead")
    BY <1>2, <2>1 DEF FiguresComing
  <2>2. CASE \E u \in Slots : Running(u, "recalculateWrite") /\ req[u].read = ApprovedRatings
    BY <1>2, <2>2 DEF FiguresComing
  <2>3. CASE Figures /\ \A u \in Slots : ~Running(u, "recalculateWrite")
    BY <1>1, <1>2, <2>3 DEF FiguresComing
  <2> QED
    BY <2>1, <2>2, <2>3 DEF FiguresComing
<1> QED
  BY <1>3, <1>4

\* A request that is about to read brings the figures.
LEMMA ReaderComes ==
    ASSUME OneWriter, NEW s \in Slots, req'[s].op = "recalculateRead",
           \A u \in Slots \ {s} : req'[u] = req[u]
    PROVE  OneWriter' /\ FiguresComing'
  BY DEF OneWriter, FiguresComing, Running

LEMMA RowsUnchanged ==
    ASSUME UNCHANGED row
    PROVE  ApprovedRatings' = ApprovedRatings /\ Approved' = Approved
  BY DEF row, ApprovedRatings, Approved

LEMMA CommitFigures ==
    ASSUME TypeOK, TypeOK', RequestsRemember, OneWriter, FiguresComing,
           NEW s \in Slots, Committing(s), UNCHANGED metrics
    PROVE  OneWriter' /\ FiguresComing'
<1>1. CASE Recalculate(s)
  BY <1>1, NextStage, ReaderComes
<1>2. CASE ~Recalculate(s)
  <2>1. PICK r \in Reviews, n \in Ratings :
            CreateReviewCommit(s, r, n) /\ Finish(s) /\ status' = [status EXCEPT ![r] = "PENDING"]
    BY <1>2 DEF Committing, CreateReviewCommit, UpdateReviewCommit, ApproveReviewCommit
  <2>2. ApprovedRatings' = ApprovedRatings /\ Approved' = Approved
    <3>1. r \notin Approved /\ status'[r] # "APPROVED"
      BY <2>1 DEF CreateReviewCommit, Approved, TypeOK
    <3>2. \A u \in Reviews \ {r} : status'[u] = status[u] /\ rating'[u] = rating[u]
      BY <2>1 DEF CreateReviewCommit, TypeOK
    <3> QED
      BY <3>1, <3>2, ApprovedUnchanged
  <2>3. req[s].op \notin Recalculating
    BY <2>1 DEF CreateReviewCommit, Running, Recalculating
  <2>4. /\ req'[s].op \notin Recalculating
        /\ \A u \in Slots \ {s} : req'[u] = req[u]
    BY <2>1, NextStage DEF Recalculating
  <2> QED
    BY <2>2, <2>3, <2>4, QuietStep
<1> QED
  BY <1>1, <1>2

LEMMA RecalculateReadFigures ==
    ASSUME RequestsRemember, NEW s \in Slots, RecalculateRead(s), ~drift'
    PROVE  OneWriter' /\ FiguresComing'
<1>1. /\ req'[s].op = "recalculateWrite" /\ req'[s].read = ApprovedRatings
      /\ \A u \in Slots \ {s} : req'[u] = req[u]
  BY DEF RecalculateRead, RequestsRemember, Request
<1>2. \A u \in Slots \ {s} : req[u].op # "recalculateWrite"
  BY DEF RecalculateRead, Running
<1>3. ApprovedRatings' = ApprovedRatings
  BY RowsUnchanged DEF RecalculateRead
<1>4. OneWriter'
  BY <1>1, <1>2 DEF OneWriter, Running
<1> QED
  BY <1>1, <1>3, <1>4 DEF FiguresComing, Running

LEMMA RecalculateWriteFigures ==
    ASSUME TypeOK, RequestsRemember, OneWriter, FiguresComing,
           NEW s \in Slots, RecalculateWrite(s)
    PROVE  OneWriter' /\ FiguresComing'
<1>1. /\ Running(s, "recalculateWrite") /\ Finish(s)
      /\ req'[s].op = "idle"
      /\ \A u \in Slots \ {s} : req'[u] = req[u]
  BY NextStage DEF RecalculateWrite
<1>2. \A u \in Slots : ~Running(u, "recalculateWrite")'
  BY <1>1 DEF OneWriter, Running
<1>3. CASE \E u \in Slots : Running(u, "recalculateRead")
  BY <1>1, <1>3, <1>2 DEF FiguresComing, OneWriter, Running
<1>4. CASE \E u \in Slots : Running(u, "recalculateWrite") /\ req[u].read = ApprovedRatings
  <2>1. req[s].read = ApprovedRatings
    BY <1>1, <1>4 DEF OneWriter
  <2>2. ApprovedRatings' = ApprovedRatings /\ Approved' = Approved
    BY RowsUnchanged DEF RecalculateWrite
  <2>3. DOMAIN ApprovedRatings = Approved
    BY DEF ApprovedRatings
  <2>4. total' = Cardinality(Approved) /\ sum' = Sum(ApprovedRatings)
    BY <2>1, <2>3 DEF RecalculateWrite
  <2>5. Figures'
    BY <2>2, <2>4 DEF Figures
  <2> QED
    BY <1>2, <2>5 DEF OneWriter, FiguresComing
<1> QED
  BY <1>1, <1>2, <1>3, <1>4 DEF FiguresComing, OneWriter

LEMMA DeleteFigures ==
    ASSUME TypeOK, TypeOK', RequestsRemember, OneWriter, FiguresComing,
           NEW s \in Slots, DeleteReviewCommit(s), ~drift'
    PROVE  OneWriter' /\ FiguresComing'
<1>1. req[s].total = 0 /\ req[s].review \notin Approved /\ req[s].review \in Reviews
  <2>1. req[s].total \in Nat /\ req[s].review \in Reviews
    BY DEF DeleteReviewCommit, TypeOK, Running, ReviewHandler
  <2>2. ~(req[s].total > 0) /\ req[s].review \notin Approved
    BY DEF DeleteReviewCommit
  <2> QED
    BY <2>1, <2>2
<1>2. UNCHANGED metrics
  BY <1>1 DEF DeleteReviewCommit, OneReviewLess
<1>3. ApprovedRatings' = ApprovedRatings /\ Approved' = Approved
  <2>1. /\ status'[req[s].review] # "APPROVED"
        /\ \A u \in Reviews \ {req[s].review} : status'[u] = status[u] /\ rating'[u] = rating[u]
    BY <1>1 DEF DeleteReviewCommit, TypeOK
  <2> QED
    BY <1>1, <2>1, ApprovedUnchanged
<1>4. ASSUME NEW u \in Slots
      PROVE  \/ req'[u] = req[u]
             \/ req[u].op \notin Recalculating /\ req'[u].op \notin Recalculating
  BY DeleteTypes, IdleRequest DEF ReviewHandler, Recalculating
<1> QED
  BY <1>2, <1>3, <1>4, QuietStep

LEMMA AbandonFigures ==
    ASSUME TypeOK, RequestsRemember, OneWriter, FiguresComing,
           NEW s \in Slots, Abandon(s), ~drift'
    PROVE  OneWriter' /\ FiguresComing'
<1>1. /\ req'[s].op \notin Recalculating /\ req[s].op \notin Recalculating
      /\ \A u \in Slots \ {s} : req'[u] = req[u]
  BY NextStage DEF Abandon, Recalculating
<1>2. ApprovedRatings' = ApprovedRatings /\ Approved' = Approved /\ UNCHANGED metrics
  BY RowsUnchanged DEF Abandon
<1> QED
  BY <1>1, <1>2, QuietStep

LEMMA NextIInv == IInv /\ [Next]_vars => IInv'
<1> SUFFICES ASSUME IInv, [Next]_vars PROVE IInv'
  OBVIOUS
<1>0. TypeOK /\ RequestsRemember
  BY DEF IInv
<1>1. ASSUME NEW s \in Slots,
             \/ \E k \in Kind : CreateReviewRead(s, k)
             \/ \E r \in Reviews :
                  UpdateReviewRead(s, r) \/ ApproveReviewRead(s, r) \/ DeleteReviewRead(s, r)
      PROVE  IInv'
  <2>1. /\ TypeOK' /\ RequestsRemember'
        /\ UNCHANGED <<row, metrics, drift>>
        /\ req[s].op = "idle"
        /\ req'[s].op \notin {"recalculateRead", "recalculateWrite"}
        /\ \A u \in Slots \ {s} : req'[u] = req[u]
    BY <1>0, <1>1, ReadTypes
  <2>2. ~drift => OneWriter' /\ FiguresComing'
    BY <2>1, RowsUnchanged, QuietStep DEF IInv, Recalculating
  <2> QED
    BY <2>1, <2>2 DEF IInv
<1>2. ASSUME NEW s \in Slots, Committing(s) PROVE IInv'
  BY <1>0, <1>2, CommitTypes, CommitFigures DEF IInv
<1>3. ASSUME NEW s \in Slots, RecalculateRead(s) PROVE IInv'
  BY <1>0, <1>3, RecalculateTypes, RecalculateReadFigures DEF IInv
<1>4. ASSUME NEW s \in Slots, RecalculateWrite(s) PROVE IInv'
  <2>1. drift' = drift
    BY <1>4 DEF RecalculateWrite
  <2> QED
    BY <1>0, <1>4, <2>1, RecalculateTypes, RecalculateWriteFigures DEF IInv
<1>5. ASSUME NEW s \in Slots, DeleteReviewFigures(s) PROVE IInv'
  <2>1. /\ TypeOK' /\ RequestsRemember'
        /\ UNCHANGED <<row, metrics, drift>>
        /\ req[s].op = "deleteReview" /\ req'[s].op = "deleteWrite"
        /\ \A u \in Slots \ {s} : req'[u] = req[u]
    BY <1>0, <1>5, DeleteFiguresTypes
  <2>2. ~drift => OneWriter' /\ FiguresComing'
    BY <2>1, RowsUnchanged, QuietStep DEF IInv, Recalculating
  <2> QED
    BY <2>1, <2>2 DEF IInv
<1>6. ASSUME NEW s \in Slots, DeleteReviewCommit(s) PROVE IInv'
  <2>1. drift => drift'
    BY <1>6 DEF DeleteReviewCommit
  <2> QED
    BY <1>0, <1>6, <2>1, DeleteTypes, DeleteFigures DEF IInv
<1>7. ASSUME NEW s \in Slots, Abandon(s) PROVE IInv'
  <2>1. drift => drift'
    BY <1>7 DEF Abandon
  <2> QED
    BY <1>0, <1>7, <2>1, AbandonTypes, AbandonFigures DEF IInv
<1>8. CASE CleanupExpiredReviews
  <2>1. drift'
    BY <1>8 DEF CleanupExpiredReviews
  <2> QED
    BY <1>0, <1>8, <2>1, CleanupTypes DEF IInv
<1>9. CASE UNCHANGED vars
  <2>1. UNCHANGED <<status, kind, rating, total, sum, drift, req>>
    BY <1>9 DEF vars, row, metrics
  <2>2. UNCHANGED <<row, metrics>>
    BY <1>9 DEF vars
  <2>3. TypeOK'
    BY <1>0, <2>1 DEF TypeOK
  <2>4. RequestsRemember'
    BY <1>0, <2>1 DEF RequestsRemember, Running
  <2>5. ~drift => OneWriter' /\ FiguresComing'
    BY <2>1, <2>2, RowsUnchanged, QuietStep DEF IInv
  <2> QED
    BY <2>1, <2>3, <2>4, <2>5 DEF IInv
<1> QED
  BY <1>1, <1>2, <1>3, <1>4, <1>5, <1>6, <1>7, <1>8, <1>9 DEF Next, Committing

\* Columns and the memory of requests keep their types, however many requests run:
\* in particular totalReviews never falls below zero.
THEOREM TypeCorrect == Spec => []TypeOK
<1>1. IInv => TypeOK
  BY DEF IInv
<1> QED
  BY <1>1, InitIInv, NextIInv, PTL DEF Spec

\* Whatever the interleaving of edits, approvals, new reviews and recalculations,
\* the figures are right once the requests are done, but for the four causes of
\* drift.
THEOREM FiguresSettle == Spec => []FiguresAtRest
<1>1. IInv => FiguresAtRest
  <2> SUFFICES ASSUME IInv, \A s \in Slots : req[s] = Idle, ~drift PROVE Figures
    BY DEF FiguresAtRest
  <2>1. \A s \in Slots : ~Running(s, "recalculateRead") /\ ~Running(s, "recalculateWrite")
    BY IdleRequest DEF Running
  <2> QED
    BY <2>1 DEF IInv, FiguresComing
<1> QED
  BY <1>1, InitIInv, NextIInv, PTL DEF Spec

-----------------------------------------------------------------------------
(***************************************************************************)
(* The bound on reviews of one job.  The reviews and the requests past the *)
(* test are together no more than the slots: a write moves one from the    *)
(* second set to the first, and the test lets a request into the second    *)
(* set only while the first is empty.                                      *)
(***************************************************************************)

LEMMA Finite ==
    ASSUME NEW k
    PROVE  /\ IsFiniteSet(ReviewsOf(k)) /\ Cardinality(ReviewsOf(k)) \in Nat
           /\ IsFiniteSet(Creating(k)) /\ Cardinality(Creating(k)) \in Nat
           /\ Cardinality(Slots) \in Nat
<1>1. ReviewsOf(k) \subseteq Reviews /\ Creating(k) \subseteq Slots
  BY DEF ReviewsOf, Creating
<1> QED
  BY <1>1, ConstantsAssumption, FS_Subset, FS_CardinalityType

\* What a step may add to either set.
Shrinks(k) == ReviewsOf(k)' \subseteq ReviewsOf(k) /\ Creating(k)' \subseteq Creating(k)

LEMMA OthersShrink ==
    ASSUME IInv, [Next]_vars, NEW k,
           \A s \in Slots : ~CreateReviewRead(s, k),
           \A s \in Slots, r \in Reviews, n \in Ratings :
              ~(CreateReviewCommit(s, r, n) /\ req[s].was = k)
    PROVE  Shrinks(k)
<1> USE IdleRequest DEF IInv, TypeOK, RequestsRemember, Running, ReviewsOf, Creating, Shrinks
<1>1. ASSUME NEW s \in Slots, NEW q \in Kind, CreateReviewRead(s, q), q # k
      PROVE  Shrinks(k)
  BY <1>1 DEF CreateReviewRead, Begin, Plain, Request, row
<1>2. ASSUME NEW s \in Slots, NEW r \in Reviews,
             UpdateReviewRead(s, r) \/ ApproveReviewRead(s, r) \/ DeleteReviewRead(s, r)
      PROVE  Shrinks(k)
  BY <1>2 DEF UpdateReviewRead, ApproveReviewRead, DeleteReviewRead, Begin, Plain, Request, row
<1>3. ASSUME NEW s \in Slots, NEW r \in Reviews, NEW n \in Ratings,
             CreateReviewCommit(s, r, n), req[s].was # k
      PROVE  Shrinks(k)
  <2>1. ReviewsOf(k)' \subseteq ReviewsOf(k)
    BY <1>3 DEF CreateReviewCommit
  <2>2. \A u \in Slots \ {s} : req'[u] = req[u]
    BY <1>3, NextStage DEF CreateReviewCommit
  <2>3. req'[s].op # "createReview"
    BY <1>3, NextStage DEF CreateReviewCommit
  <2> QED
    BY <2>1, <2>2, <2>3
<1>4. ASSUME NEW s \in Slots,
             (\E n \in Ratings : UpdateReviewCommit(s, n)) \/ ApproveReviewCommit(s)
      PROVE  Shrinks(k)
  <2>1. status[req[s].review] # "NONE" /\ req[s].review \in Reviews
    BY <1>4 DEF UpdateReviewCommit, ApproveReviewCommit, ReviewHandler
  <2>2. ReviewsOf(k)' \subseteq ReviewsOf(k)
    BY <1>4, <2>1 DEF UpdateReviewCommit, ApproveReviewCommit
  <2>3. Recalculate(s)
    BY <1>4 DEF UpdateReviewCommit, ApproveReviewCommit
  <2>4. req'[s].op # "createReview" /\ \A u \in Slots \ {s} : req'[u] = req[u]
    BY <2>3, NextStage
  <2> QED
    BY <2>2, <2>4
<1>5. ASSUME NEW s \in Slots, RecalculateRead(s) \/ DeleteReviewFigures(s)
      PROVE  Shrinks(k)
  <2>1. UNCHANGED <<status, kind>>
    BY <1>5 DEF RecalculateRead, DeleteReviewFigures, row
  <2>2. \A u \in Slots \ {s} : req'[u] = req[u]
    BY <1>5 DEF RecalculateRead, DeleteReviewFigures
  <2>3. req'[s].op # "createReview"
    <3>1. CASE RecalculateRead(s)
      <4>1. req'[s].op = "recalculateWrite"
        BY <3>1 DEF RecalculateRead, Request
      <4> QED
        BY <4>1
    <3>2. CASE DeleteReviewFigures(s)
      BY <3>2, DeleteFiguresTypes
    <3> QED
      BY <1>5, <3>1, <3>2
  <2>4. ReviewsOf(k)' \subseteq ReviewsOf(k)
    BY <2>1
  <2>5. Creating(k)' \subseteq Creating(k)
    BY <2>2, <2>3
  <2> QED
    BY <2>4, <2>5
<1>6. ASSUME NEW s \in Slots, RecalculateWrite(s) \/ Abandon(s)
      PROVE  Shrinks(k)
  BY <1>6 DEF RecalculateWrite, Abandon, Finish, row
<1>7. ASSUME NEW s \in Slots, DeleteReviewCommit(s)
      PROVE  Shrinks(k)
  <2>1. ReviewsOf(k)' \subseteq ReviewsOf(k)
    BY <1>7 DEF DeleteReviewCommit
  <2>2. Creating(k)' \subseteq Creating(k)
    BY <1>7, DeleteTypes
  <2> QED
    BY <2>1, <2>2
<1>8. CASE CleanupExpiredReviews
  BY <1>8 DEF CleanupExpiredReviews, Approved
<1>9. CASE UNCHANGED vars
  BY <1>9 DEF vars, row
<1> QED
  BY <1>1, <1>2, <1>3, <1>4, <1>5, <1>6, <1>7, <1>8, <1>9 DEF Next

LEMMA NextOvershoot == IInv /\ ReviewOvershoot /\ [Next]_vars => ReviewOvershoot'
<1> DEFINE Bounded(k) ==
      Cardinality(ReviewsOf(k)) + Cardinality(Creating(k)) <= Cardinality(Slots)
<1> SUFFICES ASSUME IInv, [Next]_vars, NEW k \in {"JOB", "DIRECT"}, Bounded(k)
             PROVE  Cardinality(ReviewsOf(k)') + Cardinality(Creating(k)')
                      <= Cardinality(Slots)
  BY DEF ReviewOvershoot
<1>1. ASSUME NEW s \in Slots, CreateReviewRead(s, k)
      PROVE  Cardinality(ReviewsOf(k)') + Cardinality(Creating(k)') <= Cardinality(Slots)
  <2>1. ReviewsOf(k)' = {} /\ Creating(k)' \subseteq Slots
    BY <1>1 DEF CreateReviewRead, Begin, row, ReviewsOf, Creating
  <2>2. /\ Cardinality(ReviewsOf(k)') = 0
        /\ Cardinality(Creating(k)') \in Nat /\ Cardinality(Creating(k)') <= Cardinality(Slots)
    BY <2>1, ConstantsAssumption, FS_EmptySet, FS_Subset, FS_CardinalityType
  <2> QED
    BY <2>2, Finite
<1>2. ASSUME NEW s \in Slots, NEW r \in Reviews, NEW n \in Ratings,
             CreateReviewCommit(s, r, n), req[s].was = k
      PROVE  Cardinality(ReviewsOf(k)') + Cardinality(Creating(k)') <= Cardinality(Slots)
  <2>1. ReviewsOf(k)' \subseteq ReviewsOf(k) \cup {r} /\ r \notin ReviewsOf(k)
    BY <1>2 DEF CreateReviewCommit, ReviewsOf, IInv, TypeOK
  <2>2. Creating(k)' = Creating(k) \ {s} /\ s \in Creating(k)
    BY <1>2, NextStage DEF CreateReviewCommit, Running, Creating, IInv
  <2>3. /\ Cardinality(ReviewsOf(k) \cup {r}) = Cardinality(ReviewsOf(k)) + 1
        /\ IsFiniteSet(ReviewsOf(k) \cup {r})
    BY <2>1, Finite, FS_AddElement
  <2>4. /\ Cardinality(ReviewsOf(k)') \in Nat
        /\ Cardinality(ReviewsOf(k)') <= Cardinality(ReviewsOf(k)) + 1
    BY <2>1, <2>3, FS_Subset, FS_CardinalityType
  <2>5. Cardinality(Creating(k)') = Cardinality(Creating(k)) - 1
    BY <2>2, Finite, FS_RemoveElement
  <2> QED
    BY <2>4, <2>5, Finite
<1>3. CASE Shrinks(k)
  <2>1. /\ Cardinality(ReviewsOf(k)') \in Nat
        /\ Cardinality(ReviewsOf(k)') <= Cardinality(ReviewsOf(k))
        /\ Cardinality(Creating(k)') \in Nat
        /\ Cardinality(Creating(k)') <= Cardinality(Creating(k))
    BY <1>3, Finite, FS_Subset, FS_CardinalityType DEF Shrinks
  <2> QED
    BY <2>1, Finite
<1> QED
  BY <1>1, <1>2, <1>3, OthersShrink

LEMMA InitOvershoot == Init => ReviewOvershoot
<1> SUFFICES ASSUME Init, NEW k
             PROVE  Cardinality(ReviewsOf(k)) + Cardinality(Creating(k)) <= Cardinality(Slots)
  BY DEF ReviewOvershoot
<1>1. ReviewsOf(k) = {} /\ Creating(k) = {}
  BY IdleRequest DEF Init, ReviewsOf, Creating
<1> QED
  BY <1>1, FS_EmptySet, Finite

\* A job gets no more reviews than requests can run at once.
THEOREM ReviewsAreBounded == Spec => []ReviewOvershoot
  BY InitIInv, NextIInv, InitOvershoot, NextOvershoot, PTL DEF Spec
=============================================================================
