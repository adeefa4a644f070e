-------------------------- MODULE JobQuotes_proofs --------------------------
(***************************************************************************)
(* Proofs about JobQuotes for any set of traders, any number of requests   *)
(* at the same time and any value of the bounds.                           *)
(***************************************************************************)
EXTENDS JobQuotes, FiniteSetTheorems, TLAPS

\* The inductive invariant.  WorkHasTrader and CreditFollowsAward need to know
\* what the requests in flight remember: those about to start, complete or
\* cancel the job read a status that only an acceptance sets, and selected,
\* once set, always names a trader whose quote was accepted.  The bound on the
\* quotes needs that a request about a quote never outlives it.
SelectedWasAwarded == selected # NoTrader => awards[selected] > 0

RequestsKnowWinner ==
    \A s \in Slots :
       /\ req[s].op \in QuoteHandler \cup {"createQuote", "insertQuote"} =>
             req[s].trader \in Traders
       /\ req[s].op \in QuoteHandler => quote[req[s].trader] # "NONE"
       /\ req[s].op \in {"startJob", "completeJob", "cancelJob"} => selected # NoTrader
       /\ req[s].op \in {"completeJob", "cancelJob"} =>
             req[s].trader \in Traders /\ awards[req[s].trader] > 0
       /\ req[s].op = "blamed" => req[s].trader \in Traders

IInv ==
    /\ TypeOK
    /\ AcceptedIsSelected
    /\ MatchesFollowQuotes
    /\ WorkHasTrader
    /\ CreditFollowsAward
    /\ SelectedWasAwarded
    /\ RequestsKnowWinner

\* What a request that begins puts in its slot.
Opens(s, r) ==
    /\ UNCHANGED <<jobRow, quote, match, metrics>>
    /\ req' = [req EXCEPT ![s] = r]
    /\ r.op \notin {"insertQuote", "blamed"}
    /\ r.op \in QuoteHandler \cup {"createQuote"} => r.trader \in Traders
    /\ r.op \in QuoteHandler => quote[r.trader] # "NONE"
    /\ r.op \in {"startJob", "completeJob", "cancelJob"} =>
         status \in {"ASSIGNED", "IN_PROGRESS"}
    /\ r.op \in {"completeJob", "cancelJob"} => r.trader = selected

-----------------------------------------------------------------------------
\* A request that reads changes nothing but its slot.
LEMMA ReadOpens ==
    ASSUME TypeOK, NEW s \in Slots, Read(s)
    PROVE  \E r \in RequestType : Opens(s, r)
<1>1. ASSUME NEW t \in Traders, CreateQuoteRead(s, t)
      PROVE  Opens(s, Request("createQuote", t, 0, FALSE))
  BY <1>1 DEF CreateQuoteRead, Opens, Begin, Request, QuoteHandler
<1>2. ASSUME NEW t \in Traders, AcceptQuoteRead(s, t)
      PROVE  Opens(s, Request("acceptQuote", t, 0, FALSE))
  BY <1>2 DEF AcceptQuoteRead, Opens, Begin, Request, QuoteHandler
<1>3. ASSUME NEW t \in Traders, RejectQuoteRead(s, t)
      PROVE  Opens(s, Request("rejectQuote", t, received, FALSE))
  BY <1>3 DEF RejectQuoteRead, Opens, Begin, Request, QuoteHandler
<1>4. ASSUME NEW t \in Traders, UpdateQuoteRead(s, t)
      PROVE  \/ Opens(s, Request("updateQuote", t, received, TRUE))
             \/ Opens(s, Request("updateQuote", t, 0, FALSE))
  BY <1>4 DEF UpdateQuoteRead, BeginUpdate, Opens, Begin, Request, QuoteHandler
<1>5. ASSUME NEW t \in Traders, WithdrawQuoteRead(s, t)
      PROVE  Opens(s, Request("withdrawQuote", t, received, FALSE))
  BY <1>5 DEF WithdrawQuoteRead, Opens, Begin, Request, QuoteHandler
<1>6. StartJobRead(s) => Opens(s, Request("startJob", NoTrader, 0, FALSE))
  BY DEF StartJobRead, Opens, Begin, Request, QuoteHandler
<1>7. CompleteJobRead(s) => Opens(s, Request("completeJob", selected, 0, FALSE))
  BY DEF CompleteJobRead, Opens, Begin, Request, QuoteHandler
<1>8. CancelJobRead(s) => Opens(s, Request("cancelJob", selected, 0, FALSE))
  BY DEF CancelJobRead, Opens, Begin, Request, QuoteHandler
<1>9. ASSUME NEW op \in {"closeMyJob", "closeDistribution"}, CloseRead(s, op)
      PROVE  Opens(s, Request(op, NoTrader, 0, FALSE))
  BY <1>9 DEF CloseRead, Opens, Begin, Request, QuoteHandler
<1>10. AutoCloseJobsRead(s) => Opens(s, Request("autoCloseJobs", NoTrader, 0, FALSE))
  BY DEF AutoCloseJobsRead, Opens, Begin, Request, QuoteHandler
<1>11. UpdateJobRead(s) => Opens(s, Request("updateJob", NoTrader, 0, FALSE))
  BY DEF UpdateJobRead, Opens, Begin, Request, QuoteHandler
<1>12. \A op \in Handler, t \in Traders \cup {NoTrader}, n \in Nat, b \in BOOLEAN :
          Request(op, t, n, b) \in RequestType
  BY DEF Request, RequestType
<1>13. selected \in Traders \cup {NoTrader} /\ received \in Nat
  BY DEF TypeOK
<1> QED
  BY <1>1, <1>2, <1>3, <1>4, <1>5, <1>6, <1>7, <1>8, <1>9, <1>10, <1>11, <1>12, <1>13
     DEF Read, CloseMyJobRead, CloseDistributionRead, Handler, QuoteHandler

-----------------------------------------------------------------------------
LEMMA IdleRequest == Idle \in RequestType /\ Idle.op = "idle"
  BY DEF Idle, Request, RequestType, Handler, QuoteHandler

\* What Blame leaves in the slot, and that it touches no other.
LEMMA BlameSlot ==
    ASSUME TypeOK, NEW s \in Slots, NEW t \in Traders \cup {NoTrader}, Blame(s, t)
    PROVE  /\ req' \in [Slots -> RequestType]
           /\ \A r \in Slots \ {s} : req'[r] = req[r]
           /\ \/ req'[s].op = "idle"
              \/ req'[s].op = "blamed" /\ req'[s].trader = t /\ t \in Traders
<1> DEFINE new == IF t = NoTrader THEN Idle ELSE Request("blamed", t, 0, FALSE)
<1>1. new \in RequestType
  BY IdleRequest DEF Request, RequestType, Handler
<1>2. \/ new.op = "idle"
      \/ new.op = "blamed" /\ new.trader = t /\ t \in Traders
  BY IdleRequest DEF Request
<1>3. req' = [req EXCEPT ![s] = new]
  BY DEF Blame
<1> HIDE DEF new
<1> QED
  BY <1>1, <1>2, <1>3 DEF TypeOK

LEMMA InitIInv == Init => IInv
<1> SUFFICES ASSUME Init PROVE IInv
  OBVIOUS
<1>1. TypeOK
  BY IdleRequest DEF Init, TypeOK, JobStatus, QuoteStatus, MatchStatus
<1>2. RequestsKnowWinner
  BY IdleRequest DEF Init, RequestsKnowWinner, QuoteHandler
<1>3. /\ AcceptedIsSelected /\ MatchesFollowQuotes /\ WorkHasTrader
      /\ CreditFollowsAward /\ SelectedWasAwarded
  BY IdleRequest DEF Init, Running, AcceptedIsSelected, MatchesFollowQuotes, WorkHasTrader,
         CreditFollowsAward, SelectedWasAwarded
<1> QED
  BY <1>1, <1>2, <1>3 DEF IInv

LEMMA OpensIInv ==
    ASSUME IInv, NEW s \in Slots, NEW r \in RequestType, Opens(s, r)
    PROVE  IInv'
  BY ConstantsAssumption
     DEF Opens, jobRow, metrics, IInv, TypeOK, AcceptedIsSelected, MatchesFollowQuotes,
         WorkHasTrader, CreditFollowsAward, Running, SelectedWasAwarded, RequestsKnowWinner, QuoteHandler

\* One lemma per transaction.

LEMMA CreateQuoteCommitIInv ==
    ASSUME IInv, NEW s \in Slots, CreateQuoteCommit(s)
    PROVE  IInv'
<1> USE ConstantsAssumption, IdleRequest DEF CreateQuoteCommit, Running, Finish
<1>1. TypeOK'
  BY DEF IInv, TypeOK, metrics, RequestType, RequestsKnowWinner,
         QuoteHandler, JobStatus, QuoteStatus, MatchStatus
<1>2. AcceptedIsSelected' /\ MatchesFollowQuotes'
  BY DEF IInv, TypeOK, AcceptedIsSelected, MatchesFollowQuotes
<1>3. WorkHasTrader' /\ SelectedWasAwarded'
  BY DEF IInv, TypeOK, metrics, WorkHasTrader, SelectedWasAwarded, RequestsKnowWinner, QuoteHandler
<1>4. CreditFollowsAward' /\ RequestsKnowWinner'
  BY DEF IInv, TypeOK, metrics, CreditFollowsAward, Running, SelectedWasAwarded, RequestsKnowWinner, QuoteHandler
<1> QED
  BY <1>1, <1>2, <1>3, <1>4 DEF IInv

LEMMA AcceptQuoteCommitIInv ==
    ASSUME IInv, NEW s \in Slots, AcceptQuoteCommit(s)
    PROVE  IInv'
<1> USE ConstantsAssumption, IdleRequest DEF AcceptQuoteCommit, Running, Finish, Decided
<1>1. TypeOK'
  BY DEF IInv, TypeOK, metrics, RequestType, RequestsKnowWinner,
         QuoteHandler, JobStatus, QuoteStatus, MatchStatus
<1>2. AcceptedIsSelected' /\ MatchesFollowQuotes'
  BY DEF IInv, TypeOK, AcceptedIsSelected, MatchesFollowQuotes
<1>3. WorkHasTrader' /\ SelectedWasAwarded'
  BY DEF IInv, TypeOK, metrics, WorkHasTrader, SelectedWasAwarded, RequestsKnowWinner, QuoteHandler
<1>4. CreditFollowsAward' /\ RequestsKnowWinner'
  BY DEF IInv, TypeOK, metrics, CreditFollowsAward, Running, SelectedWasAwarded, RequestsKnowWinner, QuoteHandler
<1> QED
  BY <1>1, <1>2, <1>3, <1>4 DEF IInv

LEMMA RejectQuoteCommitIInv ==
    ASSUME IInv, NEW s \in Slots, RejectQuoteCommit(s)
    PROVE  IInv'
<1> USE ConstantsAssumption, IdleRequest DEF RejectQuoteCommit, Running, Finish, OneQuoteLess
<1>1. TypeOK'
  BY DEF IInv, TypeOK, metrics, RequestType, RequestsKnowWinner,
         QuoteHandler, JobStatus, QuoteStatus, MatchStatus
<1>2. AcceptedIsSelected' /\ MatchesFollowQuotes'
  BY DEF IInv, TypeOK, AcceptedIsSelected, MatchesFollowQuotes
<1>3. WorkHasTrader' /\ SelectedWasAwarded'
  BY DEF IInv, TypeOK, metrics, WorkHasTrader, SelectedWasAwarded, RequestsKnowWinner, QuoteHandler
<1>4. CreditFollowsAward' /\ RequestsKnowWinner'
  BY DEF IInv, TypeOK, metrics, CreditFollowsAward, Running, SelectedWasAwarded, RequestsKnowWinner, QuoteHandler
<1> QED
  BY <1>1, <1>2, <1>3, <1>4 DEF IInv

LEMMA UpdateQuoteCommitIInv ==
    ASSUME IInv, NEW s \in Slots, UpdateQuoteCommit(s)
    PROVE  IInv'
<1> USE ConstantsAssumption, IdleRequest DEF UpdateQuoteCommit, Running, Finish
<1>1. TypeOK'
  BY DEF IInv, TypeOK, metrics, RequestType, RequestsKnowWinner,
         QuoteHandler, JobStatus, QuoteStatus, MatchStatus
<1>2. AcceptedIsSelected' /\ MatchesFollowQuotes'
  BY DEF IInv, TypeOK, AcceptedIsSelected, MatchesFollowQuotes
<1>3. WorkHasTrader' /\ SelectedWasAwarded'
  BY DEF IInv, TypeOK, metrics, WorkHasTrader, SelectedWasAwarded, RequestsKnowWinner, QuoteHandler
<1>4. CreditFollowsAward' /\ RequestsKnowWinner'
  BY DEF IInv, TypeOK, metrics, CreditFollowsAward, Running, SelectedWasAwarded, RequestsKnowWinner, QuoteHandler
<1> QED
  BY <1>1, <1>2, <1>3, <1>4 DEF IInv

LEMMA WithdrawQuoteCommitIInv ==
    ASSUME IInv, NEW s \in Slots, WithdrawQuoteCommit(s)
    PROVE  IInv'
<1> USE ConstantsAssumption, IdleRequest DEF WithdrawQuoteCommit, Running, Finish, OneQuoteLess
<1>1. TypeOK'
  BY DEF IInv, TypeOK, metrics, RequestType, RequestsKnowWinner,
         QuoteHandler, JobStatus, QuoteStatus, MatchStatus
<1>2. AcceptedIsSelected' /\ MatchesFollowQuotes'
  BY DEF IInv, TypeOK, AcceptedIsSelected, MatchesFollowQuotes
<1>3. WorkHasTrader' /\ SelectedWasAwarded'
  BY DEF IInv, TypeOK, metrics, WorkHasTrader, SelectedWasAwarded, RequestsKnowWinner, QuoteHandler
<1>4. CreditFollowsAward' /\ RequestsKnowWinner'
  BY DEF IInv, TypeOK, metrics, CreditFollowsAward, Running, SelectedWasAwarded, RequestsKnowWinner, QuoteHandler
<1> QED
  BY <1>1, <1>2, <1>3, <1>4 DEF IInv

LEMMA StartJobCommitIInv ==
    ASSUME IInv, NEW s \in Slots, StartJobCommit(s)
    PROVE  IInv'
<1> USE ConstantsAssumption, IdleRequest DEF StartJobCommit, Running, Finish
<1>1. TypeOK'
  BY DEF IInv, TypeOK, metrics, RequestType, RequestsKnowWinner,
         QuoteHandler, JobStatus, QuoteStatus, MatchStatus
<1>2. AcceptedIsSelected' /\ MatchesFollowQuotes'
  BY DEF IInv, TypeOK, AcceptedIsSelected, MatchesFollowQuotes
<1>3. WorkHasTrader' /\ SelectedWasAwarded'
  BY DEF IInv, TypeOK, metrics, WorkHasTrader, SelectedWasAwarded, RequestsKnowWinner, QuoteHandler
<1>4. CreditFollowsAward' /\ RequestsKnowWinner'
  BY DEF IInv, TypeOK, metrics, CreditFollowsAward, Running, SelectedWasAwarded, RequestsKnowWinner, QuoteHandler
<1> QED
  BY <1>1, <1>2, <1>3, <1>4 DEF IInv

LEMMA CompleteJobCommitIInv ==
    ASSUME IInv, NEW s \in Slots, CompleteJobCommit(s)
    PROVE  IInv'
<1> USE ConstantsAssumption, IdleRequest DEF CompleteJobCommit, Running, Finish
<1>1. TypeOK'
  BY DEF IInv, TypeOK, metrics, RequestType, RequestsKnowWinner,
         QuoteHandler, JobStatus, QuoteStatus, MatchStatus
<1>2. AcceptedIsSelected' /\ MatchesFollowQuotes'
  BY DEF IInv, TypeOK, AcceptedIsSelected, MatchesFollowQuotes
<1>3. WorkHasTrader' /\ SelectedWasAwarded'
  BY DEF IInv, TypeOK, metrics, WorkHasTrader, SelectedWasAwarded, RequestsKnowWinner, QuoteHandler
<1>4. CreditFollowsAward' /\ RequestsKnowWinner'
  BY DEF IInv, TypeOK, metrics, CreditFollowsAward, Running, SelectedWasAwarded, RequestsKnowWinner, QuoteHandler
<1> QED
  BY <1>1, <1>2, <1>3, <1>4 DEF IInv

LEMMA CancelJobCommitIInv ==
    ASSUME IInv, NEW s \in Slots, CancelJobCommit(s)
    PROVE  IInv'
<1> USE ConstantsAssumption DEF CancelJobCommit, Running
<1>1. /\ req[s].trader \in Traders \cup {NoTrader} /\ Blame(s, req[s].trader)
      /\ req[s].trader \in Traders => awards[req[s].trader] > 0
  BY DEF IInv, TypeOK, RequestType, SelectedWasAwarded, RequestsKnowWinner
<1>2. /\ req' \in [Slots -> RequestType]
      /\ \A r \in Slots \ {s} : req'[r] = req[r]
      /\ \/ req'[s].op = "idle"
         \/ /\ req'[s].op = "blamed" /\ req'[s].trader \in Traders
            /\ awards[req'[s].trader] > 0
  BY <1>1, BlameSlot DEF IInv
<1>3. TypeOK'
  BY <1>2 DEF IInv, TypeOK, JobStatus
<1>4. /\ AcceptedIsSelected' /\ MatchesFollowQuotes'
      /\ WorkHasTrader' /\ SelectedWasAwarded'
  BY DEF IInv, TypeOK, AcceptedIsSelected, MatchesFollowQuotes, WorkHasTrader,
         SelectedWasAwarded, RequestsKnowWinner
<1>5. CreditFollowsAward' /\ RequestsKnowWinner'
  BY <1>2 DEF IInv, CreditFollowsAward, RequestsKnowWinner, QuoteHandler
<1> QED
  BY <1>3, <1>4, <1>5 DEF IInv

LEMMA CloseMyJobCommitIInv ==
    ASSUME IInv, NEW s \in Slots, CloseMyJobCommit(s)
    PROVE  IInv'
<1> USE ConstantsAssumption DEF CloseMyJobCommit, Running, CloseCommit
<1>1. /\ selected \in Traders \cup {NoTrader} /\ Blame(s, selected)
      /\ selected \in Traders => awards[selected] > 0
  BY DEF IInv, TypeOK, RequestType, SelectedWasAwarded, RequestsKnowWinner
<1>2. /\ req' \in [Slots -> RequestType]
      /\ \A r \in Slots \ {s} : req'[r] = req[r]
      /\ \/ req'[s].op = "idle"
         \/ /\ req'[s].op = "blamed" /\ req'[s].trader \in Traders
            /\ awards[req'[s].trader] > 0
  BY <1>1, BlameSlot DEF IInv
<1>3. TypeOK'
  BY <1>2 DEF IInv, TypeOK, JobStatus
<1>4. /\ AcceptedIsSelected' /\ MatchesFollowQuotes'
      /\ WorkHasTrader' /\ SelectedWasAwarded'
  BY DEF IInv, TypeOK, AcceptedIsSelected, MatchesFollowQuotes, WorkHasTrader,
         SelectedWasAwarded, RequestsKnowWinner
<1>5. CreditFollowsAward' /\ RequestsKnowWinner'
  BY <1>2 DEF IInv, CreditFollowsAward, RequestsKnowWinner, QuoteHandler
<1> QED
  BY <1>3, <1>4, <1>5 DEF IInv

LEMMA CloseDistributionCommitIInv ==
    ASSUME IInv, NEW s \in Slots, CloseDistributionCommit(s)
    PROVE  IInv'
<1> USE ConstantsAssumption DEF CloseDistributionCommit, Running, CloseCommit
<1>1. /\ selected \in Traders \cup {NoTrader} /\ Blame(s, selected)
      /\ selected \in Traders => awards[selected] > 0
  BY DEF IInv, TypeOK, RequestType, SelectedWasAwarded, RequestsKnowWinner
<1>2. /\ req' \in [Slots -> RequestType]
      /\ \A r \in Slots \ {s} : req'[r] = req[r]
      /\ \/ req'[s].op = "idle"
         \/ /\ req'[s].op = "blamed" /\ req'[s].trader \in Traders
            /\ awards[req'[s].trader] > 0
  BY <1>1, BlameSlot DEF IInv
<1>3. TypeOK'
  BY <1>2 DEF IInv, TypeOK, JobStatus
<1>4. /\ AcceptedIsSelected' /\ MatchesFollowQuotes'
      /\ WorkHasTrader' /\ SelectedWasAwarded'
  BY DEF IInv, TypeOK, AcceptedIsSelected, MatchesFollowQuotes, WorkHasTrader,
         SelectedWasAwarded, RequestsKnowWinner
<1>5. CreditFollowsAward' /\ RequestsKnowWinner'
  BY <1>2 DEF IInv, CreditFollowsAward, RequestsKnowWinner, QuoteHandler
<1> QED
  BY <1>3, <1>4, <1>5 DEF IInv

LEMMA AutoCloseJobsCommitIInv ==
    ASSUME IInv, NEW s \in Slots, AutoCloseJobsCommit(s)
    PROVE  IInv'
<1> USE ConstantsAssumption, IdleRequest DEF AutoCloseJobsCommit, Running, Finish
<1>1. TypeOK'
  BY DEF IInv, TypeOK, metrics, RequestType, RequestsKnowWinner,
         QuoteHandler, JobStatus, QuoteStatus, MatchStatus
<1>2. AcceptedIsSelected' /\ MatchesFollowQuotes'
  BY DEF IInv, TypeOK, AcceptedIsSelected, MatchesFollowQuotes
<1>3. WorkHasTrader' /\ SelectedWasAwarded'
  BY DEF IInv, TypeOK, metrics, WorkHasTrader, SelectedWasAwarded, RequestsKnowWinner, QuoteHandler
<1>4. CreditFollowsAward' /\ RequestsKnowWinner'
  BY DEF IInv, TypeOK, metrics, CreditFollowsAward, Running, SelectedWasAwarded, RequestsKnowWinner, QuoteHandler
<1> QED
  BY <1>1, <1>2, <1>3, <1>4 DEF IInv

LEMMA UpdateJobResetIInv ==
    ASSUME IInv, NEW s \in Slots, UpdateJobReset(s)
    PROVE  IInv'
<1> USE ConstantsAssumption, IdleRequest DEF UpdateJobReset, Running, Finish
<1>1. TypeOK'
  BY DEF IInv, TypeOK, metrics, RequestType, RequestsKnowWinner,
         QuoteHandler, JobStatus, QuoteStatus, MatchStatus
<1>2. AcceptedIsSelected' /\ MatchesFollowQuotes'
  BY DEF IInv, TypeOK, AcceptedIsSelected, MatchesFollowQuotes
<1>3. WorkHasTrader' /\ SelectedWasAwarded'
  BY DEF IInv, TypeOK, metrics, WorkHasTrader, SelectedWasAwarded, RequestsKnowWinner, QuoteHandler
<1>4. CreditFollowsAward' /\ RequestsKnowWinner'
  BY DEF IInv, TypeOK, metrics, CreditFollowsAward, Running, SelectedWasAwarded, RequestsKnowWinner, QuoteHandler
<1> QED
  BY <1>1, <1>2, <1>3, <1>4 DEF IInv

LEMMA CreateQuoteCheckIInv ==
    ASSUME IInv, NEW s \in Slots, CreateQuoteCheck(s)
    PROVE  IInv'
<1> USE ConstantsAssumption, IdleRequest DEF CreateQuoteCheck, Running, Finish, jobRow, metrics
<1>1. TypeOK'
  <2> DEFINE matched == match[req[s].trader] # "NONE"
             r == [req[s] EXCEPT !.op = "insertQuote", !.saw = matched]
  <2>1. matched \in BOOLEAN
    OBVIOUS
  <2>2. req[s] \in RequestType /\ "insertQuote" \in Handler
    BY DEF IInv, TypeOK, Handler
  <2> HIDE DEF matched
  <2>3. r \in RequestType
    BY <2>1, <2>2 DEF RequestType
  <2>4. req' = [req EXCEPT ![s] = r]
    BY DEF IInv, TypeOK, matched
  <2> HIDE DEF r
  <2>5. req' \in [Slots -> RequestType]
    BY <2>3, <2>4 DEF IInv, TypeOK
  <2> QED
    BY <2>5 DEF IInv, TypeOK
<1>2. AcceptedIsSelected' /\ MatchesFollowQuotes'
  BY DEF IInv, TypeOK, AcceptedIsSelected, MatchesFollowQuotes
<1>3. WorkHasTrader' /\ SelectedWasAwarded' /\ CreditFollowsAward'
  BY DEF IInv, TypeOK, WorkHasTrader, SelectedWasAwarded, CreditFollowsAward, Running, RequestsKnowWinner
<1>4. RequestsKnowWinner'
  BY DEF IInv, TypeOK, RequestType, RequestsKnowWinner, QuoteHandler
<1> QED
  BY <1>1, <1>2, <1>3, <1>4 DEF IInv

LEMMA UpdateJobDeleteMatchesIInv ==
    ASSUME IInv, NEW s \in Slots, UpdateJobDeleteMatches(s)
    PROVE  IInv'
<1> USE ConstantsAssumption, IdleRequest DEF UpdateJobDeleteMatches, Running, Finish, jobRow, metrics
<1>1. TypeOK'
  BY DEF IInv, TypeOK, RequestType, Handler, MatchStatus
<1>2. AcceptedIsSelected' /\ MatchesFollowQuotes'
  BY DEF IInv, TypeOK, AcceptedIsSelected, MatchesFollowQuotes
<1>3. WorkHasTrader' /\ SelectedWasAwarded' /\ CreditFollowsAward'
  BY DEF IInv, TypeOK, WorkHasTrader, SelectedWasAwarded, CreditFollowsAward, Running, RequestsKnowWinner
<1>4. RequestsKnowWinner'
  BY DEF IInv, TypeOK, RequestType, RequestsKnowWinner, QuoteHandler
<1> QED
  BY <1>1, <1>2, <1>3, <1>4 DEF IInv

LEMMA AbandonIInv ==
    ASSUME IInv, NEW s \in Slots, Abandon(s)
    PROVE  IInv'
<1> USE ConstantsAssumption, IdleRequest DEF Abandon, Running, Finish, jobRow, metrics
<1>1. TypeOK'
  BY DEF IInv, TypeOK, RequestType, Handler, MatchStatus
<1>2. AcceptedIsSelected' /\ MatchesFollowQuotes'
  BY DEF IInv, TypeOK, AcceptedIsSelected, MatchesFollowQuotes
<1>3. WorkHasTrader' /\ SelectedWasAwarded' /\ CreditFollowsAward'
  BY DEF IInv, TypeOK, WorkHasTrader, SelectedWasAwarded, CreditFollowsAward, Running, RequestsKnowWinner
<1>4. RequestsKnowWinner'
  BY DEF IInv, TypeOK, RequestType, RequestsKnowWinner, QuoteHandler
<1> QED
  BY <1>1, <1>2, <1>3, <1>4 DEF IInv

LEMMA DistributionIInv ==
    ASSUME IInv, (\E t \in Traders : MatchAndSendJob(t)) \/ ReopenDistribution
    PROVE  IInv'
  BY DEF MatchAndSendJob, ReopenDistribution, jobRow, metrics, IInv, TypeOK, MatchStatus,
         AcceptedIsSelected, MatchesFollowQuotes, WorkHasTrader, CreditFollowsAward,
         SelectedWasAwarded, RequestsKnowWinner, Running

-----------------------------------------------------------------------------
LEMMA NextIInv == IInv /\ [Next]_vars => IInv'
<1> SUFFICES ASSUME IInv, [Next]_vars PROVE IInv'
  OBVIOUS
<1>1. CASE UNCHANGED vars
  BY <1>1 DEF vars, IInv, TypeOK, AcceptedIsSelected, MatchesFollowQuotes, WorkHasTrader,
              CreditFollowsAward, Running, SelectedWasAwarded, RequestsKnowWinner
<1>2. ASSUME NEW s \in Slots, Read(s) PROVE IInv'
  BY <1>2, ReadOpens, OpensIInv DEF IInv
<1>3. ASSUME NEW s \in Slots, Commit(s) PROVE IInv'
  BY <1>3, CreateQuoteCommitIInv, AcceptQuoteCommitIInv, RejectQuoteCommitIInv,
     UpdateQuoteCommitIInv, WithdrawQuoteCommitIInv, StartJobCommitIInv,
     CompleteJobCommitIInv, CancelJobCommitIInv, CloseMyJobCommitIInv,
     CloseDistributionCommitIInv, AutoCloseJobsCommitIInv, UpdateJobResetIInv
     DEF Commit
<1>4. ASSUME NEW s \in Slots, CreateQuoteCheck(s) \/ UpdateJobDeleteMatches(s) \/ Abandon(s)
      PROVE  IInv'
  BY <1>4, CreateQuoteCheckIInv, UpdateJobDeleteMatchesIInv, AbandonIInv
<1>5. CASE (\E t \in Traders : MatchAndSendJob(t)) \/ ReopenDistribution
  BY <1>5, DistributionIInv
<1> QED
  BY <1>1, <1>2, <1>3, <1>4, <1>5 DEF Next

\* Every column keeps its type; quotesReceived never becomes negative.
THEOREM TypeCorrect == Spec => []TypeOK
<1>1. IInv => TypeOK
  BY DEF IInv
<1> QED
  BY <1>1, InitIInv, NextIInv, PTL DEF Spec

\* At most one quote of a job is accepted, the selected trader's, for any number
\* of racing requests.
THEOREM OneWinner == Spec => []AcceptedIsSelected
<1>1. IInv => AcceptedIsSelected
  BY DEF IInv
<1> QED
  BY <1>1, InitIInv, NextIInv, PTL DEF Spec

\* The match table never says more than the quote table.
THEOREM MatchesAgree == Spec => []MatchesFollowQuotes
<1>1. IInv => MatchesFollowQuotes
  BY DEF IInv
<1> QED
  BY <1>1, InitIInv, NextIInv, PTL DEF Spec

\* A job at work, done or cancelled has a trader the customer accepted, and only
\* traders that won the job have their counters raised for it.
THEOREM WorkIsAwarded == Spec => []WorkIsEarned
<1>1. IInv => WorkIsEarned
  BY DEF IInv, WorkIsEarned
<1> QED
  BY <1>1, InitIInv, NextIInv, PTL DEF Spec

-----------------------------------------------------------------------------
(***************************************************************************)
(* What the distribution sees.  A transaction that writes the count writes *)
(* an open status with it, whatever the status was; any other leaves the   *)
(* count, so that it takes the job, opens it again, or is not seen at all. *)
(***************************************************************************)
CountedIsOpen == received' = received \/ status' \in {"POSTED", "QUOTE_RECEIVED"}

LEMMA QuotesCounted ==
    ASSUME NEW s \in Slots,
           \/ CreateQuoteCommit(s) \/ AcceptQuoteCommit(s) \/ RejectQuoteCommit(s)
           \/ UpdateQuoteCommit(s) \/ WithdrawQuoteCommit(s)
    PROVE  CountedIsOpen
<1>1. ASSUME NEW n, OneQuoteLess(n) PROVE CountedIsOpen
  BY <1>1 DEF OneQuoteLess, CountedIsOpen
<1>2. CASE RejectQuoteCommit(s) \/ WithdrawQuoteCommit(s)
  BY <1>1, <1>2 DEF RejectQuoteCommit, WithdrawQuoteCommit
<1>3. CASE CreateQuoteCommit(s) \/ AcceptQuoteCommit(s) \/ UpdateQuoteCommit(s)
  BY <1>3 DEF CreateQuoteCommit, AcceptQuoteCommit, UpdateQuoteCommit, CountedIsOpen
<1> QED
  BY <1>2, <1>3

LEMMA OthersCounted ==
    ASSUME NEW s \in Slots,
           \/ StartJobCommit(s) \/ CompleteJobCommit(s) \/ CancelJobCommit(s)
           \/ CloseMyJobCommit(s) \/ CloseDistributionCommit(s)
           \/ AutoCloseJobsCommit(s) \/ UpdateJobReset(s)
           \/ CreateQuoteCheck(s) \/ UpdateJobDeleteMatches(s) \/ Abandon(s)
    PROVE  received' = received
  BY DEF StartJobCommit, CompleteJobCommit, CancelJobCommit, CloseMyJobCommit,
     CloseDistributionCommit, CloseCommit, AutoCloseJobsCommit, UpdateJobReset,
     CreateQuoteCheck, UpdateJobDeleteMatches, Abandon, jobRow

LEMMA NextCounted ==
    ASSUME TypeOK, [Next]_vars
    PROVE  CountedIsOpen
<1>1. ASSUME NEW s \in Slots, Read(s) PROVE received' = received
  BY <1>1, ReadOpens DEF Opens, jobRow
<1>2. ASSUME NEW t \in Traders, MatchAndSendJob(t) PROVE received' = received
  BY <1>2 DEF MatchAndSendJob, jobRow
<1>3. CASE ReopenDistribution \/ UNCHANGED vars
  BY <1>3 DEF ReopenDistribution, vars, CountedIsOpen
<1> QED
  BY <1>1, <1>2, <1>3, QuotesCounted, OthersCounted DEF Next, Commit, CountedIsOpen

LEMMA CountedIsStep ==
    ASSUME TypeOK', CountedIsOpen
    PROVE  [O!Next]_O!vars
<1> DEFINE act == status \in {"POSTED", "QUOTE_RECEIVED"}
           cnt == IF received < QuoteLimit THEN received ELSE QuoteLimit
<1>1. cnt' \in 0..QuoteLimit
  BY ConstantsAssumption DEF TypeOK
<1>2. CASE act'
  <2>1. act' = TRUE
    BY <1>2
  <2> QED
    BY <1>1, <2>1 DEF O!Next, O!QuotesChange
<1>3. CASE ~act'
  <2>1. received' = received
    BY <1>3 DEF CountedIsOpen
  <2>2. cnt' = cnt /\ act' = FALSE
    BY <1>3, <2>1
  <2>3. CASE act
    BY <2>2, <2>3 DEF O!Next, O!JobTaken
  <2>4. CASE ~act
    BY <2>2, <2>4 DEF O!vars
  <2> QED
    BY <2>3, <2>4
<1> QED
  BY <1>2, <1>3

\* However the requests of the job interleave, its distribution sees only what
\* Escalation takes the rest of the system to do.
THEOREM JobsImplementOpenJob == Spec => ActsAsOpenJob
<1>1. Init => O!Init
  BY ConstantsAssumption DEF Init, O!Init
<1>2. IInv => TypeOK
  BY DEF IInv
<1>3. TypeOK /\ TypeOK' /\ [Next]_vars => [O!Next]_O!vars
  BY NextCounted, CountedIsStep
<1> QED
  BY <1>1, <1>2, <1>3, InitIInv, NextIInv, PTL DEF Spec, ActsAsOpenJob, O!Spec

-----------------------------------------------------------------------------
(***************************************************************************)
(* The limit on quotes.  The rows there are plus the requests that passed  *)
(* the test and have not inserted yet stay below QuoteLimit plus the       *)
(* number of slots: an insert moves one from the second set to the first,  *)
(* and the test lets a request into the second set only while the first    *)
(* is below the limit.                                                     *)
(***************************************************************************)

LEMMA Finite ==
    /\ IsFiniteSet(Quotes) /\ Cardinality(Quotes) \in Nat
    /\ IsFiniteSet(Inserting) /\ Cardinality(Inserting) \in Nat
    /\ Cardinality(Slots) \in Nat
<1>1. Quotes \subseteq Traders /\ Inserting \subseteq Slots
  BY DEF Quotes, Inserting
<1> QED
  BY <1>1, ConstantsAssumption, FS_Subset, FS_CardinalityType

\* A transaction other than the insert leaves no more of either.
LEMMA CommitShrinks ==
    ASSUME IInv, NEW s \in Slots, Commit(s), ~CreateQuoteCommit(s)
    PROVE  Quotes' \subseteq Quotes /\ Inserting' \subseteq Inserting
<1> USE IdleRequest DEF Running, Finish, Quotes, Inserting
<1>1. CASE AcceptQuoteCommit(s)
  BY <1>1 DEF IInv, TypeOK, RequestsKnowWinner, AcceptQuoteCommit, Decided, QuoteHandler
<1>2. CASE RejectQuoteCommit(s)
  BY <1>2 DEF IInv, TypeOK, RequestsKnowWinner, RejectQuoteCommit, QuoteHandler
<1>3. CASE UpdateQuoteCommit(s)
  BY <1>3 DEF IInv, TypeOK, RequestsKnowWinner, UpdateQuoteCommit, QuoteHandler
<1>4. CASE WithdrawQuoteCommit(s)
  BY <1>4 DEF IInv, TypeOK, WithdrawQuoteCommit
<1>5. CASE StartJobCommit(s) \/ AutoCloseJobsCommit(s) \/ UpdateJobReset(s)
  BY <1>5 DEF IInv, TypeOK, StartJobCommit, AutoCloseJobsCommit, UpdateJobReset
<1>6. CASE CompleteJobCommit(s) \/ CancelJobCommit(s)
  BY <1>6 DEF IInv, TypeOK, CompleteJobCommit, CancelJobCommit, Blame, Request
<1>7. CASE CloseMyJobCommit(s) \/ CloseDistributionCommit(s)
  BY <1>7 DEF IInv, TypeOK, CloseMyJobCommit, CloseDistributionCommit, CloseCommit,
              Blame, Request
<1> QED
  BY <1>1, <1>2, <1>3, <1>4, <1>5, <1>6, <1>7 DEF Commit

\* So does every other step but a passed test.
LEMMA OthersShrink ==
    ASSUME IInv, [Next]_vars,
           \A s \in Slots : ~CreateQuoteCheck(s) /\ ~CreateQuoteCommit(s)
    PROVE  Quotes' \subseteq Quotes /\ Inserting' \subseteq Inserting
<1> USE IdleRequest DEF Quotes, Inserting
<1>1. ASSUME NEW s \in Slots, Read(s)
      PROVE  Quotes' \subseteq Quotes /\ Inserting' \subseteq Inserting
  <2>1. PICK r \in RequestType : Opens(s, r)
    BY <1>1, ReadOpens DEF IInv
  <2> QED
    BY <2>1 DEF Opens, IInv, TypeOK
<1>2. ASSUME NEW s \in Slots, UpdateJobDeleteMatches(s) \/ Abandon(s)
      PROVE  Quotes' \subseteq Quotes /\ Inserting' \subseteq Inserting
  BY <1>2 DEF UpdateJobDeleteMatches, Abandon, Running, Finish, IInv, TypeOK, RequestType
<1>3. CASE (\E t \in Traders : MatchAndSendJob(t)) \/ ReopenDistribution
  BY <1>3 DEF MatchAndSendJob, ReopenDistribution
<1>4. CASE UNCHANGED vars
  BY <1>4 DEF vars
<1> QED
  BY <1>1, <1>2, <1>3, <1>4, CommitShrinks DEF Next

LEMMA NextOvershoot ==
    IInv /\ QuoteLimitOvershoot /\ [Next]_vars => QuoteLimitOvershoot'
<1> SUFFICES ASSUME IInv, QuoteLimitOvershoot, [Next]_vars
             PROVE  QuoteLimitOvershoot'
  OBVIOUS
<1> USE DEF QuoteLimitOvershoot
<1>1. ASSUME NEW s \in Slots, CreateQuoteCheck(s) PROVE QuoteLimitOvershoot'
  <2>1. Quotes' = Quotes /\ Cardinality(Quotes) < QuoteLimit
    BY <1>1 DEF CreateQuoteCheck, Quotes
  <2>2. Inserting' \subseteq Slots
    BY DEF Inserting
  <2>3. Cardinality(Inserting') \in Nat /\ Cardinality(Inserting') <= Cardinality(Slots)
    BY <2>2, ConstantsAssumption, FS_Subset, FS_CardinalityType
  <2> QED
    BY <2>1, <2>3, Finite, ConstantsAssumption
<1>2. ASSUME NEW s \in Slots, CreateQuoteCommit(s) PROVE QuoteLimitOvershoot'
  <2> DEFINE t == req[s].trader
  <2>1. Quotes' = Quotes \cup {t} /\ t \notin Quotes
    BY <1>2 DEF CreateQuoteCommit, Running, Quotes, IInv, TypeOK, RequestsKnowWinner
  <2>2. Inserting' = Inserting \ {s} /\ s \in Inserting
    BY <1>2, IdleRequest DEF CreateQuoteCommit, Running, Finish, Inserting, IInv, TypeOK
  <2>3. Cardinality(Quotes') = Cardinality(Quotes) + 1
    BY <2>1, Finite, FS_AddElement
  <2>4. Cardinality(Inserting') = Cardinality(Inserting) - 1
    BY <2>2, Finite, FS_RemoveElement
  <2> QED
    BY <2>3, <2>4, Finite, ConstantsAssumption
<1>3. CASE \A s \in Slots : ~CreateQuoteCheck(s) /\ ~CreateQuoteCommit(s)
  <2>1. Quotes' \subseteq Quotes /\ Inserting' \subseteq Inserting
    BY <1>3, OthersShrink
  <2>2. /\ Cardinality(Quotes') \in Nat /\ Cardinality(Quotes') <= Cardinality(Quotes)
        /\ Cardinality(Inserting') \in Nat
        /\ Cardinality(Inserting') <= Cardinality(Inserting)
    BY <2>1, Finite, FS_Subset, FS_CardinalityType
  <2> QED
    BY <2>2, Finite, ConstantsAssumption
<1> QED
  BY <1>1, <1>2, <1>3

LEMMA InitOvershoot == Init => QuoteLimitOvershoot
<1> SUFFICES ASSUME Init PROVE QuoteLimitOvershoot
  OBVIOUS
<1>1. Quotes = {} /\ Inserting = {}
  BY IdleRequest DEF Init, Quotes, Inserting
<1>2. Cardinality({}) = 0
  BY FS_EmptySet
<1> QED
  BY <1>1, <1>2, Finite, ConstantsAssumption DEF QuoteLimitOvershoot

\* The limit on quotes is overrun by no more than the requests in flight, and
\* with one request at a time not at all.
THEOREM QuoteLimitHolds == Spec => []QuoteLimitOvershoot
  BY InitIInv, NextIInv, InitOvershoot, NextOvershoot, PTL DEF Spec

-----------------------------------------------------------------------------
(***************************************************************************)
(* One request at a time.  What a request read is still true when it       *)
(* commits: only the matching worker and the reopening of the distribution *)
(* come in between, and no handler decides on what these two write.        *)
(***************************************************************************)
Market == {"POSTED", "QUOTE_RECEIVED", "IN_PROGRESS", "CLOSED"}

StillTrue(s) ==
    LET op == req[s].op
        t == req[s].trader IN
    /\ op = "startJob" => status = "ASSIGNED"
    /\ op = "completeJob" => status = "IN_PROGRESS" /\ t = selected
    /\ op = "cancelJob" => status \in {"ASSIGNED", "IN_PROGRESS"} /\ t = selected
    /\ op = "acceptQuote" => status # "ASSIGNED"
    /\ op \in {"createQuote", "insertQuote", "updateQuote", "withdrawQuote"} =>
          status \in Market
    /\ op = "rejectQuote" => quote[t] = "PENDING" /\ req[s].received = received
    /\ op = "withdrawQuote" =>
          quote[t] \in {"PENDING", "REJECTED"} /\ req[s].received = received
    /\ op = "updateQuote" =>
          /\ req[s].saw => quote[t] = "REJECTED" /\ req[s].received = received
          /\ ~req[s].saw => quote[t] \in {"PENDING", "ACCEPTED"}
    /\ op \in {"updateJob", "resetJob"} =>
          status \in {"POSTED", "QUOTE_RECEIVED"} /\ received = 0

SInv == (\A s \in Slots : StillTrue(s)) /\ AssignedSettled /\ OpenJobCounts
            /\ CompletedOncePerAward

\* The slot of a request that has committed or failed says nothing any more.
LEMMA OverStillTrue ==
    ASSUME NEW s0, Slots = {s0}, req'[s0].op \in {"idle", "blamed"}
    PROVE  (\A s \in Slots : StillTrue(s))'
  BY DEF StillTrue

\* A read puts in the slot what it has just seen.
LEMMA ReadStillTrue ==
    ASSUME IInv, NEW s0, Slots = {s0}, Read(s0)
    PROVE  StillTrue(s0)'
<1> USE DEF StillTrue, Begin, Request, jobRow, IInv, TypeOK, JobStatus, QuoteStatus, Market
<1>1. ASSUME NEW t \in Traders, CreateQuoteRead(s0, t) PROVE StillTrue(s0)'
  BY <1>1 DEF CreateQuoteRead
<1>2. ASSUME NEW t \in Traders, AcceptQuoteRead(s0, t) PROVE StillTrue(s0)'
  BY <1>2 DEF AcceptQuoteRead
<1>3. ASSUME NEW t \in Traders, RejectQuoteRead(s0, t) PROVE StillTrue(s0)'
  BY <1>3 DEF RejectQuoteRead
<1>4. ASSUME NEW t \in Traders, UpdateQuoteRead(s0, t) PROVE StillTrue(s0)'
  BY <1>4 DEF UpdateQuoteRead, BeginUpdate
<1>5. ASSUME NEW t \in Traders, WithdrawQuoteRead(s0, t) PROVE StillTrue(s0)'
  BY <1>5 DEF WithdrawQuoteRead
<1>6. ASSUME StartJobRead(s0) PROVE StillTrue(s0)'
  BY <1>6 DEF StartJobRead
<1>7. ASSUME CompleteJobRead(s0) PROVE StillTrue(s0)'
  BY <1>7 DEF CompleteJobRead
<1>8. ASSUME CancelJobRead(s0) PROVE StillTrue(s0)'
  BY <1>8 DEF CancelJobRead
<1>9. ASSUME NEW op \in {"closeMyJob", "closeDistribution"}, CloseRead(s0, op)
      PROVE  StillTrue(s0)'
  BY <1>9 DEF CloseRead
<1>10. ASSUME AutoCloseJobsRead(s0) PROVE StillTrue(s0)'
  BY <1>10 DEF AutoCloseJobsRead
<1>11. ASSUME UpdateJobRead(s0) PROVE StillTrue(s0)'
  BY <1>11 DEF UpdateJobRead
<1> QED
  BY <1>1, <1>2, <1>3, <1>4, <1>5, <1>6, <1>7, <1>8, <1>9, <1>10, <1>11
     DEF Read, CloseMyJobRead, CloseDistributionRead

\* Steps of Award, told apart.
Settles == SInv' /\ [A!Next]_A!vars

LEMMA PendingFinite ==
    IsFiniteSet(Pending) /\ Cardinality(Pending) \in Nat
<1>1. Pending \subseteq Traders
  BY DEF Pending
<1> QED
  BY <1>1, ConstantsAssumption, FS_Subset, FS_CardinalityType

\* How many quotes are pending after one became pending, or was decided or deleted.
LEMMA PendingMore ==
    ASSUME IInv, NEW t \in Traders, quote' = [quote EXCEPT ![t] = "PENDING"],
           quote[t] # "PENDING"
    PROVE  Cardinality(Pending') = Cardinality(Pending) + 1
<1>1. Pending' = Pending \cup {t} /\ t \notin Pending
  BY DEF Pending, IInv, TypeOK
<1>2. Cardinality(Pending \cup {t}) = Cardinality(Pending) + 1
  BY <1>1, PendingFinite, FS_AddElement
<1> QED
  BY <1>1, <1>2

LEMMA PendingLess ==
    ASSUME IInv, NEW t \in Traders, NEW q \in QuoteStatus \ {"PENDING"},
           quote' = [quote EXCEPT ![t] = q]
    PROVE  /\ Cardinality(Pending') \in Nat
           /\ Cardinality(Pending') >= Cardinality(Pending) - 1
<1>1. Pending' = Pending \ {t}
  BY DEF Pending, IInv, TypeOK
<1>2. CASE t \in Pending
  <2>1. Cardinality(Pending \ {t}) = Cardinality(Pending) - 1
    BY <1>2, PendingFinite, FS_RemoveElement
  <2>2. IsFiniteSet(Pending \ {t})
    BY PendingFinite, FS_RemoveElement
  <2>3. Cardinality(Pending \ {t}) \in Nat
    BY <2>2, FS_CardinalityType
  <2> QED
    BY <1>1, <2>1, <2>3, PendingFinite
<1>3. CASE t \notin Pending
  <2>1. Pending' = Pending
    BY <1>1, <1>3
  <2>2. Cardinality(Pending') = Cardinality(Pending)
    BY <2>1
  <2> QED
    BY <2>2, PendingFinite
<1> QED
  BY <1>2, <1>3

\* The new quote is pending and counted.
LEMMA CreateQuoteSettles ==
    ASSUME IInv, SInv, NEW s0, Slots = {s0}, CreateQuoteCommit(s0)
    PROVE  Settles
<1> DEFINE t == req[s0].trader
<1> USE DEF CreateQuoteCommit, Running, Finish
<1>1. t \in Traders /\ StillTrue(s0) /\ quote[t] = "NONE"
  BY DEF IInv, RequestsKnowWinner, SInv
<1>2. status \in Market /\ received \in Nat
  BY <1>1 DEF StillTrue, IInv, TypeOK
<1>3. req'[s0].op = "idle"
  BY IdleRequest DEF IInv, TypeOK
<1>4. (\A s \in Slots : StillTrue(s))'
  BY <1>3, OverStillTrue
<1>5. AssignedSettled' /\ CompletedOncePerAward'
  BY <1>2 DEF SInv, AssignedSettled, CompletedOncePerAward, metrics, Market, IInv, TypeOK
<1>6. OpenJobCounts'
  <2>1. Cardinality(Pending') = Cardinality(Pending) + 1
    BY <1>1, PendingMore
  <2> QED
    BY <1>2, <2>1, PendingFinite DEF SInv, OpenJobCounts
<1>7. A!Reopen
  BY <1>2 DEF A!Reopen, Phase, Market, metrics
<1> QED
  BY <1>4, <1>5, <1>6, <1>7 DEF Settles, SInv, A!Next

\* The quote that is rejected is pending, so the job is not assigned.
LEMMA OneLessSettles ==
    ASSUME IInv, SInv, NEW s0, Slots = {s0}, NEW t \in Traders,
           NEW q \in QuoteStatus \ {"PENDING"}, quote' = [quote EXCEPT ![t] = q],
           status # "ASSIGNED", OneQuoteLess(received),
           req'[s0].op = "idle", UNCHANGED <<selected, metrics>>
    PROVE  Settles
<1> USE DEF OneQuoteLess
<1>1. received \in Nat /\ received' \in Nat /\ status' \in {"POSTED", "QUOTE_RECEIVED"}
  BY DEF IInv, TypeOK
<1>2. (\A s \in Slots : StillTrue(s))'
  BY OverStillTrue
<1>3. AssignedSettled'
  BY <1>1 DEF AssignedSettled
<1>4. CompletedOncePerAward'
  BY <1>1 DEF SInv, CompletedOncePerAward, metrics, IInv, TypeOK
<1>5. OpenJobCounts'
  <2>1. /\ Cardinality(Pending') \in Nat
        /\ Cardinality(Pending') >= Cardinality(Pending) - 1
    BY PendingLess
  <2> QED
    BY <1>1, <2>1, PendingFinite DEF SInv, OpenJobCounts
<1>6. A!Reopen
  BY <1>1 DEF A!Reopen, Phase, metrics
<1> QED
  BY <1>2, <1>3, <1>4, <1>5, <1>6 DEF Settles, SInv, A!Next

LEMMA RejectQuoteSettles ==
    ASSUME IInv, SInv, NEW s0, Slots = {s0}, RejectQuoteCommit(s0)
    PROVE  Settles
<1> DEFINE t == req[s0].trader
<1>1. t \in Traders /\ quote[t] = "PENDING" /\ req[s0].received = received
  BY DEF RejectQuoteCommit, Running, IInv, RequestsKnowWinner, QuoteHandler, SInv, StillTrue
<1>2. status # "ASSIGNED"
  BY <1>1 DEF SInv, AssignedSettled, Pending
<1>3. req'[s0].op = "idle"
  BY IdleRequest DEF RejectQuoteCommit, Finish, IInv, TypeOK
<1> QED
  BY <1>1, <1>2, <1>3, OneLessSettles DEF RejectQuoteCommit, QuoteStatus

LEMMA WithdrawQuoteSettles ==
    ASSUME IInv, SInv, NEW s0, Slots = {s0}, WithdrawQuoteCommit(s0)
    PROVE  Settles
<1> DEFINE t == req[s0].trader
<1>1. t \in Traders /\ req[s0].received = received /\ status # "ASSIGNED"
  BY DEF WithdrawQuoteCommit, Running, IInv, RequestsKnowWinner, QuoteHandler, SInv, StillTrue,
         Market
<1>2. req'[s0].op = "idle"
  BY IdleRequest DEF WithdrawQuoteCommit, Running, QuoteHandler
<1> QED
  BY <1>1, <1>2, OneLessSettles DEF WithdrawQuoteCommit, QuoteStatus

\* An edit leaves the count of the pending quotes as it was, or counts the
\* rejected quote that is pending again.
LEMMA UpdateQuoteSettles ==
    ASSUME IInv, SInv, NEW s0, Slots = {s0}, UpdateQuoteCommit(s0)
    PROVE  Settles
<1> DEFINE t == req[s0].trader
<1>1. /\ t \in Traders /\ status \in Market /\ received \in Nat
      /\ req[s0].saw \in BOOLEAN
      /\ req[s0].saw => quote[t] = "REJECTED" /\ req[s0].received = received
      /\ ~req[s0].saw => quote[t] \in {"PENDING", "ACCEPTED"}
  BY DEF UpdateQuoteCommit, Running, IInv, TypeOK, RequestType, RequestsKnowWinner,
         QuoteHandler, SInv, StillTrue
<1>2. req'[s0].op = "idle"
  BY IdleRequest DEF UpdateQuoteCommit, Finish, IInv, TypeOK
<1>3. (\A s \in Slots : StillTrue(s))'
  BY <1>2, OverStillTrue
<1>4. UNCHANGED <<selected, completed, awards>> /\ quote' = [quote EXCEPT ![t] = "PENDING"]
  BY DEF UpdateQuoteCommit, metrics
<1>5. \/ UNCHANGED <<status, received>> /\ ~req[s0].saw
      \/ status' = "QUOTE_RECEIVED" /\ received' = received + 1 /\ req[s0].saw
  BY <1>1 DEF UpdateQuoteCommit
<1>6. AssignedSettled' /\ CompletedOncePerAward'
  BY <1>1, <1>4, <1>5 DEF SInv, AssignedSettled, CompletedOncePerAward, Market, IInv, TypeOK
<1>7. OpenJobCounts'
  <2>1. CASE quote[t] = "PENDING"
    <3>1. Pending' = Pending
      BY <1>4, <2>1 DEF Pending, IInv, TypeOK
    <3>2. Cardinality(Pending') = Cardinality(Pending)
      BY <3>1
    <3> QED
      BY <1>1, <1>4, <1>5, <2>1, <3>2, PendingFinite DEF SInv, OpenJobCounts
  <2>2. CASE quote[t] = "ACCEPTED"
    BY <1>1, <1>4, <2>2, ConstantsAssumption DEF OpenJobCounts, IInv, AcceptedIsSelected
  <2>3. CASE quote[t] = "REJECTED"
    <3>1. Cardinality(Pending') = Cardinality(Pending) + 1
      BY <1>1, <1>4, <2>3, PendingMore
    <3> QED
      BY <1>1, <1>4, <1>5, <2>3, <3>1, PendingFinite DEF SInv, OpenJobCounts
  <2> QED
    BY <1>1, <2>1, <2>2, <2>3
<1>8. A!Reopen \/ UNCHANGED A!vars
  BY <1>1, <1>4, <1>5 DEF A!Reopen, A!vars, Phase, Market
<1> QED
  BY <1>3, <1>6, <1>7, <1>8 DEF Settles, SInv, A!Next

LEMMA AcceptQuoteSettles ==
    ASSUME IInv, SInv, NEW s0, Slots = {s0}, AcceptQuoteCommit(s0)
    PROVE  Settles
<1> DEFINE t == req[s0].trader
<1> USE DEF AcceptQuoteCommit
<1>1. t \in Traders /\ status # "ASSIGNED" /\ t # NoTrader
  BY ConstantsAssumption
     DEF Running, IInv, RequestsKnowWinner, QuoteHandler, SInv, StillTrue
<1>2. req'[s0].op = "idle"
  BY IdleRequest DEF Finish, IInv, TypeOK
<1>3. (\A s \in Slots : StillTrue(s))'
  BY <1>2, OverStillTrue
<1>4. AssignedSettled' /\ OpenJobCounts'
  BY <1>1 DEF AssignedSettled, OpenJobCounts, Pending, Decided, IInv, TypeOK
<1>5. CompletedOncePerAward'
  BY <1>1 DEF SInv, CompletedOncePerAward, IInv, TypeOK
<1>6. A!Accept(t)
  BY <1>1 DEF A!Accept, Phase
<1> QED
  BY <1>1, <1>3, <1>4, <1>5, <1>6 DEF Settles, SInv, A!Next

\* The job's own handlers touch no quote and no match.
LEMMA LifecycleSettles ==
    ASSUME IInv, SInv, NEW s0, Slots = {s0},
           \/ StartJobCommit(s0) \/ CompleteJobCommit(s0) \/ CancelJobCommit(s0)
           \/ CloseCommit(s0, "closeMyJob") \/ CloseCommit(s0, "closeDistribution")
           \/ AutoCloseJobsCommit(s0) \/ UpdateJobReset(s0)
    PROVE  Settles
<1> DEFINE t == req[s0].trader
<1>1. UNCHANGED <<selected, received, quote, match, awards>>
  BY DEF StartJobCommit, CompleteJobCommit, CancelJobCommit, CloseCommit, AutoCloseJobsCommit,
         UpdateJobReset, metrics
<1>2. req'[s0].op \in {"idle", "blamed"}
  BY IdleRequest DEF StartJobCommit, CompleteJobCommit, CancelJobCommit, CloseCommit,
     AutoCloseJobsCommit, UpdateJobReset, Blame, Finish, Request, IInv, TypeOK
<1>3. (\A s \in Slots : StillTrue(s))'
  BY <1>2, OverStillTrue
<1>4. \/ status = "ASSIGNED" /\ status' = "IN_PROGRESS" /\ UNCHANGED completed
      \/ /\ status = "IN_PROGRESS" /\ status' = "COMPLETED" /\ t = selected
         /\ t \in Traders /\ completed' = [completed EXCEPT ![t] = @ + 1]
      \/ /\ status \in {"ASSIGNED", "IN_PROGRESS"} /\ status' = "CANCELLED"
         /\ selected \in Traders /\ UNCHANGED completed
      \/ status' = "CLOSED" /\ UNCHANGED completed
      \/ /\ status \in {"POSTED", "QUOTE_RECEIVED"} /\ received = 0
         /\ status' = "POSTED" /\ UNCHANGED completed
  BY DEF StartJobCommit, CompleteJobCommit, CancelJobCommit, CloseCommit, AutoCloseJobsCommit,
         UpdateJobReset, Running, metrics, IInv, RequestsKnowWinner, SInv, StillTrue
<1>5. AssignedSettled'
  BY <1>4 DEF AssignedSettled
<1>6. OpenJobCounts'
  <2>1. Pending' = Pending
    BY <1>1 DEF Pending
  <2>2. selected = NoTrader => status \notin {"ASSIGNED", "IN_PROGRESS"}
    BY DEF IInv, WorkHasTrader
  <2> QED
    BY <1>1, <1>4, <2>1, <2>2 DEF SInv, OpenJobCounts
<1>7. CompletedOncePerAward'
  BY <1>1, <1>4 DEF SInv, CompletedOncePerAward, IInv, TypeOK
<1>8. [A!Next]_A!vars
  BY <1>1, <1>4 DEF A!Next, A!Start, A!Complete, A!Cancel, A!Close, A!Reopen, A!vars, Phase
<1> QED
  BY <1>3, <1>5, <1>6, <1>7, <1>8 DEF Settles, SInv

\* A step that leaves the job's row and the quotes alone, and the matches of
\* the decided traders, is a stuttering step of Award.
LEMMA QuietSettles ==
    ASSUME SInv, UNCHANGED <<status, selected, received, quote, metrics>>,
           status = "ASSIGNED" /\ match[selected] = "ACCEPTED" =>
              match'[selected] = "ACCEPTED",
           (\A s \in Slots : StillTrue(s))'
    PROVE  Settles
<1>1. AssignedSettled' /\ OpenJobCounts'
  BY DEF SInv, AssignedSettled, OpenJobCounts, Pending
<1>2. CompletedOncePerAward'
  BY DEF SInv, CompletedOncePerAward, metrics
<1>3. UNCHANGED A!vars
  BY DEF A!vars, Phase, metrics
<1> QED
  BY <1>1, <1>2, <1>3 DEF Settles, SInv

LEMMA NextSettles ==
    ASSUME IInv, SInv, NEW s0, Slots = {s0}, [Next]_vars
    PROVE  Settles
<1>1. CASE UNCHANGED vars
  <2>1. UNCHANGED <<status, selected, received, quote, match, metrics, req>>
    BY <1>1 DEF vars, jobRow, metrics
  <2>2. (\A s \in Slots : StillTrue(s))'
    BY <2>1 DEF SInv, StillTrue
  <2>3. match'[selected] = match[selected]
    BY <2>1
  <2> QED
    BY <2>1, <2>2, <2>3, QuietSettles
<1>2. CASE Read(s0)
  <2>1. PICK r \in RequestType : Opens(s0, r)
    BY <1>2, ReadOpens DEF IInv
  <2>2. (\A s \in Slots : StillTrue(s))'
    BY <1>2, ReadStillTrue
  <2>3. UNCHANGED <<status, selected, received, quote, match, metrics>>
    BY <2>1 DEF Opens, jobRow
  <2>4. match'[selected] = match[selected]
    BY <2>3
  <2> QED
    BY <2>2, <2>3, <2>4, QuietSettles
<1>3. CASE Commit(s0)
  BY <1>3, CreateQuoteSettles, AcceptQuoteSettles, RejectQuoteSettles, UpdateQuoteSettles,
     WithdrawQuoteSettles, LifecycleSettles DEF Commit, CloseMyJobCommit, CloseDistributionCommit
<1>4. CASE CreateQuoteCheck(s0)
  <2>1. req'[s0].op = "insertQuote" /\ status \in Market /\ UNCHANGED status
    BY <1>4 DEF CreateQuoteCheck, Running, jobRow, SInv, StillTrue, IInv, TypeOK, RequestType
  <2>2. (\A s \in Slots : StillTrue(s))'
    BY <2>1 DEF StillTrue
  <2> QED
    BY <1>4, <2>2, QuietSettles DEF CreateQuoteCheck, jobRow, metrics
<1>5. CASE UpdateJobDeleteMatches(s0)
  <2>1. /\ req'[s0].op = "resetJob" /\ status \in {"POSTED", "QUOTE_RECEIVED"} /\ received = 0
        /\ UNCHANGED <<status, received>>
    BY <1>5 DEF UpdateJobDeleteMatches, Running, jobRow, SInv, StillTrue, IInv, TypeOK,
                RequestType
  <2>2. (\A s \in Slots : StillTrue(s))'
    BY <2>1 DEF StillTrue
  <2> QED
    BY <1>5, <2>1, <2>2, QuietSettles DEF UpdateJobDeleteMatches, jobRow, metrics
<1>6. CASE Abandon(s0)
  <2>1. req'[s0].op = "idle"
    BY <1>6, IdleRequest DEF Abandon, Finish, IInv, TypeOK
  <2> QED
    BY <1>6, <2>1, OverStillTrue, QuietSettles DEF Abandon, jobRow, metrics
<1>7. CASE (\E t \in Traders : MatchAndSendJob(t)) \/ ReopenDistribution
  <2>1. UNCHANGED <<status, selected, received, quote, metrics, req>>
    BY <1>7 DEF MatchAndSendJob, ReopenDistribution, jobRow
  <2>2. (\A s \in Slots : StillTrue(s))'
    BY <2>1 DEF SInv, StillTrue, metrics
  <2>3. status = "ASSIGNED" /\ match[selected] = "ACCEPTED" => match'[selected] = "ACCEPTED"
    BY <1>7 DEF MatchAndSendJob, ReopenDistribution, IInv, TypeOK, WorkHasTrader
  <2> QED
    BY <2>1, <2>2, <2>3, QuietSettles
<1> QED
  BY <1>1, <1>2, <1>3, <1>4, <1>5, <1>6, <1>7 DEF Next

LEMMA InitSettles == Init => SInv /\ A!Init
<1> SUFFICES ASSUME Init PROVE SInv /\ A!Init
  OBVIOUS
<1>1. \A s \in Slots : StillTrue(s)
  BY IdleRequest DEF Init, StillTrue
<1>2. OpenJobCounts /\ AssignedSettled
  BY PendingFinite DEF Init, OpenJobCounts, AssignedSettled
<1>3. CompletedOncePerAward
  BY DEF Init, CompletedOncePerAward
<1>4. A!Init
  BY DEF Init, A!Init, Phase
<1> QED
  BY <1>1, <1>2, <1>3, <1>4 DEF SInv

LEMMA SerialInv ==
    ASSUME NEW s0, Slots = {s0}
    PROVE  Spec => [](IInv /\ SInv)
<1>1. IInv /\ SInv /\ [Next]_vars => (IInv /\ SInv)'
  BY NextIInv, NextSettles DEF Settles
<1> QED
  BY <1>1, InitIInv, InitSettles, PTL DEF Spec

\* With one request at a time, for any set of traders and any bounds, the job's
\* row and its quotes agree.
THEOREM RowsAgreeSerially ==
    ASSUME NEW s0, Slots = {s0}
    PROVE  Spec => []RowsAgree
<1>1. SInv => RowsAgree
  BY DEF SInv, RowsAgree
<1> QED
  BY <1>1, SerialInv, PTL

\* With one request at a time an award is completed at most once.
THEOREM OneCompletionPerAward ==
    ASSUME NEW s0, Slots = {s0}
    PROVE  Spec => []CompletedOncePerAward
<1>1. SInv => CompletedOncePerAward
  BY DEF SInv
<1> QED
  BY <1>1, SerialInv, PTL

\* With one request at a time the handlers implement the atomic lifecycle of
\* Award: every step of theirs is one of its steps or changes nothing of it.
THEOREM SerialJobsImplementAward ==
    ASSUME NEW s0, Slots = {s0}
    PROVE  Spec => ActsAsAward
<1>1. IInv /\ SInv /\ [Next]_vars => [A!Next]_A!vars
  BY NextSettles DEF Settles
<1> QED
  BY <1>1, SerialInv, InitSettles, PTL DEF Spec, ActsAsAward, A!Spec
=============================================================================
