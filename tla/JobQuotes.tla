----------------------------- MODULE JobQuotes -----------------------------
(***************************************************************************)
(* One job of the marketplace, the quotes traders make for it and the rows *)
(* that match it to traders: quote.service.ts, the lifecycle handlers of   *)
(* job.service.ts and the autoCloseJobs cron.                              *)
(*                                                                         *)
(* Every handler reads the rows it decides on and writes later, in a       *)
(* READ COMMITTED transaction whose writes are keyed by primary key only.  *)
(* A handler is therefore two actions, XRead and XCommit, that any other   *)
(* handler may interleave, and req[s] is what the request in slot s        *)
(* remembers in between.  The writes of one transaction are one action:    *)
(* transactions that write the same rows are serialised by the row locks,  *)
(* or one of them is chosen as the victim of a deadlock and aborts.        *)
(*                                                                         *)
(* A request may fail at any point (a lost connection, an exception, a     *)
(* restart): Abandon.  A request that fails a check ends there, so it is   *)
(* the same as one that never commits.                                     *)
(***************************************************************************)
EXTENDS Naturals, FiniteSets

CONSTANTS
    Traders,        \* the traders that may quote for the job
    NoTrader,       \* selectedTraderId = null
    Slots,          \* requests the servers run at the same time
    QuoteLimit,     \* 3 in the code
    ReceivedBound,  \* bound: quotesReceived
    AwardBound,     \* bound: times one trader's quote is accepted
    CreditBound     \* bound: completions credited to one trader

ASSUME ConstantsAssumption ==
    /\ NoTrader \notin Traders
    /\ IsFiniteSet(Traders) /\ IsFiniteSet(Slots)
    /\ QuoteLimit \in Nat \ {0}
    /\ ReceivedBound \in Nat /\ AwardBound \in Nat /\ CreditBound \in Nat

VARIABLES
    status,    \* Job.status
    selected,  \* Job.selectedTraderId
    received,  \* Job.quotesReceived
    closed,    \* Job.distributionStatus = COMPLETED
    quote,     \* the Quote row of each trader, unique for (jobId, traderId)
    match,     \* the JobTraderMatch row of each trader, unique as well
    completed, \* TraderMetrics.completedJobs of each trader, for this job
    awards,    \* history: how often each trader's quote was accepted
    req        \* the request each slot runs

jobRow == <<status, selected, received, closed>>
metrics == <<completed, awards>>
vars == <<status, selected, received, closed, quote, match,
          completed, awards, req>>

JobStatus == {"POSTED", "QUOTE_RECEIVED", "ASSIGNED", "IN_PROGRESS",
              "COMPLETED", "CANCELLED", "CLOSED"}
QuoteStatus == {"NONE", "PENDING", "ACCEPTED", "REJECTED"}
\* No handler tells SENT, VIEWED and REJECTED apart: INVITED is any of them.
MatchStatus == {"NONE", "INVITED", "QUOTED", "ACCEPTED"}

\* The handlers that address a quote by its id: once the row is deleted they
\* can only fail, whatever the trader does next.
QuoteHandler == {"acceptQuote", "rejectQuote", "updateQuote", "withdrawQuote"}
Handler == QuoteHandler \cup
    {"idle", "createQuote", "insertQuote", "startJob", "completeJob", "cancelJob",
     "closeMyJob", "closeDistribution", "autoCloseJobs", "updateJob", "resetJob",
     "blamed"}

\* What a request keeps of what it read: the trader it concerns, quotesReceived,
\* and what it branches on later: updateQuote, that the quote was REJECTED, and
\* createQuote, that the trader has a match row.
Request(op, t, n, saw) == [op |-> op, trader |-> t, received |-> n, saw |-> saw]
Idle == Request("idle", NoTrader, 0, FALSE)
RequestType == [op : Handler, trader : Traders \cup {NoTrader},
                received : Nat, saw : BOOLEAN]

Quotes == {t \in Traders : quote[t] # "NONE"}
Pending == {t \in Traders : quote[t] = "PENDING"}
Inserting == {s \in Slots : req[s].op = "insertQuote"}

Begin(s, r) == req[s] = Idle /\ req' = [req EXCEPT ![s] = r]
Running(s, op) == req[s].op = op
Finish(s) == req' = [req EXCEPT ![s] = Idle]

\* The transaction has raised cancelledJobs or closedJobs of t, if there is a t.
\* Nothing here reads these counters, so all that is kept is whom the request
\* raised one for, until it returns (Abandon).
Blame(s, t) == req' = [req EXCEPT ![s] = IF t = NoTrader THEN Idle
                                         ELSE Request("blamed", t, 0, FALSE)]

-----------------------------------------------------------------------------
Init ==
    /\ status = "POSTED"
    /\ selected = NoTrader
    /\ received = 0
    /\ closed = FALSE
    /\ quote = [t \in Traders |-> "NONE"]
    /\ match = [t \in Traders |-> "NONE"]
    /\ completed = [t \in Traders |-> 0]
    /\ awards = [t \in Traders |-> 0]
    /\ req = [s \in Slots |-> Idle]

(***************************************************************************)
(* Quotes.                                                                 *)
(***************************************************************************)

CreateQuoteRead(s, t) ==
    /\ status \notin {"ASSIGNED", "COMPLETED", "CANCELLED"}
    /\ Begin(s, Request("createQuote", t, 0, FALSE))
    /\ UNCHANGED <<jobRow, quote, match, metrics>>

\* Mutant: the count of the job's quotes is not looked at.
CreateQuoteCheckUncounted(s) ==
    /\ Running(s, "createQuote")
    /\ quote[req[s].trader] = "NONE"
    /\ req' = [req EXCEPT ![s].op = "insertQuote",
                          ![s].saw = match[req[s].trader] # "NONE"]
    /\ UNCHANGED <<jobRow, quote, match, metrics>>

\* The reads of the transaction.  The trader's plan and its daily quota may
\* refuse the quote here as well: that is a request that goes no further.
CreateQuoteCheck(s) ==
    /\ Running(s, "createQuote")
    /\ Cardinality(Quotes) < QuoteLimit
    /\ quote[req[s].trader] = "NONE"
    /\ req' = [req EXCEPT ![s].op = "insertQuote",
                          ![s].saw = match[req[s].trader] # "NONE"]
    /\ UNCHANGED <<jobRow, quote, match, metrics>>

\* The unique key of Quote aborts the transaction that comes second, and a match
\* row that was read and is gone aborts it as well.
CreateQuoteCommit(s) ==
    LET t == req[s].trader IN
    /\ Running(s, "insertQuote")
    /\ quote[t] = "NONE"
    /\ received < ReceivedBound
    /\ quote' = [quote EXCEPT ![t] = "PENDING"]
    /\ received' = received + 1
    /\ status' = "QUOTE_RECEIVED"
    /\ \/ req[s].saw /\ match[t] # "NONE" /\ match' = [match EXCEPT ![t] = "QUOTED"]
       \/ ~req[s].saw /\ UNCHANGED match
    /\ Finish(s)
    /\ UNCHANGED <<selected, closed, metrics>>

\* acceptQuote tests status twice, before its transaction and first thing in
\* it, and uses nothing else it read: the second test is the one that counts.
AcceptQuoteRead(s, t) ==
    /\ quote[t] # "NONE"
    /\ status # "ASSIGNED"
    /\ Begin(s, Request("acceptQuote", t, 0, FALSE))
    /\ UNCHANGED <<jobRow, quote, match, metrics>>

\* The rows of the job's other traders get the status lost, those there are.
Decided(row, t, lost) ==
    [u \in Traders |-> IF u = t THEN "ACCEPTED"
                       ELSE IF row[u] = "NONE" THEN "NONE" ELSE lost]

\* Mutant: the other quotes keep their status.
AcceptQuoteCommitAlone(s) ==
    LET t == req[s].trader IN
    /\ Running(s, "acceptQuote")
    /\ match[t] # "NONE"
    /\ awards[t] < AwardBound
    /\ quote' = [quote EXCEPT ![t] = "ACCEPTED"]
    /\ match' = Decided(match, t, "INVITED")
    /\ selected' = t
    /\ status' = "ASSIGNED"
    /\ awards' = [awards EXCEPT ![t] = @ + 1]
    /\ Finish(s)
    /\ UNCHANGED <<received, closed, completed>>

\* A trader without a match row makes the update of that row, and with it the
\* transaction, fail.
AcceptQuoteCommit(s) ==
    LET t == req[s].trader IN
    /\ Running(s, "acceptQuote")
    /\ match[t] # "NONE"
    /\ awards[t] < AwardBound
    /\ quote' = Decided(quote, t, "REJECTED")
    /\ match' = Decided(match, t, "INVITED")
    /\ selected' = t
    /\ status' = "ASSIGNED"
    /\ awards' = [awards EXCEPT ![t] = @ + 1]
    /\ Finish(s)
    /\ UNCHANGED <<received, closed, completed>>

RejectQuoteRead(s, t) ==
    /\ quote[t] = "PENDING"
    /\ Begin(s, Request("rejectQuote", t, received, FALSE))
    /\ UNCHANGED <<jobRow, quote, match, metrics>>

\* Mutant: the count is not kept from going below zero.
OneQuoteLessUnclamped(n) ==
    /\ received' = n - 1
    /\ status' = IF n = 1 THEN "POSTED" ELSE "QUOTE_RECEIVED"

\* Mutant: the count is written without the status.
OneQuoteLessSameStatus(n) ==
    /\ received' = IF n = 0 THEN 0 ELSE n - 1
    /\ UNCHANGED status

\* The count, and the status that follows from it, come from the row as it was
\* read.
OneQuoteLess(n) ==
    LET left == IF n = 0 THEN 0 ELSE n - 1 IN
    /\ received' = left
    /\ status' = IF left = 0 THEN "POSTED" ELSE "QUOTE_RECEIVED"

\* Mutant: the match row is forgotten.
RejectQuoteCommitNoMatch(s) ==
    LET t == req[s].trader IN
    /\ Running(s, "rejectQuote")
    /\ quote' = [quote EXCEPT ![t] = "REJECTED"]
    /\ OneQuoteLess(req[s].received)
    /\ Finish(s)
    /\ UNCHANGED <<selected, closed, match, metrics>>

RejectQuoteCommit(s) ==
    LET t == req[s].trader IN
    /\ Running(s, "rejectQuote")
    /\ quote' = [quote EXCEPT ![t] = "REJECTED"]
    /\ match' = [match EXCEPT ![t] = IF @ = "NONE" THEN @ ELSE "INVITED"]
    /\ OneQuoteLess(req[s].received)
    /\ Finish(s)
    /\ UNCHANGED <<selected, closed, metrics>>

\* The count matters to the edit of a rejected quote only.
BeginUpdate(s, t) ==
    \/ quote[t] = "REJECTED" /\ Begin(s, Request("updateQuote", t, received, TRUE))
    \/ quote[t] # "REJECTED" /\ Begin(s, Request("updateQuote", t, 0, FALSE))

\* Mutant: the quote of an assigned job can be edited.
UpdateQuoteReadAssigned(s, t) ==
    /\ quote[t] # "NONE"
    /\ status \notin {"COMPLETED", "CANCELLED"}
    /\ BeginUpdate(s, t)
    /\ UNCHANGED <<jobRow, quote, match, metrics>>

UpdateQuoteRead(s, t) ==
    /\ quote[t] # "NONE"
    /\ status \notin {"ASSIGNED", "COMPLETED", "CANCELLED"}
    /\ BeginUpdate(s, t)
    /\ UNCHANGED <<jobRow, quote, match, metrics>>

\* Mutant: every edit counts as a new quote.
UpdateQuoteCommitCounts(s) ==
    LET t == req[s].trader IN
    /\ Running(s, "updateQuote")
    /\ quote' = [quote EXCEPT ![t] = "PENDING"]
    /\ match[t] # "NONE"
    /\ received < ReceivedBound
    /\ match' = [match EXCEPT ![t] = "QUOTED"]
    /\ received' = received + 1
    /\ status' = "QUOTE_RECEIVED"
    /\ Finish(s)
    /\ UNCHANGED <<selected, closed, metrics>>

UpdateQuoteCommit(s) ==
    LET t == req[s].trader IN
    /\ Running(s, "updateQuote")
    /\ quote' = [quote EXCEPT ![t] = "PENDING"]
    /\ \/ /\ ~req[s].saw
          /\ UNCHANGED <<match, received, status>>
       \/ /\ req[s].saw
          /\ match[t] # "NONE"
          /\ req[s].received < ReceivedBound
          /\ match' = [match EXCEPT ![t] = "QUOTED"]
          /\ received' = req[s].received + 1
          /\ status' = "QUOTE_RECEIVED"
    /\ Finish(s)
    /\ UNCHANGED <<selected, closed, metrics>>

WithdrawQuoteRead(s, t) ==
    /\ quote[t] \in {"PENDING", "REJECTED"}
    /\ status \notin {"ASSIGNED", "COMPLETED", "CANCELLED"}
    /\ Begin(s, Request("withdrawQuote", t, received, FALSE))
    /\ UNCHANGED <<jobRow, quote, match, metrics>>

\* Deletes the row, so the other requests that hold its id are as good as over.
WithdrawQuoteCommit(s) ==
    LET t == req[s].trader IN
    /\ Running(s, "withdrawQuote")
    /\ quote' = [quote EXCEPT ![t] = "NONE"]
    /\ match' = [match EXCEPT ![t] = IF @ = "NONE" THEN @ ELSE "INVITED"]
    /\ OneQuoteLess(req[s].received)
    /\ req' = [r \in Slots |->
                 IF req[r].op \in QuoteHandler /\ req[r].trader = t
                 THEN Idle ELSE req[r]]
    /\ UNCHANGED <<selected, closed, metrics>>

(***************************************************************************)
(* The job.                                                                *)
(***************************************************************************)

\* Mutant: any job can be started.
StartJobReadAnyStatus(s) ==
    /\ Begin(s, Request("startJob", NoTrader, 0, FALSE))
    /\ UNCHANGED <<jobRow, quote, match, metrics>>

StartJobRead(s) ==
    /\ status = "ASSIGNED"
    /\ Begin(s, Request("startJob", NoTrader, 0, FALSE))
    /\ UNCHANGED <<jobRow, quote, match, metrics>>

StartJobCommit(s) ==
    /\ Running(s, "startJob")
    /\ status' = "IN_PROGRESS"
    /\ Finish(s)
    /\ UNCHANGED <<selected, received, closed, quote, match, metrics>>

\* Mutant: a job can be completed again.
CompleteJobReadTwice(s) ==
    /\ status \in {"IN_PROGRESS", "COMPLETED"}
    /\ Begin(s, Request("completeJob", selected, 0, FALSE))
    /\ UNCHANGED <<jobRow, quote, match, metrics>>

CompleteJobRead(s) ==
    /\ status = "IN_PROGRESS"
    /\ Begin(s, Request("completeJob", selected, 0, FALSE))
    /\ UNCHANGED <<jobRow, quote, match, metrics>>

\* completeJob and cancelJob credit the trader that was selected at the read.
CompleteJobCommit(s) ==
    LET t == req[s].trader IN
    /\ Running(s, "completeJob")
    /\ completed[t] < CreditBound
    /\ status' = "COMPLETED"
    /\ completed' = [completed EXCEPT ![t] = @ + 1]
    /\ Finish(s)
    /\ UNCHANGED <<selected, received, closed, quote, match, awards>>

CancelJobRead(s) ==
    /\ status \in {"ASSIGNED", "IN_PROGRESS"}
    /\ Begin(s, Request("cancelJob", selected, 0, FALSE))
    /\ UNCHANGED <<jobRow, quote, match, metrics>>

CancelJobCommit(s) ==
    /\ Running(s, "cancelJob")
    /\ status' = "CANCELLED"
    /\ Blame(s, req[s].trader)
    /\ UNCHANGED <<selected, received, closed, quote, match, completed, awards>>

\* closeMyJob (the customer) and closeDistribution (an admin) look at
\* distributionStatus only: a job in any status can be closed.
CloseRead(s, op) ==
    /\ ~closed
    /\ Begin(s, Request(op, NoTrader, 0, FALSE))
    /\ UNCHANGED <<jobRow, quote, match, metrics>>

CloseMyJobRead(s) == CloseRead(s, "closeMyJob")
CloseDistributionRead(s) == CloseRead(s, "closeDistribution")

\* Both raise a counter of the trader that is selected when the transaction
\* runs: closedJobs, or cancelledJobs if the customer says no work was done.
CloseCommit(s, op) ==
    /\ Running(s, op)
    /\ status' = "CLOSED"
    /\ closed' = TRUE
    /\ Blame(s, selected)
    /\ UNCHANGED <<selected, received, quote, match, completed, awards>>

CloseMyJobCommit(s) == CloseCommit(s, "closeMyJob")

\* Mutant: the counter of any trader that made a quote is raised.
CloseDistributionCommitQuoted(s) ==
    /\ Running(s, "closeDistribution")
    /\ status' = "CLOSED"
    /\ closed' = TRUE
    /\ \E t \in Quotes : Blame(s, t)
    /\ UNCHANGED <<selected, received, quote, match, completed, awards>>

CloseDistributionCommit(s) == CloseCommit(s, "closeDistribution")

\* The cron for expired jobs; the job may expire at any time.
AutoCloseJobsRead(s) ==
    /\ status \notin {"COMPLETED", "CLOSED", "CANCELLED", "IN_PROGRESS"}
    /\ Begin(s, Request("autoCloseJobs", NoTrader, 0, FALSE))
    /\ UNCHANGED <<jobRow, quote, match, metrics>>

AutoCloseJobsCommit(s) ==
    /\ Running(s, "autoCloseJobs")
    /\ status' = "CLOSED"
    /\ Finish(s)
    /\ UNCHANGED <<selected, received, closed, quote, match, metrics>>

\* An edit of the category or the location.  Other edits change nothing here.
UpdateJobRead(s) ==
    /\ status \in {"POSTED", "QUOTE_RECEIVED"}
    /\ received = 0
    /\ Begin(s, Request("updateJob", NoTrader, 0, FALSE))
    /\ UNCHANGED <<jobRow, quote, match, metrics>>

\* The edit is no transaction: it deletes the matches first ...
UpdateJobDeleteMatches(s) ==
    /\ Running(s, "updateJob")
    /\ match' = [t \in Traders |-> "NONE"]
    /\ req' = [req EXCEPT ![s].op = "resetJob"]
    /\ UNCHANGED <<jobRow, quote, metrics>>

\* ... and puts the job back to POSTED afterwards.
UpdateJobReset(s) ==
    /\ Running(s, "resetJob")
    /\ status' = "POSTED"
    /\ Finish(s)
    /\ UNCHANGED <<selected, received, closed, quote, match, metrics>>

(***************************************************************************)
(* Distribution, as far as this job's rows go.                             *)
(***************************************************************************)

\* The matching worker adds a trader who has no match row.  It tests
\* quotesReceived long before it inserts, so no count can be relied on here.
MatchAndSendJob(t) ==
    /\ match[t] = "NONE"
    /\ match' = [match EXCEPT ![t] = "INVITED"]
    /\ UNCHANGED <<jobRow, quote, metrics, req>>

\* An admin resumes, restarts or distributes by hand: the distribution is open
\* again, whatever the status of the job.
ReopenDistribution ==
    /\ closed
    /\ closed' = FALSE
    /\ UNCHANGED <<status, selected, received, quote, match, metrics, req>>

\* A request fails, or one that raised a counter returns.
Abandon(s) ==
    /\ req[s] # Idle
    /\ Finish(s)
    /\ UNCHANGED <<jobRow, quote, match, metrics>>

Read(s) ==
    \/ \E t \in Traders :
         \/ CreateQuoteRead(s, t)
         \/ AcceptQuoteRead(s, t)
         \/ RejectQuoteRead(s, t)
         \/ UpdateQuoteRead(s, t)
         \/ WithdrawQuoteRead(s, t)
    \/ StartJobRead(s)
    \/ CompleteJobRead(s)
    \/ CancelJobRead(s)
    \/ CloseMyJobRead(s)
    \/ CloseDistributionRead(s)
    \/ AutoCloseJobsRead(s)
    \/ UpdateJobRead(s)

Commit(s) ==
    \/ CreateQuoteCommit(s)
    \/ AcceptQuoteCommit(s)
    \/ RejectQuoteCommit(s)
    \/ UpdateQuoteCommit(s)
    \/ WithdrawQuoteCommit(s)
    \/ StartJobCommit(s)
    \/ CompleteJobCommit(s)
    \/ CancelJobCommit(s)
    \/ CloseMyJobCommit(s)
    \/ CloseDistributionCommit(s)
    \/ AutoCloseJobsCommit(s)
    \/ UpdateJobReset(s)

Next ==
    \/ \E s \in Slots :
         \/ Read(s)
         \/ CreateQuoteCheck(s)
         \/ UpdateJobDeleteMatches(s)
         \/ Commit(s)
         \/ Abandon(s)
    \/ \E t \in Traders : MatchAndSendJob(t)
    \/ ReopenDistribution

Spec == Init /\ [][Next]_vars

-----------------------------------------------------------------------------
(***************************************************************************)
(* What holds however the requests interleave.                             *)
(***************************************************************************)

\* Every column has its type: in particular quotesReceived, which is written
\* from stale reads, is never negative.
TypeOK ==
    /\ status \in JobStatus
    /\ selected \in Traders \cup {NoTrader}
    /\ received \in Nat
    /\ closed \in BOOLEAN
    /\ quote \in [Traders -> QuoteStatus]
    /\ match \in [Traders -> MatchStatus]
    /\ completed \in [Traders -> Nat]
    /\ awards \in [Traders -> Nat]
    /\ req \in [Slots -> RequestType]

\* An accepted quote is the selected trader's, so at most one quote of the job
\* is accepted, whatever handlers race with acceptQuote or with each other.
AcceptedIsSelected ==
    \A t \in Traders : quote[t] = "ACCEPTED" => selected = t

\* The match table never says more than the quote table: a QUOTED match has a
\* pending quote, and only the selected trader's match is ACCEPTED.
MatchesFollowQuotes ==
    \A t \in Traders :
       /\ match[t] = "QUOTED" => quote[t] = "PENDING"
       /\ match[t] = "ACCEPTED" => selected = t

\* A job that was assigned, started, completed or cancelled has a selected
\* trader, one whose quote the customer accepted, even when the status was
\* written from a stale read (completeJob uses selectedTraderId unchecked).
WorkHasTrader ==
    status \in {"ASSIGNED", "IN_PROGRESS", "COMPLETED", "CANCELLED"} =>
        selected # NoTrader /\ awards[selected] > 0

\* No trader's completed, cancelled or closed counter moves for a job it never
\* won, though completeJob and cancelJob credit the trader read earlier.
CreditFollowsAward ==
    /\ \A t \in Traders : completed[t] > 0 => awards[t] > 0
    /\ \A s \in Slots : Running(s, "blamed") => awards[req[s].trader] > 0

\* What is done to the job and credited for it was earned by an acceptance.
WorkIsEarned == WorkHasTrader /\ CreditFollowsAward

\* The limit on quotes is tested before the insert and can be overrun, but by
\* no more than the other requests that passed the test at the same time.
\* With one request at a time it is exact.
QuoteLimitOvershoot ==
    Cardinality(Quotes) + Cardinality(Inserting) < QuoteLimit + Cardinality(Slots)

O == INSTANCE OpenJob WITH
       active <- status \in {"POSTED", "QUOTE_RECEIVED"},
       quotes <- IF received < QuoteLimit THEN received ELSE QuoteLimit

\* The distribution of the job sees nothing but steps of OpenJob, however the
\* requests interleave: whoever writes the count opens the job again, and whoever
\* takes the job from the market leaves the count.
ActsAsOpenJob == O!Spec

(***************************************************************************)
(* What holds when requests run one after the other, Slots = {s}.  None of *)
(* it survives two slots.                                                  *)
(***************************************************************************)

\* While a job is ASSIGNED its decision stands: the selected trader's quote and
\* match are ACCEPTED and no quote is pending, through every legal sequence of
\* edits, rejections, withdrawals, closings and later acceptances.
AssignedSettled ==
    status = "ASSIGNED" =>
        /\ quote[selected] = "ACCEPTED"
        /\ match[selected] = "ACCEPTED"
        /\ Pending = {}

\* Until a quote is accepted, quotesReceived never exceeds the pending quotes,
\* and the status says QUOTE_RECEIVED exactly when it is positive.
OpenJobCounts ==
    selected = NoTrader =>
        /\ received <= Cardinality(Pending)
        /\ status = "QUOTE_RECEIVED" => received > 0
        /\ status = "POSTED" => received = 0

\* The job's row and its quotes agree, before an award and while it stands.
RowsAgree == AssignedSettled /\ OpenJobCounts

\* Each acceptance of a trader's quote leads to at most one completion.
CompletedOncePerAward ==
    \A t \in Traders :
       completed[t]
         + (IF selected = t /\ status \in {"ASSIGNED", "IN_PROGRESS"} THEN 1 ELSE 0)
       <= awards[t]

\* The two statuses of a job that takes quotes are one phase of Award.
Phase == IF status \in {"POSTED", "QUOTE_RECEIVED"} THEN "OPEN" ELSE status

A == INSTANCE Award WITH phase <- Phase, winner <- selected, credited <- completed

\* The reads and commits of the job's handlers, of the quote handlers that write
\* the job's status on the side and of the cron are steps of Award: nothing is
\* started, completed or cancelled that was not awarded, and the trader that is
\* credited is the one whose award it was.
ActsAsAward == A!Spec

(***************************************************************************)
(* What quote.service.ts says of acceptQuote's transaction: it fixes the   *)
(* race of concurrent acceptances, the second of which is to be told that  *)
(* another trader was already selected.                                    *)
(***************************************************************************)

\* The selected trader of an ASSIGNED job is not replaced by an acceptance that
\* leaves it ASSIGNED.
NoSecondAcceptance ==
    [][status = "ASSIGNED" /\ status' = "ASSIGNED" => selected' = selected]_vars
=============================================================================
