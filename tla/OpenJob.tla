------------------------------ MODULE OpenJob ------------------------------
(***************************************************************************)
(* A job as its distribution sees it: whether it is open to quotes, and    *)
(* how many it has, as far as the limit goes.  JobQuotes implements this,  *)
(* however its requests interleave; Escalation takes its steps for what    *)
(* the rest of the system does to the job.                                 *)
(***************************************************************************)
EXTENDS Naturals

CONSTANT QuoteLimit  \* 3

VARIABLES
    active,  \* Job.status is POSTED or QUOTE_RECEIVED
    quotes   \* Job.quotesReceived, cut off at QuoteLimit

vars == <<active, quotes>>

Init == active = TRUE /\ quotes = 0

\* A quote is made, resubmitted, withdrawn or rejected, or a critical edit comes
\* to its end: the job is POSTED or QUOTE_RECEIVED, whatever it was, and the
\* count, which comes from a stale read, is any.
QuotesChange == quotes' \in 0..QuoteLimit /\ active' = TRUE

\* The job is assigned, expires, or is closed; its quotes are left as they are.
JobTaken == active /\ active' = FALSE /\ UNCHANGED quotes

Next == QuotesChange \/ JobTaken

Spec == Init /\ [][Next]_vars
=============================================================================
