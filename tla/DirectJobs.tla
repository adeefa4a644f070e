----------------------------- MODULE DirectJobs -----------------------------
(***************************************************************************)
(* The direct jobs of one conversation between a trader and a customer:    *)
(* direct-job.service.ts and the status an admin may set                   *)
(* (updateAdminDirectJobStatus of admin.service.ts).                       *)
(*                                                                         *)
(* As in JobQuotes, a handler reads the row it decides on and writes by    *)
(* primary key later, so it is an action XRead and an action XCommit, and  *)
(* req[s] is what the request in slot s remembers in between.              *)
(***************************************************************************)
EXTENDS Naturals, FiniteSets

CONSTANTS
    Jobs,         \* the direct jobs the conversation may ever have
    NoJob,        \* the id of a job that is not created yet
    Slots,        \* requests the servers run at the same time
    LeftBound     \* bound: times one job leaves COMPLETED or CANCELLED

ASSUME ConstantsAssumption ==
    /\ NoJob \notin Jobs
    /\ IsFiniteSet(Jobs) /\ IsFiniteSet(Slots)
    /\ LeftBound \in Nat

VARIABLES
    status,      \* DirectJob.status, "NONE" before the row exists
    completedAt, \* whether DirectJob.completedAt is set
    confirmedAt, \* whether DirectJob.confirmedAt is set
    reminders,   \* reminders of the last 12 hours: lastReminderSentAt is
                 \* in that time if it is positive
    credits,     \* TraderMetrics.completedJobs: how often a request of each
                 \* slot raised it for each job
    left,        \* history: how often each job left COMPLETED or CANCELLED
    req          \* the request each slot runs

dates == <<completedAt, confirmedAt>>
vars == <<status, completedAt, confirmedAt, reminders, credits, left, req>>

DirectJobStatus == {"IN_PROGRESS", "AWAITING_CONFIRMATION", "COMPLETED", "CANCELLED"}
ActiveStatus == {"IN_PROGRESS", "AWAITING_CONFIRMATION"}
Final == {"COMPLETED", "CANCELLED"}
Handler == {"idle", "startDirectJob", "closeDirectJob", "remindCustomer",
            "confirmDirectJob", "cancelDirectJob", "updateAdminDirectJobStatus"}

\* What a request keeps: the job, the status it will write, whether it will
\* raise completedJobs and whether it will set the dates of a confirmation.
Request(op, j, new, credit, date) ==
    [op |-> op, job |-> j, new |-> new, credit |-> credit, date |-> date]
Idle == Request("idle", NoJob, "NONE", FALSE, FALSE)
RequestType ==
    [op : Handler, job : Jobs \cup {NoJob}, new : DirectJobStatus \cup {"NONE"},
     credit : BOOLEAN, date : BOOLEAN]

Active == {j \in Jobs : status[j] \in ActiveStatus}
Running(s, op) == req[s].op = op
Starting == {s \in Slots : Running(s, "startDirectJob")}
Reminding(j) == {s \in Slots : Running(s, "remindCustomer") /\ req[s].job = j}

Begin(s, r) ==
    /\ req[s] = Idle
    /\ req' = [req EXCEPT ![s] = r]
    /\ UNCHANGED <<status, dates, reminders, credits, left>>
Finish(s) == req' = [req EXCEPT ![s] = Idle]

\* The row gets its new status, whatever it is by now.
SetStatus(j, new) ==
    LET leaves == status[j] \in Final /\ new # status[j] IN
    /\ leaves => left[j] < LeftBound
    /\ left' = [left EXCEPT ![j] = IF leaves THEN @ + 1 ELSE @]
    /\ status' = [status EXCEPT ![j] = new]

\* Mutant: a job that is not completed takes a credit back.
RaiseCompletedJobsOrLower(s, j, credit) ==
    credits' = [credits EXCEPT ![s][j] = IF credit THEN @ + 1 ELSE @ - 1]

\* Mutant: the counter is not raised.
RaiseCompletedJobsNever(s, j, credit) == UNCHANGED credits

RaiseCompletedJobs(s, j, credit) ==
    credits' = [credits EXCEPT ![s][j] = IF credit THEN @ + 1 ELSE @]

-----------------------------------------------------------------------------
Init ==
    /\ status = [j \in Jobs |-> "NONE"]
    /\ completedAt = [j \in Jobs |-> FALSE]
    /\ confirmedAt = [j \in Jobs |-> FALSE]
    /\ reminders = [j \in Jobs |-> 0]
    /\ credits = [s \in Slots |-> [j \in Jobs |-> 0]]
    /\ left = [j \in Jobs |-> 0]
    /\ req = [s \in Slots |-> Idle]

\* Mutant: a job that waits for its confirmation does not count.
StartDirectJobReadUnchecked(s) ==
    /\ \A j \in Jobs : status[j] # "IN_PROGRESS"
    /\ Begin(s, Request("startDirectJob", NoJob, "IN_PROGRESS", FALSE, FALSE))

StartDirectJobRead(s) ==
    /\ Active = {}
    /\ Begin(s, Request("startDirectJob", NoJob, "IN_PROGRESS", FALSE, FALSE))

StartDirectJobCommit(s, j) ==
    /\ Running(s, "startDirectJob")
    /\ status[j] = "NONE"
    /\ status' = [status EXCEPT ![j] = "IN_PROGRESS"]
    /\ Finish(s)
    /\ UNCHANGED <<dates, reminders, credits, left>>

CloseDirectJobRead(s, j) ==
    /\ status[j] = "IN_PROGRESS"
    /\ Begin(s, Request("closeDirectJob", j, "AWAITING_CONFIRMATION", FALSE, FALSE))

CloseDirectJobCommit(s) ==
    LET j == req[s].job IN
    /\ Running(s, "closeDirectJob")
    /\ SetStatus(j, "AWAITING_CONFIRMATION")
    /\ completedAt' = [completedAt EXCEPT ![j] = TRUE]
    /\ Finish(s)
    /\ UNCHANGED <<confirmedAt, reminders, credits>>

\* Mutant: reminders are not limited.
RemindCustomerReadOften(s, j) ==
    /\ status[j] = "AWAITING_CONFIRMATION"
    /\ Begin(s, Request("remindCustomer", j, "NONE", FALSE, FALSE))

RemindCustomerRead(s, j) ==
    /\ status[j] = "AWAITING_CONFIRMATION"
    /\ reminders[j] = 0
    /\ Begin(s, Request("remindCustomer", j, "NONE", FALSE, FALSE))

RemindCustomerCommit(s) ==
    /\ Running(s, "remindCustomer")
    /\ reminders' = [reminders EXCEPT ![req[s].job] = @ + 1]
    /\ Finish(s)
    /\ UNCHANGED <<status, dates, credits, left>>

\* The clock: the last reminder is 12 hours old.
RemindersAge(j) ==
    /\ reminders[j] > 0
    /\ reminders' = [reminders EXCEPT ![j] = 0]
    /\ UNCHANGED <<status, dates, credits, left, req>>

\* Mutant: a completed job can be confirmed again.
ConfirmDirectJobReadAgain(s, j) ==
    /\ status[j] \in ActiveStatus \cup {"COMPLETED"}
    /\ Begin(s, Request("confirmDirectJob", j, "COMPLETED", TRUE, TRUE))

ConfirmDirectJobRead(s, j) ==
    /\ status[j] \in ActiveStatus
    /\ Begin(s, Request("confirmDirectJob", j, "COMPLETED", TRUE, TRUE))

CancelDirectJobRead(s, j) ==
    /\ status[j] \notin {"NONE", "COMPLETED"}
    /\ Begin(s, Request("cancelDirectJob", j, "CANCELLED", FALSE, FALSE))

\* An admin sets any status.  What it adds to a completion depends on the row
\* as it was read.
UpdateAdminDirectJobStatusRead(s, j, new) ==
    /\ status[j] # "NONE"
    /\ Begin(s, Request("updateAdminDirectJobStatus", j, new,
                        new = "COMPLETED" /\ status[j] # "COMPLETED",
                        new = "COMPLETED" /\ ~confirmedAt[j]))

\* The writes of confirmDirectJob, cancelDirectJob and of the admin.  A date that
\* was set is written again or left: no handler clears one.
SettleCommit(s) ==
    LET r == req[s]  j == r.job IN
    /\ r.op \in {"confirmDirectJob", "cancelDirectJob", "updateAdminDirectJobStatus"}
    /\ SetStatus(j, r.new)
    /\ completedAt' = [completedAt EXCEPT ![j] = @ \/ r.date]
    /\ confirmedAt' = [confirmedAt EXCEPT ![j] = @ \/ r.date]
    /\ RaiseCompletedJobs(s, j, r.credit)
    /\ Finish(s)
    /\ UNCHANGED reminders

\* A request fails, before it wrote anything.
Abandon(s) ==
    /\ req[s] # Idle
    /\ Finish(s)
    /\ UNCHANGED <<status, dates, reminders, credits, left>>

Next ==
    \/ \E s \in Slots :
         \/ StartDirectJobRead(s)
         \/ CloseDirectJobCommit(s)
         \/ RemindCustomerCommit(s)
         \/ SettleCommit(s)
         \/ Abandon(s)
         \/ \E j \in Jobs :
              \/ StartDirectJobCommit(s, j)
              \/ CloseDirectJobRead(s, j)
              \/ RemindCustomerRead(s, j)
              \/ ConfirmDirectJobRead(s, j)
              \/ CancelDirectJobRead(s, j)
              \/ \E new \in DirectJobStatus : UpdateAdminDirectJobStatusRead(s, j, new)
    \/ \E j \in Jobs : RemindersAge(j)

Spec == Init /\ [][Next]_vars

-----------------------------------------------------------------------------
\* Columns, counters and requests have their types: no credit is taken back below
\* zero.
TypeOK ==
    /\ status \in [Jobs -> DirectJobStatus \cup {"NONE"}]
    /\ completedAt \in [Jobs -> BOOLEAN]
    /\ confirmedAt \in [Jobs -> BOOLEAN]
    /\ reminders \in [Jobs -> Nat]
    /\ credits \in [Slots -> [Jobs -> Nat]]
    /\ left \in [Jobs -> Nat]
    /\ req \in [Slots -> RequestType]

\* A completed job carries the dates of its completion and its confirmation and
\* was credited to the trader, though the admin's update decides on both from a
\* row it read earlier, whose status may have changed twice since.
CompletedIsSettled ==
    \A j \in Jobs : status[j] = "COMPLETED" =>
        /\ completedAt[j] /\ confirmedAt[j]
        /\ \E s \in Slots : credits[s][j] > 0

\* However confirmations, cancellations and the admin race, the requests of one
\* slot credit a job once, and once more only after it was taken out of a final
\* status: completedJobs is exact with one request at a time and too high by at
\* most n - 1 for each completion with n.
CreditedOncePerCompletion ==
    \A s \in Slots, j \in Jobs : credits[s][j] <= 1 + left[j]

\* The test for another active job can be overrun by the other requests that
\* passed it at the same time, and by nobody else but those that revive a job.
ActiveOvershoot ==
    Cardinality({j \in Active : left[j] = 0}) + Cardinality(Starting)
      <= Cardinality(Slots)

\* The customer gets one reminder in 12 hours from each request that may run at
\* the same time.
ReminderOvershoot ==
    \A j \in Jobs : reminders[j] + Cardinality(Reminding(j)) <= Cardinality(Slots)

\* A test before a write is overrun by what runs at the same time, and no further.
ChecksOvershoot == ActiveOvershoot /\ ReminderOvershoot
=============================================================================
