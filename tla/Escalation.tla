----------------------------- MODULE Escalation -----------------------------
(***************************************************************************)
(* The distribution of one open job: the escalation queue of BullMQ, its   *)
(* processor (escalation.processor.ts), which widens the search radius     *)
(* every 20 minutes, and the handlers of job.service.ts by which an admin  *)
(* or the customer pauses, resumes, restarts, widens, closes or resets it. *)
(*                                                                         *)
(* The processor runs on every server.  It reads the job, decides, and     *)
(* writes under the condition that escalationVersion is what it read; the  *)
(* other handlers read and write without a condition.  Only one escalation *)
(* job carries the chain: each run queues the next.                        *)
(*                                                                         *)
(* The queue is a set of expected versions.  Duplicates need no count of   *)
(* their own: BullMQ delivers a job at least once, so a job that a worker  *)
(* holds may come back at any time (Redeliver).  The delay of a queued job *)
(* is any time at all.                                                     *)
(***************************************************************************)
EXTENDS Naturals

CONSTANTS
    Workers,        \* processors of the queue
    Clients,        \* handler requests running at the same time
    InitialRadius,  \* 10 km in the code
    RadiusStep,     \* 10 km
    MaxRadius,      \* 100 km
    Widths,         \* what an admin may add by hand
    QuoteLimit,     \* 3
    ReviewAfter,    \* 9
    AdminBound      \* bound: restarts, edits, closings and widenings by hand

ASSUME ConstantsAssumption ==
    /\ InitialRadius \in Nat /\ RadiusStep \in Nat \ {0} /\ MaxRadius \in Nat
    /\ InitialRadius < MaxRadius
    /\ Widths \subseteq Nat \ {0}
    /\ QuoteLimit \in Nat \ {0} /\ ReviewAfter \in Nat /\ AdminBound \in Nat

VARIABLES
    active,        \* Job.status is POSTED or QUOTE_RECEIVED
    quotes,        \* Job.quotesReceived
    distribution,  \* Job.distributionStatus
    radius,        \* Job.currentRadiusKm
    version,       \* Job.escalationVersion
    delayed,       \* expectedVersion of the escalation jobs in the queue
    worker,        \* what each processor is doing
    client,        \* what each handler request is doing
    epoch,         \* history: how often version was set back to 0
    cut,           \* history: an event after which nobody continues the chain
    adminOps       \* counts what AdminBound bounds

jobRow == <<active, quotes, distribution, radius, version>>
vars == <<active, quotes, distribution, radius, version, delayed,
          worker, client, epoch, cut, adminOps>>

DistributionStatus ==
    {"AUTO", "MANUAL_REVIEW", "MANUAL_DISTRIBUTION", "PAUSED", "COMPLETED"}

\* pc: "idle", "decided" (read, not yet written) or "escalated" (written).
\* The rest is the row as it was read, and the epoch it was read in.
WorkerType == [pc : {"idle", "decided", "escalated"}, version : Nat, radius : Nat,
               quotes : Nat, epoch : Nat]
IdleWorker == [pc |-> "idle", version |-> 0, radius |-> 0, quotes |-> 0, epoch |-> 0]

\* n is the version or the radius the request remembers.
ClientType == [op : {"idle", "pause", "resume", "increase", "close", "edit", "enqueue"},
               n : Nat]
Request(op, n) == [op |-> op, n |-> n]
IdleClient == Request("idle", 0)

\* Mutant: no cap at MaxRadius.
WidenedUncapped(r, km) == r + km

AtMost(bound, n) == IF n < bound THEN n ELSE bound
Widened(r, km) == AtMost(MaxRadius, r + km)

Begin(c, r) == client[c] = IdleClient /\ client' = [client EXCEPT ![c] = r]
Finish(c) == client' = [client EXCEPT ![c] = IdleClient]
Rest(w) == worker' = [worker EXCEPT ![w] = IdleWorker]

Bounded == adminOps < AdminBound /\ adminOps' = adminOps + 1

-----------------------------------------------------------------------------
\* createJob has written the row and is about to queue the first escalation.
Init ==
    /\ active = TRUE
    /\ quotes = 0
    /\ distribution = "AUTO"
    /\ radius = InitialRadius
    /\ version = 0
    /\ delayed = {}
    /\ worker = [w \in Workers |-> IdleWorker]
    /\ \E creator \in Clients :
         client = [c \in Clients |-> IF c = creator THEN Request("enqueue", 0)
                                     ELSE IdleClient]
    /\ epoch = 0
    /\ cut = FALSE
    /\ adminOps = 0

(***************************************************************************)
(* The processor.                                                          *)
(***************************************************************************)

\* Why the processor goes on with a job that expects version v.
MayEscalate(v) ==
    /\ distribution = "AUTO"
    /\ active
    /\ quotes < QuoteLimit
    /\ version = v
    /\ radius < MaxRadius

ProcessRead(w, v) ==
    /\ worker[w] = IdleWorker
    /\ v \in delayed
    /\ delayed' = delayed \ {v}
    /\ \/ /\ MayEscalate(v)
          /\ worker' = [worker EXCEPT ![w] =
               [pc |-> "decided", version |-> version, radius |-> radius,
                quotes |-> quotes, epoch |-> epoch]]
       \/ ~MayEscalate(v) /\ UNCHANGED worker
    /\ UNCHANGED <<jobRow, client, epoch, cut, adminOps>>

\* Mutant: the update does not test the version.
EscalateRadiusUnconditionally(w) ==
    /\ worker[w].pc = "decided"
    /\ radius' = Widened(worker[w].radius, RadiusStep)
    /\ version' = worker[w].version + 1
    /\ worker' = [worker EXCEPT ![w].pc = "escalated"]
    /\ UNCHANGED <<active, quotes, distribution, delayed, client, epoch, cut, adminOps>>

\* updateMany with the version in its condition; it touches no row when another
\* writer came first, and the chain is left to that writer.
EscalateRadius(w) ==
    /\ worker[w].pc = "decided"
    /\ \/ /\ version = worker[w].version
          /\ radius' = Widened(worker[w].radius, RadiusStep)
          /\ version' = version + 1
          /\ worker' = [worker EXCEPT ![w].pc = "escalated"]
       \/ version # worker[w].version /\ Rest(w) /\ UNCHANGED <<radius, version>>
    /\ UNCHANGED <<active, quotes, distribution, delayed, client, epoch, cut, adminOps>>

NeedsReview(w) == worker[w].version + 1 >= ReviewAfter /\ worker[w].quotes = 0

\* After the matching: the status is written with no condition, and the count of
\* quotes is the one that was read at first.
MoveToManualReview(w) ==
    /\ worker[w].pc = "escalated"
    /\ NeedsReview(w)
    /\ distribution' = "MANUAL_REVIEW"
    /\ Rest(w)
    /\ UNCHANGED <<active, quotes, radius, version, delayed, client, epoch, cut, adminOps>>

\* Mutant: the next escalation is queued for the version that was read.
QueueNextSameVersion(w) ==
    /\ worker[w].pc = "escalated"
    /\ ~NeedsReview(w)
    /\ delayed' = IF Widened(worker[w].radius, RadiusStep) < MaxRadius
                  THEN delayed \cup {worker[w].version} ELSE delayed
    /\ Rest(w)
    /\ UNCHANGED <<jobRow, client, epoch, cut, adminOps>>

QueueNext(w) ==
    /\ worker[w].pc = "escalated"
    /\ ~NeedsReview(w)
    /\ delayed' = IF Widened(worker[w].radius, RadiusStep) < MaxRadius
                  THEN delayed \cup {worker[w].version + 1} ELSE delayed
    /\ Rest(w)
    /\ UNCHANGED <<jobRow, client, epoch, cut, adminOps>>

\* The log, the matching or Redis throws.  The queue has no attempts left.
ProcessFails(w) ==
    /\ worker[w].pc # "idle"
    /\ Rest(w)
    /\ cut' = TRUE
    /\ UNCHANGED <<jobRow, delayed, client, epoch, adminOps>>

\* BullMQ takes a slow worker for a dead one, or the job was queued twice.
Redeliver(w) ==
    /\ worker[w].pc # "idle"
    /\ delayed' = delayed \cup {worker[w].version}
    /\ UNCHANGED <<jobRow, worker, client, epoch, cut, adminOps>>

(***************************************************************************)
(* The handlers.                                                           *)
(***************************************************************************)

PauseDistributionRead(c) ==
    /\ distribution # "PAUSED"
    /\ Begin(c, Request("pause", 0))
    /\ UNCHANGED <<jobRow, delayed, worker, epoch, cut, adminOps>>

PauseDistributionWrite(c) ==
    /\ client[c].op = "pause"
    /\ distribution' = "PAUSED"
    /\ Finish(c)
    /\ UNCHANGED <<active, quotes, radius, version, delayed, worker, epoch, cut, adminOps>>

ResumeDistributionRead(c) ==
    /\ distribution # "AUTO"
    /\ Begin(c, Request("resume", version))
    /\ UNCHANGED <<jobRow, delayed, worker, epoch, cut, adminOps>>

\* The version to be queued is the one that was read.
ResumeDistributionWrite(c) ==
    /\ client[c].op = "resume"
    /\ distribution' = "AUTO"
    /\ client' = [client EXCEPT ![c].op = "enqueue"]
    /\ UNCHANGED <<active, quotes, radius, version, delayed, worker, epoch, cut, adminOps>>

\* createJob, updateJob, resumeDistribution and restartAutoDistribution queue
\* the escalation job after they wrote the row.
EnqueueEscalation(c) ==
    /\ client[c].op = "enqueue"
    /\ delayed' = delayed \cup {client[c].n}
    /\ Finish(c)
    /\ UNCHANGED <<jobRow, worker, epoch, cut, adminOps>>

\* Mutant: the radius is not set back.
ResetChainKeepsRadius(c) ==
    /\ Bounded
    /\ version' = 0
    /\ epoch' = epoch + 1
    /\ client' = [client EXCEPT ![c] = Request("enqueue", 0)]
    /\ UNCHANGED radius

ResetChain(c) ==
    /\ Bounded
    /\ radius' = InitialRadius
    /\ version' = 0
    /\ epoch' = epoch + 1
    /\ client' = [client EXCEPT ![c] = Request("enqueue", 0)]

RestartAutoDistribution(c) ==
    /\ client[c] = IdleClient
    /\ ResetChain(c)
    /\ distribution' = "AUTO"
    /\ UNCHANGED <<active, quotes, delayed, worker, cut>>

\* A critical edit of the job: updateJob.
UpdateJobRead(c) ==
    /\ active
    /\ quotes = 0
    /\ Begin(c, Request("edit", 0))
    /\ UNCHANGED <<jobRow, delayed, worker, epoch, cut, adminOps>>

UpdateJobReset(c) ==
    /\ client[c].op = "edit"
    /\ ResetChain(c)
    /\ active' = TRUE
    /\ UNCHANGED <<quotes, distribution, delayed, worker, cut>>

IncreaseRadiusRead(c, km) ==
    /\ Widened(radius, km) # radius
    /\ Begin(c, Request("increase", Widened(radius, km)))
    /\ UNCHANGED <<jobRow, delayed, worker, epoch, cut, adminOps>>

\* The new version invalidates the job in the queue, and none is queued for it.
IncreaseRadiusWrite(c) ==
    /\ client[c].op = "increase"
    /\ Bounded
    /\ radius' = client[c].n
    /\ version' = version + 1
    /\ cut' = TRUE
    /\ Finish(c)
    /\ UNCHANGED <<active, quotes, distribution, delayed, worker, epoch>>

\* closeDistribution (an admin) and closeMyJob (the customer).
CloseRead(c) ==
    /\ distribution # "COMPLETED"
    /\ Begin(c, Request("close", 0))
    /\ UNCHANGED <<jobRow, delayed, worker, epoch, cut, adminOps>>

\* Mutant: closing keeps the version.
CloseWriteSameVersion(c) ==
    /\ client[c].op = "close"
    /\ Bounded
    /\ distribution' = "COMPLETED"
    /\ active' = FALSE
    /\ Finish(c)
    /\ UNCHANGED <<quotes, radius, version, delayed, worker, epoch, cut>>

CloseWrite(c) ==
    /\ client[c].op = "close"
    /\ Bounded
    /\ distribution' = "COMPLETED"
    /\ active' = FALSE
    /\ version' = version + 1
    /\ Finish(c)
    /\ UNCHANGED <<quotes, radius, delayed, worker, epoch, cut>>

DistributeManually ==
    /\ distribution' = "MANUAL_DISTRIBUTION"
    /\ UNCHANGED <<active, quotes, radius, version, delayed, worker, client,
                   epoch, cut, adminOps>>

\* A request dies between two of its steps.
Abandon(c) ==
    /\ client[c] # IdleClient
    /\ Finish(c)
    /\ cut' = (cut \/ client[c].op = "enqueue")
    /\ UNCHANGED <<jobRow, delayed, worker, epoch, adminOps>>

(***************************************************************************)
(* The rest of the system.                                                 *)
(***************************************************************************)

\* What the quotes and the lifecycle of the job do to it, which is what JobQuotes
\* implements.
J == INSTANCE OpenJob

QuotesChange ==
    /\ J!QuotesChange
    /\ UNCHANGED <<distribution, radius, version, delayed, worker, client,
                   epoch, cut, adminOps>>

JobTaken ==
    /\ J!JobTaken
    /\ UNCHANGED <<distribution, radius, version, delayed, worker, client,
                   epoch, cut, adminOps>>

\* withdrawQuote and updateTraderCategorySelection clear their caches with
\* FLUSHALL, on the Redis that holds the queues.
FlushAll ==
    /\ delayed # {}
    /\ delayed' = {}
    /\ cut' = TRUE
    /\ UNCHANGED <<jobRow, worker, client, epoch, adminOps>>

Work(w) ==
    \/ \E v \in delayed : ProcessRead(w, v)
    \/ EscalateRadius(w)
    \/ MoveToManualReview(w)
    \/ QueueNext(w)

Handle(c) ==
    \/ PauseDistributionRead(c)
    \/ PauseDistributionWrite(c)
    \/ ResumeDistributionRead(c)
    \/ ResumeDistributionWrite(c)
    \/ EnqueueEscalation(c)
    \/ RestartAutoDistribution(c)
    \/ UpdateJobRead(c)
    \/ UpdateJobReset(c)
    \/ \E km \in Widths : IncreaseRadiusRead(c, km)
    \/ IncreaseRadiusWrite(c)
    \/ CloseRead(c)
    \/ CloseWrite(c)
    \/ Abandon(c)

Next ==
    \/ \E w \in Workers : Work(w) \/ ProcessFails(w) \/ Redeliver(w)
    \/ \E c \in Clients : Handle(c)
    \/ DistributeManually
    \/ QuotesChange
    \/ JobTaken
    \/ FlushAll

Spec == Init /\ [][Next]_vars

\* The processors keep taking jobs, and a handler that wrote the row goes on to
\* queue the job; what stops either (ProcessFails, Abandon) sets cut.
Fairness ==
    /\ \A w \in Workers : WF_vars(Work(w))
    /\ \A c \in Clients : WF_vars(EnqueueEscalation(c))
FairSpec == Spec /\ Fairness

-----------------------------------------------------------------------------
\* Types; in particular the radius stays between its start and its cap, though
\* processor and admin both write it from stale reads.
TypeOK ==
    /\ active \in BOOLEAN
    /\ quotes \in 0..QuoteLimit
    /\ distribution \in DistributionStatus
    /\ radius \in InitialRadius..MaxRadius
    /\ version \in Nat
    /\ delayed \subseteq Nat
    /\ worker \in [Workers -> WorkerType]
    /\ client \in [Clients -> ClientType]
    /\ epoch \in Nat
    /\ cut \in BOOLEAN
    /\ adminOps \in Nat

\* Version 0 always goes with the initial radius: every writer of the radius
\* moves the version, so a chain that starts at 0 starts from the beginning.
FreshVersion == version = 0 => radius = InitialRadius

Escalates(w) == worker[w].pc = "decided" /\ worker'[w].pc = "escalated"

\* The optimistic lock works as long as the version is not set back: an
\* escalation that was decided in this epoch widens the present radius by one
\* step, whatever other workers and admins did since it read the row, and never
\* that of a job whose distribution was closed meanwhile.
EscalationExact ==
    [][\A w \in Workers : Escalates(w) /\ worker[w].epoch = epoch =>
          /\ radius' = Widened(radius, RadiusStep) /\ version' = version + 1
          /\ distribution # "COMPLETED"]_vars

\* The job could go on being escalated, and nothing has broken the chain.
Alive ==
    /\ active /\ distribution = "AUTO" /\ quotes < QuoteLimit
    /\ radius < MaxRadius /\ ~cut

\* Somebody holds the job that escalates the present version.  A worker that has
\* escalated does so only if it knows the present radius too: one that was left
\* over from before a restart may have the right version by chance and find
\* nothing more to queue.
ChainHeld ==
    \/ version \in delayed
    \/ \E w \in Workers :
          \/ worker[w].pc = "decided" /\ worker[w].version = version
          \/ /\ worker[w].pc = "escalated" /\ worker[w].version + 1 = version
             /\ Widened(worker[w].radius, RadiusStep) = radius
    \/ \E c \in Clients : client[c] = Request("enqueue", version)

\* The chain never falls between two holders: every step either hands the
\* escalation of the present version on, from the queue to a worker, from the
\* worker to the queue, from an old chain to a restarted one, or makes the job
\* one that is not to go on.
ChainHandedOn == [][Alive /\ ChainHeld /\ Alive' => ChainHeld']_vars

\* A chain that is under way goes on until the radius is at its maximum, the job
\* has its quotes, it leaves automatic distribution, or one of the events that
\* set cut: a failure, a flush of Redis, or a widening by hand.
ChainProgress == Alive /\ ChainHeld ~> ~Alive
=============================================================================
