-------------------------- MODULE Escalation_proofs --------------------------
(***************************************************************************)
(* Proofs about Escalation for any number of processors and requests, any  *)
(* radii and any number of restarts: the safety half of the optimistic     *)
(* lock, the chain of delayed jobs, and the refinement of OpenJob.         *)
(* Then proofs about Caches.                                               *)
(***************************************************************************)
EXTENDS Escalation, Caches, SequenceTheorems, TLAPS

\* A worker that decided in this epoch either sees the row it read or a version
\* that has moved on; within an epoch the version never comes back.  Versions are
\* compared in one epoch only, so the invariant must know that epochs do not run
\* ahead.  Closing moves the version too, so an unmoved version is not closed.
DecidedIsCurrent ==
    \A w \in Workers :
       /\ worker[w].epoch <= epoch
       /\ worker[w].pc = "decided" /\ worker[w].epoch = epoch =>
             /\ worker[w].version <= version
             /\ worker[w].version = version =>
                   radius = worker[w].radius /\ distribution # "COMPLETED"

\* The radii that are remembered are radii the row may have.
RememberedRadii ==
    /\ \A w \in Workers :
          worker[w].pc = "decided" => worker[w].radius \in InitialRadius..MaxRadius
    /\ \A c \in Clients :
          client[c].op = "increase" => client[c].n \in InitialRadius..MaxRadius

\* TypeOK in two parts, each for the prover that is good at it.
Flags == active \in BOOLEAN /\ cut \in BOOLEAN
OtherTypes ==
    /\ quotes \in 0..QuoteLimit
    /\ distribution \in DistributionStatus
    /\ radius \in InitialRadius..MaxRadius
    /\ version \in Nat
    /\ delayed \subseteq Nat
    /\ worker \in [Workers -> WorkerType]
    /\ client \in [Clients -> ClientType]
    /\ epoch \in Nat
    /\ adminOps \in Nat

LEMMA TypeParts == TypeOK <=> Flags /\ OtherTypes
  BY DEF TypeOK, Flags, OtherTypes

IInv == OtherTypes /\ FreshVersion /\ DecidedIsCurrent /\ RememberedRadii

\* Widening by any step stays between the start and the cap.
LEMMA WidenedInRange ==
    ASSUME NEW r \in InitialRadius..MaxRadius, NEW km \in Nat
    PROVE  Widened(r, km) \in InitialRadius..MaxRadius
  BY ConstantsAssumption DEF Widened, AtMost

LEMMA Idles == IdleWorker \in WorkerType /\ IdleClient \in ClientType
  BY DEF IdleWorker, WorkerType, IdleClient, Request, ClientType

-----------------------------------------------------------------------------
LEMMA InitIInv == Init => IInv
<1> SUFFICES ASSUME Init PROVE IInv
  OBVIOUS
<1>1. \A w \in Workers : worker[w] = IdleWorker
  BY DEF Init
<1>2. \A c \in Clients : client[c] \in {Request("enqueue", 0), IdleClient}
  BY DEF Init
<1>3. worker \in [Workers -> WorkerType]
  BY Idles DEF Init
<1>4. Request("enqueue", 0) \in ClientType
  BY DEF Request, ClientType
<1>5. client \in [Clients -> ClientType]
  BY <1>4, Idles DEF Init
<1>6. OtherTypes
  BY <1>3, <1>5, ConstantsAssumption DEF Init, OtherTypes, DistributionStatus
<1>7. FreshVersion
  BY DEF Init, FreshVersion
<1>8. DecidedIsCurrent
  <2>1. IdleWorker.epoch = 0 /\ IdleWorker.pc # "decided"
    BY DEF IdleWorker
  <2>2. epoch = 0
    BY DEF Init
  <2>3. \A w \in Workers : worker[w].epoch = 0 /\ worker[w].pc # "decided"
    BY <1>1, <2>1
  <2>4. \A w \in Workers : worker[w].epoch <= epoch
    <3>1. 0 <= 0
      OBVIOUS
    <3> QED
      BY <2>2, <2>3, <3>1, Zenon
  <2> QED
    BY <2>3, <2>4, Zenon DEF DecidedIsCurrent
<1>9. RememberedRadii
  BY <1>1, <1>2 DEF RememberedRadii, IdleWorker, IdleClient, Request
<1> QED
  BY <1>6, <1>7, <1>8, <1>9 DEF IInv


LEMMA ProcessReadIInv ==
    ASSUME IInv, NEW w \in Workers, NEW v \in delayed, ProcessRead(w, v)
    PROVE  IInv'
<1> USE DEF ProcessRead, jobRow
<1>1. OtherTypes'
  BY ConstantsAssumption DEF IInv, OtherTypes, WorkerType
<1>2. FreshVersion'
  BY DEF IInv, FreshVersion
<1>3. DecidedIsCurrent'
  BY DEF IInv, OtherTypes, DecidedIsCurrent, MayEscalate, WorkerType
<1>4. RememberedRadii'
  BY DEF IInv, OtherTypes, RememberedRadii, WorkerType
<1> QED
  BY <1>1, <1>2, <1>3, <1>4 DEF IInv

LEMMA EscalateRadiusIInv ==
    ASSUME IInv, NEW w \in Workers, EscalateRadius(w)
    PROVE  IInv'
<1> USE DEF EscalateRadius, Rest
<1>1. worker[w].radius \in InitialRadius..MaxRadius
  BY DEF IInv, RememberedRadii
<1>2. Widened(worker[w].radius, RadiusStep) \in InitialRadius..MaxRadius
  BY <1>1, WidenedInRange, ConstantsAssumption
<1>3. OtherTypes'
  BY <1>2, Idles DEF IInv, OtherTypes, WorkerType
<1>4. FreshVersion'
  BY DEF IInv, OtherTypes, FreshVersion
<1>5. DecidedIsCurrent'
  BY DEF IInv, OtherTypes, DecidedIsCurrent, WorkerType, IdleWorker
<1>6. RememberedRadii'
  BY DEF IInv, OtherTypes, RememberedRadii, WorkerType, IdleWorker
<1> QED
  BY <1>3, <1>4, <1>5, <1>6 DEF IInv

LEMMA AfterEscalationIInv ==
    ASSUME IInv, NEW w \in Workers,
           \/ MoveToManualReview(w) \/ QueueNext(w) \/ ProcessFails(w) \/ Redeliver(w)
    PROVE  IInv'
<1> USE DEF MoveToManualReview, QueueNext, ProcessFails, Redeliver, Rest, jobRow
<1>1. OtherTypes'
  <2>1. CASE MoveToManualReview(w)
    BY <2>1, Idles DEF IInv, OtherTypes, DistributionStatus
  <2>2. CASE QueueNext(w)
    <3>0. worker[w].version \in Nat /\ worker[w].version + 1 \in Nat
      BY DEF IInv, OtherTypes, WorkerType
    <3>1. delayed' \subseteq Nat
      BY <2>2, <3>0 DEF IInv, OtherTypes
    <3>2. worker' \in [Workers -> WorkerType]
      BY <2>2, Idles DEF IInv, OtherTypes
    <3> QED
      BY <2>2, <3>1, <3>2 DEF IInv, OtherTypes
  <2>3. CASE ProcessFails(w)
    BY <2>3, Idles DEF IInv, OtherTypes
  <2>4. CASE Redeliver(w)
    BY <2>4 DEF IInv, OtherTypes, WorkerType
  <2> QED
    BY <2>1, <2>2, <2>3, <2>4
<1>2. FreshVersion'
  BY DEF IInv, FreshVersion
<1>3. DecidedIsCurrent'
  BY DEF IInv, OtherTypes, DecidedIsCurrent, WorkerType, IdleWorker
<1>4. RememberedRadii'
  BY DEF IInv, OtherTypes, RememberedRadii, WorkerType, IdleWorker
<1> QED
  BY <1>1, <1>2, <1>3, <1>4 DEF IInv

LEMMA PauseResumeIInv ==
    ASSUME IInv, NEW c \in Clients,
           \/ PauseDistributionRead(c) \/ PauseDistributionWrite(c)
           \/ ResumeDistributionRead(c) \/ ResumeDistributionWrite(c)
           \/ EnqueueEscalation(c)
    PROVE  IInv'
<1> USE DEF PauseDistributionRead, PauseDistributionWrite, ResumeDistributionRead,
            ResumeDistributionWrite, EnqueueEscalation, Begin, Finish, Request, jobRow
<1>1. OtherTypes'
  BY Idles DEF IInv, OtherTypes, ClientType, DistributionStatus
<1>2. FreshVersion'
  BY DEF IInv, FreshVersion
<1>3. DecidedIsCurrent'
  BY DEF IInv, OtherTypes, DecidedIsCurrent
<1>4. RememberedRadii'
  BY DEF IInv, OtherTypes, RememberedRadii, ClientType, IdleClient
<1> QED
  BY <1>1, <1>2, <1>3, <1>4 DEF IInv

\* A chain that starts over begins an epoch nobody has decided in.
LEMMA ResetIInv ==
    ASSUME IInv, NEW c \in Clients, RestartAutoDistribution(c) \/ UpdateJobReset(c)
    PROVE  IInv'
<1> USE DEF RestartAutoDistribution, UpdateJobReset, ResetChain, Bounded, Request
<1>1. OtherTypes'
  <2>1. Request("enqueue", 0) \in ClientType
    BY DEF ClientType
  <2>2. CASE RestartAutoDistribution(c)
    BY <2>1, <2>2, ConstantsAssumption DEF IInv, OtherTypes, DistributionStatus
  <2>3. CASE UpdateJobReset(c)
    BY <2>1, <2>3, ConstantsAssumption DEF IInv, OtherTypes
  <2> QED
    BY <2>2, <2>3
<1>2. FreshVersion'
  BY DEF FreshVersion
<1>3. DecidedIsCurrent'
  BY DEF IInv, OtherTypes, DecidedIsCurrent, WorkerType
<1>4. RememberedRadii'
  BY DEF IInv, OtherTypes, RememberedRadii, ClientType
<1> QED
  BY <1>1, <1>2, <1>3, <1>4 DEF IInv

LEMMA IncreaseRadiusReadIInv ==
    ASSUME IInv, NEW c \in Clients, NEW km \in Widths, IncreaseRadiusRead(c, km)
    PROVE  IInv'
<1> USE DEF IncreaseRadiusRead, Begin, Request, jobRow
<1>1. Widened(radius, km) \in InitialRadius..MaxRadius
  BY WidenedInRange, ConstantsAssumption DEF IInv, OtherTypes
<1>2. Widened(radius, km) \in Nat
  BY <1>1, ConstantsAssumption
<1>3. OtherTypes'
  BY <1>2 DEF IInv, OtherTypes, ClientType
<1>4. FreshVersion' /\ DecidedIsCurrent'
  BY DEF IInv, OtherTypes, FreshVersion, DecidedIsCurrent
<1>5. RememberedRadii'
  BY <1>1 DEF IInv, OtherTypes, RememberedRadii, ClientType
<1> QED
  BY <1>3, <1>4, <1>5 DEF IInv

\* The writers that move the version of the row they do not test.
LEMMA MovesVersionIInv ==
    ASSUME IInv, NEW c \in Clients, IncreaseRadiusWrite(c) \/ CloseWrite(c)
    PROVE  IInv'
<1> USE DEF IncreaseRadiusWrite, CloseWrite, Bounded, Finish
<1>1. OtherTypes'
  <2>1. CASE IncreaseRadiusWrite(c)
    BY <2>1, Idles DEF IInv, OtherTypes, RememberedRadii
  <2>2. CASE CloseWrite(c)
    BY <2>2, Idles DEF IInv, OtherTypes, DistributionStatus
  <2> QED
    BY <2>1, <2>2
<1>2. FreshVersion'
  BY DEF IInv, OtherTypes, FreshVersion
<1>3. DecidedIsCurrent'
  BY DEF IInv, OtherTypes, DecidedIsCurrent, WorkerType
<1>4. RememberedRadii'
  BY DEF IInv, OtherTypes, RememberedRadii, ClientType, IdleClient, Request
<1> QED
  BY <1>1, <1>2, <1>3, <1>4 DEF IInv

LEMMA OtherClientIInv ==
    ASSUME IInv, NEW c \in Clients, UpdateJobRead(c) \/ CloseRead(c) \/ Abandon(c)
    PROVE  IInv'
<1> USE DEF UpdateJobRead, CloseRead, Abandon, Begin, Finish, Request, jobRow
<1>1. OtherTypes'
  <2>1. CASE UpdateJobRead(c)
    BY <2>1 DEF IInv, OtherTypes, ClientType
  <2>2. CASE CloseRead(c)
    BY <2>2 DEF IInv, OtherTypes, ClientType
  <2>3. CASE Abandon(c)
    BY <2>3, Idles DEF IInv, OtherTypes
  <2> QED
    BY <2>1, <2>2, <2>3
<1>2. FreshVersion' /\ DecidedIsCurrent'
  BY DEF IInv, OtherTypes, FreshVersion, DecidedIsCurrent
<1>3. RememberedRadii'
  BY DEF IInv, OtherTypes, RememberedRadii, ClientType, IdleClient
<1> QED
  BY <1>1, <1>2, <1>3 DEF IInv

LEMMA RestOfSystemIInv ==
    ASSUME IInv, \/ DistributeManually \/ QuotesChange \/ JobTaken \/ FlushAll
                 \/ UNCHANGED vars
    PROVE  IInv'
<1> USE DEF DistributeManually, QuotesChange, J!QuotesChange, JobTaken, J!JobTaken,
           FlushAll, vars, jobRow
<1>1. OtherTypes'
  BY ConstantsAssumption DEF IInv, OtherTypes, DistributionStatus
<1>2. FreshVersion' /\ DecidedIsCurrent' /\ RememberedRadii'
  BY DEF IInv, OtherTypes, FreshVersion, DecidedIsCurrent, RememberedRadii
<1> QED
  BY <1>1, <1>2 DEF IInv

LEMMA NextIInv == IInv /\ [Next]_vars => IInv'
<1> SUFFICES ASSUME IInv, [Next]_vars PROVE IInv'
  OBVIOUS
<1>1. ASSUME NEW w \in Workers, Work(w) \/ ProcessFails(w) \/ Redeliver(w)
      PROVE  IInv'
  BY <1>1, ProcessReadIInv, EscalateRadiusIInv, AfterEscalationIInv DEF Work
<1>2. ASSUME NEW c \in Clients, Handle(c)
      PROVE  IInv'
  BY <1>2, PauseResumeIInv, ResetIInv, IncreaseRadiusReadIInv, MovesVersionIInv,
     OtherClientIInv DEF Handle
<1> QED
  BY <1>1, <1>2, RestOfSystemIInv DEF Next

\* The flags are all the rest of the types needs of a step.
LEMMA NextFlags == Flags /\ [Next]_vars => Flags'
<1> SUFFICES ASSUME Flags, [Next]_vars PROVE Flags'
  OBVIOUS
<1> USE DEF Flags
<1>1. ASSUME NEW w \in Workers, Work(w) \/ ProcessFails(w) \/ Redeliver(w)
      PROVE  Flags'
  BY <1>1, Zenon DEF Work, ProcessRead, EscalateRadius, MoveToManualReview, QueueNext,
     ProcessFails, Redeliver, jobRow
<1>2. ASSUME NEW c \in Clients, Handle(c)
      PROVE  Flags'
  BY <1>2, Zenon DEF Handle, PauseDistributionRead, PauseDistributionWrite,
     ResumeDistributionRead, ResumeDistributionWrite, EnqueueEscalation,
     RestartAutoDistribution, UpdateJobRead, UpdateJobReset, IncreaseRadiusRead,
     IncreaseRadiusWrite, CloseRead, CloseWrite, Abandon, jobRow
<1>3. CASE DistributeManually \/ QuotesChange \/ JobTaken \/ FlushAll \/ UNCHANGED vars
  BY <1>3, Zenon DEF DistributeManually, QuotesChange, J!QuotesChange, JobTaken, J!JobTaken,
           FlushAll, vars, jobRow
<1> QED
  BY <1>1, <1>2, <1>3 DEF Next

LEMMA Inductive == Spec => []IInv
<1>1. Init => IInv
  BY InitIInv
<1>2. IInv /\ [Next]_vars => IInv'
  BY NextIInv
<1> QED
  BY <1>1, <1>2, PTL DEF Spec

-----------------------------------------------------------------------------
\* The radius stays between its start and its cap, for every interleaving of
\* stale reads and writes of processor and admin, at every size.
THEOREM TypeCorrect == Spec => []TypeOK
<1>1. Init => Flags
  BY Zenon DEF Init, Flags
<1>2. Flags /\ [Next]_vars => Flags'
  BY NextFlags
<1>3. IInv /\ Flags => TypeOK
  BY TypeParts DEF IInv
<1> QED
  BY <1>1, <1>2, <1>3, Inductive, PTL DEF Spec

\* A chain that starts at version 0 starts from the initial radius.
THEOREM FreshChain == Spec => []FreshVersion
<1>1. IInv => FreshVersion
  BY DEF IInv
<1> QED
  BY <1>1, Inductive, PTL

\* Only the conditional update makes an escalation, on the version it read.
LEMMA EscalationStep ==
    ASSUME IInv, [Next]_vars, NEW w \in Workers, Escalates(w)
    PROVE  /\ version = worker[w].version /\ version' = version + 1
           /\ radius' = Widened(worker[w].radius, RadiusStep)
<1> USE DEF Escalates
<1>1. worker \in [Workers -> WorkerType]
  BY DEF IInv, OtherTypes
<1>2. worker' # worker
  OBVIOUS
<1>3. PICK u \in Workers : Work(u) \/ ProcessFails(u)
  BY <1>2 DEF Next, Handle, PauseDistributionRead, PauseDistributionWrite,
     ResumeDistributionRead, ResumeDistributionWrite, EnqueueEscalation,
     RestartAutoDistribution, UpdateJobRead, UpdateJobReset, IncreaseRadiusRead,
     IncreaseRadiusWrite, CloseRead, CloseWrite, Abandon, DistributeManually,
     QuotesChange, JobTaken, FlushAll, Redeliver, vars
<1>4. EscalateRadius(u)
  BY <1>1, <1>3 DEF Work, ProcessRead, MoveToManualReview, QueueNext, ProcessFails,
     Rest, IdleWorker, WorkerType
<1>5. u = w
  BY <1>1, <1>4 DEF EscalateRadius, Rest
<1> QED
  BY <1>1, <1>4, <1>5 DEF EscalateRadius, Rest, IdleWorker

\* Within an epoch an escalation widens the present radius by exactly one step,
\* whatever happened since the worker read the row: no widening is lost or doubled,
\* and none befalls a job whose distribution was closed.
THEOREM EscalationIsExact == Spec => EscalationExact
<1>1. ASSUME IInv, [Next]_vars, NEW w \in Workers, Escalates(w), worker[w].epoch = epoch
      PROVE  /\ radius' = Widened(radius, RadiusStep) /\ version' = version + 1
             /\ distribution # "COMPLETED"
  BY <1>1, EscalationStep DEF Escalates, IInv, DecidedIsCurrent
<1>2. IInv /\ [Next]_vars =>
        [\A w \in Workers : Escalates(w) /\ worker[w].epoch = epoch =>
            /\ radius' = Widened(radius, RadiusStep) /\ version' = version + 1
            /\ distribution # "COMPLETED"]_vars
  BY <1>1
<1> QED
  BY <1>2, Inductive, PTL DEF Spec, EscalationExact

-----------------------------------------------------------------------------
(***************************************************************************)
(* The chain is handed on.  The three places where it can be are named, so *)
(* that each lemma says between which of them a step moves it.             *)
(***************************************************************************)
Queued == version \in delayed
HeldBy(w) ==
    \/ worker[w].pc = "decided" /\ worker[w].version = version
    \/ /\ worker[w].pc = "escalated" /\ worker[w].version + 1 = version
       /\ Widened(worker[w].radius, RadiusStep) = radius
Promised(c) == client[c] = Request("enqueue", version)

LEMMA Holders ==
    /\ ChainHeld <=> \/ Queued \/ \E w \in Workers : HeldBy(w)
                     \/ \E c \in Clients : Promised(c)
    /\ ChainHeld' <=> \/ Queued' \/ \E w \in Workers : HeldBy(w)'
                      \/ \E c \in Clients : Promised(c)'
  BY DEF ChainHeld, Queued, HeldBy, Promised

LEMMA HoldersUnmoved ==
    ASSUME ChainHeld, UNCHANGED <<version, radius, worker, client>>, Queued => Queued'
    PROVE  ChainHeld'
  BY Holders DEF HeldBy, Promised

\* A step of one worker leaves what the others hold alone.
LEMMA OthersHold ==
    ASSUME OtherTypes, NEW w \in Workers, NEW r, worker' = [worker EXCEPT ![w] = r],
           UNCHANGED <<version, radius, client>>, Queued => Queued',
           ChainHeld, HeldBy(w) => Queued' \/ HeldBy(w)'
    PROVE  ChainHeld'
<1>1. \A u \in Workers \ {w} : HeldBy(u) => HeldBy(u)'
  BY DEF HeldBy, OtherTypes
<1>2. \A c \in Clients : Promised(c) => Promised(c)'
  BY DEF Promised
<1> QED
  BY <1>1, <1>2, Holders

\* A step of one request leaves what the others promised alone.
LEMMA OthersPromise ==
    ASSUME OtherTypes, NEW c \in Clients, NEW r, client' = [client EXCEPT ![c] = r],
           UNCHANGED <<version, radius, worker>>, Queued => Queued',
           ChainHeld, Promised(c) => Queued' \/ Promised(c)'
    PROVE  ChainHeld'
<1>1. \A d \in Clients \ {c} : Promised(d) => Promised(d)'
  BY DEF Promised, OtherTypes
<1>2. \A w \in Workers : HeldBy(w) => HeldBy(w)'
  BY DEF HeldBy
<1> QED
  BY <1>1, <1>2, Holders

\* From the queue to a worker, from the worker to the queue.
LEMMA WorkHandsOn ==
    ASSUME IInv, NEW w \in Workers, Work(w) \/ ProcessFails(w) \/ Redeliver(w),
           Alive, ChainHeld, Alive'
    PROVE  ChainHeld'
<1>0. /\ OtherTypes /\ worker[w] \in WorkerType
      /\ version \in Nat /\ radius \in Nat /\ MaxRadius \in Nat
  BY ConstantsAssumption DEF IInv, OtherTypes
<1>1. ASSUME NEW v \in delayed, ProcessRead(w, v) PROVE ChainHeld'
  <2>1. ~HeldBy(w)
    BY <1>1 DEF ProcessRead, HeldBy, IdleWorker
  <2>2. UNCHANGED <<version, radius, client>>
    BY <1>1 DEF ProcessRead, jobRow
  <2>3. CASE v = version
    <3>1. MayEscalate(v)
      BY <2>3 DEF MayEscalate, Alive
    <3>2. worker'[w].pc = "decided" /\ worker'[w].version = version
      BY <1>0, <1>1, <3>1 DEF ProcessRead, OtherTypes
    <3> QED
      BY <2>2, <3>2, Holders DEF HeldBy
  <2>4. CASE v # version
    <3>1. Queued => Queued'
      BY <1>1, <2>2, <2>4 DEF ProcessRead, Queued
    <3>2. CASE UNCHANGED worker
      BY <2>2, <3>1, <3>2, HoldersUnmoved
    <3>3. CASE MayEscalate(v)
      BY <2>4, <3>3 DEF MayEscalate
    <3> QED
      BY <1>1, <3>2, <3>3 DEF ProcessRead
  <2> QED
    BY <2>3, <2>4
<1>2. CASE EscalateRadius(w)
  <2>1. CASE version = worker[w].version
    <3>1. /\ worker'[w].pc = "escalated" /\ worker'[w].version = worker[w].version
          /\ worker'[w].radius = worker[w].radius
          /\ radius' = Widened(worker[w].radius, RadiusStep) /\ version' = version + 1
      BY <1>0, <1>2, <2>1 DEF EscalateRadius, Rest, OtherTypes, WorkerType
    <3>2. HeldBy(w)'
      BY <2>1, <3>1 DEF HeldBy, Widened, AtMost
    <3> QED
      BY <3>2, Holders
  <2>2. CASE version # worker[w].version
    <3>1. ~HeldBy(w)
      BY <1>2, <2>2 DEF EscalateRadius, HeldBy
    <3>2. /\ worker' = [worker EXCEPT ![w] = IdleWorker]
          /\ UNCHANGED <<version, radius, client, delayed>>
      BY <1>2, <2>2 DEF EscalateRadius, Rest
    <3> QED
      BY <1>0, <3>1, <3>2, OthersHold DEF Queued
  <2> QED
    BY <2>1, <2>2
<1>3. CASE MoveToManualReview(w)
  BY <1>3 DEF MoveToManualReview, Alive
<1>4. CASE QueueNext(w)
  <2>1. /\ worker' = [worker EXCEPT ![w] = IdleWorker]
        /\ UNCHANGED <<version, radius, client>>
        /\ Queued => Queued'
    BY <1>4 DEF QueueNext, Rest, jobRow, Queued
  <2>2. HeldBy(w) => Queued'
    BY <1>4 DEF QueueNext, HeldBy, Queued, Alive, jobRow
  <2> QED
    BY <1>0, <2>1, <2>2, OthersHold
<1>5. CASE ProcessFails(w)
  BY <1>5 DEF ProcessFails, Alive
<1>6. CASE Redeliver(w)
  BY <1>6, HoldersUnmoved DEF Redeliver, jobRow, Queued
<1> QED
  BY <1>1, <1>2, <1>3, <1>4, <1>5, <1>6 DEF Work

\* From a request to the queue, or from an old chain to one that starts over.
LEMMA HandlersHandOn ==
    ASSUME IInv, NEW c \in Clients, Handle(c), Alive, ChainHeld, Alive'
    PROVE  ChainHeld'
<1>0. OtherTypes /\ client \in [Clients -> ClientType]
  BY DEF IInv, OtherTypes
<1>1. ASSUME NEW op \in {"pause", "resume", "increase", "close", "edit"}, NEW n,
             Begin(c, Request(op, n)), UNCHANGED <<jobRow, delayed, worker>>
      PROVE  ChainHeld'
  <2>1. ~Promised(c)
    BY <1>1 DEF Begin, Promised, IdleClient, Request
  <2> QED
    BY <1>0, <1>1, <2>1, OthersPromise DEF Begin, jobRow, Queued
<1>2. CASE \/ PauseDistributionRead(c) \/ ResumeDistributionRead(c) \/ UpdateJobRead(c)
           \/ (\E km \in Widths : IncreaseRadiusRead(c, km)) \/ CloseRead(c)
  BY <1>1, <1>2 DEF PauseDistributionRead, ResumeDistributionRead, UpdateJobRead,
     IncreaseRadiusRead, CloseRead
<1>3. CASE PauseDistributionWrite(c)
  BY <1>3 DEF PauseDistributionWrite, Alive
<1>4. CASE ResumeDistributionWrite(c)
  <2>1. ~Promised(c)
    BY <1>4 DEF ResumeDistributionWrite, Promised, Request
  <2> QED
    BY <1>0, <1>4, <2>1, OthersPromise DEF ResumeDistributionWrite, Queued
<1>5. CASE EnqueueEscalation(c)
  <2>1. Promised(c) => Queued'
    BY <1>5 DEF EnqueueEscalation, Promised, Request, Queued, jobRow
  <2>2. /\ client' = [client EXCEPT ![c] = IdleClient]
        /\ UNCHANGED <<version, radius, worker>>
        /\ Queued => Queued'
    BY <1>5 DEF EnqueueEscalation, Finish, jobRow, Queued
  <2> QED
    BY <1>0, <2>1, <2>2, OthersPromise
<1>6. CASE RestartAutoDistribution(c) \/ UpdateJobReset(c)
  <2>1. client'[c] = Request("enqueue", 0) /\ version' = 0
    BY <1>0, <1>6 DEF RestartAutoDistribution, UpdateJobReset, ResetChain
  <2> QED
    BY <2>1, Holders DEF Promised, Request
<1>7. CASE IncreaseRadiusWrite(c) \/ CloseWrite(c)
  BY <1>7 DEF IncreaseRadiusWrite, CloseWrite, Alive
<1>8. CASE Abandon(c)
  <2>1. client[c].op # "enqueue"
    BY <1>8, Zenon DEF Abandon, Alive
  <2>2. ~Promised(c)
    BY <2>1 DEF Promised, Request
  <2> QED
    BY <1>0, <1>8, <2>2, OthersPromise DEF Abandon, Finish, jobRow, Queued
<1> QED
  BY <1>2, <1>3, <1>4, <1>5, <1>6, <1>7, <1>8 DEF Handle

\* For any number of workers and requests, duplicates and restarts: a chain that
\* is held stays held until the job is not to go on or one of the events of cut
\* happens.  This is what ChainProgress rests on, apart from fairness.
THEOREM ChainIsHandedOn == Spec => ChainHandedOn
<1>1. ASSUME IInv, Next, Alive, ChainHeld, Alive'
      PROVE  ChainHeld'
  <2>1. CASE DistributeManually \/ FlushAll
    BY <1>1, <2>1 DEF DistributeManually, FlushAll, Alive
  <2>2. CASE QuotesChange \/ JobTaken
    BY <1>1, <2>2, HoldersUnmoved DEF QuotesChange, JobTaken, Queued
  <2> QED
    BY <1>1, <2>1, <2>2, WorkHandsOn, HandlersHandOn DEF Next
<1>2. IInv /\ [Next]_vars => [Alive /\ ChainHeld /\ Alive' => ChainHeld']_vars
  BY <1>1
<1> QED
  BY <1>2, Inductive, PTL DEF Spec, ChainHandedOn

-----------------------------------------------------------------------------
\* The handlers of the distribution keep to OpenJob themselves, so what they do
\* to the job is no surprise for JobQuotes either: closing takes it, and a
\* critical edit opens it with the count as it is.
THEOREM EscalationKeepsOpenJob == Spec => J!Spec
<1>1. Init => J!Init
  BY DEF Init, J!Init
<1>2. ASSUME IInv, Flags, [Next]_vars
      PROVE  [J!Next]_J!vars
  <2> USE <1>2 DEF J!Next, J!QuotesChange, J!JobTaken, J!vars
  <2>1. ASSUME NEW w \in Workers, Work(w) \/ ProcessFails(w) \/ Redeliver(w)
        PROVE  UNCHANGED J!vars
    BY <2>1, Zenon DEF Work, ProcessRead, EscalateRadius, MoveToManualReview, QueueNext,
       ProcessFails, Redeliver, jobRow
  <2>2. ASSUME NEW c \in Clients, UpdateJobReset(c) PROVE J!QuotesChange
    BY <2>2 DEF UpdateJobReset, IInv, OtherTypes
  <2>3. ASSUME NEW c \in Clients, CloseWrite(c) PROVE J!JobTaken \/ UNCHANGED J!vars
    BY <2>3, Zenon DEF CloseWrite, Flags
  <2>4. ASSUME NEW c \in Clients, Handle(c), ~UpdateJobReset(c), ~CloseWrite(c)
        PROVE  UNCHANGED J!vars
    BY <2>4, Zenon DEF Handle, PauseDistributionRead, PauseDistributionWrite,
       ResumeDistributionRead, ResumeDistributionWrite, EnqueueEscalation,
       RestartAutoDistribution, UpdateJobRead, IncreaseRadiusRead, IncreaseRadiusWrite,
       CloseRead, Abandon, jobRow
  <2>5. CASE DistributeManually \/ FlushAll \/ UNCHANGED vars
    BY <2>5 DEF DistributeManually, FlushAll, vars, jobRow
  <2> QED
    BY <2>1, <2>2, <2>3, <2>4, <2>5 DEF Next, QuotesChange, JobTaken
<1>3. Init => Flags
  BY Zenon DEF Init, Flags
<1> QED
  BY <1>1, <1>2, <1>3, NextFlags, Inductive, PTL DEF Spec, J!Spec

-----------------------------------------------------------------------------
(***************************************************************************)
(* The other state the backend keeps in Redis: proofs about Caches, for    *)
(* any number of requests that run a query or a handler at the same time.  *)
(***************************************************************************)

\* The step k of the handler h drops the key of the query q.
Covered(h, q, k) == q.key \in h[k].keys

\* The last step of the handler is a write or a drop, and what any step drops the last
\* one drops too, unless the pair is one of the exceptions.
DropsLast(h, q) ==
    /\ Len(h) \in Nat \ {0}
    /\ h[Len(h)].rows = {} \/ h[Len(h)].keys = {}
    /\ \A k \in 1 .. Len(h) :
          Covered(h, q, k) => Covered(h, q, Len(h)) \/ <<h, q>> \in DroppedTooEarly

\* What the behaviour needs of a pair: a write of rows the query reads is followed by a
\* drop of its key, unless no step drops it or the pair is one of the exceptions.
DropsLater(h, q) ==
    /\ Len(h) \in Nat \ {0}
    /\ \A k \in 1 .. Len(h) : h[k].rows \cap q.reads # {} =>
          \/ \E j \in 1 .. Len(h) : k < j /\ Covered(h, q, j)
          \/ \A j \in 1 .. Len(h) : ~Covered(h, q, j)
          \/ <<h, q>> \in DroppedTooEarly

LEMMA LastIsLater ==
    ASSUME NEW h, NEW q, DropsLast(h, q)
    PROVE  DropsLater(h, q)
  BY DEF DropsLast, DropsLater, Covered

\* The shapes of the handlers that drop in the end, if at all.
LEMMA OneWrite ==
    ASSUME NEW q, NEW A
    PROVE  DropsLast(<<Writes(A)>>, q)
  BY DEF DropsLast, Covered, Writes, Drops

LEMMA TwoWrites ==
    ASSUME NEW q, NEW A, NEW B
    PROVE  DropsLast(<<Writes(A), Writes(B)>>, q)
  BY DEF DropsLast, Covered, Writes, Drops

LEMMA ThreeWrites ==
    ASSUME NEW q, NEW A, NEW B, NEW D
    PROVE  DropsLast(<<Writes(A), Writes(B), Writes(D)>>, q)
  BY DEF DropsLast, Covered, Writes, Drops

LEMMA WriteDrop ==
    ASSUME NEW q, NEW A, NEW K
    PROVE  DropsLast(<<Writes(A), Drops(K)>>, q)
  BY DEF DropsLast, Covered, Writes, Drops

LEMMA TwoWritesDrop ==
    ASSUME NEW q, NEW A, NEW B, NEW K
    PROVE  DropsLast(<<Writes(A), Writes(B), Drops(K)>>, q)
  BY DEF DropsLast, Covered, Writes, Drops

LEMMA ThreeWritesDrop ==
    ASSUME NEW q, NEW A, NEW B, NEW D, NEW K
    PROVE  DropsLast(<<Writes(A), Writes(B), Writes(D), Drops(K)>>, q)
  BY DEF DropsLast, Covered, Writes, Drops

\* Two sequences joined, by the elements; then the lengths the handlers have.
LEMMA Joined ==
    ASSUME NEW S, NEW s \in Seq(S), NEW t \in Seq(S), NEW u \in Seq(S),
           Len(u) = Len(s) + Len(t),
           \A i \in 1 .. Len(u) : u[i] = IF i <= Len(s) THEN s[i] ELSE t[i - Len(s)]
    PROVE  s \o t = u
<1>1. /\ s \o t \in Seq(S) /\ Len(s \o t) = Len(u)
      /\ \A i \in 1 .. Len(s \o t) : (s \o t)[i] = u[i]
  BY ConcatProperties
<1> QED
  BY <1>1, SeqEqual

LEMMA Join11 ==
    ASSUME NEW a, NEW b
    PROVE  <<a>> \o <<b>> = <<a, b>>
<1> DEFINE s == <<a>>
           t == <<b>>
           u == <<a, b>>
<1>1. /\ Len(u) = Len(s) + Len(t)
      /\ \A i \in 1 .. Len(u) : u[i] = IF i <= Len(s) THEN s[i] ELSE t[i - Len(s)]
  OBVIOUS
<1> DEFINE S == {a, b}
<1>2. s \in Seq(S) /\ t \in Seq(S) /\ u \in Seq(S)
  OBVIOUS
<1> HIDE DEF s, t, u, S
<1>3. s \o t = u
  BY <1>1, <1>2, Joined
<1> QED
  BY <1>3 DEF s, t, u

LEMMA Join12 ==
    ASSUME NEW a, NEW b, NEW c
    PROVE  <<a>> \o <<b, c>> = <<a, b, c>>
<1> DEFINE s == <<a>>
           t == <<b, c>>
           u == <<a, b, c>>
<1>1. /\ Len(u) = Len(s) + Len(t)
      /\ \A i \in 1 .. Len(u) : u[i] = IF i <= Len(s) THEN s[i] ELSE t[i - Len(s)]
  OBVIOUS
<1> DEFINE S == {a, b, c}
<1>2. s \in Seq(S) /\ t \in Seq(S) /\ u \in Seq(S)
  OBVIOUS
<1> HIDE DEF s, t, u, S
<1>3. s \o t = u
  BY <1>1, <1>2, Joined
<1> QED
  BY <1>3 DEF s, t, u

LEMMA Join21 ==
    ASSUME NEW a, NEW b, NEW c
    PROVE  <<a, b>> \o <<c>> = <<a, b, c>>
<1> DEFINE s == <<a, b>>
           t == <<c>>
           u == <<a, b, c>>
<1>1. /\ Len(u) = Len(s) + Len(t)
      /\ \A i \in 1 .. Len(u) : u[i] = IF i <= Len(s) THEN s[i] ELSE t[i - Len(s)]
  OBVIOUS
<1> DEFINE S == {a, b, c}
<1>2. s \in Seq(S) /\ t \in Seq(S) /\ u \in Seq(S)
  OBVIOUS
<1> HIDE DEF s, t, u, S
<1>3. s \o t = u
  BY <1>1, <1>2, Joined
<1> QED
  BY <1>3 DEF s, t, u

LEMMA Join22 ==
    ASSUME NEW a, NEW b, NEW c, NEW d
    PROVE  <<a, b>> \o <<c, d>> = <<a, b, c, d>>
<1> DEFINE s == <<a, b>>
           t == <<c, d>>
           u == <<a, b, c, d>>
<1>1. /\ Len(u) = Len(s) + Len(t)
      /\ \A i \in 1 .. Len(u) : u[i] = IF i <= Len(s) THEN s[i] ELSE t[i - Len(s)]
  OBVIOUS
<1> DEFINE S == {a, b, c, d}
<1>2. s \in Seq(S) /\ t \in Seq(S) /\ u \in Seq(S)
  OBVIOUS
<1> HIDE DEF s, t, u, S
<1>3. s \o t = u
  BY <1>1, <1>2, Joined
<1> QED
  BY <1>3 DEF s, t, u

LEMMA Join31 ==
    ASSUME NEW a, NEW b, NEW c, NEW d
    PROVE  <<a, b, c>> \o <<d>> = <<a, b, c, d>>
<1> DEFINE s == <<a, b, c>>
           t == <<d>>
           u == <<a, b, c, d>>
<1>1. /\ Len(u) = Len(s) + Len(t)
      /\ \A i \in 1 .. Len(u) : u[i] = IF i <= Len(s) THEN s[i] ELSE t[i - Len(s)]
  OBVIOUS
<1> DEFINE S == {a, b, c, d}
<1>2. s \in Seq(S) /\ t \in Seq(S) /\ u \in Seq(S)
  OBVIOUS
<1> HIDE DEF s, t, u, S
<1>3. s \o t = u
  BY <1>1, <1>2, Joined
<1> QED
  BY <1>3 DEF s, t, u

LEMMA Join42 ==
    ASSUME NEW a, NEW b, NEW c, NEW d, NEW e, NEW f
    PROVE  <<a, b, c, d>> \o <<e, f>> = <<a, b, c, d, e, f>>
<1> DEFINE s == <<a, b, c, d>>
           t == <<e, f>>
           u == <<a, b, c, d, e, f>>
<1>1. /\ Len(u) = Len(s) + Len(t)
      /\ \A i \in 1 .. Len(u) : u[i] = IF i <= Len(s) THEN s[i] ELSE t[i - Len(s)]
  OBVIOUS
<1> DEFINE S == {a, b, c, d, e, f}
<1>2. s \in Seq(S) /\ t \in Seq(S) /\ u \in Seq(S)
  OBVIOUS
<1> HIDE DEF s, t, u, S
<1>3. s \o t = u
  BY <1>1, <1>2, Joined
<1> QED
  BY <1>3 DEF s, t, u

\* The handlers of each shape, for any query at all.
LEMMA OnlyWrite ==
    ASSUME NEW q
    PROVE  \A h \in {customerRegister, traderRegisterStep1, scheduleDowngrade,
                     cancelPendingDowngrade, processRenewals, handleWebhook,
                     resetWeeklyFairnessScores, cleanupExpiredReviews,
                     markMessagesAsRead, setUserOnline, setUserOffline,
                     createConversation, createTraderConversation,
                     updateAdminDirectJobStatus, closeDirectJob} : DropsLast(h, q)
  BY OneWrite, TwoWrites, Zenon DEF customerRegister, traderRegisterStep1,
     scheduleDowngrade, cancelPendingDowngrade, processRenewals, handleWebhook,
     resetWeeklyFairnessScores, cleanupExpiredReviews, markMessagesAsRead,
     setUserOnline, setUserOffline, createConversation, createTraderConversation,
     updateAdminDirectJobStatus, closeDirectJob

LEMMA AccountsWriteAndDrop ==
    ASSUME NEW q
    PROVE  \A h \in {updateTraderCategories, deactivateAccount,
                     requestReactivation, verifyTrader,
                     reviewCategoryChangeRequest, changePlan,
                     updateTraderCategorySelection, confirmPayment, updatePlan,
                     deleteReview, replyToReview, toggleSaveTrader,
                     createContactSubmission, updateContactStatus, createReport,
                     updateReportStatus, openReport, createNotification,
                     markAllAsRead} : DropsLast(h, q)
  BY WriteDrop, Zenon DEF updateTraderCategories, deactivateAccount,
     requestReactivation, verifyTrader, reviewCategoryChangeRequest, changePlan,
     updateTraderCategorySelection, confirmPayment, updatePlan, deleteReview,
     replyToReview, toggleSaveTrader, createContactSubmission,
     updateContactStatus, createReport, updateReportStatus, openReport,
     createNotification, markAllAsRead

LEMMA JobsWriteAndDrop ==
    ASSUME NEW q
    PROVE  \A h \in {createJob, updateJob, startJob, completeJob, cancelJob,
                     pauseDistribution, resumeDistribution,
                     restartAutoDistribution, increaseRadius, closeDistribution,
                     closeMyJob, autoCloseJobs, updateQuote, withdrawQuote,
                     acceptQuote, rejectQuote} : DropsLast(h, q)
  BY WriteDrop, Zenon DEF createJob, updateJob, startJob, completeJob,
     cancelJob, pauseDistribution, resumeDistribution, restartAutoDistribution,
     increaseRadius, closeDistribution, closeMyJob, autoCloseJobs, updateQuote,
     withdrawQuote, acceptQuote, rejectQuote

LEMMA MasterDataWritesAndDrops ==
    ASSUME NEW q
    PROVE  \A h \in {createCategory, toggleCategory, updateCategory,
                     createSkillService, toggleSkillService, updateSkillService,
                     createSubCategory, toggleSubCategory, updateSubCategory,
                     createFaq, updateFaq, removeFaq, scanContent, approveFlag,
                     rejectFlag} : DropsLast(h, q)
  BY WriteDrop, Zenon DEF createCategory, toggleCategory, updateCategory,
     createSkillService, toggleSkillService, updateSkillService,
     createSubCategory, toggleSubCategory, updateSubCategory, createFaq,
     updateFaq, removeFaq, scanContent, approveFlag, rejectFlag

LEMMA WriteTwiceAndDrop ==
    ASSUME NEW q
    PROVE  \A h \in {traderRegisterStep2, updateTraderAssets, reactivateAccount,
                     createQuote, approveReview, seedViolationKeywords,
                     sendMessage, startDirectJob,
                     traderRegisterStep3} : DropsLast(h, q)
  BY TwoWritesDrop, ThreeWritesDrop, Zenon DEF traderRegisterStep2,
     updateTraderAssets, reactivateAccount, createQuote, approveReview,
     seedViolationKeywords, sendMessage, startDirectJob, traderRegisterStep3

LEMMA WriteInAnotherHandler ==
    ASSUME NEW q
    PROVE  /\ DropsLast(createReview, q)
           /\ DropsLast(confirmDirectJob, q)
<1>1. createReview = <<Writes(NewReview), Writes(Rating), Drops(ReviewKeys)>>
  <2>1. <<Writes(NewReview)>> \o recalculateTraderMetrics
            = <<Writes(NewReview), Writes(Rating)>>
    BY Join11, Zenon DEF recalculateTraderMetrics
  <2>2. <<Writes(NewReview), Writes(Rating)>> \o <<Drops(ReviewKeys)>>
            = <<Writes(NewReview), Writes(Rating), Drops(ReviewKeys)>>
    BY Join21, Zenon
  <2> QED
    BY <2>1, <2>2, Zenon DEF createReview
<1>2. confirmDirectJob
        = <<Writes(Metrics), Writes(Message), Writes(Conversation)>>
  BY Join12, Zenon DEF confirmDirectJob, closeDirectJob
<1> QED
  BY <1>1, <1>2, TwoWritesDrop, ThreeWrites, Zenon

\* The keys of the queries; no other query has a key that is dropped early.
LEMMA KeyTable ==
          /\ registrationStatus.key = "registration-status"
          /\ getMyProfile.key = "profile"
          /\ getCustomers.key = "customers:*"
          /\ getTraders.key = "traders:*"
          /\ getUserDetails.key = "admin:user-details"
          /\ getDeactivatedAccounts.key = "deactivated-accounts:*"
          /\ getCategoryChangeRequests.key = "admin:category-change-requests:*"
          /\ getSavedTraders.key = "saved-traders:*"
          /\ getAllJobs.key = "admin:jobs:*"
          /\ getManualReviewJobs.key = "admin:manual-review-jobs:*"
          /\ getJobDetails.key = "admin:job"
          /\ getMyJobs.key = "customer:jobs:*"
          /\ getMatchedJobs.key = "trader:matched-jobs:*"
          /\ getMatchedJobsOfOthers.key = "trader:matched-jobs:*:others"
          /\ getAllQuotes.key = "admin:quotes:*"
          /\ getJobQuotes.key = "job:quotes"
          /\ getMyQuotes.key = "trader:quotes:*"
          /\ getMyQuoteByJob.key = "trader:quote"
          /\ getPendingReviews.key = "reviews:pending:*"
          /\ getAllReviews.key = "admin:reviews:*"
          /\ getTraderReviews.key = "trader:reviews:*"
          /\ getMyReviews.key = "customer:reviews:*"
          /\ getReviewById.key = "review:detail:*"
          /\ getLatestReviews.key = "reviews:latest:*"
          /\ averageOfReviews.key = "global:average_rating"
          /\ averageOfTraders.key = "global:average_rating"
          /\ getAllCategories.key = "categories"
          /\ getSkillServicesByCategory.key = "skill-services"
          /\ getSubCategoriesBySkillService.key = "sub-categories"
          /\ getAllPlans.key = "subscription:plans"
          /\ getMyNotifications.key = "notifications:*"
          /\ getMyConversations.key = "chat:conversations"
          /\ getMyReports.key = "reports:user:*"
          /\ getMyReportDetails.key = "report:user"
          /\ getReports.key = "reports:admin:*"
          /\ getReportById.key = "report"
          /\ getAllContactSubmissions.key = "contacts:admin:*"
          /\ getMyContactSubmissions.key = "contacts:user:*"
          /\ getContactSubmissionById.key = "admin:contacts:detail"
          /\ findAllFaqs.key = "faq:*"
          /\ findOneFaq.key = "faq:*"
          /\ publicFaqs.key = "faq:*"
          /\ getActiveKeywords.key = "moderation:keywords"
          /\ getPendingFlags.key = "moderation:flags:pending"
<1>1. getMyContactSubmissions.key = "contacts:user:*"
  BY DEF getMyContactSubmissions, getAllContactSubmissions, Query
<1>2. getMatchedJobsOfOthers.key = "trader:matched-jobs:*:others"
  BY DEF getMatchedJobsOfOthers, getMatchedJobs, Query
<1> QED
  BY <1>1, <1>2, SMT DEF Query, registrationStatus, getMyProfile, getCustomers,
     getTraders, getUserDetails, getDeactivatedAccounts,
     getCategoryChangeRequests, getSavedTraders, getAllJobs, getManualReviewJobs,
     getJobDetails, getMyJobs, getMatchedJobs, getAllQuotes, getJobQuotes,
     getMyQuotes, getMyQuoteByJob, getPendingReviews, getAllReviews,
     getTraderReviews, getMyReviews, getReviewById, getLatestReviews,
     averageOfReviews, averageOfTraders, getAllCategories,
     getSkillServicesByCategory, getSubCategoriesBySkillService, getAllPlans,
     getMyNotifications, getMyConversations, getMyReports, getMyReportDetails,
     getReports, getReportById, getAllContactSubmissions,
     getContactSubmissionById, findAllFaqs, findOneFaq, publicFaqs,
     getActiveKeywords, getPendingFlags

LEMMA KeysOfEarlyDrops ==
    ASSUME NEW q \in Queries
    PROVE  /\ q.key = "admin:category-change-requests:*" => q = getCategoryChangeRequests
           /\ q.key = getMatchedJobs.key => q = getMatchedJobs
           /\ q.key = getMatchedJobsOfOthers.key => q = getMatchedJobsOfOthers
           /\ q.key = "admin:job" => q = getJobDetails
           /\ q.key = "reviews:pending:*" => q = getPendingReviews
<1>1. q.key = "admin:category-change-requests:*" => q = getCategoryChangeRequests
  BY KeyTable DEF Queries
<1>2. q.key = "trader:matched-jobs:*" => q = getMatchedJobs
  BY KeyTable DEF Queries
<1>3. q.key = "trader:matched-jobs:*:others" => q = getMatchedJobsOfOthers
  BY KeyTable DEF Queries
<1>4. q.key = "admin:job" => q = getJobDetails
  BY KeyTable DEF Queries
<1>5. q.key = "reviews:pending:*" => q = getPendingReviews
  BY KeyTable DEF Queries
<1> QED
  BY <1>1, <1>2, <1>3, <1>4, <1>5, KeyTable

\* The handlers that drop before they write: what they do not drop again in the end
\* is the key of a query in DroppedTooEarly.
LEMMA CategoriesAreDroppedEarly ==
    ASSUME NEW q \in Queries PROVE DropsLast(updateProfile, q)
<1>1. updateProfile[1].keys = {"admin:category-change-requests:*"}
  BY DEF updateProfile, Drops
<1>2. Covered(updateProfile, q, 1) => <<updateProfile, q>> \in DroppedTooEarly
  BY <1>1, KeysOfEarlyDrops DEF Covered, DroppedTooEarly
<1>3. /\ Len(updateProfile) = 3
      /\ updateProfile[2].keys = {} /\ updateProfile[3].rows = {}
  BY DEF updateProfile, Drops, Writes
<1> QED
  BY <1>2, <1>3 DEF DropsLast, Covered

LEMMA MatchesAreDroppedEarly ==
    ASSUME NEW q \in Queries PROVE DropsLast(matchAndSendJob, q)
<1>1. matchAndSendJob[1].keys = {getMatchedJobs.key, "admin:job"}
  BY DEF matchAndSendJob, Drops
<1>2. Covered(matchAndSendJob, q, 1) => <<matchAndSendJob, q>> \in DroppedTooEarly
  BY <1>1, KeysOfEarlyDrops DEF Covered, DroppedTooEarly
<1>3. Len(matchAndSendJob) = 2 /\ matchAndSendJob[2].keys = {}
  BY DEF matchAndSendJob, Drops, Writes
<1> QED
  BY <1>2, <1>3 DEF DropsLast, Covered

LEMMA EscalationDropsEarly ==
    ASSUME NEW q \in Queries PROVE DropsLast(escalate, q)
<1> DEFINE early == Drops({getMatchedJobs.key, "admin:job"})
           last == Writes(Match \cup Metrics)
<1>1. escalate = <<Writes(JobState), Writes(Log), early, last>>
  BY Join22, Zenon DEF escalate, matchAndSendJob
<1>2. /\ early.keys = {getMatchedJobs.key, "admin:job"}
      /\ last.keys = {} /\ Writes(JobState).keys = {} /\ Writes(Log).keys = {}
  BY DEF Drops, Writes
<1> HIDE DEF early, last
<1>3. /\ Len(escalate) = 4 /\ escalate[1].keys = {} /\ escalate[2].keys = {}
      /\ escalate[3].keys = {getMatchedJobs.key, "admin:job"} /\ escalate[4].keys = {}
  BY <1>1, <1>2
<1>4. Covered(escalate, q, 3) => <<escalate, q>> \in DroppedTooEarly
  BY <1>3, KeysOfEarlyDrops DEF Covered, DroppedTooEarly
<1> QED
  BY <1>3, <1>4 DEF DropsLast, Covered

LEMMA ManualReviewDropsEarly ==
    ASSUME NEW q \in Queries PROVE DropsLast(moveToManualReview, q)
<1> DEFINE early == Drops({getMatchedJobs.key, "admin:job"})
           matches == Writes(Match \cup Metrics)
           last == Drops({"admin:manual-review-jobs:*", "admin:job"})
<1>1. moveToManualReview
        = <<Writes(JobState), Writes(Log), early, matches, Writes(JobState),
        last>>
  <2>1. escalate = <<Writes(JobState), Writes(Log), early, matches>>
    BY Join22, Zenon DEF escalate, matchAndSendJob
  <2>2. <<Writes(JobState), Writes(Log), early,
  matches>> \o <<Writes(JobState), last>>
          = <<Writes(JobState), Writes(Log), early, matches,
              Writes(JobState), last>>
    BY Join42, SMT
  <2> QED
    BY <2>1, <2>2, Zenon DEF moveToManualReview
<1>2. /\ early.keys = {getMatchedJobs.key, "admin:job"}
      /\ matches.keys = {} /\ Writes(JobState).keys = {} /\ Writes(Log).keys = {}
      /\ last.rows = {} /\ last.keys = {"admin:manual-review-jobs:*", "admin:job"}
  BY DEF Drops, Writes
<1> HIDE DEF early, matches, last
<1>3. /\ Len(moveToManualReview) = 6
      /\ \A k \in {1, 2, 4, 5} : moveToManualReview[k].keys = {}
      /\ moveToManualReview[3].keys = {getMatchedJobs.key, "admin:job"}
      /\ moveToManualReview[6].rows = {}
      /\ moveToManualReview[6].keys = {"admin:manual-review-jobs:*", "admin:job"}
  BY <1>1, <1>2
<1>4. Covered(moveToManualReview, q, 3) =>
        Covered(moveToManualReview, q, 6) \/ <<moveToManualReview,
        q>> \in DroppedTooEarly
  BY <1>3, KeysOfEarlyDrops DEF Covered, DroppedTooEarly
<1> QED
  BY <1>3, <1>4 DEF DropsLast, Covered

LEMMA ManualDistributionDropsEarly ==
    ASSUME NEW q \in Queries PROVE DropsLast(distributeManually, q)
<1>1. /\ Len(distributeManually) = 4
      /\ distributeManually[1].keys = {} /\ distributeManually[3].keys = {}
      /\ distributeManually[2].keys = {getMatchedJobs.key}
      /\ distributeManually[4].rows = {}
  BY DEF distributeManually, Drops, Writes
<1>2. Covered(distributeManually, q, 2) => <<distributeManually,
q>> \in DroppedTooEarly
  BY <1>1, KeysOfEarlyDrops DEF Covered, DroppedTooEarly
<1> QED
  BY <1>1, <1>2 DEF DropsLast, Covered

LEMMA ReviewsAreDroppedEarly ==
    ASSUME NEW q \in Queries PROVE DropsLast(updateReview, q)
<1> DEFINE early == Drops(ReviewKeys)
           last == Drops(SettledReviewKeys)
<1>1. updateReview = <<early, Writes(Review), Writes(Rating), last>>
  <2>1. <<early, Writes(Review)>> \o recalculateTraderMetrics
          = <<early, Writes(Review), Writes(Rating)>>
    BY Join21, Zenon DEF recalculateTraderMetrics
  <2>2. <<early, Writes(Review), Writes(Rating)>> \o <<last>>
          = <<early, Writes(Review), Writes(Rating), last>>
    BY Join31, Zenon
  <2> QED
    BY <2>1, <2>2, Zenon DEF updateReview
<1>2. /\ early.keys = ReviewKeys /\ last.rows = {} /\ last.keys = SettledReviewKeys
      /\ Writes(Review).keys = {} /\ Writes(Rating).keys = {}
  BY DEF Drops, Writes
<1> HIDE DEF early, last
<1>3. /\ Len(updateReview) = 4 /\ updateReview[1].keys = ReviewKeys
      /\ updateReview[2].keys = {} /\ updateReview[3].keys = {}
      /\ updateReview[4].rows = {} /\ updateReview[4].keys = SettledReviewKeys
  BY <1>1, <1>2
<1>4. Covered(updateReview, q, 1) =>
        Covered(updateReview, q, 4) \/ <<updateReview, q>> \in DroppedTooEarly
  BY <1>3, KeysOfEarlyDrops DEF Covered, DroppedTooEarly, ReviewKeys
<1> QED
  BY <1>3, <1>4 DEF DropsLast, Covered

LEMMA CriticalUpdateDropsEarly ==
    ASSUME NEW q \in Queries PROVE DropsLast(updateJobCritical, q)
<1>1. /\ Len(updateJobCritical) = 7
      /\ \A k \in {1, 3, 4, 5, 6} : updateJobCritical[k].keys = {}
      /\ updateJobCritical[2].keys
           = {getMatchedJobs.key, getMatchedJobsOfOthers.key, "admin:jobs:*"}
      /\ updateJobCritical[7].rows = {} /\ updateJobCritical[7].keys = JobKeys
  BY DEF updateJobCritical, Drops, Writes
<1>2. Covered(updateJobCritical, q, 2) =>
        Covered(updateJobCritical, q, 7) \/ <<updateJobCritical,
        q>> \in DroppedTooEarly
  BY <1>1, KeysOfEarlyDrops DEF Covered, DroppedTooEarly, JobKeys
<1> QED
  BY <1>1, <1>2 DEF DropsLast, Covered

\* All pairs of the tables.
LEMMA EveryHandler ==
    ASSUME NEW h \in Handlers, NEW q \in Queries
    PROVE  DropsLater(h, q)
<1>1. DropsLast(h, q)
  BY OnlyWrite, AccountsWriteAndDrop, JobsWriteAndDrop, MasterDataWritesAndDrops,
     WriteTwiceAndDrop, WriteInAnotherHandler,
     CategoriesAreDroppedEarly, MatchesAreDroppedEarly, EscalationDropsEarly,
     ManualReviewDropsEarly, ManualDistributionDropsEarly, ReviewsAreDroppedEarly,
     CriticalUpdateDropsEarly
     DEF Handlers
<1> QED
  BY <1>1, LastIsLater

-----------------------------------------------------------------------------
\* A copy that a write has overtaken, stored or on its way.
Behind == entry = "behind" \/ \E r \in Readers : fill[r] = "behind"

\* Somebody has still to drop the key, or the table says why nobody does.
Accounted ==
    \/ \E s \in Slots : Owes(s)
    \/ LeavesToExpire
    \/ <<handler, query>> \in DroppedTooEarly

\* StaleHasReason is not inductive: a reader stores what it read long before, when the
\* entry held nothing. The copies on their way must be accounted for as well.
CachesInv ==
    /\ query \in Queries /\ handler \in Handlers
    /\ entry \in Copy \cup {"none"}
    /\ fill \in [Readers -> Copy \cup {"none", "asked"}]
    /\ at \in [Slots -> 0 .. Len(handler)]
    /\ Behind => Accounted

LEMMA CachesInit == CacheInit => CachesInv
  BY EveryHandler DEF CacheInit, CachesInv, Behind, Copy, DropsLater

\* A step that leaves the runs alone, or starts one, owes what was owed before.
LEMMA AccountStands ==
    ASSUME CachesInv, UNCHANGED <<query, handler>>, NEW s \in Slots,
           \/ at' = at
           \/ ~Running(s) /\ at' = [at EXCEPT ![s] = 1]
    PROVE  Accounted => Accounted'
<1>1. ASSUME NEW x \in Slots, Owes(x) PROVE Owes(x)'
  BY <1>1 DEF CachesInv, Owes, Running, Covers
<1> QED
  BY <1>1 DEF Accounted, LeavesToExpire, Covers

\* A run that goes on past a step that does not drop the key still owes it.
LEMMA AdvanceKeepsAccount ==
    ASSUME CachesInv, UNCHANGED <<query, handler>>, NEW s \in Slots,
           Running(s), ~Covers(handler[at[s]]), Advance(s)
    PROVE  Accounted => Accounted'
<1>1. Len(handler) \in Nat \ {0}
  BY EveryHandler DEF CachesInv, DropsLater
<1>2. ASSUME NEW x \in Slots, Owes(x) PROVE Owes(x)'
  <2>1. CASE x # s
    BY <1>2, <2>1 DEF CachesInv, Owes, Running, Covers, Advance
  <2>2. CASE x = s
    <3>1. PICK k \in at[s] .. Len(handler) : Covers(handler[k])
      BY <1>2, <2>2 DEF Owes
    <3>2. at[s] \in 1 .. Len(handler) /\ k # at[s]
      BY <3>1 DEF CachesInv, Running
    <3>3. at'[s] = at[s] + 1 /\ k \in at'[s] .. Len(handler')
      BY <1>1, <3>1, <3>2 DEF CachesInv, Advance
    <3> QED
      BY <1>1, <2>2, <3>1, <3>2, <3>3 DEF Owes, Running, Covers
  <2> QED
    BY <2>1, <2>2
<1> QED
  BY <1>2 DEF Accounted, LeavesToExpire, Covers

\* After a write of rows the query reads, the drop is still to come or never comes.
LEMMA WriteIsAccounted ==
    ASSUME CachesInv, UNCHANGED <<query, handler>>, NEW s \in Slots,
           Running(s), Changes(handler[at[s]]), Advance(s)
    PROVE  Accounted'
<1>1. DropsLater(handler, query) /\ at[s] \in 1 .. Len(handler)
  BY EveryHandler DEF CachesInv, DropsLater, Running
<1>2. CASE \E j \in 1 .. Len(handler) : at[s] < j /\ Covered(handler, query, j)
  <2>1. PICK j \in 1 .. Len(handler) : at[s] < j /\ Covered(handler, query, j)
    BY <1>2
  <2>2. at'[s] = at[s] + 1 /\ j \in at'[s] .. Len(handler')
    BY <1>1, <2>1 DEF CachesInv, Advance, DropsLater
  <2>3. Owes(s)'
    BY <1>1, <2>1, <2>2 DEF Owes, Running, Covers, Covered
  <2> QED
    BY <2>3 DEF Accounted
<1>3. CASE \A j \in 1 .. Len(handler) : ~Covered(handler, query, j)
  BY <1>3 DEF Accounted, LeavesToExpire, Covers, Covered
<1>4. CASE <<handler, query>> \in DroppedTooEarly
  BY <1>4 DEF Accounted
<1> QED
  BY <1>1, <1>2, <1>3, <1>4 DEF DropsLater, Changes

LEMMA CachesStep == CachesInv /\ [CacheNext]_cacheVars => CachesInv'
<1> SUFFICES ASSUME CachesInv, [CacheNext]_cacheVars PROVE CachesInv'
  OBVIOUS
<1>0. Len(handler) \in Nat \ {0}
  BY EveryHandler DEF CachesInv, DropsLater
<1>1. ASSUME NEW r \in Readers, Miss(r) \/ ReadRows(r) \/ Store(r) PROVE CachesInv'
  <2>1. UNCHANGED <<query, handler, at>> /\ (Behind' => Behind)
    BY <1>1 DEF Miss, ReadRows, Store, CachesInv, Behind, Copy
  <2>2. Accounted => Accounted'
    BY <2>1 DEF Accounted, Owes, Running, Covers, LeavesToExpire
  <2>3. /\ entry' \in Copy \cup {"none"}
        /\ fill' \in [Readers -> Copy \cup {"none", "asked"}]
    BY <1>1 DEF Miss, ReadRows, Store, CachesInv, Copy
  <2> QED
    BY <2>1, <2>2, <2>3 DEF CachesInv
<1>2. ASSUME NEW s \in Slots, BeginHandler(s) PROVE CachesInv'
  <2>1. Behind' => Behind
    BY <1>2 DEF BeginHandler, Behind
  <2>2. Accounted => Accounted'
    BY <1>2, AccountStands DEF BeginHandler
  <2>3. at' \in [Slots -> 0 .. Len(handler')]
    BY <1>0, <1>2 DEF BeginHandler, CachesInv
  <2> QED
    BY <1>2, <2>1, <2>2, <2>3 DEF CachesInv, BeginHandler
<1>3. ASSUME NEW s \in Slots, Write(s) PROVE CachesInv'
  <2>1. at' \in [Slots -> 0 .. Len(handler')]
    BY <1>0, <1>3 DEF Write, Advance, CachesInv
  <2>2. /\ entry' \in Copy \cup {"none"}
        /\ fill' \in [Readers -> Copy \cup {"none", "asked"}]
    BY <1>3 DEF Write, CachesInv, InAll, Copy
  <2>3. ~Covers(handler[at[s]])
    BY <1>3 DEF Write, Covers
  <2>4. CASE Changes(handler[at[s]])
    BY <1>3, <2>1, <2>2, <2>4, WriteIsAccounted DEF Write, CachesInv
  <2>5. CASE ~Changes(handler[at[s]])
    <3>1. Behind' => Behind
      BY <1>3, <2>5 DEF Write, Behind
    <3> QED
      BY <1>3, <2>1, <2>2, <2>3, <3>1, AdvanceKeepsAccount DEF Write, CachesInv
  <2> QED
    BY <2>4, <2>5
<1>4. ASSUME NEW s \in Slots, Drop(s) PROVE CachesInv'
  <2>1. at' \in [Slots -> 0 .. Len(handler')]
    BY <1>0, <1>4 DEF Drop, Advance, CachesInv
  <2>2. /\ entry' \in Copy \cup {"none"}
        /\ fill' \in [Readers -> Copy \cup {"none", "asked"}]
    BY <1>4 DEF Drop, CachesInv, InAll, Copy
  <2>3. CASE Covers(handler[at[s]])
    <3>1. ~Behind'
      BY <1>4, <2>3 DEF Drop, InAll, Behind, CachesInv
    <3> QED
      BY <1>4, <2>1, <2>2, <3>1 DEF Drop, CachesInv
  <2>4. CASE ~Covers(handler[at[s]])
    <3>1. Behind' => Behind
      BY <1>4, <2>4 DEF Drop, Behind
    <3> QED
      BY <1>4, <2>1, <2>2, <2>4, <3>1, AdvanceKeepsAccount DEF Drop, CachesInv
  <2> QED
    BY <2>3, <2>4
<1>5. ASSUME NEW s \in Slots, Die(s) PROVE CachesInv'
  <2>1. at' \in [Slots -> 0 .. Len(handler')]
    BY <1>0, <1>5 DEF Die, CachesInv
  <2>2. /\ entry' \in Copy \cup {"none"}
        /\ fill' \in [Readers -> Copy \cup {"none", "asked"}]
    BY <1>5 DEF Die, CachesInv, InAll, Copy
  <2>3. CASE Owes(s)
    <3>1. ~Behind'
      BY <1>5, <2>3 DEF Die, InAll, Behind, CachesInv
    <3> QED
      BY <1>5, <2>1, <2>2, <3>1 DEF Die, CachesInv
  <2>4. CASE ~Owes(s)
    <3>1. Behind' => Behind
      BY <1>5, <2>4 DEF Die, Behind
    <3>2. ASSUME NEW x \in Slots, Owes(x) PROVE Owes(x)'
      BY <1>5, <2>4, <3>2 DEF Die, CachesInv, Owes, Running, Covers
    <3>3. Accounted => Accounted'
      BY <1>5, <3>2 DEF Accounted, LeavesToExpire, Covers, Die
    <3> QED
      BY <1>5, <2>1, <2>2, <3>1, <3>3 DEF Die, CachesInv
  <2> QED
    BY <2>3, <2>4
<1>6. ASSUME Expire \/ UNCHANGED cacheVars PROVE CachesInv'
  <2>1. UNCHANGED <<query, handler, at, fill>> /\ (Behind' => Behind)
    BY <1>6 DEF Expire, cacheVars, Behind
  <2>2. Accounted => Accounted'
    BY <2>1 DEF Accounted, Owes, Running, Covers, LeavesToExpire
  <2>3. entry' \in Copy \cup {"none"}
    BY <1>6 DEF Expire, cacheVars, CachesInv
  <2> QED
    BY <2>1, <2>2, <2>3 DEF CachesInv
<1> QED
  BY <1>1, <1>2, <1>3, <1>4, <1>5, <1>6 DEF CacheNext

\* An entry that is behind its rows is about to be dropped by a handler that runs, or its
\* handler has no drop for it, or drops it before it writes: for any number of requests
\* that run the query and the handler, every query and every handler.
THEOREM StaleIsExplained == CacheSpec => []StaleHasReason
<1>1. CachesInv => StaleHasReason
  BY DEF CachesInv, Behind, Accounted, StaleHasReason
<1> QED
  BY <1>1, CachesInit, CachesStep, PTL DEF CacheSpec
=============================================================================
