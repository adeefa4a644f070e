-------------------------- MODULE DirectJobs_proofs --------------------------
(***************************************************************************)
(* Proofs about DirectJobs for any number of jobs and of requests at the   *)
(* same time.                                                              *)
(***************************************************************************)
EXTENDS DirectJobs, FiniteSetTheorems, TLAPS

\* The inductive invariant.  A request in flight knows a job that exists; if it
\* will complete the job, it brings the date and the credit along or has seen
\* them, and neither is ever taken back.
RequestsBringDates ==
    \A s \in Slots : LET r == req[s] IN
       /\ r.op \notin {"idle", "startDirectJob"} =>
             r.job \in Jobs /\ status[r.job] # "NONE"
       /\ r.op \in {"confirmDirectJob", "cancelDirectJob", "updateAdminDirectJobStatus"} =>
             r.new \in DirectJobStatus
       /\ r.new = "COMPLETED" =>
             /\ r.job \in Jobs
             /\ r.date \/ (completedAt[r.job] /\ confirmedAt[r.job])
             /\ r.credit \/ \E u \in Slots : credits[u][r.job] > 0
       /\ r.credit => r.new = "COMPLETED"

ConfirmedIsCompleted == \A j \in Jobs : confirmedAt[j] => completedAt[j]

\* The credit a slot has given and the one it may still give: it may give one if
\* it is about to, or if the job is not completed and a request could read that.
MayCredit(s, j) == status[j] # "COMPLETED" \/ (req[s].credit /\ req[s].job = j)
CreditBudget ==
    \A s \in Slots, j \in Jobs :
       /\ credits[s][j] <= 1 + left[j]
       /\ MayCredit(s, j) => credits[s][j] <= left[j]

IInv ==
    /\ TypeOK
    /\ RequestsBringDates
    /\ ConfirmedIsCompleted
    /\ CompletedIsSettled
    /\ CreditBudget

-----------------------------------------------------------------------------
LEMMA IdleRequest ==
    /\ Idle \in RequestType
    /\ Idle.op = "idle" /\ Idle.new = "NONE" /\ Idle.credit = FALSE
  BY DEF Idle, Request, RequestType, Handler

LEMMA InitIInv == Init => IInv
<1> SUFFICES ASSUME Init PROVE IInv
  OBVIOUS
<1>1. TypeOK
  BY IdleRequest DEF Init, TypeOK
<1>2. RequestsBringDates /\ ConfirmedIsCompleted
  BY IdleRequest DEF Init, RequestsBringDates, ConfirmedIsCompleted
<1>3. CompletedIsSettled /\ CreditBudget
  BY DEF Init, CompletedIsSettled, CreditBudget
<1> QED
  BY <1>1, <1>2, <1>3 DEF IInv

\* What a request that begins may put in its slot.
Opens(s, r) ==
    /\ UNCHANGED <<status, dates, reminders, credits, left>>
    /\ req' = [req EXCEPT ![s] = r]
    /\ r \in RequestType
    /\ r.op \notin {"idle", "startDirectJob"} => r.job \in Jobs /\ status[r.job] # "NONE"
    /\ r.op \in {"confirmDirectJob", "cancelDirectJob", "updateAdminDirectJobStatus"} =>
          r.new \in DirectJobStatus
    /\ r.new = "COMPLETED" =>
          /\ r.job \in Jobs
          /\ r.date \/ confirmedAt[r.job]
          /\ r.credit \/ status[r.job] = "COMPLETED"
    /\ r.credit => r.new = "COMPLETED" /\ status[r.job] # "COMPLETED"

LEMMA BeginOpens ==
    ASSUME NEW s \in Slots,
           NEW op \in Handler, NEW j \in Jobs \cup {NoJob},
           NEW new \in DirectJobStatus \cup {"NONE"},
           NEW credit \in BOOLEAN, NEW date \in BOOLEAN,
           Begin(s, Request(op, j, new, credit, date)),
           op \notin {"idle", "startDirectJob"} => j \in Jobs /\ status[j] # "NONE",
           op \in {"confirmDirectJob", "cancelDirectJob", "updateAdminDirectJobStatus"} =>
              new \in DirectJobStatus,
           new = "COMPLETED" =>
              /\ j \in Jobs
              /\ date \/ confirmedAt[j]
              /\ credit \/ status[j] = "COMPLETED",
           credit => new = "COMPLETED" /\ status[j] # "COMPLETED"
    PROVE  Opens(s, Request(op, j, new, credit, date))
<1> DEFINE r == Request(op, j, new, credit, date)
<1>1. /\ r \in RequestType /\ r.op = op /\ r.job = j /\ r.new = new
      /\ r.credit = credit /\ r.date = date
  BY DEF Request, RequestType
<1>2. /\ UNCHANGED <<status, dates, reminders, credits, left>>
      /\ req' = [req EXCEPT ![s] = r]
  BY DEF Begin
<1> HIDE DEF r
<1>3. Opens(s, r)
  BY <1>1, <1>2 DEF Opens
<1> QED
  BY <1>3 DEF r

LEMMA OpensIInv ==
    ASSUME IInv, NEW s \in Slots, NEW r, Opens(s, r)
    PROVE  IInv'
<1> USE DEF Opens, dates
<1>1. TypeOK'
  BY DEF IInv, TypeOK
<1>2. RequestsBringDates'
  BY DEF IInv, TypeOK, RequestsBringDates, ConfirmedIsCompleted, CompletedIsSettled
<1>3. ConfirmedIsCompleted' /\ CompletedIsSettled'
  BY DEF IInv, ConfirmedIsCompleted, CompletedIsSettled
<1>4. CreditBudget'
  BY DEF IInv, TypeOK, CreditBudget, MayCredit
<1> QED
  BY <1>1, <1>2, <1>3, <1>4 DEF IInv

\* Every read is such a step.
Read(s) ==
    \/ StartDirectJobRead(s)
    \/ \E j \in Jobs :
         \/ CloseDirectJobRead(s, j)
         \/ RemindCustomerRead(s, j)
         \/ ConfirmDirectJobRead(s, j)
         \/ CancelDirectJobRead(s, j)
         \/ \E new \in DirectJobStatus : UpdateAdminDirectJobStatusRead(s, j, new)

LEMMA ReadOpens ==
    ASSUME TypeOK, NEW s \in Slots, Read(s)
    PROVE  \E r : Opens(s, r)
<1> USE ConstantsAssumption DEF Handler, DirectJobStatus, ActiveStatus
<1>1. StartDirectJobRead(s) => \E r : Opens(s, r)
  BY BeginOpens DEF StartDirectJobRead
<1>2. ASSUME NEW j \in Jobs, CloseDirectJobRead(s, j) PROVE \E r : Opens(s, r)
  BY <1>2, BeginOpens DEF CloseDirectJobRead
<1>3. ASSUME NEW j \in Jobs, RemindCustomerRead(s, j) PROVE \E r : Opens(s, r)
  BY <1>3, BeginOpens DEF RemindCustomerRead
<1>4. ASSUME NEW j \in Jobs, ConfirmDirectJobRead(s, j) PROVE \E r : Opens(s, r)
  BY <1>4, BeginOpens DEF ConfirmDirectJobRead
<1>5. ASSUME NEW j \in Jobs, CancelDirectJobRead(s, j) PROVE \E r : Opens(s, r)
  BY <1>5, BeginOpens DEF CancelDirectJobRead
<1>6. ASSUME NEW j \in Jobs, NEW new \in DirectJobStatus,
             UpdateAdminDirectJobStatusRead(s, j, new)
      PROVE  \E r : Opens(s, r)
  <2> DEFINE credit == new = "COMPLETED" /\ status[j] # "COMPLETED"
             date == new = "COMPLETED" /\ ~confirmedAt[j]
  <2>1. credit \in BOOLEAN /\ date \in BOOLEAN
    OBVIOUS
  <2>2. /\ Begin(s, Request("updateAdminDirectJobStatus", j, new, credit, date))
        /\ status[j] # "NONE"
    BY <1>6 DEF UpdateAdminDirectJobStatusRead
  <2>3. /\ new = "COMPLETED" => date \/ confirmedAt[j]
        /\ new = "COMPLETED" => credit \/ status[j] = "COMPLETED"
        /\ credit => new = "COMPLETED" /\ status[j] # "COMPLETED"
    OBVIOUS
  <2> HIDE DEF credit, date
  <2>4. Opens(s, Request("updateAdminDirectJobStatus", j, new, credit, date))
    BY <2>1, <2>2, <2>3, BeginOpens
  <2> QED
    BY <2>4
<1> QED
  BY <1>1, <1>2, <1>3, <1>4, <1>5, <1>6 DEF Read

-----------------------------------------------------------------------------
\* One lemma per transaction.

LEMMA StartDirectJobCommitIInv ==
    ASSUME IInv, NEW s \in Slots, NEW j \in Jobs, StartDirectJobCommit(s, j)
    PROVE  IInv'
<1> USE IdleRequest DEF StartDirectJobCommit, Running, Finish, dates
<1>1. TypeOK'
  BY DEF IInv, TypeOK, DirectJobStatus
<1>2. RequestsBringDates'
  BY DEF IInv, TypeOK, RequestsBringDates
<1>3. ConfirmedIsCompleted' /\ CompletedIsSettled'
  BY DEF IInv, TypeOK, ConfirmedIsCompleted, CompletedIsSettled
<1>4. CreditBudget'
  BY DEF IInv, TypeOK, CreditBudget, MayCredit
<1> QED
  BY <1>1, <1>2, <1>3, <1>4 DEF IInv

\* A new status, and whether the job leaves a final one by it.
LEMMA SetStatusLeft ==
    ASSUME TypeOK, NEW j \in Jobs, NEW new \in DirectJobStatus, SetStatus(j, new)
    PROVE  /\ status' \in [Jobs -> DirectJobStatus \cup {"NONE"}]
           /\ left' \in [Jobs -> Nat]
           /\ \A k \in Jobs \ {j} : status'[k] = status[k] /\ left'[k] = left[k]
           /\ status'[j] = new
           /\ left'[j] >= left[j]
           /\ (status[j] = "COMPLETED" /\ new # "COMPLETED") => left'[j] = left[j] + 1
           /\ (status[j] \in Final /\ new \in ActiveStatus) => left'[j] # 0
  BY DEF SetStatus, TypeOK, Final, ActiveStatus

LEMMA CloseDirectJobCommitIInv ==
    ASSUME IInv, NEW s \in Slots, CloseDirectJobCommit(s)
    PROVE  IInv'
<1> DEFINE j == req[s].job
<1>1. j \in Jobs /\ SetStatus(j, "AWAITING_CONFIRMATION")
  BY DEF CloseDirectJobCommit, Running, IInv, RequestsBringDates
<1>2. /\ status' \in [Jobs -> DirectJobStatus \cup {"NONE"}] /\ left' \in [Jobs -> Nat]
      /\ \A k \in Jobs \ {j} : status'[k] = status[k] /\ left'[k] = left[k]
      /\ status'[j] = "AWAITING_CONFIRMATION" /\ left'[j] >= left[j]
      /\ status[j] = "COMPLETED" => left'[j] = left[j] + 1
  BY <1>1, SetStatusLeft DEF IInv, DirectJobStatus
<1>3. /\ completedAt' = [completedAt EXCEPT ![j] = TRUE]
      /\ req' = [req EXCEPT ![s] = Idle]
      /\ UNCHANGED <<confirmedAt, reminders, credits>>
  BY DEF CloseDirectJobCommit, Finish
<1> HIDE DEF j
<1> USE IdleRequest
<1>4. TypeOK'
  BY <1>1, <1>2, <1>3 DEF IInv, TypeOK
<1>5. RequestsBringDates'
  BY <1>1, <1>2, <1>3 DEF IInv, TypeOK, RequestsBringDates
<1>6. ConfirmedIsCompleted' /\ CompletedIsSettled'
  BY <1>1, <1>2, <1>3 DEF IInv, TypeOK, ConfirmedIsCompleted, CompletedIsSettled
<1>7. CreditBudget'
  BY <1>1, <1>2, <1>3 DEF IInv, TypeOK, CreditBudget, MayCredit
<1> QED
  BY <1>4, <1>5, <1>6, <1>7 DEF IInv

LEMMA SettleCommitIInv ==
    ASSUME IInv, NEW s \in Slots, SettleCommit(s)
    PROVE  IInv'
<1> DEFINE r == req[s]  j == r.job
<1>1. /\ j \in Jobs /\ r.new \in DirectJobStatus /\ r \in RequestType
      /\ SetStatus(j, r.new)
      /\ r.new = "COMPLETED" => /\ r.date \/ (completedAt[j] /\ confirmedAt[j])
                                /\ r.credit \/ \E u \in Slots : credits[u][j] > 0
      /\ r.credit => r.new = "COMPLETED"
  BY DEF SettleCommit, IInv, TypeOK, RequestsBringDates
<1>2. /\ status' \in [Jobs -> DirectJobStatus \cup {"NONE"}] /\ left' \in [Jobs -> Nat]
      /\ \A k \in Jobs \ {j} : status'[k] = status[k] /\ left'[k] = left[k]
      /\ status'[j] = r.new /\ left'[j] >= left[j]
      /\ (status[j] = "COMPLETED" /\ r.new # "COMPLETED") => left'[j] = left[j] + 1
  BY <1>1, SetStatusLeft DEF IInv
<1>3. /\ completedAt' = [completedAt EXCEPT ![j] = @ \/ r.date]
      /\ confirmedAt' = [confirmedAt EXCEPT ![j] = @ \/ r.date]
      /\ credits' = [credits EXCEPT ![s][j] = IF r.credit THEN @ + 1 ELSE @]
      /\ req' = [req EXCEPT ![s] = Idle]
      /\ UNCHANGED reminders
  BY DEF SettleCommit, Finish, RaiseCompletedJobs
<1>4. /\ credits' \in [Slots -> [Jobs -> Nat]]
      /\ \A u \in Slots, k \in Jobs : credits'[u][k] >= credits[u][k]
      /\ \A u \in Slots, k \in Jobs : (u # s \/ k # j) => credits'[u][k] = credits[u][k]
      /\ credits'[s][j] = IF r.credit THEN credits[s][j] + 1 ELSE credits[s][j]
  BY <1>1, <1>3 DEF IInv, TypeOK
<1>5. /\ completedAt' \in [Jobs -> BOOLEAN] /\ confirmedAt' \in [Jobs -> BOOLEAN]
      /\ \A k \in Jobs : /\ completedAt[k] => completedAt'[k]
                         /\ confirmedAt[k] => confirmedAt'[k]
      /\ \A k \in Jobs \ {j} : confirmedAt'[k] = confirmedAt[k]
      /\ confirmedAt'[j] => confirmedAt[j] \/ r.date
      /\ r.date => completedAt'[j] /\ confirmedAt'[j]
  <2>1. r.date \in BOOLEAN
    BY <1>1 DEF RequestType
  <2> QED
    BY <2>1, <1>1, <1>3 DEF IInv, TypeOK
<1>6. /\ req' \in [Slots -> RequestType] /\ req'[s] = Idle
      /\ \A u \in Slots \ {s} : req'[u] = req[u]
  BY <1>3, IdleRequest DEF IInv, TypeOK
<1>7. /\ req[s].credit = r.credit /\ req[s].job = j
      /\ r.credit \in BOOLEAN /\ r.date \in BOOLEAN
  BY <1>1 DEF RequestType
<1> HIDE DEF r, j
<1>8. TypeOK'
  BY <1>2, <1>3, <1>4, <1>5, <1>6 DEF IInv, TypeOK
<1>9. RequestsBringDates'
  <2> SUFFICES ASSUME NEW u \in Slots
               PROVE  (LET q == req[u] IN
       /\ q.op \notin {"idle", "startDirectJob"} =>
             q.job \in Jobs /\ status[q.job] # "NONE"
       /\ q.op \in {"confirmDirectJob", "cancelDirectJob", "updateAdminDirectJobStatus"} =>
             q.new \in DirectJobStatus
       /\ q.new = "COMPLETED" =>
             /\ q.job \in Jobs
             /\ q.date \/ (completedAt[q.job] /\ confirmedAt[q.job])
             /\ q.credit \/ \E v \in Slots : credits[v][q.job] > 0
       /\ q.credit => q.new = "COMPLETED")'
    BY DEF RequestsBringDates
  <2>1. CASE u = s
    BY <2>1, <1>6, IdleRequest
  <2>2. CASE u # s
    <3> DEFINE q == req[u]
    <3>1. req'[u] = q /\ q \in RequestType
      BY <2>2, <1>6 DEF IInv, TypeOK
    <3>2. /\ q.op \notin {"idle", "startDirectJob"} =>
                q.job \in Jobs /\ status[q.job] # "NONE"
          /\ q.op \in {"confirmDirectJob", "cancelDirectJob", "updateAdminDirectJobStatus"} =>
                q.new \in DirectJobStatus
          /\ q.new = "COMPLETED" =>
                /\ q.date \/ (completedAt[q.job] /\ confirmedAt[q.job])
                /\ q.credit \/ \E v \in Slots : credits[v][q.job] > 0
          /\ q.credit => q.new = "COMPLETED"
          /\ q.new = "COMPLETED" => q.job \in Jobs
      BY DEF IInv, RequestsBringDates
    <3> HIDE DEF q
    <3>3. \A k \in Jobs : status[k] # "NONE" => status'[k] # "NONE"
      BY <1>1, <1>2 DEF DirectJobStatus
    <3>4. \A k \in Jobs : (\E v \in Slots : credits[v][k] > 0) =>
                            \E v \in Slots : credits'[v][k] > 0
      BY <1>4 DEF IInv, TypeOK
    <3>5. \A k \in Jobs : completedAt[k] /\ confirmedAt[k] => completedAt'[k] /\ confirmedAt'[k]
      BY <1>5
    <3> QED
      BY <3>1, <3>2, <3>3, <3>4, <3>5
  <2> QED
    BY <2>1, <2>2
<1>10. ConfirmedIsCompleted'
  BY <1>1, <1>5 DEF IInv, ConfirmedIsCompleted
<1>11. CompletedIsSettled'
  BY <1>1, <1>2, <1>4, <1>5, <1>7 DEF IInv, TypeOK, CompletedIsSettled
<1>12. CreditBudget'
  BY <1>1, <1>2, <1>4, <1>6, <1>7, IdleRequest
     DEF IInv, TypeOK, CreditBudget, MayCredit, DirectJobStatus
<1> QED
  BY <1>8, <1>9, <1>10, <1>11, <1>12 DEF IInv

LEMMA OthersIInv ==
    ASSUME IInv,
           \/ \E s \in Slots : RemindCustomerCommit(s) \/ Abandon(s)
           \/ \E j \in Jobs : RemindersAge(j)
           \/ UNCHANGED vars
    PROVE  IInv'
<1>1. ASSUME NEW s \in Slots, Abandon(s) \/ RemindCustomerCommit(s) PROVE IInv'
  <2> USE <1>1, IdleRequest DEF Abandon, RemindCustomerCommit, Running, Finish, dates
  <2>1. TypeOK'
    <3>1. req' \in [Slots -> RequestType]
      BY DEF IInv, TypeOK
    <3>2. reminders' \in [Jobs -> Nat]
      BY DEF IInv, TypeOK
    <3> QED
      BY <3>1, <3>2 DEF IInv, TypeOK
  <2>2. RequestsBringDates'
    BY DEF IInv, TypeOK, RequestsBringDates
  <2>3. ConfirmedIsCompleted' /\ CompletedIsSettled' /\ CreditBudget'
    BY DEF IInv, TypeOK, ConfirmedIsCompleted, CompletedIsSettled, CreditBudget, MayCredit
  <2> QED
    BY <2>1, <2>2, <2>3 DEF IInv
<1>2. CASE (\E j \in Jobs : RemindersAge(j)) \/ UNCHANGED vars
  BY <1>2 DEF RemindersAge, vars, dates, IInv, TypeOK, RequestsBringDates, ConfirmedIsCompleted,
              CompletedIsSettled, CreditBudget, MayCredit
<1> QED
  BY <1>1, <1>2

LEMMA NextIInv == IInv /\ [Next]_vars => IInv'
<1> SUFFICES ASSUME IInv, [Next]_vars PROVE IInv'
  OBVIOUS
<1>1. ASSUME NEW s \in Slots, Read(s) PROVE IInv'
  BY <1>1, ReadOpens, OpensIInv DEF IInv
<1> QED
  BY <1>1, StartDirectJobCommitIInv, CloseDirectJobCommitIInv, SettleCommitIInv, OthersIInv
     DEF Next, Read

\* Types; no counter and no date is ever out of its range.
THEOREM TypeCorrect == Spec => []TypeOK
<1>1. IInv => TypeOK
  BY DEF IInv
<1> QED
  BY <1>1, InitIInv, NextIInv, PTL DEF Spec

\* A completed job has its dates and was credited.
THEOREM CompletionSettles == Spec => []CompletedIsSettled
<1>1. IInv => CompletedIsSettled
  BY DEF IInv
<1> QED
  BY <1>1, InitIInv, NextIInv, PTL DEF Spec

\* The requests of one slot credit a job once for each time it was not completed.
THEOREM CreditsAreBounded == Spec => []CreditedOncePerCompletion
<1>1. IInv => CreditedOncePerCompletion
  BY DEF IInv, CreditBudget, CreditedOncePerCompletion
<1> QED
  BY <1>1, InitIInv, NextIInv, PTL DEF Spec

-----------------------------------------------------------------------------
(***************************************************************************)
(* The two limits tested before a write.  What is there plus the requests  *)
(* that passed the test and have not written yet stay within the number of *)
(* slots: a write moves one from the second set to the first, and the test *)
(* lets a request into the second set only while the first is empty.       *)
(***************************************************************************)

Unmoved == {j \in Active : left[j] = 0}

LEMMA Finite ==
    /\ IsFiniteSet(Unmoved) /\ Cardinality(Unmoved) \in Nat
    /\ IsFiniteSet(Starting) /\ Cardinality(Starting) \in Nat
    /\ Cardinality(Slots) \in Nat
    /\ \A j \in Jobs : IsFiniteSet(Reminding(j)) /\ Cardinality(Reminding(j)) \in Nat
<1>1. /\ Unmoved \subseteq Jobs /\ Starting \subseteq Slots
      /\ \A j \in Jobs : Reminding(j) \subseteq Slots
  BY DEF Unmoved, Active, Starting, Reminding
<1> QED
  BY <1>1, ConstantsAssumption, FS_Subset, FS_CardinalityType

\* A step that neither passes the test nor starts a job leaves no more of either.
LEMMA ActiveShrinks ==
    ASSUME IInv, [Next]_vars,
           \A s \in Slots : ~StartDirectJobRead(s),
           \A s \in Slots, j \in Jobs : ~StartDirectJobCommit(s, j)
    PROVE  Unmoved' \subseteq Unmoved /\ Starting' \subseteq Starting
<1> USE IdleRequest DEF Unmoved, Active, Starting, Running
<1>1. ASSUME NEW s \in Slots, NEW j \in Jobs,
             \/ CloseDirectJobRead(s, j) \/ RemindCustomerRead(s, j)
             \/ ConfirmDirectJobRead(s, j) \/ CancelDirectJobRead(s, j)
             \/ \E new \in DirectJobStatus : UpdateAdminDirectJobStatusRead(s, j, new)
      PROVE  Unmoved' \subseteq Unmoved /\ Starting' \subseteq Starting
  BY <1>1 DEF CloseDirectJobRead, RemindCustomerRead, ConfirmDirectJobRead,
              CancelDirectJobRead, UpdateAdminDirectJobStatusRead, Begin, Request, IInv, TypeOK
<1>2. ASSUME NEW s \in Slots, CloseDirectJobCommit(s) \/ SettleCommit(s)
      PROVE  Unmoved' \subseteq Unmoved /\ Starting' \subseteq Starting
  <2>1. PICK j \in Jobs, new \in DirectJobStatus : SetStatus(j, new) /\ status[j] # "NONE"
    BY <1>2 DEF CloseDirectJobCommit, SettleCommit, IInv, RequestsBringDates, DirectJobStatus
  <2>2. Unmoved' \subseteq Unmoved
    BY <2>1, SetStatusLeft DEF IInv, TypeOK, DirectJobStatus, ActiveStatus, Final
  <2>3. Starting' \subseteq Starting
    BY <1>2 DEF CloseDirectJobCommit, SettleCommit, Finish, IInv, TypeOK
  <2> QED
    BY <2>2, <2>3
<1>3. ASSUME NEW s \in Slots, RemindCustomerCommit(s) \/ Abandon(s)
      PROVE  Unmoved' \subseteq Unmoved /\ Starting' \subseteq Starting
  BY <1>3 DEF RemindCustomerCommit, Abandon, Finish, IInv, TypeOK
<1>4. CASE (\E j \in Jobs : RemindersAge(j)) \/ UNCHANGED vars
  BY <1>4 DEF RemindersAge, vars
<1> QED
  BY <1>1, <1>2, <1>3, <1>4 DEF Next

LEMMA NextActive == IInv /\ ActiveOvershoot /\ [Next]_vars => ActiveOvershoot'
<1> SUFFICES ASSUME IInv, ActiveOvershoot, [Next]_vars PROVE ActiveOvershoot'
  OBVIOUS
<1>1. /\ Cardinality(Unmoved) + Cardinality(Starting) <= Cardinality(Slots)
      /\ (Cardinality(Unmoved') + Cardinality(Starting') <= Cardinality(Slots))
            => ActiveOvershoot'
  BY DEF ActiveOvershoot, Unmoved
<1>2. ASSUME NEW s \in Slots, StartDirectJobRead(s) PROVE ActiveOvershoot'
  <2>1. Unmoved' = {} /\ Starting' \subseteq Slots
    BY <1>2 DEF StartDirectJobRead, Begin, Unmoved, Active, Starting
  <2>2. /\ Cardinality(Unmoved') = 0
        /\ Cardinality(Starting') \in Nat /\ Cardinality(Starting') <= Cardinality(Slots)
    BY <2>1, ConstantsAssumption, FS_EmptySet, FS_Subset, FS_CardinalityType
  <2> QED
    BY <2>2, <1>1, Finite
<1>3. ASSUME NEW s \in Slots, NEW j \in Jobs, StartDirectJobCommit(s, j)
      PROVE  ActiveOvershoot'
  <2>1. Unmoved' \subseteq Unmoved \cup {j} /\ j \notin Unmoved
    BY <1>3 DEF StartDirectJobCommit, Unmoved, Active, ActiveStatus, IInv, TypeOK
  <2>2. Starting' = Starting \ {s} /\ s \in Starting
    BY <1>3, IdleRequest DEF StartDirectJobCommit, Running, Finish, Starting, IInv, TypeOK
  <2>3. /\ Cardinality(Unmoved \cup {j}) = Cardinality(Unmoved) + 1
        /\ IsFiniteSet(Unmoved \cup {j})
    BY <2>1, Finite, FS_AddElement
  <2>4. /\ Cardinality(Unmoved') \in Nat
        /\ Cardinality(Unmoved') <= Cardinality(Unmoved) + 1
    BY <2>1, <2>3, FS_Subset, FS_CardinalityType
  <2>5. Cardinality(Starting') = Cardinality(Starting) - 1
    BY <2>2, Finite, FS_RemoveElement
  <2> QED
    BY <2>4, <2>5, <1>1, Finite
<1>4. CASE /\ \A s \in Slots : ~StartDirectJobRead(s)
           /\ \A s \in Slots, j \in Jobs : ~StartDirectJobCommit(s, j)
  <2>1. Unmoved' \subseteq Unmoved /\ Starting' \subseteq Starting
    BY <1>4, ActiveShrinks
  <2>2. /\ Cardinality(Unmoved') \in Nat /\ Cardinality(Unmoved') <= Cardinality(Unmoved)
        /\ Cardinality(Starting') \in Nat /\ Cardinality(Starting') <= Cardinality(Starting)
    BY <2>1, Finite, FS_Subset, FS_CardinalityType
  <2> QED
    BY <2>2, <1>1, Finite
<1> QED
  BY <1>2, <1>3, <1>4

LEMMA NextReminders == IInv /\ ReminderOvershoot /\ [Next]_vars => ReminderOvershoot'
<1> SUFFICES ASSUME IInv, ReminderOvershoot, [Next]_vars, NEW j \in Jobs
             PROVE  reminders'[j] + Cardinality(Reminding(j)') <= Cardinality(Slots)
  BY DEF ReminderOvershoot
<1>1. reminders[j] \in Nat /\ reminders[j] + Cardinality(Reminding(j)) <= Cardinality(Slots)
  BY DEF ReminderOvershoot, IInv, TypeOK
<1>2. Cardinality(Reminding(j)') \in Nat /\ Cardinality(Reminding(j)') <= Cardinality(Slots)
  <2>1. Reminding(j)' \subseteq Slots
    BY DEF Reminding
  <2> QED
    BY <2>1, ConstantsAssumption, FS_Subset, FS_CardinalityType
<1>3. CASE reminders'[j] = 0
  BY <1>2, <1>3, Finite
<1>4. CASE reminders'[j] = reminders[j] /\ Reminding(j)' \subseteq Reminding(j)
  <2>1. Cardinality(Reminding(j)') <= Cardinality(Reminding(j))
    BY <1>4, Finite, FS_Subset
  <2> QED
    BY <2>1, <1>1, <1>2, <1>4, Finite
<1>5. ASSUME NEW s \in Slots, RemindCustomerCommit(s), req[s].job = j
      PROVE  reminders'[j] + Cardinality(Reminding(j)') <= Cardinality(Slots)
  <2>1. Reminding(j)' = Reminding(j) \ {s} /\ s \in Reminding(j)
    BY <1>5, IdleRequest DEF RemindCustomerCommit, Running, Finish, Reminding, IInv, TypeOK
  <2>2. Cardinality(Reminding(j)') = Cardinality(Reminding(j)) - 1
    BY <2>1, Finite, FS_RemoveElement
  <2>3. reminders'[j] = reminders[j] + 1
    BY <1>5 DEF RemindCustomerCommit, IInv, TypeOK
  <2> QED
    BY <2>2, <2>3, <1>1, Finite
<1>6. \/ reminders'[j] = 0
      \/ reminders'[j] = reminders[j] /\ Reminding(j)' \subseteq Reminding(j)
      \/ \E s \in Slots : RemindCustomerCommit(s) /\ req[s].job = j
  <2> USE IdleRequest DEF Reminding, Running, IInv, TypeOK
  <2>1. ASSUME NEW s \in Slots, NEW k \in Jobs,
               \/ CloseDirectJobRead(s, k) \/ ConfirmDirectJobRead(s, k)
               \/ CancelDirectJobRead(s, k)
               \/ \E new \in DirectJobStatus : UpdateAdminDirectJobStatusRead(s, k, new)
        PROVE  reminders'[j] = reminders[j] /\ Reminding(j)' \subseteq Reminding(j)
    BY <2>1 DEF CloseDirectJobRead, ConfirmDirectJobRead, CancelDirectJobRead,
                UpdateAdminDirectJobStatusRead, Begin, Request
  <2>2. ASSUME NEW s \in Slots, NEW k \in Jobs, RemindCustomerRead(s, k)
        PROVE  \/ reminders'[j] = 0
               \/ reminders'[j] = reminders[j] /\ Reminding(j)' \subseteq Reminding(j)
    BY <2>2 DEF RemindCustomerRead, Begin, Request
  <2>3. ASSUME NEW s \in Slots, StartDirectJobRead(s)
        PROVE  reminders'[j] = reminders[j] /\ Reminding(j)' \subseteq Reminding(j)
    BY <2>3 DEF StartDirectJobRead, Begin, Request
  <2>4. ASSUME NEW s \in Slots,
               \/ CloseDirectJobCommit(s) \/ SettleCommit(s) \/ Abandon(s)
               \/ \E k \in Jobs : StartDirectJobCommit(s, k)
        PROVE  reminders'[j] = reminders[j] /\ Reminding(j)' \subseteq Reminding(j)
    BY <2>4 DEF CloseDirectJobCommit, SettleCommit, Abandon, StartDirectJobCommit, Finish
  <2>5. ASSUME NEW s \in Slots, RemindCustomerCommit(s), req[s].job # j
        PROVE  reminders'[j] = reminders[j] /\ Reminding(j)' \subseteq Reminding(j)
    BY <2>5 DEF RemindCustomerCommit, Finish
  <2>6. ASSUME NEW k \in Jobs, RemindersAge(k)
        PROVE  \/ reminders'[j] = 0
               \/ reminders'[j] = reminders[j] /\ Reminding(j)' \subseteq Reminding(j)
    BY <2>6 DEF RemindersAge
  <2>7. CASE UNCHANGED vars
    BY <2>7 DEF vars
  <2> QED
    BY <2>1, <2>2, <2>3, <2>4, <2>5, <2>6, <2>7 DEF Next
<1> QED
  BY <1>3, <1>4, <1>5, <1>6

LEMMA InitOvershoot == Init => ActiveOvershoot /\ ReminderOvershoot
<1> SUFFICES ASSUME Init PROVE ActiveOvershoot /\ ReminderOvershoot
  OBVIOUS
<1>1. Unmoved = {} /\ Starting = {} /\ \A j \in Jobs : Reminding(j) = {} /\ reminders[j] = 0
  BY IdleRequest DEF Init, Unmoved, Active, ActiveStatus, Starting, Reminding, Running
<1>2. Cardinality({}) = 0
  BY FS_EmptySet
<1>3. Cardinality(Unmoved) + Cardinality(Starting) <= Cardinality(Slots)
  BY <1>1, <1>2, Finite
<1>4. \A j \in Jobs : reminders[j] + Cardinality(Reminding(j)) <= Cardinality(Slots)
  BY <1>1, <1>2, Finite
<1> QED
  BY <1>3, <1>4 DEF ActiveOvershoot, ReminderOvershoot, Unmoved

\* A conversation has no more active jobs, and in 12 hours a customer gets no more
\* reminders of a job, than requests run at once, but for jobs that were revived.
THEOREM ChecksAreBounded == Spec => []ChecksOvershoot
<1>1. Spec => []ActiveOvershoot
  BY InitIInv, NextIInv, InitOvershoot, NextActive, PTL DEF Spec
<1>2. Spec => []ReminderOvershoot
  BY InitIInv, NextIInv, InitOvershoot, NextReminders, PTL DEF Spec
<1>3. ActiveOvershoot /\ ReminderOvershoot => ChecksOvershoot
  BY DEF ChecksOvershoot
<1> QED
  BY <1>1, <1>2, <1>3, PTL
=============================================================================
