--------------------------- MODULE Sessions_proofs ---------------------------
(***************************************************************************)
(* Proofs about Sessions for any number of apps, requests for              *)
(* reactivation, resets and requests at the same time.                     *)
(***************************************************************************)
EXTENDS Sessions, TLAPS

\* The inductive invariant.  A request in flight knows the app or the row it is
\* about; a login under way in a deactivated account is a late one.
RequestsKnow ==
    \A s \in Slots :
       /\ req[s].op \in {"login", "push", "clear"} => req[s].by \in Registrations
       /\ req[s].op \in {"verify", "password", "used"} => req[s].row \in Resets

LoginsAreLate == ~active => \A s \in Slots : Runs(s, "login") => req[s].by \in late

\* A push goes to the last registration, or the last one logged in during the push; one
\* that is about to clear the column has found its registration gone or was refused.
PushesFollow ==
    \A s \in Slots :
       /\ req[s].op \in {"push", "clear"} => req[s].by = last \/ last \in risked
       /\ Runs(s, "clear") => req[s].by \in gone \cup risked

\* A row whose resets neither overlapped nor died has at most one of them under
\* way, which has not set the password before it reaches usedAt; with none under
\* way the password is set only if the row is used.
ResetsStaged ==
    \A r \in Resets \ (overlapped \cup torn) :
       /\ \A s, t \in Resetting(r) : s = t
       /\ \A s \in Slots : req[s].row = r =>
             /\ Runs(s, "password") => sets[r] = 0
             /\ Runs(s, "used") => sets[r] <= 1
       /\ Resetting(r) = {} => sets[r] = 0 \/ (sets[r] = 1 /\ reset[r] = "USED")

IInv ==
    /\ TypeOK /\ RequestsKnow
    /\ LoginsAreLate /\ DeactivatedIsOut /\ RequestsAreResolved
    /\ PushesFollow /\ DeviceKept
    /\ ResetsStaged

-----------------------------------------------------------------------------
LEMMA IdleRequest ==
    /\ Idle \in RequestType
    /\ Idle.op = "idle"
  BY DEF Idle, Request, RequestType, Operation

LEMMA InitIInv == Init => IInv
<1> SUFFICES ASSUME Init PROVE IInv
  OBVIOUS
<1>1. \A s \in Slots : req[s] = Idle /\ req[s].op = "idle"
  BY IdleRequest DEF Init
<1>2. TypeOK
  <2>1. /\ active \in BOOLEAN /\ rejected \in BOOLEAN /\ recent \in BOOLEAN
        /\ fcm \in Registrations \cup {None}
    BY DEF Init
  <2> QED
    BY <2>1, IdleRequest DEF Init, TypeOK
<1>3. RequestsKnow /\ LoginsAreLate /\ DeactivatedIsOut /\ RequestsAreResolved
  BY <1>1 DEF Init, RequestsKnow, LoginsAreLate, Runs, DeactivatedIsOut, RequestsAreResolved, Pending
<1>4. PushesFollow /\ DeviceKept
  BY <1>1 DEF Init, PushesFollow, DeviceKept, Runs
<1>5. ResetsStaged
  BY <1>1 DEF Init, ResetsStaged, Resetting, Runs
<1> QED
  BY <1>2, <1>3, <1>4, <1>5 DEF IInv

\* The steps by what they are about; a step of one kind leaves alone what the
\* others are about, but for its slot.
BeginStep(s) ==
    \/ \E d \in Registrations :
         \/ \E named \in BOOLEAN : LoginRead(s, d, named)
         \/ LogoutRead(s, d) \/ DeactivateAccountRead(s, d)
         \/ CreateContactSubmissionRead(s, d)
    \/ RequestReactivationRead(s) \/ ReactivateAccountRead(s)
    \/ \E r \in Resets : VerifyForgotOtpRead(s, r)
    \/ PushRead(s)

\* What a request that begins may put in its slot.
Opens(s, r) ==
    /\ UNCHANGED <<account, device, reactivation, forgotten, late>>
    /\ req[s] = Idle
    /\ req' = [req EXCEPT ![s] = r]
    /\ r \in RequestType
    /\ r.op \notin {"password", "used", "clear"}
    /\ r.op = "login" => r.by \in Registrations /\ active
    /\ r.op = "push" => r.by \in Registrations /\ r.by = fcm
    /\ r.op = "verify" => r.row \in Resets

LEMMA BeginOpens ==
    ASSUME NEW s \in Slots, NEW op \in Operation, NEW by \in Registrations \cup {None},
           NEW row \in Resets \cup {None}, NEW named \in BOOLEAN,
           Begin(s, Request(op, by, row, named)),
           UNCHANGED <<account, device, reactivation, forgotten, late>>,
           op \notin {"password", "used", "clear"},
           op = "login" => by \in Registrations /\ active,
           op = "push" => by \in Registrations /\ by = fcm,
           op = "verify" => row \in Resets
    PROVE  Opens(s, Request(op, by, row, named))
<1> DEFINE r == Request(op, by, row, named)
<1>1. /\ r \in RequestType /\ r.op = op /\ r.by = by /\ r.row = row
  BY DEF Request, RequestType
<1>2. req[s] = Idle /\ req' = [req EXCEPT ![s] = r]
  BY DEF Begin
<1> HIDE DEF r
<1>3. Opens(s, r)
  BY <1>1, <1>2 DEF Opens
<1> QED
  BY <1>3 DEF r

LEMMA BeginStepOpens ==
    ASSUME TypeOK, NEW s \in Slots, BeginStep(s)
    PROVE  \E r : Opens(s, r)
<1> USE DEF Operation
<1>1. ASSUME NEW d \in Registrations, NEW named \in BOOLEAN, LoginRead(s, d, named)
      PROVE  \E r : Opens(s, r)
  BY <1>1, BeginOpens DEF LoginRead
<1>2. ASSUME NEW d \in Registrations, LogoutRead(s, d)
      PROVE  \E r : Opens(s, r)
  BY <1>2, BeginOpens DEF LogoutRead
<1>3. ASSUME NEW d \in Registrations, DeactivateAccountRead(s, d)
      PROVE  \E r : Opens(s, r)
  BY <1>3, BeginOpens DEF DeactivateAccountRead
<1>4. RequestReactivationRead(s) => \E r : Opens(s, r)
  BY BeginOpens DEF RequestReactivationRead
<1>5. ReactivateAccountRead(s) => \E r : Opens(s, r)
  BY BeginOpens DEF ReactivateAccountRead
<1>6. ASSUME NEW x \in Resets, VerifyForgotOtpRead(s, x)
      PROVE  \E r : Opens(s, r)
  BY <1>6, BeginOpens DEF VerifyForgotOtpRead
<1>7. ASSUME PushRead(s) PROVE \E r : Opens(s, r)
  <2>1. fcm \in Registrations
    BY <1>7 DEF TypeOK, PushRead
  <2> QED
    BY <1>7, <2>1, BeginOpens DEF PushRead
<1>8. ASSUME NEW d \in Registrations, CreateContactSubmissionRead(s, d)
      PROVE  \E r : Opens(s, r)
  BY <1>8, BeginOpens DEF CreateContactSubmissionRead
<1> QED
  BY <1>1, <1>2, <1>3, <1>4, <1>5, <1>6, <1>7, <1>8 DEF BeginStep

LEMMA OpensIInv ==
    ASSUME IInv, NEW s \in Slots, NEW r, Opens(s, r)
    PROVE  IInv'
<1> USE IdleRequest DEF account, device, reactivation, forgotten
<1>1. /\ req' = [req EXCEPT ![s] = r] /\ r \in RequestType /\ req \in [Slots -> RequestType]
      /\ req'[s] = r /\ \A t \in Slots : t # s => req'[t] = req[t]
      /\ req[s].op = "idle"
  BY DEF Opens, IInv, TypeOK
<1>2. TypeOK'
  BY <1>1 DEF Opens, IInv, TypeOK
<1>3. RequestsKnow' /\ LoginsAreLate' /\ DeactivatedIsOut'
  BY <1>1 DEF Opens, IInv, RequestsKnow, LoginsAreLate, DeactivatedIsOut, Runs
<1>4. RequestsAreResolved'
  BY <1>1 DEF Opens, IInv, RequestsAreResolved, Pending, Doing, Runs
<1>5. PushesFollow' /\ DeviceKept'
  BY <1>1, ConstantsAssumption DEF Opens, IInv, PushesFollow, DeviceKept, Runs
<1>6. \A x \in Resets : Resetting(x)' = Resetting(x)
  BY <1>1 DEF Opens, Resetting
<1>7. ResetsStaged'
  BY <1>1, <1>6 DEF Opens, IInv, ResetsStaged, Runs
<1> QED
  BY <1>2, <1>3, <1>4, <1>5, <1>7 DEF IInv

-----------------------------------------------------------------------------
\* What a step leaves alone, by the operations its slots run before and after.
Starts(ops) == \E t \in Slots : req'[t] # req[t] /\ req'[t].op \in ops
Ends(ops) == \E t \in Slots : req'[t] # req[t] /\ req[t].op \in ops

LEMMA LoginFrame ==
    ASSUME IInv, UNCHANGED <<active, token, late>>, ~Starts({"login"})
    PROVE  LoginsAreLate' /\ DeactivatedIsOut'
  BY DEF IInv, LoginsAreLate, DeactivatedIsOut, Starts, Runs

LEMMA ResolveFrame ==
    ASSUME IInv, UNCHANGED <<active, submission, stray>>, ~Ends({"resolve"})
    PROVE  RequestsAreResolved'
  BY DEF IInv, RequestsAreResolved, Pending, Doing, Runs, Ends

LEMMA PushFrame ==
    ASSUME IInv, UNCHANGED device, ~Starts({"push", "clear"})
    PROVE  PushesFollow' /\ DeviceKept'
  BY DEF IInv, PushesFollow, DeviceKept, Starts, Runs, device

LEMMA ResetFrame ==
    ASSUME IInv, UNCHANGED forgotten,
           ~Starts({"password", "used"}), ~Ends({"password", "used"})
    PROVE  ResetsStaged'
<1>1. \A r \in Resets : Resetting(r)' = Resetting(r)
  BY DEF Resetting, Starts, Ends
<1> QED
  BY <1>1 DEF IInv, ResetsStaged, Starts, Runs, forgotten

\* A step that gives slot s the request n.
LEMMA SlotStep ==
    ASSUME TypeOK, NEW s \in Slots, NEW n, req' = [req EXCEPT ![s] = n]
    PROVE  /\ req'[s] = n
           /\ \A t \in Slots : t # s => req'[t] = req[t]
           /\ \A ops : Starts(ops) => n.op \in ops
           /\ \A ops : Ends(ops) => req[s].op \in ops
           /\ req[s] \in RequestType
           /\ n \in RequestType => req' \in [Slots -> RequestType]
<1>1. req \in [Slots -> RequestType]
  BY DEF TypeOK
<1>2. req'[s] = n /\ \A t \in Slots : t # s => req'[t] = req[t]
  BY <1>1
<1> QED
  BY <1>1, <1>2 DEF Starts, Ends

-----------------------------------------------------------------------------
LEMMA LoginCommitIInv ==
    ASSUME IInv, NEW s \in Slots, LoginCommit(s)
    PROVE  IInv'
<1> USE IdleRequest DEF account, reactivation, forgotten
<1>1. TypeOK
  BY DEF IInv
<1>2. /\ req' = [req EXCEPT ![s] = Idle]
      /\ UNCHANGED <<active, rejected, gone, reactivation, forgotten, late>>
      /\ Runs(s, "login") /\ token' = req[s].by
      /\ req[s].named => fcm' = req[s].by /\ last' = req[s].by
                         /\ risked' = IF Pushing = {} THEN risked ELSE risked \cup {req[s].by}
      /\ ~req[s].named => UNCHANGED <<fcm, last, risked>>
  BY DEF LoginCommit, Finish
<1>3. /\ \A ops : Starts(ops) => "idle" \in ops
      /\ \A ops : Ends(ops) => "login" \in ops
      /\ req'[s] = Idle /\ \A t \in Slots : t # s => req'[t] = req[t]
      /\ req' \in [Slots -> RequestType] /\ req[s] \in RequestType
  BY <1>1, <1>2, SlotStep DEF Runs
<1>4. req[s].by \in Registrations
  BY <1>2 DEF IInv, RequestsKnow, Runs
<1>5. fcm' \in Registrations \cup {None} /\ last' \in Registrations \cup {None}
      /\ risked' \subseteq Registrations
  BY <1>1, <1>2, <1>4 DEF TypeOK
<1>6. TypeOK'
  BY <1>1, <1>2, <1>3, <1>4, <1>5 DEF TypeOK
<1>7. RequestsKnow' /\ LoginsAreLate' /\ DeactivatedIsOut'
  BY <1>2, <1>3 DEF IInv, RequestsKnow, LoginsAreLate, DeactivatedIsOut, Runs
<1>8. RequestsAreResolved' /\ ResetsStaged'
  BY <1>2, <1>3, ResolveFrame, ResetFrame
<1>9. PushesFollow'
  <2>1. CASE req[s].named /\ Pushing = {}
    BY <1>3, <2>1 DEF Pushing, Doing, Runs, PushesFollow
  <2>2. CASE req[s].named /\ Pushing # {}
    BY <1>2, <1>3, <2>2 DEF IInv, PushesFollow, Runs
  <2>3. CASE ~req[s].named
    BY <1>2, <1>3, <2>3 DEF IInv, PushesFollow, Runs
  <2> QED
    BY <2>1, <2>2, <2>3
<1>10. DeviceKept'
  BY <1>2 DEF IInv, DeviceKept
<1> QED
  BY <1>6, <1>7, <1>8, <1>9, <1>10 DEF IInv

LEMMA SessionIInv ==
    ASSUME IInv, NEW s \in Slots, LogoutCommit(s) \/ DeactivateAccountCommit(s)
    PROVE  IInv'
<1> USE IdleRequest DEF account, reactivation, device
<1>1. TypeOK
  BY DEF IInv
<1>2. /\ req' = [req EXCEPT ![s] = Idle] /\ token' = None
      /\ UNCHANGED <<rejected, device, reactivation, forgotten>>
      /\ req[s].op \in {"logout", "deactivate"}
      /\ \/ UNCHANGED <<active, late>>
         \/ active' = FALSE /\ late' = {req[t].by : t \in Doing("login")}
  BY DEF LogoutCommit, DeactivateAccountCommit, Finish, Runs
<1>3. /\ ~Starts({"login", "push", "clear", "password", "used"})
      /\ ~Starts({"push", "clear"}) /\ ~Starts({"password", "used"})
      /\ ~Ends({"resolve"}) /\ ~Ends({"password", "used"})
      /\ req'[s] = Idle /\ \A t \in Slots : t # s => req'[t] = req[t]
      /\ req' \in [Slots -> RequestType]
  BY <1>1, <1>2, SlotStep
<1>4. late' \subseteq Registrations
  BY <1>1, <1>2 DEF IInv, TypeOK, RequestsKnow, Doing, Runs
<1>5. active' \in BOOLEAN
  BY <1>1, <1>2 DEF TypeOK
<1>6. TypeOK'
  BY <1>1, <1>2, <1>3, <1>4, <1>5 DEF TypeOK, forgotten
<1>7. RequestsKnow' /\ DeactivatedIsOut'
  BY <1>2, <1>3 DEF IInv, RequestsKnow, DeactivatedIsOut, Runs
<1>8. LoginsAreLate'
  BY <1>2, <1>3 DEF IInv, LoginsAreLate, Doing, Runs
<1>9. RequestsAreResolved'
  <2>1. CASE UNCHANGED <<active, late>>
    BY <1>2, <1>3, <2>1, ResolveFrame
  <2>2. CASE active' = FALSE
    BY <2>2 DEF RequestsAreResolved
  <2> QED
    BY <1>2, <2>1, <2>2
<1>10. PushesFollow' /\ DeviceKept' /\ ResetsStaged'
  BY <1>2, <1>3, PushFrame, ResetFrame
<1> QED
  BY <1>6, <1>7, <1>8, <1>9, <1>10 DEF IInv

LEMMA ReactivationIInv ==
    ASSUME IInv,
           \/ MinutesPass \/ VerifyTrader
           \/ \E x \in Submissions : UpdateContactStatus(x)
           \/ \E s \in Slots : \/ \E x \in Submissions : RequestReactivationCommit(s, x)
                                                    \/ CreateContactSubmissionCommit(s, x)
                              \/ ReactivateAccountResolve(s)
    PROVE  IInv'
<1> USE IdleRequest DEF account, device
<1>1. TypeOK /\ RequestsKnow /\ LoginsAreLate /\ DeactivatedIsOut /\ RequestsAreResolved
  BY DEF IInv
<1>2. /\ UNCHANGED <<token, device, forgotten, late>>
      /\ \A t \in Slots : req'[t] = req[t] \/ (req'[t] = Idle /\ req[t].op \in {"contact", "ask", "resolve"})
      /\ req' \in [Slots -> RequestType]
  BY <1>1 DEF TypeOK, MinutesPass, VerifyTrader, UpdateContactStatus, Submit,
              RequestReactivationCommit, CreateContactSubmissionCommit,
              ReactivateAccountResolve, Finish, Runs
<1>3. /\ ~Starts({"login"}) /\ ~Starts({"push", "clear"}) /\ ~Starts({"password", "used"})
      /\ ~Ends({"password", "used"})
  BY <1>2 DEF Starts, Ends
<1>4. PushesFollow' /\ DeviceKept' /\ ResetsStaged'
  BY <1>2, <1>3, PushFrame, ResetFrame
<1>5. RequestsKnow'
  BY <1>1, <1>2 DEF RequestsKnow
<1>6. active' = TRUE \/ UNCHANGED active
  BY DEF MinutesPass, VerifyTrader, UpdateContactStatus, Submit, RequestReactivationCommit,
         CreateContactSubmissionCommit, ReactivateAccountResolve
<1>7. LoginsAreLate' /\ DeactivatedIsOut'
  <2>1. CASE active' = TRUE
    BY <2>1 DEF LoginsAreLate, DeactivatedIsOut
  <2>2. CASE UNCHANGED active
    BY <1>2, <1>3, <2>2, LoginFrame
  <2> QED
    BY <1>6, <2>1, <2>2
<1>8. TypeOK' /\ RequestsAreResolved'
  <2>1. CASE MinutesPass
    <3>1. /\ UNCHANGED <<account, device, submission, stray, forgotten, late, req>>
          /\ recent' = FALSE
      BY <2>1 DEF MinutesPass
    <3>2. TypeOK'
      BY <1>1, <3>1 DEF TypeOK, forgotten
    <3> QED
      BY <1>1, <3>1, <3>2 DEF RequestsAreResolved, Pending, Doing, Runs
  <2>2. CASE VerifyTrader
    <3>1. /\ rejected' \in BOOLEAN /\ active' = TRUE
          /\ UNCHANGED <<token, device, submission, recent, forgotten, late, req>>
          /\ stray' = IF active THEN stray ELSE stray \cup Pending
      BY <2>2 DEF VerifyTrader
    <3>2. Pending \subseteq Submissions /\ Pending' = Pending /\ Doing("resolve")' = Doing("resolve")
      BY <3>1 DEF Pending, Doing, Runs
    <3>3. stray' \subseteq Submissions
      BY <1>1, <3>1, <3>2 DEF TypeOK
    <3>4. active' \in BOOLEAN
      BY <3>1
    <3>5. TypeOK'
      BY <1>1, <3>1, <3>3, <3>4 DEF TypeOK, forgotten
    <3>6. RequestsAreResolved'
      BY <1>1, <3>1, <3>2 DEF RequestsAreResolved
    <3> QED
      BY <3>5, <3>6
  <2>3. ASSUME NEW s \in Slots, NEW x \in Submissions,
               RequestReactivationCommit(s, x) \/ CreateContactSubmissionCommit(s, x)
        PROVE  TypeOK' /\ RequestsAreResolved'
    <3>1. /\ submission' = [submission EXCEPT ![x] = "PENDING"] /\ recent' = TRUE
          /\ stray' = IF active THEN stray \cup {x} ELSE stray
          /\ req' = [req EXCEPT ![s] = Idle] /\ req[s].op \in {"ask", "contact"}
          /\ UNCHANGED <<account, device, forgotten, late>>
      BY <2>3 DEF RequestReactivationCommit, CreateContactSubmissionCommit, Submit, Finish, Runs
    <3>2. submission' \in [Submissions -> {"NONE", "PENDING", "HANDLED"}]
          /\ Pending' \subseteq Pending \cup {x} /\ stray' \subseteq Submissions
      BY <1>1, <3>1 DEF TypeOK, Pending
    <3>3. Doing("resolve")' = Doing("resolve")
      BY <1>1, <3>1, SlotStep DEF Doing, Runs
    <3>4. TypeOK'
      BY <1>1, <1>2, <3>1, <3>2 DEF TypeOK, forgotten
    <3>5. RequestsAreResolved'
      BY <1>1, <3>1, <3>2, <3>3 DEF RequestsAreResolved
    <3> QED
      BY <3>4, <3>5
  <2>4. ASSUME NEW s \in Slots, ReactivateAccountResolve(s)
        PROVE  TypeOK' /\ RequestsAreResolved'
    <3>1. /\ submission' = [x \in Submissions |-> IF x \in Pending THEN "HANDLED" ELSE submission[x]]
          /\ stray' = stray \ Pending
          /\ UNCHANGED <<account, device, recent, forgotten, late>>
      BY <2>4 DEF ReactivateAccountResolve
    <3>2. submission' \in [Submissions -> {"NONE", "PENDING", "HANDLED"}] /\ Pending' = {}
      BY <1>1, <3>1 DEF TypeOK, Pending
    <3>3. TypeOK'
      BY <1>1, <1>2, <3>1, <3>2 DEF TypeOK, forgotten
    <3> QED
      BY <3>2, <3>3 DEF RequestsAreResolved
  <2>5. ASSUME NEW x \in Submissions, UpdateContactStatus(x)
        PROVE  TypeOK' /\ RequestsAreResolved'
    <3>1. UNCHANGED <<account, device, recent, forgotten, late, req>>
      BY <2>5 DEF UpdateContactStatus
    <3>2. Doing("resolve")' = Doing("resolve")
      BY <3>1 DEF Doing, Runs
    <3>3. CASE submission' = [submission EXCEPT ![x] = "PENDING"]
               /\ stray' = IF active THEN stray \cup {x} ELSE stray
      <4>1. submission' \in [Submissions -> {"NONE", "PENDING", "HANDLED"}]
            /\ Pending' \subseteq Pending \cup {x} /\ stray' \subseteq Submissions
        BY <1>1, <3>3 DEF TypeOK, Pending
      <4> QED
        BY <1>1, <3>1, <3>2, <3>3, <4>1 DEF TypeOK, forgotten, RequestsAreResolved
    <3>4. CASE submission' = [submission EXCEPT ![x] = "HANDLED"] /\ stray' = stray \ {x}
      <4>1. submission' \in [Submissions -> {"NONE", "PENDING", "HANDLED"}]
            /\ Pending' = Pending \ {x} /\ stray' \subseteq Submissions
        BY <1>1, <3>4 DEF TypeOK, Pending
      <4> QED
        BY <1>1, <3>1, <3>2, <3>4, <4>1 DEF TypeOK, forgotten, RequestsAreResolved
    <3> QED
      BY <2>5, <3>3, <3>4 DEF UpdateContactStatus
  <2> QED
    BY <2>1, <2>2, <2>3, <2>4, <2>5
<1> QED
  BY <1>4, <1>5, <1>7, <1>8 DEF IInv

LEMMA ReactivateIInv ==
    ASSUME IInv, NEW s \in Slots, ReactivateAccountCommit(s)
    PROVE  IInv'
<1> DEFINE n == [req[s] EXCEPT !.op = "resolve"]
<1>1. /\ TypeOK /\ Runs(s, "reactivate") /\ active' = TRUE
      /\ req' = [req EXCEPT ![s] = n]
      /\ UNCHANGED <<token, rejected, device, reactivation, forgotten, late>>
  BY DEF IInv, ReactivateAccountCommit
<1>2. n \in RequestType /\ n.op = "resolve"
  BY <1>1 DEF TypeOK, RequestType, Operation
<1>3. /\ req'[s] = n /\ \A t \in Slots : t # s => req'[t] = req[t]
      /\ req' \in [Slots -> RequestType]
      /\ ~Starts({"push", "clear"}) /\ ~Starts({"password", "used"}) /\ ~Ends({"password", "used"})
  BY <1>1, <1>2, SlotStep DEF Runs
<1>4. active' \in BOOLEAN
  BY <1>1
<1>5. TypeOK'
  BY <1>1, <1>3, <1>4 DEF TypeOK, device, reactivation, forgotten
<1>6. RequestsKnow' /\ LoginsAreLate' /\ DeactivatedIsOut' /\ RequestsAreResolved'
  BY <1>1, <1>2, <1>3 DEF IInv, RequestsKnow, LoginsAreLate, DeactivatedIsOut, RequestsAreResolved,
                          Doing, Runs
<1>7. PushesFollow' /\ DeviceKept' /\ ResetsStaged'
  BY <1>1, <1>3, PushFrame, ResetFrame
<1> QED
  BY <1>5, <1>6, <1>7 DEF IInv

\* Steps that move the row of a forgotten password, but not to or from USED.
LEMMA CodeIInv ==
    ASSUME IInv,
           \/ \E r \in Resets : ForgotPassword(r) \/ ResetExpires(r)
           \/ \E s \in Slots : \/ ResendForgotOtpExpire(s) \/ VerifyForgotOtpCommit(s)
                              \/ \E r \in Resets : ResendForgotOtpCreate(s, r)
    PROVE  IInv'
<1> USE IdleRequest DEF account, device, reactivation
<1>1. TypeOK /\ RequestsKnow /\ ResetsStaged
  BY DEF IInv
<1> DEFINE again == Request("resend", None, None, FALSE)
<1>2. again \in RequestType /\ again.op = "resend"
  BY DEF Request, RequestType, Operation
<1> HIDE DEF again
<1> DEFINE Ended(s) == req' = [req EXCEPT ![s] = Idle] /\ req[s].op \in {"verify", "resend"}
           Begun(s) == req' = [req EXCEPT ![s] = again] /\ req[s] = Idle
<1>3. UNCHANGED req \/ \E s \in Slots : Ended(s) \/ Begun(s)
  <2>1. ASSUME NEW r \in Resets, ForgotPassword(r) \/ ResetExpires(r) PROVE UNCHANGED req
    BY <2>1 DEF ForgotPassword, ResetExpires
  <2>2. ASSUME NEW s \in Slots, ResendForgotOtpExpire(s) PROVE Begun(s)
    BY <2>2 DEF ResendForgotOtpExpire, Begin, again
  <2>3. ASSUME NEW s \in Slots, VerifyForgotOtpCommit(s) PROVE Ended(s)
    BY <2>3 DEF VerifyForgotOtpCommit, Finish, Runs
  <2>4. ASSUME NEW s \in Slots, NEW r \in Resets, ResendForgotOtpCreate(s, r) PROVE Ended(s)
    BY <2>4 DEF ResendForgotOtpCreate, Finish, Runs
  <2> HIDE DEF Ended, Begun
  <2> QED
    BY <2>1, <2>2, <2>3, <2>4
<1>4. /\ \A t \in Slots : \/ req'[t] = req[t]
                         \/ /\ req'[t].op \in {"idle", "resend"}
                            /\ req[t].op \in {"idle", "verify", "resend"}
      /\ req' \in [Slots -> RequestType]
  BY <1>1, <1>2, <1>3 DEF TypeOK
<1>5. /\ ~Starts({"login"}) /\ ~Ends({"resolve"}) /\ ~Starts({"push", "clear"})
      /\ ~Starts({"password", "used"}) /\ ~Ends({"password", "used"})
  BY <1>4 DEF Starts, Ends
<1>6. UNCHANGED <<account, device, reactivation, sets, overlapped, torn, late>>
  BY DEF ForgotPassword, ResetExpires, ResendForgotOtpExpire, VerifyForgotOtpCommit,
         ResendForgotOtpCreate
<1>7. LoginsAreLate' /\ DeactivatedIsOut' /\ RequestsAreResolved' /\ PushesFollow' /\ DeviceKept'
  BY <1>5, <1>6, LoginFrame, ResolveFrame, PushFrame
<1>8. RequestsKnow'
  BY <1>1, <1>4 DEF RequestsKnow
<1>9. /\ reset' \in [Resets -> {"NONE", "SENT", "VERIFIED", "USED", "EXPIRED"}]
      /\ \A r \in Resets : reset[r] = "USED" => reset'[r] = "USED"
  <2> DEFINE Goal == /\ reset' \in [Resets -> {"NONE", "SENT", "VERIFIED", "USED", "EXPIRED"}]
                     /\ \A r \in Resets : reset[r] = "USED" => reset'[r] = "USED"
  <2>1. ASSUME NEW r \in Resets, ForgotPassword(r) \/ ResetExpires(r) PROVE Goal
    BY <1>1, <2>1 DEF TypeOK, ForgotPassword, ResetExpires
  <2>2. ASSUME NEW s \in Slots, ResendForgotOtpExpire(s) PROVE Goal
    BY <1>1, <2>2 DEF TypeOK, ResendForgotOtpExpire
  <2>3. ASSUME NEW s \in Slots, NEW r \in Resets, ResendForgotOtpCreate(s, r) PROVE Goal
    BY <1>1, <2>3 DEF TypeOK, ResendForgotOtpCreate
  <2>4. ASSUME NEW s \in Slots, VerifyForgotOtpCommit(s) PROVE Goal
    <3>1. req[s].row \in Resets
      BY <1>1, <2>4 DEF VerifyForgotOtpCommit, Runs, RequestsKnow
    <3> QED
      BY <1>1, <2>4, <3>1 DEF TypeOK, VerifyForgotOtpCommit
  <2> QED
    BY <2>1, <2>2, <2>3, <2>4
<1>10. TypeOK'
  BY <1>1, <1>4, <1>6, <1>9 DEF TypeOK
<1>11. ResetsStaged'
  <2>1. \A r \in Resets : Resetting(r)' = Resetting(r)
    BY <1>4 DEF Resetting
  <2> QED
    BY <1>1, <1>4, <1>6, <1>9, <2>1 DEF ResetsStaged, Runs
<1> QED
  BY <1>7, <1>8, <1>10, <1>11 DEF IInv

LEMMA ResetPasswordReadIInv ==
    ASSUME IInv, NEW s \in Slots, NEW r \in Resets, ResetPasswordRead(s, r)
    PROVE  IInv'
<1> USE IdleRequest DEF account, device, reactivation
<1> DEFINE n == Request("password", None, r, FALSE)
<1>1. n \in RequestType /\ n.op = "password" /\ n.row = r
  BY DEF Request, RequestType, Operation
<1>2. /\ TypeOK /\ reset[r] = "VERIFIED" /\ req[s].op = "idle"
      /\ req' = [req EXCEPT ![s] = n]
      /\ UNCHANGED <<account, device, reactivation, reset, sets, torn, late>>
      /\ overlapped' = IF Resetting(r) = {} THEN overlapped ELSE overlapped \cup {r}
  BY DEF IInv, ResetPasswordRead, Begin
<1> HIDE DEF n
<1>3. /\ req'[s] = n /\ \A t \in Slots : t # s => req'[t] = req[t]
      /\ req' \in [Slots -> RequestType]
      /\ ~Starts({"login"}) /\ ~Ends({"resolve"}) /\ ~Starts({"push", "clear"})
  BY <1>1, <1>2, SlotStep
<1>4. overlapped' \subseteq Resets
  BY <1>2 DEF TypeOK
<1>5. TypeOK'
  BY <1>2, <1>3, <1>4 DEF TypeOK
<1>6. RequestsKnow' /\ LoginsAreLate' /\ DeactivatedIsOut' /\ RequestsAreResolved'
      /\ PushesFollow' /\ DeviceKept'
  BY <1>1, <1>2, <1>3, LoginFrame, ResolveFrame, PushFrame DEF IInv, RequestsKnow
<1>7. ResetsStaged'
  <2>1. \A q \in Resets : Resetting(q)' = IF q = r THEN Resetting(q) \cup {s} ELSE Resetting(q)
    BY <1>1, <1>2, <1>3 DEF Resetting
  <2>2. r \notin overlapped' => Resetting(r) = {}
    BY <1>2
  <2> QED
    BY <1>1, <1>2, <1>3, <2>1, <2>2 DEF IInv, ResetsStaged, Runs
<1> QED
  BY <1>5, <1>6, <1>7 DEF IInv

LEMMA ResetPasswordWriteIInv ==
    ASSUME IInv, NEW s \in Slots, ResetPasswordWrite(s)
    PROVE  IInv'
<1> USE IdleRequest DEF account, device, reactivation
<1> DEFINE n == [req[s] EXCEPT !.op = "used"]
           r == req[s].row
<1>1. /\ TypeOK /\ RequestsKnow /\ ResetsStaged /\ req[s].op = "password"
      /\ sets' = [sets EXCEPT ![r] = IF @ = 2 THEN 2 ELSE @ + 1]
      /\ req' = [req EXCEPT ![s] = n]
      /\ UNCHANGED <<account, device, reactivation, reset, overlapped, torn, late>>
  BY DEF IInv, ResetPasswordWrite, Runs
<1>2. n \in RequestType /\ n.op = "used" /\ n.row = r /\ r \in Resets
  BY <1>1 DEF TypeOK, RequestType, Operation, RequestsKnow
<1> HIDE DEF n
<1>3. /\ req'[s] = n /\ \A t \in Slots : t # s => req'[t] = req[t]
      /\ req' \in [Slots -> RequestType]
      /\ ~Starts({"login"}) /\ ~Ends({"resolve"}) /\ ~Starts({"push", "clear"})
  BY <1>1, <1>2, SlotStep
<1>4. sets' \in [Resets -> 0 .. 2] /\ (sets[r] = 0 => sets'[r] = 1)
      /\ \A q \in Resets : q # r => sets'[q] = sets[q]
  BY <1>1, <1>2 DEF TypeOK
<1>5. TypeOK'
  BY <1>1, <1>3, <1>4 DEF TypeOK
<1>6. RequestsKnow' /\ LoginsAreLate' /\ DeactivatedIsOut' /\ RequestsAreResolved'
      /\ PushesFollow' /\ DeviceKept'
  BY <1>1, <1>2, <1>3, LoginFrame, ResolveFrame, PushFrame DEF RequestsKnow
<1>7. ResetsStaged'
  <2>1. \A q \in Resets : Resetting(q)' = Resetting(q)
    BY <1>1, <1>2, <1>3 DEF Resetting
  <2>2. s \in Resetting(r)
    BY <1>1 DEF Resetting
  <2>3. \A t \in Slots : t # s /\ req[t].op \in {"password", "used"} /\ req[t].row = r =>
           r \in overlapped \cup torn
    BY <1>1, <1>2, <2>2 DEF ResetsStaged, Resetting
  <2> QED
    BY <1>1, <1>2, <1>3, <1>4, <2>1, <2>2, <2>3 DEF ResetsStaged, Runs
<1> QED
  BY <1>5, <1>6, <1>7 DEF IInv

LEMMA ResetPasswordUsedIInv ==
    ASSUME IInv, NEW s \in Slots, ResetPasswordUsed(s)
    PROVE  IInv'
<1> USE IdleRequest DEF account, device, reactivation
<1> DEFINE r == req[s].row
<1>1. /\ TypeOK /\ RequestsKnow /\ ResetsStaged /\ req[s].op = "used"
      /\ reset' = [reset EXCEPT ![r] = "USED"]
      /\ req' = [req EXCEPT ![s] = Idle]
      /\ UNCHANGED <<account, device, reactivation, sets, overlapped, torn, late>>
  BY DEF IInv, ResetPasswordUsed, Finish, Runs
<1>2. /\ req'[s] = Idle /\ \A t \in Slots : t # s => req'[t] = req[t]
      /\ req' \in [Slots -> RequestType]
      /\ ~Starts({"login"}) /\ ~Ends({"resolve"}) /\ ~Starts({"push", "clear"})
  BY <1>1, SlotStep
<1>3. r \in Resets /\ reset' \in [Resets -> {"NONE", "SENT", "VERIFIED", "USED", "EXPIRED"}]
      /\ reset'[r] = "USED" /\ \A q \in Resets : q # r => reset'[q] = reset[q]
  BY <1>1 DEF TypeOK, RequestsKnow
<1>4. TypeOK'
  BY <1>1, <1>2, <1>3 DEF TypeOK
<1>5. RequestsKnow' /\ LoginsAreLate' /\ DeactivatedIsOut' /\ RequestsAreResolved'
      /\ PushesFollow' /\ DeviceKept'
  BY <1>1, <1>2, LoginFrame, ResolveFrame, PushFrame DEF RequestsKnow
<1>6. ResetsStaged'
  <2>1. \A q \in Resets : Resetting(q)' = Resetting(q) \ {s}
    BY <1>1, <1>2 DEF Resetting
  <2>2. \A q \in Resets : q # r => Resetting(q)' = Resetting(q)
    BY <1>1, <1>2 DEF Resetting
  <2>3. r \notin overlapped \cup torn => sets[r] \in {0, 1}
    BY <1>1, <1>3 DEF ResetsStaged, Runs, TypeOK
  <2> QED
    BY <1>1, <1>2, <1>3, <2>1, <2>2, <2>3 DEF ResetsStaged, Runs
<1> QED
  BY <1>4, <1>5, <1>6 DEF IInv

LEMMA AppRemovedIInv ==
    ASSUME IInv, NEW d \in Registrations, AppRemoved(d)
    PROVE  IInv'
<1> USE DEF account, reactivation, forgotten
<1>1. /\ TypeOK /\ gone' = gone \cup {d}
      /\ UNCHANGED <<account, fcm, last, risked, reactivation, forgotten, late, req>>
  BY DEF IInv, AppRemoved
<1>2. ~Starts({"login"}) /\ ~Ends({"resolve"}) /\ ~Starts({"password", "used"})
      /\ ~Ends({"password", "used"})
  BY <1>1 DEF Starts, Ends
<1>3. TypeOK'
  BY <1>1 DEF TypeOK
<1>4. RequestsKnow' /\ PushesFollow' /\ DeviceKept'
  BY <1>1 DEF IInv, RequestsKnow, PushesFollow, DeviceKept, Runs
<1>5. LoginsAreLate' /\ DeactivatedIsOut' /\ RequestsAreResolved' /\ ResetsStaged'
  BY <1>1, <1>2, LoginFrame, ResolveFrame, ResetFrame
<1> QED
  BY <1>3, <1>4, <1>5 DEF IInv

LEMMA PushSendIInv ==
    ASSUME IInv, NEW s \in Slots, PushSend(s)
    PROVE  IInv'
<1> USE IdleRequest
<1> DEFINE n == IF req[s].by \in gone THEN [req[s] EXCEPT !.op = "clear"] ELSE Idle
<1>1. /\ TypeOK /\ req[s].op = "push"
      /\ req' = [req EXCEPT ![s] = n]
      /\ UNCHANGED <<account, device, reactivation, forgotten, late>>
  BY DEF IInv, PushSend, Finish, Runs
<1>2. /\ n \in RequestType /\ n.op \in {"idle", "clear"}
      /\ n.op = "clear" => n.by = req[s].by /\ n.by \in gone
  BY <1>1 DEF TypeOK, RequestType, Operation
<1> HIDE DEF n
<1>3. /\ req'[s] = n /\ \A t \in Slots : t # s => req'[t] = req[t]
      /\ req' \in [Slots -> RequestType]
      /\ ~Starts({"login"}) /\ ~Ends({"resolve"})
      /\ ~Starts({"password", "used"}) /\ ~Ends({"password", "used"})
  BY <1>1, <1>2, SlotStep
<1>4. TypeOK'
  BY <1>1, <1>3 DEF TypeOK, account, device, reactivation, forgotten
<1>5. RequestsKnow' /\ PushesFollow' /\ DeviceKept'
  BY <1>1, <1>2, <1>3 DEF IInv, RequestsKnow, PushesFollow, DeviceKept, Runs, device
<1>6. UNCHANGED <<active, token, late>> /\ UNCHANGED <<active, submission, stray>>
  BY <1>1 DEF account, reactivation
<1>7. LoginsAreLate' /\ DeactivatedIsOut' /\ RequestsAreResolved' /\ ResetsStaged'
  BY <1>1, <1>3, <1>6, LoginFrame, ResolveFrame, ResetFrame
<1> QED
  BY <1>4, <1>5, <1>7 DEF IInv

LEMMA PushRefusedIInv ==
    ASSUME IInv, NEW s \in Slots, PushRefused(s)
    PROVE  IInv'
<1> DEFINE n == [req[s] EXCEPT !.op = "clear"]
<1>1. /\ TypeOK /\ req[s].op = "push"
      /\ req' = [req EXCEPT ![s] = n] /\ risked' = risked \cup {req[s].by}
      /\ UNCHANGED <<account, fcm, gone, last, reactivation, forgotten, late>>
  BY DEF IInv, PushRefused, Runs, TypeOK
<1>2. /\ n \in RequestType /\ n.op = "clear" /\ n.by = req[s].by
      /\ n.row = req[s].row /\ n.named = req[s].named
  BY <1>1 DEF TypeOK, RequestType, Operation
<1>3. req[s].by \in Registrations
  BY <1>1 DEF IInv, RequestsKnow
<1> HIDE DEF n
<1>4. /\ req'[s] = n /\ \A t \in Slots : t # s => req'[t] = req[t]
      /\ req' \in [Slots -> RequestType]
      /\ ~Starts({"login"}) /\ ~Ends({"resolve"})
      /\ ~Starts({"password", "used"}) /\ ~Ends({"password", "used"})
  BY <1>1, <1>2, SlotStep
<1>5. TypeOK'
  BY <1>1, <1>3, <1>4 DEF TypeOK, account, reactivation, forgotten
<1>6. RequestsKnow' /\ PushesFollow' /\ DeviceKept'
  BY <1>1, <1>2, <1>3, <1>4 DEF IInv, RequestsKnow, PushesFollow, DeviceKept, Runs
<1>7. UNCHANGED <<active, token, late>> /\ UNCHANGED <<active, submission, stray>>
  BY <1>1 DEF account, reactivation
<1>8. LoginsAreLate' /\ DeactivatedIsOut' /\ RequestsAreResolved' /\ ResetsStaged'
  BY <1>1, <1>4, <1>7, LoginFrame, ResolveFrame, ResetFrame
<1> QED
  BY <1>5, <1>6, <1>8 DEF IInv

LEMMA PushClearIInv ==
    ASSUME IInv, NEW s \in Slots, PushClear(s)
    PROVE  IInv'
<1> USE IdleRequest
<1>1. /\ TypeOK /\ req[s].op = "clear"
      /\ req' = [req EXCEPT ![s] = Idle] /\ fcm' = None
      /\ UNCHANGED <<account, gone, last, risked, reactivation, forgotten, late>>
  BY DEF IInv, PushClear, Finish, Runs
<1>2. /\ req'[s] = Idle /\ \A t \in Slots : t # s => req'[t] = req[t]
      /\ req' \in [Slots -> RequestType]
      /\ ~Starts({"login"}) /\ ~Ends({"resolve"})
      /\ ~Starts({"password", "used"}) /\ ~Ends({"password", "used"})
  BY <1>1, SlotStep
<1>3. TypeOK'
  BY <1>1, <1>2 DEF TypeOK, account, reactivation, forgotten
<1>4. RequestsKnow' /\ PushesFollow' /\ DeviceKept'
  BY <1>1, <1>2 DEF IInv, RequestsKnow, PushesFollow, DeviceKept, Runs
<1>5. UNCHANGED <<active, token, late>> /\ UNCHANGED <<active, submission, stray>>
  BY <1>1 DEF account, reactivation
<1>6. LoginsAreLate' /\ DeactivatedIsOut' /\ RequestsAreResolved' /\ ResetsStaged'
  BY <1>1, <1>2, <1>5, LoginFrame, ResolveFrame, ResetFrame
<1> QED
  BY <1>3, <1>4, <1>6 DEF IInv

LEMMA DieIInv ==
    ASSUME IInv, NEW s \in Slots, Die(s)
    PROVE  IInv'
<1> USE IdleRequest
<1> DEFINE r == req[s].row
<1>1. /\ TypeOK /\ RequestsKnow /\ ResetsStaged /\ RequestsAreResolved
      /\ req' = [req EXCEPT ![s] = Idle]
      /\ stray' = IF Runs(s, "resolve") THEN stray \cup Pending ELSE stray
      /\ torn' = IF Runs(s, "used") THEN torn \cup {r} ELSE torn
      /\ UNCHANGED <<account, device, submission, recent, reset, sets, overlapped, late>>
  BY DEF IInv, Die, Finish
<1>2. /\ req'[s] = Idle /\ \A t \in Slots : t # s => req'[t] = req[t]
      /\ req' \in [Slots -> RequestType]
      /\ ~Starts({"login"}) /\ ~Starts({"push", "clear"})
      /\ \A ops : Ends(ops) => req[s].op \in ops
  BY <1>1, SlotStep
<1>3. stray' \subseteq Submissions /\ torn' \subseteq Resets
  BY <1>1 DEF TypeOK, Pending, RequestsKnow, Runs
<1>4. TypeOK'
  BY <1>1, <1>2, <1>3 DEF TypeOK, account, device
<1>5. RequestsKnow'
  BY <1>1, <1>2 DEF RequestsKnow
<1>6. UNCHANGED <<active, token, late>>
  BY <1>1 DEF account
<1>7. LoginsAreLate' /\ DeactivatedIsOut' /\ PushesFollow' /\ DeviceKept'
  BY <1>1, <1>2, <1>6, LoginFrame, PushFrame
<1>8. RequestsAreResolved'
  <2>1. Pending' = Pending
    BY <1>1 DEF Pending
  <2>2. CASE Runs(s, "resolve")
    BY <1>1, <2>1, <2>2 DEF RequestsAreResolved
  <2>3. CASE ~Runs(s, "resolve")
    BY <1>1, <1>2, <1>6, <2>3, ResolveFrame DEF Runs
  <2> QED
    BY <2>2, <2>3
<1>9. ResetsStaged'
  <2>1. CASE req[s].op = "password"
    <3>1. r \in Resets /\ torn' = torn /\ (r \notin overlapped \cup torn => sets[r] = 0)
      BY <1>1, <2>1 DEF RequestsKnow, ResetsStaged, Runs
    <3>2. \A q \in Resets : q # r => Resetting(q)' = Resetting(q)
      BY <1>1, <1>2, <2>1 DEF Resetting
    <3>3. \A q \in Resets : Resetting(q)' \subseteq Resetting(q)
      BY <1>1, <1>2 DEF Resetting
    <3>4. UNCHANGED <<reset, sets, overlapped, torn>>
      BY <1>1, <3>1
    <3>5. ASSUME NEW q \in Resets \ (overlapped \cup torn)
          PROVE  /\ \A t, u \in Resetting(q)' : t = u
                 /\ \A t \in Slots : req'[t].row = q =>
                       /\ req'[t].op = "password" => sets[q] = 0
                       /\ req'[t].op = "used" => sets[q] <= 1
                 /\ Resetting(q)' = {} => sets[q] = 0 \/ (sets[q] = 1 /\ reset[q] = "USED")
      <4>1. \A t, u \in Resetting(q)' : t = u
        BY <1>1, <3>3, <3>5 DEF ResetsStaged
      <4>2. \A t \in Slots : req'[t].row = q =>
               /\ req'[t].op = "password" => sets[q] = 0
               /\ req'[t].op = "used" => sets[q] <= 1
        BY <1>1, <1>2, <3>5 DEF ResetsStaged, Runs
      <4>3. Resetting(q)' = {} => sets[q] = 0 \/ (sets[q] = 1 /\ reset[q] = "USED")
        BY <1>1, <3>1, <3>2, <3>5 DEF ResetsStaged
      <4> QED
        BY <4>1, <4>2, <4>3
    <3> QED
      BY <3>4, <3>5 DEF ResetsStaged, Runs
  <2>2. CASE req[s].op = "used"
    <3>1. torn' = torn \cup {r}
      BY <1>1, <2>2 DEF Runs
    <3>2. \A q \in Resets : q # r => Resetting(q)' = Resetting(q)
      BY <1>1, <1>2 DEF Resetting
    <3> QED
      BY <1>1, <1>2, <3>1, <3>2 DEF ResetsStaged, Runs
  <2>3. CASE req[s].op \notin {"password", "used"}
    <3>1. torn' = torn /\ UNCHANGED forgotten
      BY <1>1, <2>3 DEF Runs, forgotten
    <3>2. ~Starts({"password", "used"}) /\ ~Ends({"password", "used"})
      BY <1>1, <2>3, SlotStep
    <3> QED
      BY <3>1, <3>2, ResetFrame
  <2> QED
    BY <2>1, <2>2, <2>3
<1> QED
  BY <1>4, <1>5, <1>7, <1>8, <1>9 DEF IInv

-----------------------------------------------------------------------------
LEMMA NextIInv == IInv /\ [Next]_vars => IInv'
<1> SUFFICES ASSUME IInv, [Next]_vars PROVE IInv'
  OBVIOUS
<1>1. ASSUME NEW s \in Slots, BeginStep(s) PROVE IInv'
  <2>1. PICK r : Opens(s, r)
    BY <1>1, BeginStepOpens DEF IInv
  <2> QED
    BY <2>1, OpensIInv
<1>2. ASSUME NEW s \in Slots,
             \/ LoginCommit(s) \/ LogoutCommit(s) \/ DeactivateAccountCommit(s)
             \/ ReactivateAccountCommit(s)
      PROVE  IInv'
  BY <1>2, LoginCommitIInv, SessionIInv, ReactivateIInv
<1>3. ASSUME NEW s \in Slots,
             \/ \E x \in Submissions :
                  RequestReactivationCommit(s, x) \/ CreateContactSubmissionCommit(s, x)
             \/ ReactivateAccountResolve(s)
      PROVE  IInv'
  BY <1>3, ReactivationIInv
<1>4. ASSUME NEW s \in Slots,
             \/ ResendForgotOtpExpire(s) \/ VerifyForgotOtpCommit(s)
             \/ \E r \in Resets : ResendForgotOtpCreate(s, r)
      PROVE  IInv'
  BY <1>4, CodeIInv
<1>5. ASSUME NEW s \in Slots,
             \/ \E r \in Resets : ResetPasswordRead(s, r)
             \/ ResetPasswordWrite(s) \/ ResetPasswordUsed(s)
      PROVE  IInv'
  BY <1>5, ResetPasswordReadIInv, ResetPasswordWriteIInv, ResetPasswordUsedIInv
<1>6. ASSUME NEW s \in Slots, PushSend(s) \/ PushRefused(s) \/ PushClear(s) \/ Die(s)
      PROVE  IInv'
  BY <1>6, PushSendIInv, PushRefusedIInv, PushClearIInv, DieIInv
<1>7. ASSUME NEW r \in Resets, ForgotPassword(r) \/ ResetExpires(r) PROVE IInv'
  BY <1>7, CodeIInv
<1>8. ASSUME NEW d \in Registrations, AppRemoved(d) PROVE IInv'
  BY <1>8, AppRemovedIInv
<1>9. ASSUME MinutesPass \/ VerifyTrader \/ \E x \in Submissions : UpdateContactStatus(x)
      PROVE  IInv'
  BY <1>9, ReactivationIInv
<1>10. CASE UNCHANGED vars
  BY <1>10 DEF vars, IInv, TypeOK, RequestsKnow, LoginsAreLate, DeactivatedIsOut,
               RequestsAreResolved, Pending, Doing, PushesFollow, DeviceKept, ResetsStaged,
               Resetting, Runs
<1>11. CASE Next
  BY <1>1, <1>2, <1>3, <1>4, <1>5, <1>6, <1>7, <1>8, <1>9, <1>11 DEF Next, BeginStep
<1> QED
  BY <1>10, <1>11

LEMMA SpecIInv == Spec => []IInv
  BY InitIInv, NextIInv, PTL DEF Spec

\* Columns and requests keep their types.
THEOREM TypeIsCorrect == Spec => []TypeOK
<1>1. IInv => TypeOK
  BY DEF IInv
<1> QED
  BY <1>1, SpecIInv, PTL

\* A deactivated account has no session but of a login that was under way, and a
\* reactivation leaves no message of the user open: what is open in an active account
\* was sent, or reopened by an admin, since it is active, or was left by a reactivation
\* that died or by verifyTrader, or is about to be resolved.
THEOREM DeactivationIsSafe == Spec => []DeactivationHolds
<1>1. IInv => DeactivationHolds
  BY DEF IInv, DeactivationHolds
<1> QED
  BY <1>1, SpecIInv, PTL

\* A row of a forgotten password sets the password once, unless two resets overlap
\* or one dies before usedAt.
THEOREM ResetsAreUsedOnce == Spec => []ResetSetsOnce
<1>1. ASSUME IInv, NEW r \in Resets \ (overlapped \cup torn)
      PROVE  sets[r] <= 1
  <2>1. sets[r] \in 0 .. 2
    BY <1>1 DEF IInv, TypeOK
  <2>2. CASE Resetting(r) = {}
    BY <1>1, <2>1, <2>2 DEF IInv, ResetsStaged
  <2>3. CASE Resetting(r) # {}
    <3>1. PICK s \in Slots : req[s].op \in {"password", "used"} /\ req[s].row = r
      BY <2>3 DEF Resetting
    <3> QED
      BY <1>1, <2>1, <3>1 DEF IInv, ResetsStaged, Runs
  <2> QED
    BY <2>2, <2>3
<1>2. IInv => ResetSetsOnce
  BY <1>1 DEF ResetSetsOnce
<1> QED
  BY <1>2, SpecIInv, PTL

\* Pushes go to the app of the last login that named one, unless FCM refused it or
\* the failure of a push to an earlier one took the column from it.
THEOREM DeviceIsKept == Spec => []DeviceKept
<1>1. IInv => DeviceKept
  BY DEF IInv
<1> QED
  BY <1>1, SpecIInv, PTL
=============================================================================
