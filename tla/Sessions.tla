------------------------------ MODULE Sessions ------------------------------
(***************************************************************************)
(* The sessions of one user: login, logout, deactivation and reactivation, *)
(* the reset of the password, and the device that gets push messages.      *)
(* auth.service.ts, auth.middleware.ts, reactivateAccount and verifyTrader *)
(* of admin.service.ts, contact.service.ts, notification.processor.ts.     *)
(*                                                                         *)
(* A user has one token and one FCM token at a time, both columns of the   *)
(* User row that handlers overwrite by id.  A handler that decides on what *)
(* it read before it writes is two actions or more, and may die between.   *)
(*                                                                         *)
(* A registration stands for the app on one device, with its FCM token and *)
(* the access token of its last login: reinstalled, it is another one.     *)
(* A request for reactivation is a row among the user's messages to the    *)
(* support, which no handler tells from the others.                        *)
(*                                                                         *)
(* The password itself, the verification of the e-mail address, the wording *)
(* of mails and caches are left out.  No code sets the status BLOCKED.     *)
(***************************************************************************)
EXTENDS Naturals, FiniteSets

CONSTANTS
    Registrations,  \* apps the user logs in from
    Submissions,    \* ContactSubmission rows of the user
    Resets,         \* PasswordResetOtp rows of the user
    Slots,          \* requests and queue workers that run at the same time
    None            \* null

ASSUME ConstantsAssumption == None \notin Registrations \cup Submissions \cup Resets

VARIABLES
    active,     \* User.status = ACTIVE, else INACTIVE
    token,      \* User.token: the registration whose token it is
    fcm,        \* User.fcmToken
    rejected,   \* verificationStatus = REJECTED
    gone,       \* registrations that FCM no longer knows
    submission, \* the status of each message; HANDLED stands for IN_PROGRESS, RESOLVED
                \* and CLOSED, which are all the same to the handlers
    recent,     \* one of them is less than five minutes old
    reset,      \* the rows of forgotten passwords
    req,        \* the request each slot runs
    last,       \* history: the registration of the last login that named one
    late,       \* history: logins that were under way at the last deactivation
    risked,     \* history: registrations that logged in during a push, or for which FCM
                \* refused a message as invalid
    stray,      \* history: open messages that came or were reopened when the account
                \* was active, or that were left open when it became so
    sets,       \* history: how often a reset set the password, up to 2
    overlapped, \* history: resets that ran twice at the same time
    torn        \* history: resets that ended between password and usedAt

account == <<active, token, rejected>>
device == <<fcm, gone, last, risked>>
reactivation == <<submission, recent, stray>>
forgotten == <<reset, sets, overlapped, torn>>
vars == <<active, token, fcm, rejected, gone, submission, recent, reset, req, last, late,
          risked, stray, sets, overlapped, torn>>

Operation == {"idle", "login", "logout", "deactivate", "contact", "ask", "reactivate",
              "resolve", "push", "clear", "verify", "password", "used", "resend"}
RequestType == [op : Operation, by : Registrations \cup {None},
                row : Resets \cup {None}, named : BOOLEAN]
Request(op, by, row, named) == [op |-> op, by |-> by, row |-> row, named |-> named]
Idle == Request("idle", None, None, FALSE)

Runs(s, op) == req[s].op = op
Doing(op) == {s \in Slots : Runs(s, op)}
Begin(s, r) == req[s] = Idle /\ req' = [req EXCEPT ![s] = r]
Finish(s) == req' = [req EXCEPT ![s] = Idle]

Pending == {x \in Submissions : submission[x] = "PENDING"}
Resetting(r) == {s \in Slots : req[s].op \in {"password", "used"} /\ req[s].row = r}
\* Pushes to the last registration, or those that have found it gone, are under way.
Pushing == Doing("push") \cup Doing("clear")

-----------------------------------------------------------------------------
\* After customerRegister, or traderRegisterStep1 and a first login.
Init ==
    /\ active = TRUE /\ rejected = FALSE
    /\ token \in Registrations \cup {None}
    /\ fcm \in {token, None}
    /\ gone = {}
    /\ submission = [x \in Submissions |-> "NONE"] /\ recent = FALSE
    /\ reset = [r \in Resets |-> "NONE"]
    /\ req = [s \in Slots |-> Idle]
    /\ last = fcm /\ late = {} /\ risked = {} /\ stray = {}
    /\ sets = [r \in Resets |-> 0] /\ overlapped = {} /\ torn = {}

(***************************************************************************)
(* Sessions.  AuthMiddleware lets a request through if it brings the token *)
(* of the row; it does not look at the status.                             *)
(***************************************************************************)
Authorized(d) == d # None /\ token = d

\* Mutant: the status is not tested.
LoginReadAnyStatus(s, d, named) ==
    /\ ~rejected /\ d \notin gone
    /\ Begin(s, Request("login", d, None, named))
    /\ UNCHANGED <<account, device, reactivation, forgotten, late>>

LoginRead(s, d, named) ==
    /\ active /\ ~rejected /\ d \notin gone
    /\ Begin(s, Request("login", d, None, named))
    /\ UNCHANGED <<account, device, reactivation, forgotten, late>>

\* The token and, if the client sent one, the FCM token.
LoginCommit(s) ==
    /\ Runs(s, "login")
    /\ token' = req[s].by
    /\ IF req[s].named
       THEN /\ fcm' = req[s].by /\ last' = req[s].by
            /\ risked' = IF Pushing = {} THEN risked ELSE risked \cup {req[s].by}
       ELSE UNCHANGED <<fcm, last, risked>>
    /\ Finish(s)
    /\ UNCHANGED <<active, rejected, gone, reactivation, forgotten, late>>

LogoutRead(s, d) ==
    /\ Authorized(d)
    /\ Begin(s, Request("logout", d, None, FALSE))
    /\ UNCHANGED <<account, device, reactivation, forgotten, late>>

\* Mutant: the token is emptied, not set to null.
LogoutCommitEmpties(s) ==
    /\ Runs(s, "logout")
    /\ token' = ""
    /\ Finish(s)
    /\ UNCHANGED <<active, rejected, device, reactivation, forgotten, late>>

\* Whoever has logged in meanwhile is logged out, too. The FCM token stays.
LogoutCommit(s) ==
    /\ Runs(s, "logout")
    /\ token' = None
    /\ Finish(s)
    /\ UNCHANGED <<active, rejected, device, reactivation, forgotten, late>>

DeactivateAccountRead(s, d) ==
    /\ Authorized(d) /\ active
    /\ Begin(s, Request("deactivate", d, None, FALSE))
    /\ UNCHANGED <<account, device, reactivation, forgotten, late>>

DeactivateAccountCommit(s) ==
    /\ Runs(s, "deactivate")
    /\ active' = FALSE /\ token' = None
    /\ late' = {req[t].by : t \in Doing("login")}
    /\ Finish(s)
    /\ UNCHANGED <<rejected, device, reactivation, forgotten>>

(***************************************************************************)
(* Reactivation.                                                           *)
(***************************************************************************)
RequestReactivationRead(s) ==
    /\ ~active /\ ~recent
    /\ Begin(s, Request("ask", None, None, FALSE))
    /\ UNCHANGED <<account, device, reactivation, forgotten, late>>

\* A new row of this user.
Submit(s, x) ==
    /\ submission[x] = "NONE"
    /\ submission' = [submission EXCEPT ![x] = "PENDING"]
    /\ recent' = TRUE
    /\ stray' = IF active THEN stray \cup {x} ELSE stray
    /\ Finish(s)
    /\ UNCHANGED <<account, device, forgotten, late>>

RequestReactivationCommit(s, x) == Runs(s, "ask") /\ Submit(s, x)

\* Any message of a user who is logged in, a deactivated one with a late token included.
CreateContactSubmissionRead(s, d) ==
    /\ Authorized(d)
    /\ Begin(s, Request("contact", None, None, FALSE))
    /\ UNCHANGED <<account, device, reactivation, forgotten, late>>

CreateContactSubmissionCommit(s, x) == Runs(s, "contact") /\ Submit(s, x)

\* An admin gives a message any status, whatever it has and whoever has given it: a
\* message is handled, or handled and opened again.
UpdateContactStatus(x) ==
    /\ submission[x] # "NONE"
    /\ \/ /\ submission' = [submission EXCEPT ![x] = "PENDING"]
          /\ stray' = IF active THEN stray \cup {x} ELSE stray
       \/ /\ submission' = [submission EXCEPT ![x] = "HANDLED"]
          /\ stray' = stray \ {x}
    /\ UNCHANGED <<account, device, recent, forgotten, late, req>>

\* The five minutes are over.
MinutesPass ==
    /\ recent
    /\ recent' = FALSE
    /\ UNCHANGED <<account, device, submission, stray, forgotten, late, req>>

ReactivateAccountRead(s) ==
    /\ ~active
    /\ Begin(s, Request("reactivate", None, None, FALSE))
    /\ UNCHANGED <<account, device, reactivation, forgotten, late>>

ReactivateAccountCommit(s) ==
    /\ Runs(s, "reactivate")
    /\ active' = TRUE
    /\ req' = [req EXCEPT ![s].op = "resolve"]
    /\ UNCHANGED <<token, rejected, device, reactivation, forgotten, late>>

\* Mutant: one request is resolved, the one the admin looked at.
ReactivateAccountResolveOne(s) ==
    /\ Runs(s, "resolve")
    /\ \E x \in Pending : /\ submission' = [submission EXCEPT ![x] = "HANDLED"]
                          /\ stray' = stray \ {x}
    /\ Finish(s)
    /\ UNCHANGED <<account, device, recent, forgotten, late>>

\* All messages of the user that are pending by now, whatever they are about.
ReactivateAccountResolve(s) ==
    /\ Runs(s, "resolve")
    /\ submission' = [x \in Submissions |-> IF x \in Pending THEN "HANDLED" ELSE submission[x]]
    /\ stray' = stray \ Pending
    /\ Finish(s)
    /\ UNCHANGED <<account, device, recent, forgotten, late>>

\* verifyTrader makes the account active, whatever the decision is and the status was.
VerifyTrader ==
    /\ rejected' \in BOOLEAN
    /\ active' = TRUE
    /\ stray' = IF active THEN stray ELSE stray \cup Pending
    /\ UNCHANGED <<token, device, submission, recent, forgotten, late, req>>

(***************************************************************************)
(* Forgotten passwords.                                                    *)
(***************************************************************************)
ForgotPassword(r) ==
    /\ reset[r] = "NONE"
    /\ reset' = [reset EXCEPT ![r] = "SENT"]
    /\ UNCHANGED <<account, device, reactivation, sets, overlapped, torn, late, req>>

\* resendForgotOtp ends the life of all codes that are not verified ...
ResendForgotOtpExpire(s) ==
    /\ Begin(s, Request("resend", None, None, FALSE))
    /\ reset' = [r \in Resets |-> IF reset[r] = "SENT" THEN "EXPIRED" ELSE reset[r]]
    /\ UNCHANGED <<account, device, reactivation, sets, overlapped, torn, late>>

\* ... and creates another.
ResendForgotOtpCreate(s, r) ==
    /\ Runs(s, "resend")
    /\ reset[r] = "NONE"
    /\ reset' = [reset EXCEPT ![r] = "SENT"]
    /\ Finish(s)
    /\ UNCHANGED <<account, device, reactivation, sets, overlapped, torn, late>>

VerifyForgotOtpRead(s, r) ==
    /\ reset[r] = "SENT"
    /\ Begin(s, Request("verify", None, r, FALSE))
    /\ UNCHANGED <<account, device, reactivation, forgotten, late>>

\* Written by id: a code that expired or was replaced since then is verified all the
\* same, and a second verification does not make a used row usable.
VerifyForgotOtpCommit(s) ==
    /\ Runs(s, "verify")
    /\ reset' = [reset EXCEPT ![req[s].row] = IF @ = "USED" THEN "USED" ELSE "VERIFIED"]
    /\ Finish(s)
    /\ UNCHANGED <<account, device, reactivation, sets, overlapped, torn, late>>

\* Ten minutes are over, for a code or for a reset token.
ResetExpires(r) ==
    /\ reset[r] \in {"SENT", "VERIFIED"}
    /\ reset' = [reset EXCEPT ![r] = "EXPIRED"]
    /\ UNCHANGED <<account, device, reactivation, sets, overlapped, torn, late, req>>

\* Mutant: usedAt is not tested.
ResetPasswordReadAgain(s, r) ==
    /\ reset[r] \in {"VERIFIED", "USED"}
    /\ Begin(s, Request("password", None, r, FALSE))
    /\ overlapped' = IF Resetting(r) = {} THEN overlapped ELSE overlapped \cup {r}
    /\ UNCHANGED <<account, device, reactivation, reset, sets, torn, late>>

\* resetPassword finds the row by its token: verified, not used, not expired ...
ResetPasswordRead(s, r) ==
    /\ reset[r] = "VERIFIED"
    /\ Begin(s, Request("password", None, r, FALSE))
    /\ overlapped' = IF Resetting(r) = {} THEN overlapped ELSE overlapped \cup {r}
    /\ UNCHANGED <<account, device, reactivation, reset, sets, torn, late>>

\* ... writes the password ...
ResetPasswordWrite(s) ==
    /\ Runs(s, "password")
    /\ sets' = [sets EXCEPT ![req[s].row] = IF @ = 2 THEN 2 ELSE @ + 1]
    /\ req' = [req EXCEPT ![s].op = "used"]
    /\ UNCHANGED <<account, device, reactivation, reset, overlapped, torn, late>>

\* ... and then usedAt. No session is ended.
ResetPasswordUsed(s) ==
    /\ Runs(s, "used")
    /\ reset' = [reset EXCEPT ![req[s].row] = "USED"]
    /\ Finish(s)
    /\ UNCHANGED <<account, device, reactivation, sets, overlapped, torn, late>>

(***************************************************************************)
(* Push messages: a worker of the queue, at least once per notification.   *)
(***************************************************************************)
PushRead(s) ==
    /\ fcm # None
    /\ Begin(s, Request("push", fcm, None, FALSE))
    /\ UNCHANGED <<account, device, reactivation, forgotten, late>>

\* The app is removed from a device.
AppRemoved(d) ==
    /\ d \notin gone
    /\ gone' = gone \cup {d}
    /\ UNCHANGED <<account, fcm, last, risked, reactivation, forgotten, late, req>>

\* Mutant: any error is taken for an unknown registration.
PushSendAnyError(s) ==
    /\ Runs(s, "push")
    /\ req' = [req EXCEPT ![s].op = "clear"]
    /\ UNCHANGED <<account, device, reactivation, forgotten, late>>

\* FCM takes the message, or refuses a registration it does not know. Errors but this
\* and the next one make the worker throw, which is Die, and BullMQ tries again.
PushSend(s) ==
    /\ Runs(s, "push")
    /\ IF req[s].by \in gone THEN req' = [req EXCEPT ![s].op = "clear"] ELSE Finish(s)
    /\ UNCHANGED <<account, device, reactivation, forgotten, late>>

\* FCM refuses the message as an invalid argument, because it is too long, say. The
\* worker takes that for an unknown registration.
PushRefused(s) ==
    /\ Runs(s, "push")
    /\ req' = [req EXCEPT ![s].op = "clear"]
    /\ risked' = risked \cup {req[s].by}
    /\ UNCHANGED <<account, fcm, gone, last, reactivation, forgotten, late>>

\* The column is cleared, whichever registration is in it by now.
PushClear(s) ==
    /\ Runs(s, "clear")
    /\ fcm' = None
    /\ Finish(s)
    /\ UNCHANGED <<account, gone, last, risked, reactivation, forgotten, late>>

\* The server dies, or a statement fails.
Die(s) ==
    /\ req[s] # Idle
    /\ Finish(s)
    /\ stray' = IF Runs(s, "resolve") THEN stray \cup Pending ELSE stray
    /\ torn' = IF Runs(s, "used") THEN torn \cup {req[s].row} ELSE torn
    /\ UNCHANGED <<account, device, submission, recent, reset, sets, overlapped, late>>

-----------------------------------------------------------------------------
Next ==
    \/ \E s \in Slots :
         \/ \E d \in Registrations :
              \/ \E named \in BOOLEAN : LoginRead(s, d, named)
              \/ LogoutRead(s, d) \/ DeactivateAccountRead(s, d)
              \/ CreateContactSubmissionRead(s, d)
         \/ LoginCommit(s) \/ LogoutCommit(s) \/ DeactivateAccountCommit(s)
         \/ RequestReactivationRead(s)
         \/ \E x \in Submissions :
              RequestReactivationCommit(s, x) \/ CreateContactSubmissionCommit(s, x)
         \/ ReactivateAccountRead(s) \/ ReactivateAccountCommit(s) \/ ReactivateAccountResolve(s)
         \/ \E r \in Resets :
              \/ ResendForgotOtpCreate(s, r)
              \/ VerifyForgotOtpRead(s, r) \/ ResetPasswordRead(s, r)
         \/ ResendForgotOtpExpire(s) \/ VerifyForgotOtpCommit(s)
         \/ ResetPasswordWrite(s) \/ ResetPasswordUsed(s)
         \/ PushRead(s) \/ PushSend(s) \/ PushRefused(s) \/ PushClear(s)
         \/ Die(s)
    \/ \E r \in Resets : ForgotPassword(r) \/ ResetExpires(r)
    \/ \E d \in Registrations : AppRemoved(d)
    \/ \E x \in Submissions : UpdateContactStatus(x)
    \/ MinutesPass \/ VerifyTrader

Spec == Init /\ [][Next]_vars

-----------------------------------------------------------------------------
\* Types of the columns and of what requests remember.
TypeOK ==
    /\ active \in BOOLEAN /\ rejected \in BOOLEAN /\ recent \in BOOLEAN
    /\ token \in Registrations \cup {None} /\ fcm \in Registrations \cup {None}
    /\ last \in Registrations \cup {None}
    /\ gone \subseteq Registrations /\ risked \subseteq Registrations
    /\ late \subseteq Registrations
    /\ submission \in [Submissions -> {"NONE", "PENDING", "HANDLED"}]
    /\ stray \subseteq Submissions
    /\ reset \in [Resets -> {"NONE", "SENT", "VERIFIED", "USED", "EXPIRED"}]
    /\ sets \in [Resets -> 0 .. 2]
    /\ overlapped \subseteq Resets /\ torn \subseteq Resets
    /\ req \in [Slots -> RequestType]

\* deactivateAccount ends the session, and a deactivated account gets none: only a
\* login that had passed the test of the status before writes its token afterwards,
\* and the middleware, which does not test the status, takes it.
DeactivatedIsOut == ~active => token = None \/ token \in late

\* A reactivation leaves nothing of the user open, or somebody is about to resolve it:
\* what is open in an active account was sent, or reopened by an admin, since it is
\* active, or was left by a reactivation that died half way or by verifyTrader.
RequestsAreResolved == active => Pending \subseteq stray \/ Doing("resolve") # {}

\* What a deactivation and a reactivation promise.
DeactivationHolds == DeactivatedIsOut /\ RequestsAreResolved

\* The row of a forgotten password sets the password once, though usedAt is written
\* after it and by id, codes may be verified late or twice and tokens expire at any
\* moment, unless two resets overlap or one dies before usedAt.
ResetSetsOnce == \A r \in Resets \ (overlapped \cup torn) : sets[r] <= 1

\* Pushes go to the registration of the last login that named one. If there is none,
\* FCM refused that registration or a message to it, or the login came during a push
\* to an earlier one, whose failure clears the column without a second look.
DeviceKept == fcm = last \/ (fcm = None /\ last \in gone \cup risked)
=============================================================================
