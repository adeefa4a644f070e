------------------------------ MODULE Accounts ------------------------------
(***************************************************************************)
(* The account of one trader after the first step of the registration:     *)
(* auth.service.ts (third step, profile, categories), verifyTrader and     *)
(* reviewCategoryChangeRequest of admin.service.ts, confirmPayment of      *)
(* payment.service.ts, and the changes of plan, which decide how many      *)
(* trade categories the trader may have.                                   *)
(*                                                                         *)
(* A handler that decides on rows it read before it writes is two actions, *)
(* or more; any of its statements may be the last, as the server may die.  *)
(* Transactions are READ COMMITTED, so that of two transactions that read  *)
(* the same request or no request both may write.                          *)
(*                                                                         *)
(* Categories are counted, not named.  Skills follow the categories.  The  *)
(* rows of payments, history and metrics, the registrationStep (the second *)
(* step may be repeated and puts it back), isVerified and the status of    *)
(* the user, mails and caches are left out.                                *)
(***************************************************************************)
EXTENDS Naturals, FiniteSets

CONSTANTS
    Plans,      \* ranks of the subscription plans
    NoPlan,     \* no subscription, no tier
    Max,        \* maxTrades of each plan
    Trials,     \* plans with a trial
    Counts,     \* how many categories a trader may ask for
    Changes,    \* the TraderCategoryChangeRequest rows of the trader
    NoChange,
    Slots       \* requests the servers run at the same time

ASSUME ConstantsAssumption ==
    /\ Plans \subseteq Nat \ {0} /\ NoPlan = 0
    /\ Max \in [Plans -> Nat]
    /\ Trials \subseteq Plans
    /\ Counts \subseteq Nat /\ 0 \in Counts
    /\ NoChange \notin Changes
    /\ IsFiniteSet(Changes) /\ IsFiniteSet(Slots)

VARIABLES
    approved,   \* verificationStatus = APPROVED
    completed,  \* isRegistrationCompleted
    plan,       \* Subscription.planId, NoPlan if there is no row
    trial,      \* Subscription.isTrial
    tier,       \* TraderProfile.subscriptionTier
    categories, \* tradeCategories of the profile
    change,     \* the requests to change the categories
    req,        \* the request each slot runs
    bought,     \* history: confirmPayment created the subscription
    died,       \* history: a third step ended half way
    torn,       \* history: the plan was written while or since a third step was
                \* between its subscription and its profile
    overlapped  \* history: changes that two requests reviewed at the same time

subscription == <<plan, trial, tier>>
history == <<bought, died, torn, overlapped>>
vars == <<approved, completed, plan, trial, tier, categories, change, req, bought,
          died, torn, overlapped>>

\* How many categories, which request they come from, and the plan whose limit
\* they were held against; no categories are within the limit of every plan.
Selection == [n : Counts, from : Changes \cup {NoChange}, under : Plans \cup {NoPlan}]
Nothing == [n |-> 0, from |-> NoChange, under |-> NoPlan]
Choice(n, c, p) == [n |-> n, from |-> c, under |-> IF n = 0 THEN NoPlan ELSE p]

ChangeState == {"NONE", "PENDING", "APPROVED", "REJECTED"}
Pending == {c \in Changes : change[c].state = "PENDING"}

Operation == {"idle", "step3", "step3Profile", "confirmCreate", "confirmUpdate",
              "categories", "propose", "approve", "reject"}
\* flag: the confirmation resets the categories, the profile brings a document.
RequestType == [op : Operation, plan : Plans \cup {NoPlan}, set : Selection,
                change : Changes \cup {NoChange}, flag : BOOLEAN]
Request(op, p, set, c, flag) ==
    [op |-> op, plan |-> p, set |-> set, change |-> c, flag |-> flag]
Idle == Request("idle", NoPlan, Nothing, NoChange, FALSE)

Running(s, op) == req[s].op = op
Registering == {s \in Slots : Running(s, "step3Profile")}
Proposing == {s \in Slots : Running(s, "propose")}
Reviewing(c) == {s \in Slots : req[s].op \in {"approve", "reject"} /\ req[s].change = c}

Begin(s, r) == req[s] = Idle /\ req' = [req EXCEPT ![s] = r]
Finish(s) == req' = [req EXCEPT ![s] = Idle]

\* The checks of a selection of n categories against the plan of the subscription;
\* that its status must be ACTIVE or TRIAL is left out, with the status.
Allowed(n, p) == p # NoPlan /\ n <= Max[p]

-----------------------------------------------------------------------------
\* After traderRegisterStep1, which creates the user and the profile in one write.
Init ==
    /\ approved = FALSE /\ completed = FALSE
    /\ plan = NoPlan /\ trial = FALSE /\ tier = NoPlan
    /\ categories = Nothing
    /\ change = [c \in Changes |-> [state |-> "NONE", n |-> 0]]
    /\ req = [s \in Slots |-> Idle]
    /\ bought = FALSE /\ died = FALSE /\ torn = FALSE /\ overlapped = {}

\* verifyTrader: the decision does not depend on what it reads.
VerifyTrader ==
    /\ approved' \in BOOLEAN
    /\ UNCHANGED <<completed, subscription, categories, change, req, history>>

(***************************************************************************)
(* traderRegisterStep3: the subscription and the profile are two writes.   *)
(***************************************************************************)
Step3Read(s, p) ==
    /\ approved /\ plan = NoPlan
    /\ Begin(s, Request("step3", p, Nothing, NoChange, FALSE))
    /\ UNCHANGED <<approved, completed, subscription, categories, change, history>>

\* Mutant: the subscription is inserted or overwritten.
Step3CreateOver(s) ==
    /\ Running(s, "step3")
    /\ plan' = req[s].plan
    /\ trial' = (req[s].plan \in Trials)
    /\ req' = [req EXCEPT ![s].op = "step3Profile"]
    /\ UNCHANGED <<approved, completed, tier, categories, change, history>>

\* traderProfileId is unique: a second subscription is refused.
Step3Create(s) ==
    /\ Running(s, "step3")
    /\ IF plan # NoPlan
       THEN Finish(s) /\ UNCHANGED <<plan, trial>>
       ELSE /\ plan' = req[s].plan
            /\ trial' = (req[s].plan \in Trials)
            /\ req' = [req EXCEPT ![s].op = "step3Profile"]
    /\ UNCHANGED <<approved, completed, tier, categories, change, history>>

Step3Profile(s) ==
    /\ Running(s, "step3Profile")
    /\ tier' = req[s].plan
    /\ completed' = TRUE
    /\ Finish(s)
    /\ UNCHANGED <<approved, plan, trial, categories, change, history>>

(***************************************************************************)
(* Other writers of the plan.  Each writes the tier in its transaction.    *)
(***************************************************************************)
PutPlan(p, t) ==
    /\ plan' = p /\ tier' = p /\ trial' = t
    /\ torn' = (Registering # {})

\* confirmPayment of an intent that is paid and not recorded yet.
ConfirmPaymentRead(s, p) ==
    /\ Begin(s, Request(IF plan = NoPlan THEN "confirmCreate" ELSE "confirmUpdate",
                        p, Nothing, NoChange, tier # p))
    /\ UNCHANGED <<approved, completed, subscription, categories, change, history>>

\* The transaction inserts or updates as it was read; the insert may be refused.
ConfirmPaymentCommit(s) ==
    /\ req[s].op \in {"confirmCreate", "confirmUpdate"}
    /\ Finish(s)
    /\ IF Running(s, "confirmCreate") /\ plan # NoPlan
       THEN UNCHANGED <<subscription, categories, bought, torn>>
       ELSE /\ PutPlan(req[s].plan, FALSE)
            /\ categories' = IF req[s].flag THEN Nothing ELSE categories
            /\ bought' = (bought \/ Running(s, "confirmCreate"))
    /\ UNCHANGED <<approved, completed, change, died, overlapped>>

\* changePlan: any plan during a trial, later a higher one. The categories stay.
ChangePlan(p) ==
    /\ plan # NoPlan /\ p # plan
    /\ trial \/ p > plan
    /\ PutPlan(p, trial)
    /\ UNCHANGED <<approved, completed, categories, change, req, bought, died, overlapped>>

\* processRenewals writes the plan or the downgrade that its snapshot of all due rows
\* had; that may be any plan, since the trader may have changed it since then. It
\* empties the categories if it saw a downgrade.
Renew(p) ==
    /\ plan # NoPlan
    /\ PutPlan(p, FALSE)
    /\ categories' \in {categories, Nothing}
    /\ UNCHANGED <<approved, completed, change, req, bought, died, overlapped>>

(***************************************************************************)
(* Categories.                                                             *)
(***************************************************************************)

\* updateTraderCategories with categories, which it holds against the plan.
UpdateTraderCategoriesRead(s, n) ==
    /\ Allowed(n, plan)
    /\ Begin(s, Request("categories", NoPlan, Choice(n, NoChange, plan), NoChange, FALSE))
    /\ UNCHANGED <<approved, completed, subscription, categories, change, history>>

\* Without categories it will write back those it read.
UpdateTraderSkillsRead(s) ==
    /\ Begin(s, Request("categories", NoPlan, categories, NoChange, FALSE))
    /\ UNCHANGED <<approved, completed, subscription, categories, change, history>>

UpdateTraderCategoriesWrite(s) ==
    /\ Running(s, "categories")
    /\ categories' = req[s].set
    /\ Finish(s)
    /\ UNCHANGED <<approved, completed, subscription, change, history>>

\* updateTraderCategorySelection: the limit is that of the plan in the request,
\* whether or not it is the trader's.
UpdateTraderCategorySelection(n, p) ==
    /\ Allowed(n, p)
    /\ categories' = Choice(n, NoChange, p)
    /\ UNCHANGED <<approved, completed, subscription, change, req, history>>

\* updateProfile with a document and no categories.
UpdateProfileDocument ==
    /\ approved' = FALSE
    /\ UNCHANGED <<completed, subscription, categories, change, req, history>>

\* Mutant: a pending request is not looked for.
UpdateProfileReadAgain(s, n, document) ==
    /\ Allowed(n, plan)
    /\ Begin(s, Request("propose", NoPlan, Choice(n, NoChange, NoPlan), NoChange, document))
    /\ UNCHANGED <<approved, completed, subscription, categories, change, history>>

\* updateProfile with categories: the transaction tests the plan and that nothing is
\* pending ...
UpdateProfileRead(s, n, document) ==
    /\ Allowed(n, plan)
    /\ Pending = {}
    /\ Begin(s, Request("propose", NoPlan, Choice(n, NoChange, NoPlan), NoChange, document))
    /\ UNCHANGED <<approved, completed, subscription, categories, change, history>>

\* ... and then inserts the request and commits.
UpdateProfileCommit(s, c) ==
    /\ Running(s, "propose")
    /\ change[c].state = "NONE"
    /\ change' = [change EXCEPT ![c] = [state |-> "PENDING", n |-> req[s].set.n]]
    /\ approved' = (approved /\ ~req[s].flag)
    /\ Finish(s)
    /\ UNCHANGED <<completed, subscription, categories, history>>

ReviewOf(c, action) ==
    Request(action, NoPlan,
            IF action = "approve" THEN Choice(change[c].n, c, plan) ELSE Nothing, c, FALSE)

\* Mutant: a request that was decided may be reviewed again.
ReviewReadAgain(s, c, action) ==
    /\ change[c].state # "NONE"
    /\ action = "approve" => Allowed(change[c].n, plan)
    /\ Begin(s, ReviewOf(c, action))
    /\ overlapped' = IF Reviewing(c) = {} THEN overlapped ELSE overlapped \cup {c}
    /\ UNCHANGED <<approved, completed, subscription, categories, change, bought, died, torn>>

\* Mutant: the approval trusts the limit that was tested with the request.
ReviewReadTrusting(s, c, action) ==
    /\ change[c].state = "PENDING"
    /\ Begin(s, ReviewOf(c, action))
    /\ overlapped' = IF Reviewing(c) = {} THEN overlapped ELSE overlapped \cup {c}
    /\ UNCHANGED <<approved, completed, subscription, categories, change, bought, died, torn>>

\* reviewCategoryChangeRequest reads the request, which must be pending, and holds
\* it against the plan the trader has by now.
ReviewRead(s, c, action) ==
    /\ change[c].state = "PENDING"
    /\ action = "approve" => Allowed(change[c].n, plan)
    /\ Begin(s, ReviewOf(c, action))
    /\ overlapped' = IF Reviewing(c) = {} THEN overlapped ELSE overlapped \cup {c}
    /\ UNCHANGED <<approved, completed, subscription, categories, change, bought, died, torn>>

\* Mutant: the categories of the request are added to those the trader has.
ReviewCommitAdding(s) ==
    /\ Running(s, "approve")
    /\ categories' = [req[s].set EXCEPT !.n = @ + categories.n]
    /\ change' = [change EXCEPT ![req[s].change].state = "APPROVED"]
    /\ Finish(s)
    /\ UNCHANGED <<approved, completed, subscription, history>>

ReviewCommit(s) ==
    /\ \/ /\ Running(s, "approve")
          /\ categories' = req[s].set
          /\ change' = [change EXCEPT ![req[s].change].state = "APPROVED"]
       \/ /\ Running(s, "reject")
          /\ change' = [change EXCEPT ![req[s].change].state = "REJECTED"]
          /\ UNCHANGED categories
    /\ Finish(s)
    /\ UNCHANGED <<approved, completed, subscription, history>>

\* The server of the request dies, or one of its statements fails.
Die(s) ==
    /\ req[s] # Idle
    /\ Finish(s)
    /\ died' = (died \/ Running(s, "step3Profile"))
    /\ torn' = (torn \/ Running(s, "step3Profile"))
    /\ UNCHANGED <<approved, completed, subscription, categories, change, bought, overlapped>>

-----------------------------------------------------------------------------
Next ==
    \/ VerifyTrader \/ UpdateProfileDocument
    \/ \E p \in Plans : ChangePlan(p) \/ Renew(p)
    \/ \E n \in Counts, p \in Plans : UpdateTraderCategorySelection(n, p)
    \/ \E s \in Slots :
         \/ \E p \in Plans : Step3Read(s, p) \/ ConfirmPaymentRead(s, p)
         \/ Step3Create(s) \/ Step3Profile(s)
         \/ ConfirmPaymentCommit(s)
         \/ \E n \in Counts : UpdateTraderCategoriesRead(s, n)
         \/ UpdateTraderSkillsRead(s)
         \/ UpdateTraderCategoriesWrite(s)
         \/ \E n \in Counts, document \in BOOLEAN : UpdateProfileRead(s, n, document)
         \/ \E c \in Changes : UpdateProfileCommit(s, c)
         \/ \E c \in Changes, action \in {"approve", "reject"} : ReviewRead(s, c, action)
         \/ ReviewCommit(s)
         \/ Die(s)

Spec == Init /\ [][Next]_vars

-----------------------------------------------------------------------------
\* Types of the rows and of what requests remember.
TypeOK ==
    /\ approved \in BOOLEAN /\ completed \in BOOLEAN
    /\ plan \in Plans \cup {NoPlan} /\ tier \in Plans \cup {NoPlan}
    /\ trial \in BOOLEAN
    /\ categories \in Selection
    /\ change \in [Changes -> [state : ChangeState, n : Counts]]
    /\ req \in [Slots -> RequestType]
    /\ bought \in BOOLEAN /\ died \in BOOLEAN /\ torn \in BOOLEAN
    /\ overlapped \subseteq Changes

\* traderRegisterStep3 is no transaction, and confirmPayment creates subscriptions
\* too. Once no third step is between its writes, the registration is completed
\* exactly if there is a subscription, except for the two known ways into a dead
\* end: a third step died half way, or the trader's payment was confirmed before
\* the third step. Racing third steps with different plans do no harm.
RegistrationSettles ==
    Registering = {} => (completed <=> plan # NoPlan /\ ~died /\ ~bought)

\* At rest the tier of the profile is the plan of the subscription, whichever
\* third steps, confirmations, changes of plan and renewals ran, unless the plan
\* was written again before the third step wrote the profile, or that step died.
\* It is where the model of a registered trader's subscription starts from.
TierFollowsRegistration ==
    Registering = {} /\ ~torn => tier = plan

\* What a trader's registration leaves behind once it is at rest.
RegistrationConsistent == RegistrationSettles /\ TierFollowsRegistration

\* The categories in force and those a request is going to write.
UnderWay == {categories} \cup
    {req[s].set : s \in {t \in Slots : req[t].op \in {"categories", "approve"}}}

\* The trader never has, and will not get by a write under way, more categories
\* than a plan allowed that the number was held against: approval looks at the plan
\* again, since it may have changed after the request, and what is written back
\* was allowed when it was chosen. More than the present plan allows is only
\* possible with a selection made for another plan.
CategoriesWereAllowed ==
    \A x \in UnderWay : x.n > 0 => Allowed(x.n, x.under)

\* Categories that come from a request come from one that was approved, though
\* writes of older categories, other reviews and changes of plan interleave. Two
\* reviews of one request at the same time are not prevented: then the last wins,
\* and a rejected request may be in force.
AppliedWasApproved ==
    \A c \in Changes \ overlapped : categories.from = c => change[c].state = "APPROVED"

\* One pending request per trader is a test before an insert. Updates of the
\* profile running at the same time overshoot it by at most their number.
PendingOvershoot ==
    Cardinality(Pending) + Cardinality(Proposing) <= Cardinality(Slots)
=============================================================================
