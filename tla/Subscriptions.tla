---------------------------- MODULE Subscriptions ----------------------------
(***************************************************************************)
(* The subscription of one trader who has completed the registration:      *)
(* subscriptions.service.ts (changes of plan, the renewal cron) and        *)
(* payment.service.ts (the confirmation by the trader, the webhooks of     *)
(* Stripe).                                                                *)
(*                                                                         *)
(* A handler reads the subscription and writes later, so it is two actions *)
(* that the others may interleave; a Prisma transaction is one action.     *)
(* processRenewals is run by the cron of every server and by every request *)
(* to POST process-renewals, which asks for no role, so any number of runs *)
(* may be under way, on one server too.  Its Redis lock is not in the      *)
(* model because it excludes nobody: RedisService.set has no NX and        *)
(* returns nothing, so the test for null never succeeds.                   *)
(*                                                                         *)
(* Plans are their ranks (TIER_RANK).  Time is two flags, which the query  *)
(* of the cron compares with now: the trial is over, the paid period is    *)
(* over.  planId and currentPlanId are always written together; currency,  *)
(* history rows and caches are left out.  No code sets CANCELLED or        *)
(* EXPIRED.                                                                *)
(***************************************************************************)
EXTENDS Naturals, FiniteSets

CONSTANTS
    Tiers,      \* ranks of the plans
    NoTier,     \* pendingPlanId = null
    Cycles,     \* MONTHLY, YEARLY
    Price,      \* amount of each active price: a function of <<tier, cycle>>
    Intents,    \* payment intents of the trader
    NoIntent,   \* changePlan without a paymentIntentId
    Slots,      \* handlers of the trader's requests running at the same time
    Runs,       \* runs of processRenewals at the same time, on any servers
    EndBound    \* bound: times a trial or a period ends

Prices == DOMAIN Price

ASSUME ConstantsAssumption ==
    /\ Tiers \subseteq Nat \ {0} /\ NoTier = 0
    /\ Prices \subseteq Tiers \X Cycles
    /\ \A p \in Prices : Price[p] \in Nat \ {0}
    /\ NoIntent \notin Intents
    /\ IsFiniteSet(Runs)
    /\ EndBound \in Nat

VARIABLES
    sub,        \* the Subscription row
    tier,       \* TraderProfile.subscriptionTier
    trialOver,  \* trialEndsAt (and trialEndDate) <= now
    periodOver, \* currentPeriodEnd (and endDate) <= now
    req,        \* the request each slot runs
    run,        \* the subscription as each run of processRenewals read it
    intent,     \* Stripe's record of each payment intent
    paidRows,   \* SubscriptionPayment rows with status SUCCESS of each intent
    failedRow,  \* there is a FAILED row of the intent
    hook,       \* the delivery of payment_intent.succeeded of each intent
    endings,    \* history: how often the trial or a period ended
    renewals,   \* history: how often a renewal was charged
    overtaken   \* history: how often when the row was due no more

row == <<sub, tier, trialOver, periodOver>>
stripe == <<intent, hook>>
ledger == <<paidRows, failedRow>>
charges == <<renewals, overtaken>>
vars == <<sub, tier, trialOver, periodOver, req, run, intent, paidRows,
          failedRow, hook, endings, renewals, overtaken>>

\* priced is the cycle of the price in priceId.
SubscriptionType == [plan : Tiers, cycle : Cycles, priced : Cycles,
                     pending : Tiers \cup {NoTier},
                     status : {"TRIAL", "ACTIVE"}, trial : BOOLEAN]

Idle == [op |-> "idle"]
RequestType ==
    {Idle}
    \cup [op : {"switch", "downgrade"}, plan : Tiers, cycle : Cycles]
    \cup [op : {"upgrade"}, plan : Tiers, cycle : Cycles, resets : BOOLEAN,
          intent : Intents \cup {NoIntent}]
    \cup [op : {"clearPending"}]
    \cup [op : {"confirm"}, intent : Intents]

Resting == [op |-> "resting"]
RunType == {Resting} \cup [plan : Tiers, cycle : Cycles]

NoPurchase == [state |-> "none"]
IntentType == {NoPurchase} \cup
    [state : {"open", "declined", "paid"}, plan : Tiers, cycle : Cycles, declines : BOOLEAN]

Begin(s, r) == req[s] = Idle /\ req' = [req EXCEPT ![s] = r]
Finish(s) == req' = [req EXCEPT ![s] = Idle]

\* isTrial of changePlan.
InTrial == (sub.trial \/ sub.status = "TRIAL") /\ ~trialOver

\* The query of processRenewals.
Due ==
    \/ sub.trial /\ trialOver
    \/ sub.status = "TRIAL" /\ trialOver
    \/ sub.status = "ACTIVE" /\ periodOver

Paid(i) == intent[i].state = "paid"
\* findFirst({transactionId}), whatever the status of the row.
HasRow(i) == paidRows[i] > 0 \/ failedRow[i]
Bought(i) == <<intent[i].plan, intent[i].cycle>>

-----------------------------------------------------------------------------
\* traderRegisterStep3: with a trial or, when the plan has none, already paid.
Init ==
    /\ \E p \in Prices, trial \in BOOLEAN :
         /\ sub = [plan |-> p[1], cycle |-> p[2], priced |-> p[2], pending |-> NoTier,
                   status |-> IF trial THEN "TRIAL" ELSE "ACTIVE", trial |-> trial]
         /\ tier = p[1]
         /\ trialOver = ~trial
    /\ periodOver = FALSE
    /\ req = [s \in Slots |-> Idle]
    /\ run = [k \in Runs |-> Resting]
    /\ intent = [i \in Intents |-> NoPurchase]
    /\ paidRows = [i \in Intents |-> 0]
    /\ failedRow = [i \in Intents |-> FALSE]
    /\ hook = [i \in Intents |-> "idle"]
    /\ endings = 0 /\ renewals = 0 /\ overtaken = 0

(***************************************************************************)
(* changePlan and cancelPendingDowngrade.                                  *)
(***************************************************************************)

ReadOnly(s, r) ==
    /\ Begin(s, r)
    /\ UNCHANGED <<row, run, stripe, ledger, endings, charges>>

IsUpgrade(p, c) == p > sub.plan \/ (p = sub.plan /\ c # sub.cycle)

\* The upgrade costs nothing: no day of the period is left, so the difference of
\* the prices is prorated to 0.
NothingToPay(p, c) ==
    /\ p > sub.plan
    /\ Price[<<p, c>>] > Price[<<sub.plan, sub.priced>>]
    /\ periodOver

\* A purchase of this plan that Stripe has charged, or nothing.
PaymentFor(p, c, i) == i \in Intents => Paid(i) /\ Bought(i) = <<p, c>>

ChangePlanRead(s, p, c, i) ==
    \/ p = sub.plan /\ c = sub.cycle /\ sub.pending # NoTier
       /\ ReadOnly(s, [op |-> "clearPending"])
    \/ /\ <<p, c>> # <<sub.plan, sub.cycle>>
       /\ <<p, c>> # <<sub.pending, sub.cycle>>
       /\ <<p, c>> \in Prices
       /\ \/ InTrial /\ ReadOnly(s, [op |-> "switch", plan |-> p, cycle |-> c])
          \/ /\ ~InTrial /\ IsUpgrade(p, c)
             /\ PaymentFor(p, c, i)
             /\ i # NoIntent \/ NothingToPay(p, c)
             /\ ReadOnly(s, [op |-> "upgrade", plan |-> p, cycle |-> c,
                             resets |-> c # sub.cycle, intent |-> i])
          \/ /\ ~InTrial /\ ~IsUpgrade(p, c)
             /\ ReadOnly(s, [op |-> "downgrade", plan |-> p, cycle |-> c])

\* Mutant: the profile is not updated.
ChangePlanSwitchNoTier(s) ==
    /\ req[s].op = "switch"
    /\ sub' = [sub EXCEPT !.plan = req[s].plan, !.cycle = req[s].cycle,
                          !.priced = req[s].cycle, !.pending = NoTier]
    /\ Finish(s)
    /\ UNCHANGED <<tier, trialOver, periodOver, run, stripe, ledger, endings, charges>>

\* During the trial every switch is free.
ChangePlanSwitch(s) ==
    /\ req[s].op = "switch"
    /\ sub' = [sub EXCEPT !.plan = req[s].plan, !.cycle = req[s].cycle,
                          !.priced = req[s].cycle, !.pending = NoTier]
    /\ tier' = req[s].plan
    /\ Finish(s)
    /\ UNCHANGED <<trialOver, periodOver, run, stripe, ledger, endings, charges>>

\* The payment is recorded in the same transaction, with no look at earlier rows.
ChangePlanUpgrade(s) ==
    /\ req[s].op = "upgrade"
    /\ sub' = [sub EXCEPT !.plan = req[s].plan, !.cycle = req[s].cycle,
                          !.priced = req[s].cycle, !.pending = NoTier]
    /\ tier' = req[s].plan
    /\ periodOver' = (periodOver /\ ~req[s].resets)
    /\ \/ req[s].intent = NoIntent /\ UNCHANGED paidRows
       \/ /\ req[s].intent # NoIntent
          /\ paidRows' = [paidRows EXCEPT ![req[s].intent] = @ + 1]
    /\ Finish(s)
    /\ UNCHANGED <<trialOver, run, stripe, failedRow, endings, charges>>

\* The billing cycle that was asked for is not kept.
ChangePlanDowngrade(s) ==
    /\ req[s].op = "downgrade"
    /\ sub' = [sub EXCEPT !.pending = req[s].plan]
    /\ Finish(s)
    /\ UNCHANGED <<tier, trialOver, periodOver, run, stripe, ledger, endings, charges>>

CancelPendingDowngradeRead(s) ==
    sub.pending # NoTier /\ ReadOnly(s, [op |-> "clearPending"])

\* Mutant: the wrong column is emptied.
ClearPendingPlan(s) ==
    /\ req[s].op = "clearPending"
    /\ sub' = [sub EXCEPT !.plan = NoTier]
    /\ Finish(s)
    /\ UNCHANGED <<tier, trialOver, periodOver, run, stripe, ledger, endings, charges>>

ClearPending(s) ==
    /\ req[s].op = "clearPending"
    /\ sub' = [sub EXCEPT !.pending = NoTier]
    /\ Finish(s)
    /\ UNCHANGED <<tier, trialOver, periodOver, run, stripe, ledger, endings, charges>>

(***************************************************************************)
(* Purchases: createPaymentIntent, Stripe, confirmPayment, the webhooks.   *)
(***************************************************************************)

CreatePaymentIntent(i, p) ==
    /\ intent[i] = NoPurchase
    /\ intent' = [intent EXCEPT ![i] =
         [state |-> "open", plan |-> p[1], cycle |-> p[2], declines |-> FALSE]]
    /\ UNCHANGED <<row, req, run, ledger, hook, endings, charges>>

\* A card is declined; the trader may try another one on the same intent.
StripeDeclines(i) ==
    /\ intent[i].state \in {"open", "declined"}
    /\ intent' = [intent EXCEPT ![i].state = "declined", ![i].declines = TRUE]
    /\ UNCHANGED <<row, req, run, ledger, hook, endings, charges>>

StripeCharges(i) ==
    /\ intent[i].state \in {"open", "declined"}
    /\ intent' = [intent EXCEPT ![i].state = "paid"]
    /\ UNCHANGED <<row, req, run, ledger, hook, endings, charges>>

\* A row of the intent, even a failed one or the webhook's, is taken for a payment
\* already processed: the trader is told so, and nothing is written.
ConfirmPaymentRead(s, i) ==
    /\ Paid(i)
    /\ \/ ~HasRow(i) /\ ReadOnly(s, [op |-> "confirm", intent |-> i])
       \/ HasRow(i) /\ req[s] = Idle /\ UNCHANGED vars

\* Neither the pending plan nor the dates that processRenewals looks at.
ConfirmPaymentCommit(s) ==
    /\ req[s].op = "confirm"
    /\ LET i == req[s].intent
       IN  /\ sub' = [sub EXCEPT !.plan = intent[i].plan, !.cycle = intent[i].cycle,
                                 !.priced = intent[i].cycle,
                                 !.status = "ACTIVE", !.trial = FALSE]
           /\ tier' = intent[i].plan
           /\ paidRows' = [paidRows EXCEPT ![i] = @ + 1]
    /\ Finish(s)
    /\ UNCHANGED <<trialOver, periodOver, run, stripe, failedRow, endings, charges>>

\* Mutant: the test for an earlier row is inverted.
PaymentSucceededCheckInverted(i) ==
    /\ Paid(i) /\ hook[i] = "idle" /\ HasRow(i)
    /\ hook' = [hook EXCEPT ![i] = "checked"]
    /\ UNCHANGED <<row, req, run, intent, ledger, endings, charges>>

\* handlePaymentIntentSucceeded.  Stripe delivers until it is answered, so at
\* least once and again after a failure; the events come in no order.
PaymentSucceededCheck(i) ==
    /\ Paid(i) /\ hook[i] = "idle" /\ ~HasRow(i)
    /\ hook' = [hook EXCEPT ![i] = "checked"]
    /\ UNCHANGED <<row, req, run, intent, ledger, endings, charges>>

PaymentSucceededRecord(i) ==
    /\ hook[i] = "checked"
    /\ paidRows' = [paidRows EXCEPT ![i] = @ + 1]
    /\ hook' = [hook EXCEPT ![i] = "recorded"]
    /\ UNCHANGED <<row, req, run, intent, failedRow, endings, charges>>

\* A second write, outside of any transaction.  The plan is not looked at.
PaymentSucceededActivate(i) ==
    /\ hook[i] = "recorded"
    /\ sub' = [sub EXCEPT !.status = "ACTIVE"]
    /\ hook' = [hook EXCEPT ![i] = "idle"]
    /\ UNCHANGED <<tier, trialOver, periodOver, req, run, intent, ledger,
                   endings, charges>>

\* handlePaymentIntentFailed, for any of the declines and at any later time.
PaymentFailed(i) ==
    /\ intent[i] # NoPurchase /\ intent[i].declines
    /\ failedRow' = [failedRow EXCEPT ![i] = TRUE]
    /\ UNCHANGED <<row, req, run, stripe, paidRows, endings, charges>>

(***************************************************************************)
(* processRenewals.                                                        *)
(***************************************************************************)

\* The plan to activate: the pending one if set, else the current one.
RenewalPlan == IF sub.pending # NoTier THEN sub.pending ELSE sub.plan

\* Mutant: the query forgets the trials.
ProcessRenewalsReadActive(k) ==
    /\ run[k] = Resting
    /\ sub.status = "ACTIVE" /\ ~sub.trial /\ periodOver
    /\ <<RenewalPlan, sub.cycle>> \in Prices
    /\ run' = [run EXCEPT ![k] = [plan |-> RenewalPlan, cycle |-> sub.cycle]]
    /\ UNCHANGED <<row, req, stripe, ledger, endings, charges>>

\* A subscription whose plan has no price for its cycle is passed over.  The row
\* is read with all the other due ones, and its turn may come much later.
ProcessRenewalsRead(k) ==
    /\ run[k] = Resting
    /\ Due
    /\ <<RenewalPlan, sub.cycle>> \in Prices
    /\ run' = [run EXCEPT ![k] = [plan |-> RenewalPlan, cycle |-> sub.cycle]]
    /\ UNCHANGED <<row, req, stripe, ledger, endings, charges>>

\* Mutant: the trial flag is not cleared.
ProcessRenewalsCommitInTrial(k) ==
    /\ run[k] # Resting
    /\ sub' = [sub EXCEPT !.plan = run[k].plan, !.priced = run[k].cycle,
                          !.pending = NoTier, !.status = "ACTIVE"]
    /\ tier' = run[k].plan
    /\ periodOver' = FALSE
    /\ renewals' = renewals + 1
    /\ overtaken' = IF Due THEN overtaken ELSE overtaken + 1
    /\ run' = [run EXCEPT ![k] = Resting]
    /\ UNCHANGED <<trialOver, req, stripe, ledger, endings>>

\* Everything comes from the row as it was read.
ProcessRenewalsCommit(k) ==
    /\ run[k] # Resting
    /\ sub' = [sub EXCEPT !.plan = run[k].plan, !.priced = run[k].cycle,
                          !.pending = NoTier, !.status = "ACTIVE", !.trial = FALSE]
    /\ tier' = run[k].plan
    /\ periodOver' = FALSE
    /\ renewals' = renewals + 1
    /\ overtaken' = IF Due THEN overtaken ELSE overtaken + 1
    /\ run' = [run EXCEPT ![k] = Resting]
    /\ UNCHANGED <<trialOver, req, stripe, ledger, endings>>

(***************************************************************************)
(* Failures and time.                                                      *)
(***************************************************************************)

RequestFails(s) ==
    /\ req[s] # Idle
    /\ Finish(s)
    /\ UNCHANGED <<row, run, stripe, ledger, endings, charges>>

RenewalFails(k) ==
    /\ run[k] # Resting
    /\ run' = [run EXCEPT ![k] = Resting]
    /\ UNCHANGED <<row, req, stripe, ledger, endings, charges>>

\* After the row is written the next delivery finds it and changes nothing.
WebhookFails(i) ==
    /\ hook[i] # "idle"
    /\ hook' = [hook EXCEPT ![i] = "idle"]
    /\ UNCHANGED <<row, req, run, intent, ledger, endings, charges>>

TimePasses ==
    /\ endings < EndBound
    /\ endings' = endings + 1
    /\ \/ ~trialOver /\ trialOver' = TRUE /\ UNCHANGED periodOver
       \/ trialOver /\ ~periodOver /\ periodOver' = TRUE /\ UNCHANGED trialOver
    /\ UNCHANGED <<sub, tier, req, run, stripe, ledger, charges>>

ChangePlanCommit(s) ==
    \/ ChangePlanSwitch(s)
    \/ ChangePlanUpgrade(s)
    \/ ChangePlanDowngrade(s)
    \/ ClearPending(s)

Next ==
    \/ \E s \in Slots :
         \/ \E p \in Tiers, c \in Cycles, i \in Intents \cup {NoIntent} :
               ChangePlanRead(s, p, c, i)
         \/ CancelPendingDowngradeRead(s)
         \/ ChangePlanCommit(s)
         \/ \E i \in Intents : ConfirmPaymentRead(s, i)
         \/ ConfirmPaymentCommit(s)
         \/ RequestFails(s)
    \/ \E i \in Intents :
         \/ \E p \in Prices : CreatePaymentIntent(i, p)
         \/ StripeDeclines(i)
         \/ StripeCharges(i)
         \/ PaymentSucceededCheck(i)
         \/ PaymentSucceededRecord(i)
         \/ PaymentSucceededActivate(i)
         \/ PaymentFailed(i)
         \/ WebhookFails(i)
    \/ \E k \in Runs :
         ProcessRenewalsRead(k) \/ ProcessRenewalsCommit(k) \/ RenewalFails(k)
    \/ TimePasses

Spec == Init /\ [][Next]_vars

\* The cron starts a run every hour and Stripe repeats its deliveries; neither fails
\* every time.  No single run need get anywhere.
Fairness ==
    /\ WF_vars(\E k \in Runs : ProcessRenewalsRead(k))
    /\ SF_vars(\E k \in Runs : ProcessRenewalsCommit(k))
    /\ \A i \in Intents :
         WF_vars(PaymentSucceededCheck(i)) /\ SF_vars(PaymentSucceededRecord(i))
FairSpec == Spec /\ Fairness

-----------------------------------------------------------------------------
TypeOK ==
    /\ sub \in SubscriptionType
    /\ tier \in Tiers
    /\ trialOver \in BOOLEAN /\ periodOver \in BOOLEAN
    /\ req \in [Slots -> RequestType]
    /\ run \in [Runs -> RunType]
    /\ intent \in [Intents -> IntentType]
    /\ paidRows \in [Intents -> Nat]
    /\ failedRow \in [Intents -> BOOLEAN]
    /\ hook \in [Intents -> {"idle", "checked", "recorded"}]
    /\ endings \in Nat /\ renewals \in Nat /\ overtaken \in Nat

\* The tier on the trader's profile, by which traders are ranked and limited, is
\* the plan of the subscription, whatever changes of plan, confirmations and
\* renewals overwrite each other with what they read earlier.
TierFollowsPlan == tier = sub.plan

\* A trader is charged for a renewal at most once for each end of a trial or of
\* a period.
RenewedOnce == renewals <= endings

\* However many runs are under way and however long they take, an ending is charged
\* again only by a run that writes when the row is due no more, because another run or
\* the trader came first, and by every run at most once: a charge moves the row out of
\* the query, and what the others read before is all that is left of that ending.
\* With n runs at the same time that is n charges.
RenewalOvershoot ==
    /\ renewals <= endings + overtaken
    /\ renewals <= endings * Cardinality(Runs)

\* A trial or a period that is over is renewed in the end, whatever the trader
\* does meanwhile: no sequence of switches, downgrades and purchases leaves a
\* subscription that the cron no longer finds or can no longer renew.
DueIsRenewed == Due ~> ~Due

\* A charge that Stripe has made gets its row, if no declined attempt got one
\* before, though the confirmation and the webhook may both fail and repeat.
PaidIsRecorded ==
    \A i \in Intents : Paid(i) ~> HasRow(i)
=============================================================================
