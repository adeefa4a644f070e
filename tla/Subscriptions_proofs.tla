------------------------ MODULE Subscriptions_proofs ------------------------
(***************************************************************************)
(* Proofs about Subscriptions for any plans and prices, any number of      *)
(* purchases, of requests and of runs of processRenewals at the same time. *)
(***************************************************************************)
EXTENDS Subscriptions, FiniteSetTheorems, TLAPS

\* TypeOK in three parts: what the writers of the row need, the flags, and the
\* ledger with its counters.
RowTypes ==
    /\ sub \in SubscriptionType
    /\ tier \in Tiers
    /\ req \in [Slots -> RequestType]
    /\ run \in [Runs -> RunType]
    /\ intent \in [Intents -> IntentType]
ClockTypes == trialOver \in BOOLEAN /\ periodOver \in BOOLEAN
LedgerTypes ==
    /\ paidRows \in [Intents -> Nat]
    /\ failedRow \in [Intents -> BOOLEAN]
    /\ hook \in [Intents -> {"idle", "checked", "recorded"}]
    /\ endings \in Nat /\ renewals \in Nat /\ overtaken \in Nat

\* A purchase that somebody is confirming has been made, so it has a plan.
PaidHasPlan ==
    \A s \in Slots : req[s].op = "confirm" =>
        req[s].intent \in Intents /\ intent[req[s].intent] # NoPurchase

\* The inductive invariant of TierFollowsPlan.
RowInv == RowTypes /\ PaidHasPlan /\ TierFollowsPlan

LEMMA TypeParts == TypeOK <=> RowTypes /\ ClockTypes /\ LedgerTypes
  BY DEF TypeOK, RowTypes, ClockTypes, LedgerTypes

LEMMA PriceParts == \A p \in Prices : p[1] \in Tiers /\ p[2] \in Cycles
  BY ConstantsAssumption

-----------------------------------------------------------------------------
LEMMA InitRow == Init => RowInv
<1> SUFFICES ASSUME Init PROVE RowInv
  OBVIOUS
<1>1. PICK p \in Prices, trial \in BOOLEAN :
        /\ sub = [plan |-> p[1], cycle |-> p[2], priced |-> p[2], pending |-> NoTier,
                  status |-> IF trial THEN "TRIAL" ELSE "ACTIVE", trial |-> trial]
        /\ tier = p[1]
  BY DEF Init
<1>2. sub \in SubscriptionType /\ tier \in Tiers /\ TierFollowsPlan
  BY <1>1, PriceParts DEF SubscriptionType, TierFollowsPlan
<1>3. req \in [Slots -> RequestType] /\ run \in [Runs -> RunType]
  BY DEF Init, RequestType, RunType
<1>4. intent \in [Intents -> IntentType]
  BY DEF Init, IntentType
<1>5. PaidHasPlan
  BY DEF Init, PaidHasPlan, Idle
<1> QED
  BY <1>2, <1>3, <1>4, <1>5 DEF RowInv, RowTypes

\* Requests that begin.
LEMMA ReadOnlyRow ==
    ASSUME RowInv, NEW s \in Slots, NEW r \in RequestType, ReadOnly(s, r),
           r.op = "confirm" => r.intent \in Intents /\ intent[r.intent] # NoPurchase
    PROVE  RowInv'
<1>1. req' = [req EXCEPT ![s] = r] /\ UNCHANGED <<sub, tier, run, intent>>
  BY DEF ReadOnly, Begin, row, stripe
<1>2. RowTypes' /\ TierFollowsPlan'
  BY <1>1 DEF RowInv, RowTypes, TierFollowsPlan
<1>3. PaidHasPlan'
  BY <1>1 DEF RowInv, RowTypes, PaidHasPlan
<1> QED
  BY <1>2, <1>3 DEF RowInv

LEMMA ChangePlanReadRow ==
    ASSUME RowInv, NEW s \in Slots, NEW p \in Tiers, NEW c \in Cycles,
           NEW i \in Intents \cup {NoIntent}, ChangePlanRead(s, p, c, i)
    PROVE  RowInv'
<1> DEFINE Switch == [op |-> "switch", plan |-> p, cycle |-> c]
           Upgrade == [op |-> "upgrade", plan |-> p, cycle |-> c,
                       resets |-> c # sub.cycle, intent |-> i]
           Downgrade == [op |-> "downgrade", plan |-> p, cycle |-> c]
           Clear == [op |-> "clearPending"]
<1>1. \E r \in {Switch, Upgrade, Downgrade, Clear} : ReadOnly(s, r)
  BY DEF ChangePlanRead
<1>2. (c # sub.cycle) \in BOOLEAN
  OBVIOUS
<1>3. \A r \in {Switch, Upgrade, Downgrade, Clear} : r.op # "confirm"
  OBVIOUS
<1>4. Switch \in RequestType /\ Downgrade \in RequestType /\ Clear \in RequestType
  BY DEF RequestType
<1>5. Upgrade \in RequestType
  BY <1>2 DEF RequestType
<1> QED
  BY <1>1, <1>3, <1>4, <1>5, ReadOnlyRow

LEMMA ConfirmPaymentReadRow ==
    ASSUME RowInv, NEW s \in Slots, NEW i \in Intents, ConfirmPaymentRead(s, i)
    PROVE  RowInv'
<1>1. CASE ReadOnly(s, [op |-> "confirm", intent |-> i])
  <2>1. [op |-> "confirm", intent |-> i] \in RequestType
    BY DEF RequestType
  <2>2. intent[i] # NoPurchase
    BY DEF ConfirmPaymentRead, Paid, NoPurchase
  <2> QED
    BY <1>1, <2>1, <2>2, ReadOnlyRow
<1>2. CASE UNCHANGED vars
  BY <1>2 DEF RowInv, RowTypes, PaidHasPlan, TierFollowsPlan, vars
<1> QED
  BY <1>1, <1>2 DEF ConfirmPaymentRead

\* The writers of the row.
LEMMA RequestCommitRow ==
    ASSUME RowInv, NEW s \in Slots,
           \/ ChangePlanCommit(s) \/ ConfirmPaymentCommit(s) \/ RequestFails(s)
    PROVE  RowInv'
<1>1. req' = [req EXCEPT ![s] = Idle] /\ UNCHANGED <<run, intent>>
  BY DEF ChangePlanCommit, ChangePlanSwitch, ChangePlanUpgrade, ChangePlanDowngrade,
     ClearPending, ConfirmPaymentCommit, RequestFails, Finish, stripe
<1>2. req[s] \in RequestType
  BY DEF RowInv, RowTypes
<1>3. sub' \in SubscriptionType /\ tier' \in Tiers /\ TierFollowsPlan'
  <2>0. req[s].op \in {"switch", "upgrade", "downgrade"} =>
          req[s].plan \in Tiers /\ req[s].cycle \in Cycles
    BY <1>2 DEF RequestType, Idle
  <2>1. CASE ChangePlanSwitch(s)
    BY <2>0, <2>1 DEF ChangePlanSwitch, RowInv, RowTypes, SubscriptionType, TierFollowsPlan
  <2>2. CASE ChangePlanUpgrade(s)
    <3>1. sub' = [sub EXCEPT !.plan = req[s].plan, !.cycle = req[s].cycle,
                             !.priced = req[s].cycle, !.pending = NoTier]
          /\ tier' = req[s].plan
      BY <2>2 DEF ChangePlanUpgrade
    <3>2. req[s].plan \in Tiers /\ req[s].cycle \in Cycles
      BY <2>0, <2>2 DEF ChangePlanUpgrade
    <3> QED
      BY <3>1, <3>2 DEF RowInv, RowTypes, SubscriptionType, TierFollowsPlan
  <2>3. CASE ChangePlanDowngrade(s)
    <3>1. sub' = [sub EXCEPT !.pending = req[s].plan] /\ tier' = tier
      BY <2>3 DEF ChangePlanDowngrade
    <3>2. req[s].plan \in Tiers
      BY <2>0, <2>3 DEF ChangePlanDowngrade
    <3> QED
      BY <3>1, <3>2 DEF RowInv, RowTypes, SubscriptionType, TierFollowsPlan
  <2>4. CASE ClearPending(s)
    BY <2>4 DEF ClearPending, RowInv, RowTypes, SubscriptionType, TierFollowsPlan
  <2>5. CASE ConfirmPaymentCommit(s)
    <3>1. /\ intent[req[s].intent] \in IntentType
          /\ intent[req[s].intent] # NoPurchase
      BY <2>5 DEF ConfirmPaymentCommit, RowInv, RowTypes, PaidHasPlan
    <3>2. /\ intent[req[s].intent].plan \in Tiers
          /\ intent[req[s].intent].cycle \in Cycles
      BY <3>1 DEF IntentType
    <3> QED
      BY <2>5, <3>2 DEF ConfirmPaymentCommit, RowInv, RowTypes, SubscriptionType,
         TierFollowsPlan
  <2>6. CASE RequestFails(s)
    BY <2>6 DEF RequestFails, row, RowInv, RowTypes, TierFollowsPlan
  <2> QED
    BY <2>1, <2>2, <2>3, <2>4, <2>5, <2>6 DEF ChangePlanCommit
<1>4. RowTypes'
  BY <1>1, <1>3 DEF RowInv, RowTypes, RequestType
<1>5. PaidHasPlan'
  BY <1>1 DEF RowInv, RowTypes, PaidHasPlan, Idle
<1> QED
  BY <1>3, <1>4, <1>5 DEF RowInv

LEMMA StripeRow ==
    ASSUME RowInv, NEW i \in Intents,
           \/ \E p \in Prices : CreatePaymentIntent(i, p)
           \/ StripeDeclines(i) \/ StripeCharges(i)
    PROVE  RowInv'
<1>1. UNCHANGED <<sub, tier, req, run>>
  BY DEF CreatePaymentIntent, StripeDeclines, StripeCharges, row
<1>2. \E e \in IntentType : e # NoPurchase /\ intent' = [intent EXCEPT ![i] = e]
  <2>1. ASSUME NEW p \in Prices, CreatePaymentIntent(i, p)
        PROVE  \E e \in IntentType : e # NoPurchase /\ intent' = [intent EXCEPT ![i] = e]
    BY <2>1, PriceParts DEF CreatePaymentIntent, IntentType, NoPurchase
  <2>2. CASE StripeDeclines(i) \/ StripeCharges(i)
    <3>1. intent[i] \in IntentType /\ intent[i] # NoPurchase
      BY <2>2 DEF RowInv, RowTypes, StripeDeclines, StripeCharges, NoPurchase
    <3>2. CASE StripeDeclines(i)
      BY <3>1, <3>2 DEF StripeDeclines, IntentType, NoPurchase
    <3>3. CASE StripeCharges(i)
      BY <3>1, <3>3 DEF StripeCharges, IntentType, NoPurchase
    <3> QED
      BY <2>2, <3>2, <3>3
  <2> QED
    BY <2>1, <2>2
<1>3. RowTypes' /\ TierFollowsPlan'
  BY <1>1, <1>2 DEF RowInv, RowTypes, TierFollowsPlan
<1>4. PaidHasPlan'
  BY <1>1, <1>2 DEF RowInv, RowTypes, PaidHasPlan
<1> QED
  BY <1>3, <1>4 DEF RowInv

LEMMA WebhookRow ==
    ASSUME RowInv, NEW i \in Intents,
           \/ PaymentSucceededCheck(i) \/ PaymentSucceededRecord(i)
           \/ PaymentSucceededActivate(i) \/ PaymentFailed(i) \/ WebhookFails(i)
    PROVE  RowInv'
<1>1. UNCHANGED <<tier, req, run, intent>>
  BY DEF PaymentSucceededCheck, PaymentSucceededRecord, PaymentSucceededActivate,
     PaymentFailed, WebhookFails, row, stripe
<1>2. sub' \in SubscriptionType /\ sub'.plan = sub.plan
  BY DEF PaymentSucceededCheck, PaymentSucceededRecord, PaymentSucceededActivate,
     PaymentFailed, WebhookFails, row, RowInv, RowTypes, SubscriptionType
<1> QED
  BY <1>1, <1>2 DEF RowInv, RowTypes, PaidHasPlan, TierFollowsPlan

LEMMA RenewalRow ==
    ASSUME RowInv, NEW k \in Runs,
           ProcessRenewalsRead(k) \/ ProcessRenewalsCommit(k) \/ RenewalFails(k)
    PROVE  RowInv'
<1>1. UNCHANGED <<req, intent>>
  BY DEF ProcessRenewalsRead, ProcessRenewalsCommit, RenewalFails, stripe
<1>2. CASE ProcessRenewalsRead(k)
  <2>1. RenewalPlan \in Tiers /\ sub.cycle \in Cycles
    BY DEF RenewalPlan, RowInv, RowTypes, SubscriptionType
  <2>2. run' \in [Runs -> RunType] /\ UNCHANGED <<sub, tier>>
    BY <1>2, <2>1 DEF ProcessRenewalsRead, RowInv, RowTypes, RunType, row
  <2> QED
    BY <1>1, <2>2 DEF RowInv, RowTypes, PaidHasPlan, TierFollowsPlan
<1>3. CASE ProcessRenewalsCommit(k)
  <2>1. run[k] \in RunType /\ run[k] # Resting
    BY <1>3 DEF ProcessRenewalsCommit, RowInv, RowTypes
  <2>2. run[k].plan \in Tiers /\ run[k].cycle \in Cycles
    BY <2>1 DEF RunType
  <2>3. sub' \in SubscriptionType /\ tier' \in Tiers /\ TierFollowsPlan'
    BY <1>3, <2>2 DEF ProcessRenewalsCommit, RowInv, RowTypes, SubscriptionType,
       TierFollowsPlan
  <2>4. run' \in [Runs -> RunType]
    BY <1>3 DEF ProcessRenewalsCommit, RowInv, RowTypes, RunType
  <2> QED
    BY <1>1, <2>3, <2>4 DEF RowInv, RowTypes, PaidHasPlan
<1>4. CASE RenewalFails(k)
  <2>1. run' \in [Runs -> RunType] /\ UNCHANGED <<sub, tier>>
    BY <1>4 DEF RenewalFails, RowInv, RowTypes, RunType, row
  <2> QED
    BY <1>1, <2>1 DEF RowInv, RowTypes, PaidHasPlan, TierFollowsPlan
<1> QED
  BY <1>2, <1>3, <1>4

LEMMA NextRow == RowInv /\ [Next]_vars => RowInv'
<1> SUFFICES ASSUME RowInv, [Next]_vars PROVE RowInv'
  OBVIOUS
<1>1. ASSUME NEW s \in Slots, CancelPendingDowngradeRead(s) PROVE RowInv'
  <2>1. [op |-> "clearPending"] \in RequestType
    BY DEF RequestType
  <2> QED
    BY <1>1, <2>1, ReadOnlyRow DEF CancelPendingDowngradeRead
<1>2. CASE TimePasses \/ UNCHANGED vars
  BY <1>2 DEF TimePasses, vars, stripe, RowInv, RowTypes, PaidHasPlan, TierFollowsPlan
<1> QED
  BY <1>1, <1>2, ChangePlanReadRow, ConfirmPaymentReadRow, RequestCommitRow,
     StripeRow, WebhookRow, RenewalRow DEF Next

\* Whatever the handlers overwrite, subscription and profile name the same plan.
THEOREM TierIsPlan == Spec => []TierFollowsPlan
<1>1. Init => RowInv
  BY InitRow
<1>2. RowInv /\ [Next]_vars => RowInv'
  BY NextRow
<1>3. RowInv => TierFollowsPlan
  BY DEF RowInv
<1> QED
  BY <1>1, <1>2, <1>3, PTL DEF Spec

-----------------------------------------------------------------------------
LEMMA NextClock == ClockTypes /\ [Next]_vars => ClockTypes'
<1> SUFFICES ASSUME ClockTypes, [Next]_vars PROVE ClockTypes'
  OBVIOUS
<1> USE DEF ClockTypes, row
<1>1. ASSUME NEW s \in Slots, NEW p \in Tiers, NEW c \in Cycles,
             NEW i \in Intents \cup {NoIntent}, ChangePlanRead(s, p, c, i)
      PROVE  ClockTypes'
  BY <1>1, Zenon DEF ChangePlanRead, ReadOnly
<1>2. ASSUME NEW s \in Slots, CancelPendingDowngradeRead(s) \/ RequestFails(s)
      PROVE  ClockTypes'
  BY <1>2, Zenon DEF CancelPendingDowngradeRead, ReadOnly, RequestFails
<1>3. ASSUME NEW s \in Slots, ChangePlanCommit(s) \/ ConfirmPaymentCommit(s)
      PROVE  ClockTypes'
  BY <1>3, Zenon DEF ChangePlanCommit, ChangePlanSwitch, ChangePlanUpgrade,
     ChangePlanDowngrade, ClearPending, ConfirmPaymentCommit
<1>4. ASSUME NEW s \in Slots, NEW i \in Intents, ConfirmPaymentRead(s, i)
      PROVE  ClockTypes'
  BY <1>4, Zenon DEF ConfirmPaymentRead, ReadOnly, vars
<1>5. ASSUME NEW i \in Intents,
             \/ \E p \in Prices : CreatePaymentIntent(i, p)
             \/ StripeDeclines(i) \/ StripeCharges(i)
             \/ PaymentSucceededCheck(i) \/ PaymentSucceededRecord(i)
             \/ PaymentSucceededActivate(i) \/ PaymentFailed(i) \/ WebhookFails(i)
      PROVE  ClockTypes'
  BY <1>5, Zenon DEF CreatePaymentIntent, StripeDeclines, StripeCharges,
     PaymentSucceededCheck, PaymentSucceededRecord, PaymentSucceededActivate,
     PaymentFailed, WebhookFails
<1>6. ASSUME NEW k \in Runs,
             ProcessRenewalsRead(k) \/ ProcessRenewalsCommit(k) \/ RenewalFails(k)
      PROVE  ClockTypes'
  BY <1>6, Zenon DEF ProcessRenewalsRead, ProcessRenewalsCommit, RenewalFails
<1>7. CASE TimePasses \/ UNCHANGED vars
  BY <1>7, Zenon DEF TimePasses, vars
<1> QED
  BY <1>1, <1>2, <1>3, <1>4, <1>5, <1>6, <1>7 DEF Next

USE DEF charges

LEMMA InitLedger == Init => LedgerTypes
<1> SUFFICES ASSUME Init PROVE LedgerTypes
  OBVIOUS
<1>1. paidRows \in [Intents -> Nat] /\ failedRow \in [Intents -> BOOLEAN]
  BY DEF Init
<1>2. hook \in [Intents -> {"idle", "checked", "recorded"}]
  BY DEF Init
<1>3. endings = 0 /\ renewals = 0 /\ overtaken = 0
  BY DEF Init
<1> QED
  BY <1>1, <1>2, <1>3 DEF LedgerTypes

LEMMA NextLedger == RowInv /\ LedgerTypes /\ [Next]_vars => LedgerTypes'
<1> SUFFICES ASSUME RowInv, LedgerTypes, [Next]_vars PROVE LedgerTypes'
  OBVIOUS
<1>1. ASSUME UNCHANGED <<ledger, hook, endings, charges>> PROVE LedgerTypes'
  BY <1>1 DEF LedgerTypes, ledger
<1>2. ASSUME NEW s \in Slots, NEW r, ReadOnly(s, r) PROVE LedgerTypes'
  BY <1>1, <1>2 DEF ReadOnly, stripe
<1>3. ASSUME NEW s \in Slots, NEW p \in Tiers, NEW c \in Cycles,
             NEW i \in Intents \cup {NoIntent}, ChangePlanRead(s, p, c, i)
      PROVE  LedgerTypes'
  BY <1>2, <1>3 DEF ChangePlanRead
<1>4. ASSUME NEW s \in Slots,
             \/ CancelPendingDowngradeRead(s) \/ RequestFails(s) \/ ChangePlanSwitch(s)
             \/ ChangePlanDowngrade(s) \/ ClearPending(s)
      PROVE  LedgerTypes'
  BY <1>1, <1>2, <1>4 DEF CancelPendingDowngradeRead, RequestFails, ChangePlanSwitch,
     ChangePlanDowngrade, ClearPending, stripe
<1>5. ASSUME NEW s \in Slots, ChangePlanUpgrade(s) PROVE LedgerTypes'
  <2>1. req[s].intent \in Intents \cup {NoIntent}
    BY <1>5 DEF ChangePlanUpgrade, RowInv, RowTypes, RequestType, Idle
  <2> QED
    BY <1>5, <2>1 DEF ChangePlanUpgrade, LedgerTypes, stripe
<1>6. ASSUME NEW s \in Slots, ConfirmPaymentCommit(s) PROVE LedgerTypes'
  <2>1. req[s].intent \in Intents
    BY <1>6 DEF ConfirmPaymentCommit, RowInv, PaidHasPlan
  <2> QED
    BY <1>6, <2>1 DEF ConfirmPaymentCommit, LedgerTypes, stripe
<1>7. ASSUME NEW s \in Slots, NEW i \in Intents, ConfirmPaymentRead(s, i)
      PROVE  LedgerTypes'
  BY <1>2, <1>7 DEF ConfirmPaymentRead, LedgerTypes, stripe, vars
<1>8. ASSUME NEW i \in Intents,
             \/ \E p \in Prices : CreatePaymentIntent(i, p)
             \/ StripeDeclines(i) \/ StripeCharges(i)
      PROVE  LedgerTypes'
  BY <1>1, <1>8 DEF CreatePaymentIntent, StripeDeclines, StripeCharges
<1>9. ASSUME NEW i \in Intents,
             \/ PaymentSucceededCheck(i) \/ PaymentSucceededRecord(i)
             \/ PaymentSucceededActivate(i) \/ WebhookFails(i)
      PROVE  LedgerTypes'
  BY <1>9 DEF PaymentSucceededCheck, PaymentSucceededRecord, PaymentSucceededActivate,
     WebhookFails, LedgerTypes, ledger
<1>10. ASSUME NEW i \in Intents, PaymentFailed(i) PROVE LedgerTypes'
  BY <1>10 DEF PaymentFailed, LedgerTypes, stripe
<1>11. ASSUME NEW k \in Runs,
             ProcessRenewalsRead(k) \/ ProcessRenewalsCommit(k) \/ RenewalFails(k)
       PROVE  LedgerTypes'
  BY <1>11 DEF ProcessRenewalsRead, ProcessRenewalsCommit, RenewalFails, LedgerTypes,
     stripe, ledger
<1>12. CASE TimePasses \/ UNCHANGED vars
  BY <1>12 DEF TimePasses, vars, LedgerTypes, stripe, ledger
<1> QED
  BY <1>3, <1>4, <1>5, <1>6, <1>7, <1>8, <1>9, <1>10, <1>11, <1>12
     DEF Next, ChangePlanCommit

\* Types, for every number of requests, runs and purchases.
THEOREM TypeCorrect == Spec => []TypeOK
<1>1. Init => RowInv /\ ClockTypes /\ LedgerTypes
  <2>1. Init => ClockTypes
    BY Zenon DEF Init, ClockTypes
  <2> QED
    BY <2>1, InitLedger, InitRow
<1>2. RowInv /\ [Next]_vars => RowInv'
  BY NextRow
<1>3. ClockTypes /\ [Next]_vars => ClockTypes'
  BY NextClock
<1>4. RowInv /\ LedgerTypes /\ [Next]_vars => LedgerTypes'
  BY NextLedger
<1>5. RowInv /\ ClockTypes /\ LedgerTypes => TypeOK
  BY TypeParts DEF RowInv
<1> QED
  BY <1>1, <1>2, <1>3, <1>4, <1>5, PTL DEF Spec

-----------------------------------------------------------------------------
(***************************************************************************)
(* Each run charges an ending at most once, and only one run does so while *)
(* the row is due.                                                         *)
(***************************************************************************)

\* An ending gives every run one charge.  While the row is due each of them may
\* still use it; when it is not, only those that have read it and not yet written.
\* It gives one charge that overtakes nobody, which is open as long as the row is due.
\* A period cannot be over before the trial is, so what makes the row due, apart
\* from time, was due before under another clause of the query.
Busy == {k \in Runs : run[k] # Resting}
MayCharge == IF Due THEN Runs ELSE Busy
Open == IF Due THEN 1 ELSE 0
ChargesInv ==
    /\ periodOver => trialOver
    /\ renewals + Cardinality(MayCharge) <= endings * Cardinality(Runs)
    /\ renewals + Open <= endings + overtaken

RenewalInv == RowInv /\ LedgerTypes /\ ChargesInv

LEMMA BusyFinite ==
    /\ IsFiniteSet(Runs) /\ IsFiniteSet(Busy)
    /\ Cardinality(Runs) \in Nat /\ Cardinality(Busy) \in Nat
    /\ Cardinality(Busy) <= Cardinality(Runs)
<1>1. Busy \subseteq Runs
  BY DEF Busy
<1> QED
  BY <1>1, ConstantsAssumption, FS_Subset, FS_CardinalityType

\* The same after a step.
LEMMA BusyFiniteAfter ==
    /\ IsFiniteSet(Busy') /\ Cardinality(Busy') \in Nat
    /\ Cardinality(Busy') <= Cardinality(Runs)
<1>1. Busy' \subseteq Runs
  BY DEF Busy
<1> QED
  BY <1>1, ConstantsAssumption, FS_Subset, FS_CardinalityType

LEMMA MayChargeCount ==
    /\ Cardinality(MayCharge) = IF Due THEN Cardinality(Runs) ELSE Cardinality(Busy)
    /\ Cardinality(MayCharge') = IF Due' THEN Cardinality(Runs) ELSE Cardinality(Busy')
  BY DEF MayCharge

LEMMA DueStays ==
    ASSUME RowInv, ChargesInv, LedgerTypes,
           UNCHANGED <<trialOver, run, endings, charges>>,
           periodOver' => periodOver, Due' => Due
    PROVE  ChargesInv'
<1>1. Busy' = Busy
  BY DEF Busy
<1>2. Cardinality(MayCharge') <= Cardinality(MayCharge)
  BY <1>1, BusyFinite, MayChargeCount
<1>3. Cardinality(MayCharge) \in Nat /\ Cardinality(MayCharge') \in Nat
  BY BusyFinite, BusyFiniteAfter, MayChargeCount
<1>4. /\ renewals \in Nat /\ endings \in Nat /\ overtaken \in Nat
      /\ endings * Cardinality(Runs) \in Nat /\ Open \in Nat
  BY BusyFinite DEF LedgerTypes, Open
<1>5. /\ (endings * Cardinality(Runs))' = endings * Cardinality(Runs)
      /\ renewals' = renewals /\ endings' = endings /\ overtaken' = overtaken
  OBVIOUS
<1>6. renewals' + Cardinality(MayCharge') <= endings' * Cardinality(Runs)
  <2>1. renewals + Cardinality(MayCharge) <= endings * Cardinality(Runs)
    BY DEF ChargesInv
  <2>2. renewals + Cardinality(MayCharge') <= endings * Cardinality(Runs)
    BY <1>2, <1>3, <1>4, <2>1
  <2> QED
    BY <1>5, <2>2
<1>7. renewals' + Open' <= endings' + overtaken'
  <2>1. renewals + Open <= endings + overtaken
    BY DEF ChargesInv
  <2>2. Open' = Open \/ (Open' = 0 /\ Open = 1)
    BY DEF Open
  <2> QED
    BY <1>4, <1>5, <2>1, <2>2
<1> QED
  BY <1>6, <1>7 DEF ChargesInv

LEMMA NextCharges == RenewalInv /\ [Next]_vars => ChargesInv'
<1> SUFFICES ASSUME RenewalInv, [Next]_vars PROVE ChargesInv'
  OBVIOUS
<1> USE DEF RenewalInv
<1> DEFINE N == Cardinality(Runs)
<1>0. sub \in SubscriptionType /\ run \in [Runs -> RunType]
  BY DEF RowInv, RowTypes
<1>a. /\ renewals \in Nat /\ endings \in Nat /\ overtaken \in Nat
      /\ N \in Nat /\ endings * N \in Nat
  BY BusyFinite DEF LedgerTypes
<1>1. ASSUME UNCHANGED <<sub, trialOver, periodOver, run, endings, charges>>
      PROVE  ChargesInv'
  BY <1>1, DueStays DEF Due
<1>2. ASSUME NEW s \in Slots,
             \/ \E p \in Tiers, c \in Cycles, i \in Intents \cup {NoIntent} :
                   ChangePlanRead(s, p, c, i)
             \/ CancelPendingDowngradeRead(s) \/ RequestFails(s)
             \/ \E i \in Intents : ConfirmPaymentRead(s, i)
      PROVE  ChargesInv'
  <2>1. ASSUME NEW r, ReadOnly(s, r) PROVE ChargesInv'
    BY <1>1, <2>1 DEF ReadOnly, row
  <2>2. RequestFails(s) => ChargesInv'
    BY <1>1 DEF RequestFails, row
  <2>3. ASSUME NEW i \in Intents, ConfirmPaymentRead(s, i) PROVE ChargesInv'
    BY <1>1, <2>1, <2>3 DEF ConfirmPaymentRead, row, vars
  <2> QED
    BY <1>2, <2>1, <2>2, <2>3 DEF ChangePlanRead, CancelPendingDowngradeRead
<1>3. ASSUME NEW s \in Slots, ChangePlanCommit(s) PROVE ChargesInv'
  <2>1. periodOver' => periodOver
    BY <1>3, Zenon DEF ChangePlanCommit, ChangePlanSwitch, ChangePlanUpgrade,
       ChangePlanDowngrade, ClearPending
  <2>2. UNCHANGED <<trialOver, run, endings, charges>>
    BY <1>3, Zenon DEF ChangePlanCommit, ChangePlanSwitch, ChangePlanUpgrade,
       ChangePlanDowngrade, ClearPending
  <2>3. sub'.status = sub.status /\ sub'.trial = sub.trial
    BY <1>0, <1>3 DEF ChangePlanCommit, ChangePlanSwitch, ChangePlanUpgrade,
       ChangePlanDowngrade, ClearPending, SubscriptionType
  <2> QED
    BY <2>1, <2>2, <2>3, DueStays DEF Due
<1>4. ASSUME NEW s \in Slots, ConfirmPaymentCommit(s) PROVE ChargesInv'
  <2>1. /\ UNCHANGED <<trialOver, periodOver, run, endings, charges>>
        /\ sub'.status = "ACTIVE" /\ sub'.trial = FALSE
    BY <1>0, <1>4 DEF ConfirmPaymentCommit, SubscriptionType
  <2> QED
    BY <1>0, <2>1, DueStays DEF Due, ChargesInv, SubscriptionType
<1>5. ASSUME NEW i \in Intents,
             \/ \E p \in Prices : CreatePaymentIntent(i, p)
             \/ StripeDeclines(i) \/ StripeCharges(i)
             \/ PaymentSucceededCheck(i) \/ PaymentSucceededRecord(i)
             \/ PaymentFailed(i) \/ WebhookFails(i)
      PROVE  ChargesInv'
  BY <1>1, <1>5 DEF CreatePaymentIntent, StripeDeclines, StripeCharges,
     PaymentSucceededCheck, PaymentSucceededRecord, PaymentFailed, WebhookFails, row
<1>6. ASSUME NEW i \in Intents, PaymentSucceededActivate(i) PROVE ChargesInv'
  <2>1. /\ UNCHANGED <<trialOver, periodOver, run, endings, charges>>
        /\ sub'.status = "ACTIVE" /\ sub'.trial = sub.trial
    BY <1>0, <1>6 DEF PaymentSucceededActivate, SubscriptionType
  <2> QED
    BY <1>0, <2>1, DueStays DEF Due, ChargesInv, SubscriptionType
<1>7. ASSUME NEW k \in Runs, ProcessRenewalsRead(k) PROVE ChargesInv'
  <2>1. UNCHANGED <<sub, trialOver, periodOver, endings, charges>> /\ Due /\ Due'
    BY <1>7 DEF ProcessRenewalsRead, Due, row
  <2>2. Cardinality(MayCharge') = Cardinality(MayCharge) /\ Open' = Open
    BY <2>1, MayChargeCount DEF Open
  <2> QED
    BY <2>1, <2>2 DEF ChargesInv
<1>8. ASSUME NEW k \in Runs, ProcessRenewalsCommit(k) PROVE ChargesInv'
  <2>1. ~Due' /\ ~periodOver' /\ UNCHANGED <<trialOver, endings>> /\ renewals' = renewals + 1
    BY <1>0, <1>8 DEF ProcessRenewalsCommit, Due, SubscriptionType
  <2>2. k \in Busy /\ Busy' = Busy \ {k}
    BY <1>0, <1>8 DEF ProcessRenewalsCommit, Busy
  <2>3. Cardinality(Busy') = Cardinality(Busy) - 1
    BY <2>2, BusyFinite, FS_RemoveElement
  <2>4. Cardinality(MayCharge') = Cardinality(Busy) - 1
    BY <2>1, <2>3, MayChargeCount
  <2>5. Cardinality(Busy) <= Cardinality(MayCharge) /\ Cardinality(MayCharge) \in Nat
    BY BusyFinite, MayChargeCount
  <2>6. renewals + Cardinality(MayCharge) <= endings * N
    BY DEF ChargesInv
  <2>7. renewals' + Cardinality(MayCharge') <= endings * N
    BY <1>a, <2>1, <2>4, <2>5, <2>6, BusyFinite
  <2>8. renewals' + Open' <= endings + overtaken'
    <3>1. renewals + Open <= endings + overtaken /\ Open' = 0
      BY <2>1 DEF ChargesInv, Open
    <3>2. CASE Due
      BY <1>a, <1>8, <2>1, <3>1, <3>2 DEF ProcessRenewalsCommit, Open
    <3>3. CASE ~Due
      BY <1>a, <1>8, <2>1, <3>1, <3>3 DEF ProcessRenewalsCommit, Open
    <3> QED
      BY <3>2, <3>3
  <2> QED
    BY <2>1, <2>7, <2>8 DEF ChargesInv
<1>9. ASSUME NEW k \in Runs, RenewalFails(k) PROVE ChargesInv'
  <2>1. UNCHANGED <<sub, trialOver, periodOver, endings, charges>> /\ Due' = Due
    BY <1>9 DEF RenewalFails, Due, row
  <2>2. k \in Busy /\ Busy' = Busy \ {k}
    BY <1>0, <1>9 DEF RenewalFails, Busy
  <2>3. Cardinality(Busy') = Cardinality(Busy) - 1
    BY <2>2, BusyFinite, FS_RemoveElement
  <2>4. /\ Cardinality(MayCharge') <= Cardinality(MayCharge)
        /\ Cardinality(MayCharge) \in Nat /\ Cardinality(MayCharge') \in Nat
    BY <2>1, <2>3, BusyFinite, BusyFiniteAfter, MayChargeCount
  <2> QED
    BY <1>a, <2>1, <2>4 DEF ChargesInv, Open
<1>10. CASE TimePasses
  <2>1. endings' = endings + 1 /\ UNCHANGED <<sub, run, charges>>
    BY <1>10 DEF TimePasses
  <2>2. periodOver' => trialOver'
    <3>1. CASE trialOver' = TRUE /\ UNCHANGED periodOver
      BY <3>1
    <3>2. CASE trialOver /\ UNCHANGED trialOver
      BY <3>2
    <3> QED
      BY <1>10, <3>1, <3>2, Zenon DEF TimePasses
  <2>3. (endings + 1) * N = endings * N + N
    BY <1>a
  <2>4. /\ Cardinality(MayCharge) \in Nat /\ Cardinality(MayCharge') \in Nat
        /\ Cardinality(MayCharge') <= N
    BY BusyFinite, BusyFiniteAfter, MayChargeCount
  <2>5. renewals + Cardinality(MayCharge) <= endings * N
    BY DEF ChargesInv
  <2>6. renewals + Cardinality(MayCharge') <= endings * N + N
    BY <1>a, <2>4, <2>5
  <2>7. renewals' + Open' <= endings' + overtaken'
    BY <1>a, <2>1 DEF ChargesInv, Open
  <2> QED
    BY <2>1, <2>2, <2>3, <2>6, <2>7 DEF ChargesInv
<1>11. CASE UNCHANGED vars
  BY <1>1, <1>11 DEF vars
<1> QED
  BY <1>2, <1>3, <1>4, <1>5, <1>6, <1>7, <1>8, <1>9, <1>10, <1>11 DEF Next

LEMMA InitRenewal == Init => RenewalInv
<1> SUFFICES ASSUME Init PROVE RenewalInv
  OBVIOUS
<1>1. RowInv
  BY InitRow
<1>2. LedgerTypes
  BY InitLedger
<1>3. ~periodOver /\ renewals = 0 /\ endings = 0 /\ overtaken = 0
  BY DEF Init
<1>4. ~Due
  <2>1. PICK p \in Prices, trial \in BOOLEAN :
          /\ sub = [plan |-> p[1], cycle |-> p[2], priced |-> p[2], pending |-> NoTier,
                    status |-> IF trial THEN "TRIAL" ELSE "ACTIVE", trial |-> trial]
          /\ trialOver = ~trial
    BY DEF Init
  <2>2. CASE trial = TRUE
    BY <1>3, <2>1, <2>2 DEF Due
  <2>3. CASE trial = FALSE
    BY <1>3, <2>1, <2>3 DEF Due
  <2> QED
    BY <2>2, <2>3
<1>5. Cardinality(MayCharge) = 0
  <2>1. Busy = {}
    BY DEF Init, Busy
  <2> QED
    BY <1>4, <2>1, FS_EmptySet DEF MayCharge
<1>6. ChargesInv
  BY <1>3, <1>4, <1>5, BusyFinite DEF ChargesInv, Open
<1> QED
  BY <1>1, <1>2, <1>6 DEF RenewalInv

LEMMA RenewalsInductive == Spec => []RenewalInv
<1>1. RenewalInv /\ [Next]_vars => RenewalInv'
  BY NextRow, NextLedger, NextCharges DEF RenewalInv
<1> QED
  BY <1>1, InitRenewal, PTL DEF Spec

\* Whatever the trader and Stripe do between the read and the write of the runs, however
\* long these take and wherever they were started: an ending is charged again only by
\* a run that writes when the row is due no more, and no more often than there are runs.
THEOREM RunsChargeOnce == Spec => []RenewalOvershoot
<1>1. RenewalInv => RenewalOvershoot
  <2> SUFFICES ASSUME RenewalInv PROVE RenewalOvershoot
    OBVIOUS
  <2>1. /\ Cardinality(MayCharge) \in Nat /\ Open \in Nat
        /\ renewals \in Nat /\ endings \in Nat /\ overtaken \in Nat
    BY BusyFinite, MayChargeCount DEF RenewalInv, LedgerTypes, Open
  <2>2. endings * Cardinality(Runs) \in Nat
    BY BusyFinite DEF RenewalInv, LedgerTypes
  <2> QED
    BY <2>1, <2>2 DEF RenewalInv, ChargesInv, RenewalOvershoot
<1> QED
  BY <1>1, RenewalsInductive, PTL
=============================================================================
