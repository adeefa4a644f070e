--------------------------- MODULE Accounts_proofs ---------------------------
(***************************************************************************)
(* Proofs about Accounts for any number of plans, categories, requests for *)
(* other categories and handlers at the same time.                         *)
(***************************************************************************)
EXTENDS Accounts, FiniteSetTheorems, TLAPS

\* One third step at a time is between its two writes: it found no subscription
\* where it inserted its own. Until it ends nothing else has ended the registration.
OneRegistration ==
    \A s \in Registering :
       /\ \A t \in Registering : t = s
       /\ req[s].plan \in Plans /\ plan # NoPlan
       /\ ~completed /\ ~bought /\ ~died
       /\ ~torn => plan = req[s].plan

\* Without a subscription nothing has ended the registration.
BeforeAny == plan = NoPlan => ~completed /\ ~bought /\ ~died

Registration ==
    OneRegistration /\ BeforeAny /\ RegistrationSettles /\ TierFollowsRegistration

\* Reviews under way, of a change that no two requests ever reviewed together.
OneReview ==
    \A c \in Changes \ overlapped : \A s \in Reviewing(c) :
       change[c].state = "PENDING" /\ \A t \in Reviewing(c) : t = s

\* What the writes under way bring, besides what was allowed.
SelectionsUnderWay ==
    \A s \in Slots :
       /\ req[s].op \in {"approve", "reject"} => req[s].change \in Changes
       /\ Running(s, "approve") => req[s].set.from \in {NoChange, req[s].change}
       /\ Running(s, "categories") =>
            \A c \in Changes \ overlapped :
               req[s].set.from = c => change[c].state = "APPROVED"

\* A request that asks for a plan asks for one that exists.
PlansUnderWay ==
    \A s \in Slots :
       req[s].op \in {"step3", "step3Profile", "confirmCreate", "confirmUpdate"}
          => req[s].plan \in Plans

\* Subscriptions are never deleted.
UpdatesHavePlan == \A s \in Slots : Running(s, "confirmUpdate") => plan # NoPlan

IInv ==
    /\ TypeOK
    /\ PlansUnderWay
    /\ UpdatesHavePlan
    /\ Registration
    /\ CategoriesWereAllowed
    /\ OneReview
    /\ SelectionsUnderWay
    /\ AppliedWasApproved

-----------------------------------------------------------------------------
LEMMA IdleRequest ==
    /\ Idle \in RequestType
    /\ Idle.op = "idle"
    /\ Nothing \in Selection /\ Nothing.n = 0 /\ Nothing.from = NoChange
  BY ConstantsAssumption DEF Idle, Request, RequestType, Operation, Nothing, Selection

LEMMA ChoiceType ==
    ASSUME NEW n \in Counts, NEW c \in Changes \cup {NoChange}, NEW p \in Plans \cup {NoPlan}
    PROVE  /\ Choice(n, c, p) \in Selection
           /\ Choice(n, c, p).n = n /\ Choice(n, c, p).from = c
           /\ n > 0 => Choice(n, c, p).under = p
  BY ConstantsAssumption DEF Choice, Selection

LEMMA InitIInv == Init => IInv
<1> SUFFICES ASSUME Init PROVE IInv
  OBVIOUS
<1> USE IdleRequest, ConstantsAssumption
<1>1. TypeOK
  BY DEF Init, TypeOK, ChangeState
<1>2. Registering = {} /\ \A c : Reviewing(c) = {}
  BY DEF Init, Registering, Reviewing, Running
<1>3. UnderWay = {Nothing}
  BY DEF Init, UnderWay
<1>4. CategoriesWereAllowed
  BY <1>3 DEF CategoriesWereAllowed
<1>5. PlansUnderWay /\ UpdatesHavePlan /\ SelectionsUnderWay /\ AppliedWasApproved
  BY DEF Init, PlansUnderWay, UpdatesHavePlan, SelectionsUnderWay, AppliedWasApproved, Running
<1>6. Registration
  BY <1>2 DEF Init, Registration, OneRegistration, BeforeAny, RegistrationSettles,
              TierFollowsRegistration
<1> QED
  BY <1>1, <1>2, <1>4, <1>5, <1>6 DEF IInv, OneReview

-----------------------------------------------------------------------------
(***************************************************************************)
(* Types.                                                                  *)
(***************************************************************************)

LEMMA BeginTypes ==
    ASSUME TypeOK, PlansUnderWay, NEW s \in Slots, NEW r \in RequestType, Begin(s, r),
           r.plan = NoPlan =>
              r.op \notin {"step3", "step3Profile", "confirmCreate", "confirmUpdate"}
    PROVE  /\ req' \in [Slots -> RequestType] /\ PlansUnderWay'
           /\ req[s] = Idle /\ req'[s] = r
           /\ \A t \in Slots \ {s} : req'[t] = req[t]
<1>1. req' \in [Slots -> RequestType] /\ req[s] = Idle /\ req'[s] = r
  BY DEF TypeOK, Begin
<1>2. \A t \in Slots \ {s} : req'[t] = req[t]
  BY DEF TypeOK, Begin
<1>3. r.plan \in Plans \cup {NoPlan}
  BY DEF RequestType
<1> QED
  BY <1>1, <1>2, <1>3 DEF PlansUnderWay

LEMMA FinishTypes ==
    ASSUME TypeOK, PlansUnderWay, NEW s \in Slots, Finish(s)
    PROVE  /\ req' \in [Slots -> RequestType] /\ PlansUnderWay'
           /\ req'[s] = Idle
           /\ \A t \in Slots \ {s} : req'[t] = req[t]
  BY IdleRequest DEF TypeOK, PlansUnderWay, Finish

\* What a step of the trader that only reads puts into its slot.
ReadsOnly(s) ==
    /\ req' \in [Slots -> RequestType] /\ PlansUnderWay'
    /\ req[s] = Idle
    /\ \A t \in Slots \ {s} : req'[t] = req[t]
    /\ req'[s].op \in {"step3", "confirmCreate", "confirmUpdate", "categories", "propose"}
    /\ req'[s].op = "confirmUpdate" => plan # NoPlan
    /\ req'[s].op = "categories" =>
         \/ req'[s].set = categories
         \/ /\ req'[s].set.from = NoChange
            /\ req'[s].set.n > 0 => Allowed(req'[s].set.n, req'[s].set.under)
    /\ UNCHANGED <<approved, completed, plan, trial, tier, categories, change,
                   bought, died, torn, overlapped>>

LEMMA ReadSteps ==
    ASSUME TypeOK, PlansUnderWay, NEW s \in Slots,
           \/ \E p \in Plans : Step3Read(s, p) \/ ConfirmPaymentRead(s, p)
           \/ \E n \in Counts : UpdateTraderCategoriesRead(s, n)
           \/ UpdateTraderSkillsRead(s)
           \/ \E n \in Counts, document \in BOOLEAN : UpdateProfileRead(s, n, document)
    PROVE  ReadsOnly(s)
<1>1. ASSUME NEW p \in Plans, Step3Read(s, p)
      PROVE  ReadsOnly(s)
  <2> DEFINE r == Request("step3", p, Nothing, NoChange, FALSE)
  <2>1. r \in RequestType /\ r.op = "step3" /\ r.plan = p
    BY IdleRequest DEF Operation, Request, RequestType
  <2>2. Begin(s, r) /\ UNCHANGED <<approved, completed, subscription, categories, change, history>>
    BY <1>1 DEF Step3Read
  <2> HIDE DEF r
  <2> QED
    BY <2>1, <2>2, BeginTypes, ConstantsAssumption DEF ReadsOnly, subscription, history
<1>2. ASSUME NEW p \in Plans, ConfirmPaymentRead(s, p)
      PROVE  ReadsOnly(s)
  <2> DEFINE op == IF plan = NoPlan THEN "confirmCreate" ELSE "confirmUpdate"
             r == Request(op, p, Nothing, NoChange, tier # p)
  <2>1. /\ op \in Operation /\ op \in {"confirmCreate", "confirmUpdate"} /\ (tier # p) \in BOOLEAN
        /\ op = "confirmUpdate" => plan # NoPlan
    BY DEF Operation
  <2>2. r \in RequestType /\ r.op = op /\ r.plan = p
    BY <2>1, IdleRequest DEF Request, RequestType
  <2>3. Begin(s, r) /\ UNCHANGED <<approved, completed, subscription, categories, change, history>>
    BY <1>2 DEF ConfirmPaymentRead
  <2> HIDE DEF r, op
  <2> QED
    BY <2>1, <2>2, <2>3, BeginTypes, ConstantsAssumption DEF ReadsOnly, subscription, history
<1>3. ASSUME NEW n \in Counts, UpdateTraderCategoriesRead(s, n)
      PROVE  ReadsOnly(s)
  <2> DEFINE x == Choice(n, NoChange, plan)
             r == Request("categories", NoPlan, x, NoChange, FALSE)
  <2>1. /\ x \in Selection /\ x.n = n /\ x.from = NoChange
        /\ n > 0 => Allowed(n, x.under)
    <3>1. plan \in Plans \cup {NoPlan} /\ Allowed(n, plan)
      BY <1>3 DEF UpdateTraderCategoriesRead, TypeOK
    <3> QED
      BY <3>1, ChoiceType
  <2>2. r \in RequestType /\ r.op = "categories" /\ r.set = x
    BY <2>1 DEF Operation, Request, RequestType
  <2>3. Begin(s, r) /\ UNCHANGED <<approved, completed, subscription, categories, change, history>>
    BY <1>3 DEF UpdateTraderCategoriesRead
  <2>4. r.op \notin {"step3", "step3Profile", "confirmCreate", "confirmUpdate"}
    BY <2>2
  <2> HIDE DEF r, x
  <2> QED
    BY <2>1, <2>2, <2>3, <2>4, BeginTypes DEF ReadsOnly, subscription, history
<1>4. CASE UpdateTraderSkillsRead(s)
  <2> DEFINE r == Request("categories", NoPlan, categories, NoChange, FALSE)
  <2>1. r \in RequestType /\ r.op = "categories" /\ r.set = categories
    BY DEF Operation, TypeOK, Request, RequestType
  <2>2. Begin(s, r) /\ UNCHANGED <<approved, completed, subscription, categories, change, history>>
    BY <1>4 DEF UpdateTraderSkillsRead
  <2>3. r.op \notin {"step3", "step3Profile", "confirmCreate", "confirmUpdate"}
    BY <2>1
  <2> HIDE DEF r
  <2> QED
    BY <2>1, <2>2, <2>3, BeginTypes DEF ReadsOnly, subscription, history
<1>5. ASSUME NEW n \in Counts, NEW document \in BOOLEAN, UpdateProfileRead(s, n, document)
      PROVE  ReadsOnly(s)
  <2> DEFINE r == Request("propose", NoPlan, Choice(n, NoChange, NoPlan), NoChange, document)
  <2>1. r \in RequestType /\ r.op = "propose"
    BY ChoiceType DEF Operation, Request, RequestType
  <2>2. Begin(s, r) /\ UNCHANGED <<approved, completed, subscription, categories, change, history>>
    BY <1>5 DEF UpdateProfileRead
  <2>3. r.op \notin {"step3", "step3Profile", "confirmCreate", "confirmUpdate"}
    BY <2>1
  <2> HIDE DEF r
  <2> QED
    BY <2>1, <2>2, <2>3, BeginTypes DEF ReadsOnly, subscription, history
<1> QED
  BY <1>1, <1>2, <1>3, <1>4, <1>5

\* What the start of a review puts into its slot.
ReviewsOnly(s, c) ==
    /\ req' \in [Slots -> RequestType] /\ PlansUnderWay'
    /\ req[s] = Idle
    /\ \A t \in Slots \ {s} : req'[t] = req[t]
    /\ req'[s].op \in {"approve", "reject"} /\ req'[s].change = c
    /\ req'[s].op = "approve" =>
         /\ req'[s].set.from = c
         /\ req'[s].set.n > 0 => Allowed(req'[s].set.n, req'[s].set.under)
    /\ UNCHANGED <<approved, completed, plan, trial, tier, categories, change,
                   bought, died, torn>>

LEMMA ReviewSteps ==
    ASSUME TypeOK, PlansUnderWay, NEW s \in Slots, NEW c \in Changes,
           NEW action \in {"approve", "reject"}, ReviewRead(s, c, action)
    PROVE  ReviewsOnly(s, c)
<1>1. change[c].n \in Counts /\ plan \in Plans \cup {NoPlan}
  BY DEF TypeOK
<1>2. /\ Choice(change[c].n, c, plan) \in Selection
      /\ Choice(change[c].n, c, plan).n = change[c].n
      /\ Choice(change[c].n, c, plan).from = c
      /\ change[c].n > 0 => Choice(change[c].n, c, plan).under = plan
  BY <1>1, ChoiceType
<1> DEFINE set == IF action = "approve" THEN Choice(change[c].n, c, plan) ELSE Nothing
<1>3. set \in Selection
  BY <1>2, IdleRequest
<1>4. Begin(s, Request(action, NoPlan, set, c, FALSE))
  BY DEF ReviewRead, ReviewOf
<1>5. action = "approve" => /\ set = Choice(change[c].n, c, plan)
                            /\ Allowed(change[c].n, plan)
  BY DEF ReviewRead
<1> DEFINE r == Request(action, NoPlan, set, c, FALSE)
<1>6. r \in RequestType /\ r.op = action /\ r.set = set /\ r.change = c
  BY <1>3 DEF Operation, Request, RequestType
<1>7. r.op \notin {"step3", "step3Profile", "confirmCreate", "confirmUpdate"}
  BY <1>6
<1> HIDE DEF set, r
<1>8. /\ req' \in [Slots -> RequestType] /\ PlansUnderWay'
      /\ req[s] = Idle /\ req'[s] = r
      /\ \A t \in Slots \ {s} : req'[t] = req[t]
  BY <1>4, <1>6, <1>7, BeginTypes DEF r
<1>9. action = "approve" => /\ set.from = c
                            /\ set.n > 0 => Allowed(set.n, set.under)
  BY <1>2, <1>5
<1>10. UNCHANGED <<approved, completed, plan, trial, tier, categories, change, bought, died, torn>>
  BY DEF ReviewRead, subscription
<1> QED
  BY <1>6, <1>8, <1>9, <1>10 DEF ReviewsOnly

-----------------------------------------------------------------------------
(***************************************************************************)
(* The invariant, one group of steps at a time.                            *)
(***************************************************************************)

\* A step that leaves the registration alone: no third step begins or ends its
\* writes, and nothing of what OneRegistration and its neighbours relate changes.
LEMMA KeepsRegistration ==
    ASSUME IInv, Registering' = Registering,
           \A s \in Registering : req'[s] = req[s],
           UNCHANGED <<completed, plan, tier, bought, died, torn>>
    PROVE  Registration'
  BY DEF IInv, Registration, OneRegistration, BeforeAny, RegistrationSettles,
         TierFollowsRegistration

\* A step that only puts a request into a slot, or only ends one.
LEMMA ReadsKeep ==
    ASSUME IInv, NEW s \in Slots, ReadsOnly(s)
    PROVE  IInv'
<1> USE IdleRequest
<1>1. /\ req' \in [Slots -> RequestType] /\ PlansUnderWay'
      /\ req[s].op = "idle" /\ \A t \in Slots \ {s} : req'[t] = req[t]
      /\ req'[s].op \in {"step3", "confirmCreate", "confirmUpdate", "categories", "propose"}
      /\ UNCHANGED <<approved, completed, plan, trial, tier, categories, change,
                     bought, died, torn, overlapped>>
  BY DEF ReadsOnly
<1>2. TypeOK'
  BY <1>1 DEF IInv, TypeOK
<1>3. Registering' = Registering /\ \A t \in Registering : req'[t] = req[t]
  BY <1>1 DEF Registering, Running
<1>4. Registration'
  BY <1>1, <1>3, KeepsRegistration
<1>5. CategoriesWereAllowed'
  <2>1. ASSUME NEW t \in Slots, req'[t].op \in {"categories", "approve"}, req'[t].set.n > 0
        PROVE  Allowed(req'[t].set.n, req'[t].set.under)
    <3>1. CASE t = s
      BY <1>1, <2>1, <3>1 DEF ReadsOnly, IInv, CategoriesWereAllowed, UnderWay
    <3>2. CASE t # s
      BY <1>1, <2>1, <3>2 DEF IInv, CategoriesWereAllowed, UnderWay
    <3> QED
      BY <3>1, <3>2
  <2>2. categories.n > 0 => Allowed(categories.n, categories.under)
    BY DEF IInv, CategoriesWereAllowed, UnderWay
  <2> QED
    BY <1>1, <2>1, <2>2 DEF CategoriesWereAllowed, UnderWay, Allowed
<1>6. \A c : Reviewing(c)' = Reviewing(c)
  BY <1>1 DEF Reviewing
<1>7. OneReview' /\ UpdatesHavePlan'
  BY <1>1, <1>6 DEF ReadsOnly, IInv, OneReview, UpdatesHavePlan, Running
<1>8. SelectionsUnderWay'
  BY <1>1, ConstantsAssumption DEF ReadsOnly, IInv, SelectionsUnderWay, AppliedWasApproved, Running
<1>9. AppliedWasApproved'
  BY <1>1 DEF IInv, AppliedWasApproved
<1> QED
  BY <1>1, <1>2, <1>4, <1>5, <1>7, <1>8, <1>9 DEF IInv

\* A step that puts nothing new under way keeps what is: the categories that are in
\* force afterwards are among those.
LEMMA KeepsAllowed ==
    ASSUME IInv, NEW s \in Slots,
           \A t \in Slots \ {s} : req'[t] = req[t],
           req'[s].op \notin {"categories", "approve"},
           \/ categories' \in UnderWay
           \/ categories'.n > 0 => Allowed(categories'.n, categories'.under)
    PROVE  CategoriesWereAllowed'
<1>1. ASSUME NEW x \in UnderWay'
      PROVE  x \in UnderWay \/ x = categories'
  BY <1>1 DEF UnderWay
<1>2. ASSUME NEW x \in UnderWay', x.n > 0
      PROVE  Allowed(x.n, x.under)
  BY <1>1, <1>2 DEF IInv, CategoriesWereAllowed
<1> QED
  BY <1>2 DEF CategoriesWereAllowed, Allowed

LEMMA ReviewKeeps ==
    ASSUME IInv, NEW s \in Slots, NEW c \in Changes, NEW action \in {"approve", "reject"},
           ReviewRead(s, c, action)
    PROVE  IInv'
<1> USE IdleRequest
<1>1. ReviewsOnly(s, c)
  BY ReviewSteps DEF IInv
<1>2. /\ req' \in [Slots -> RequestType] /\ PlansUnderWay'
      /\ req[s].op = "idle" /\ \A t \in Slots \ {s} : req'[t] = req[t]
      /\ req'[s].op \in {"approve", "reject"} /\ req'[s].change = c
      /\ UNCHANGED <<approved, completed, plan, trial, tier, categories, change,
                     bought, died, torn>>
  BY <1>1 DEF ReviewsOnly
<1>3. /\ change[c].state = "PENDING"
      /\ overlapped' = IF Reviewing(c) = {} THEN overlapped ELSE overlapped \cup {c}
  BY DEF ReviewRead
<1>4. TypeOK'
  BY <1>2, <1>3 DEF IInv, TypeOK
<1>5. Registering' = Registering /\ \A t \in Registering : req'[t] = req[t]
  BY <1>2 DEF Registering, Running
<1>6. Registration'
  BY <1>2, <1>5, KeepsRegistration
<1>7. CategoriesWereAllowed'
  <2>1. ASSUME NEW t \in Slots, req'[t].op \in {"categories", "approve"}, req'[t].set.n > 0
        PROVE  Allowed(req'[t].set.n, req'[t].set.under)
    <3>1. CASE t = s
      BY <1>1, <1>2, <2>1, <3>1 DEF ReviewsOnly
    <3>2. CASE t # s
      BY <1>2, <2>1, <3>2 DEF IInv, CategoriesWereAllowed, UnderWay
    <3> QED
      BY <3>1, <3>2
  <2>2. categories.n > 0 => Allowed(categories.n, categories.under)
    BY DEF IInv, CategoriesWereAllowed, UnderWay
  <2> QED
    BY <1>2, <2>1, <2>2 DEF CategoriesWereAllowed, UnderWay, Allowed
<1>8. overlapped \subseteq overlapped'
  BY <1>3
<1>9. OneReview'
  <2>1. ASSUME NEW d \in Changes \ overlapped', NEW t \in Reviewing(d)'
        PROVE  change'[d].state = "PENDING" /\ \A u \in Reviewing(d)' : u = t
    <3>1. CASE d = c
      <4>1. Reviewing(c) = {}
        BY <1>3, <2>1, <3>1
      <4>2. Reviewing(c)' \subseteq {s}
        BY <1>2, <4>1 DEF Reviewing
      <4> QED
        BY <1>2, <1>3, <2>1, <3>1, <4>2
    <3>2. CASE d # c
      <4>1. Reviewing(d)' = Reviewing(d)
        BY <1>2, <3>2 DEF Reviewing
      <4> QED
        BY <1>2, <1>8, <2>1, <4>1 DEF IInv, OneReview
    <3> QED
      BY <3>1, <3>2
  <2> QED
    BY <2>1 DEF OneReview
<1>10. SelectionsUnderWay'
  <2>1. ASSUME NEW t \in Slots
        PROVE  /\ req'[t].op \in {"approve", "reject"} => req'[t].change \in Changes
               /\ req'[t].op = "approve" => req'[t].set.from \in {NoChange, req'[t].change}
               /\ req'[t].op = "categories" =>
                    \A d \in Changes \ overlapped' :
                       req'[t].set.from = d => change'[d].state = "APPROVED"
    <3>1. CASE t = s
      BY <1>1, <1>2, <3>1 DEF ReviewsOnly
    <3>2. CASE t # s
      BY <1>2, <1>8, <3>2 DEF IInv, SelectionsUnderWay, Running
    <3> QED
      BY <3>1, <3>2
  <2> QED
    BY <2>1 DEF SelectionsUnderWay, Running
<1>11. AppliedWasApproved' /\ UpdatesHavePlan'
  BY <1>2, <1>8 DEF IInv, AppliedWasApproved, UpdatesHavePlan, Running
<1> QED
  BY <1>2, <1>4, <1>6, <1>7, <1>9, <1>10, <1>11 DEF IInv

\* The third step writes its subscription, or is refused.
LEMMA Step3CreateKeeps ==
    ASSUME IInv, NEW s \in Slots, Step3Create(s)
    PROVE  IInv'
<1> USE IdleRequest
<1> DEFINE r == [req[s] EXCEPT !.op = "step3Profile"]
<1>1. /\ req[s] \in RequestType /\ req[s].op = "step3" /\ req[s].plan \in Plans
      /\ req \in [Slots -> RequestType]
  BY DEF Step3Create, Running, IInv, TypeOK, PlansUnderWay
<1>2. r \in RequestType /\ r.op = "step3Profile" /\ r.plan = req[s].plan
  BY <1>1 DEF RequestType, Operation
<1>3. /\ req' = [req EXCEPT ![s] = Idle] \/ req' = [req EXCEPT ![s] = r]
      /\ UNCHANGED <<approved, completed, tier, categories, change, bought, died, torn, overlapped>>
  BY DEF Step3Create, Finish, history
<1> HIDE DEF r
<1>4. /\ req' \in [Slots -> RequestType] /\ \A t \in Slots \ {s} : req'[t] = req[t]
      /\ req'[s].op \in {"idle", "step3Profile"}
      /\ req'[s].op = "step3Profile" => req'[s].plan = req[s].plan
  BY <1>1, <1>2, <1>3
<1>5. TypeOK'
  <2>1. CASE plan # NoPlan
    <3>1. UNCHANGED <<plan, trial>>
      BY <2>1 DEF Step3Create
    <3> QED
      BY <1>3, <1>4, <3>1 DEF IInv, TypeOK
  <2>2. CASE plan = NoPlan
    <3>1. plan' = req[s].plan /\ trial' = (req[s].plan \in Trials)
      BY <2>2 DEF Step3Create
    <3>2. trial' \in BOOLEAN
      BY <3>1
    <3> QED
      BY <1>1, <1>3, <1>4, <3>1, <3>2 DEF IInv, TypeOK
  <2> QED
    BY <2>1, <2>2
<1>6. PlansUnderWay'
  BY <1>1, <1>4 DEF IInv, PlansUnderWay
<1>7. Registration'
  <2>1. CASE plan # NoPlan
    <3>1. req' = [req EXCEPT ![s] = Idle] /\ UNCHANGED plan
      BY <2>1 DEF Step3Create, Finish
    <3>2. Registering' = Registering /\ \A t \in Registering : req'[t] = req[t]
      BY <1>1, <3>1 DEF Registering, Running
    <3> QED
      BY <1>3, <3>1, <3>2, KeepsRegistration
  <2>2. CASE plan = NoPlan
    <3>1. req' = [req EXCEPT ![s] = r] /\ plan' = req[s].plan
      BY <2>2 DEF Step3Create, r
    <3>2. Registering = {} /\ ~completed /\ ~bought /\ ~died
      BY <2>2 DEF IInv, Registration, OneRegistration, BeforeAny
    <3>3. Registering' = {s} /\ req'[s].plan = req[s].plan
      BY <1>1, <1>2, <3>1, <3>2 DEF Registering, Running
    <3> QED
      BY <1>1, <1>3, <3>1, <3>2, <3>3, ConstantsAssumption
      DEF Registration, OneRegistration, BeforeAny, RegistrationSettles, TierFollowsRegistration
  <2> QED
    BY <2>1, <2>2
<1>8. CategoriesWereAllowed'
  BY <1>3, <1>4, KeepsAllowed DEF UnderWay
<1>9. \A c : Reviewing(c)' = Reviewing(c)
  BY <1>1, <1>4 DEF Reviewing
<1>10. UpdatesHavePlan'
  <2>1. plan # NoPlan => plan' # NoPlan
    BY DEF Step3Create
  <2> QED
    BY <1>4, <2>1 DEF IInv, UpdatesHavePlan, Running
<1>11. OneReview' /\ SelectionsUnderWay' /\ AppliedWasApproved'
  BY <1>3, <1>4, <1>9 DEF IInv, OneReview, SelectionsUnderWay, AppliedWasApproved, Running
<1> QED
  BY <1>5, <1>6, <1>7, <1>8, <1>10, <1>11 DEF IInv

LEMMA Step3ProfileKeeps ==
    ASSUME IInv, NEW s \in Slots, Step3Profile(s)
    PROVE  IInv'
<1> USE IdleRequest
<1>1. /\ s \in Registering /\ req[s].plan \in Plans /\ req[s].op = "step3Profile"
      /\ plan # NoPlan /\ ~bought /\ ~died /\ (~torn => plan = req[s].plan)
      /\ \A t \in Registering : t = s
  BY DEF Step3Profile, Registering, Running, IInv, Registration, OneRegistration
<1>2. /\ tier' = req[s].plan /\ completed' = TRUE /\ Finish(s)
      /\ UNCHANGED <<approved, plan, trial, categories, change, bought, died, torn, overlapped>>
  BY DEF Step3Profile, history
<1>3. /\ req' \in [Slots -> RequestType] /\ PlansUnderWay' /\ req'[s].op = "idle"
      /\ \A t \in Slots \ {s} : req'[t] = req[t]
  BY <1>2, FinishTypes DEF IInv
<1>4. TypeOK'
  BY <1>1, <1>2, <1>3 DEF IInv, TypeOK
<1>5. Registering' = {}
  BY <1>1, <1>3 DEF Registering, Running
<1>6. Registration'
  BY <1>1, <1>2, <1>5
  DEF Registration, OneRegistration, BeforeAny, RegistrationSettles, TierFollowsRegistration
<1>7. CategoriesWereAllowed'
  BY <1>2, <1>3, KeepsAllowed DEF UnderWay
<1>8. \A c : Reviewing(c)' = Reviewing(c)
  BY <1>1, <1>3 DEF Reviewing
<1>9. OneReview' /\ SelectionsUnderWay' /\ AppliedWasApproved' /\ UpdatesHavePlan'
  BY <1>2, <1>3, <1>8
  DEF IInv, OneReview, SelectionsUnderWay, AppliedWasApproved, UpdatesHavePlan, Running
<1> QED
  BY <1>3, <1>4, <1>6, <1>7, <1>9 DEF IInv

\* A plan that is written outside the third step.
LEMMA PutPlanKeeps ==
    ASSUME IInv, NEW p \in Plans, NEW t \in BOOLEAN, PutPlan(p, t), UNCHANGED <<completed, died>>,
           Registering' = Registering, \A s \in Registering : req'[s] = req[s],
           (plan # NoPlan /\ UNCHANGED bought) \/ (plan = NoPlan /\ bought')
    PROVE  Registration'
<1>1. plan' = p /\ tier' = p /\ torn' = (Registering # {}) /\ p # NoPlan
  BY ConstantsAssumption DEF PutPlan
<1>2. Registering # {} => plan # NoPlan
  BY DEF IInv, Registration, OneRegistration
<1>3. plan = NoPlan => ~completed
  BY DEF IInv, Registration, BeforeAny
<1>4. OneRegistration' /\ TierFollowsRegistration' /\ BeforeAny'
  <2>1. ASSUME NEW s \in Registering
        PROVE  /\ \A u \in Registering : u = s
               /\ req[s].plan \in Plans /\ plan # NoPlan
               /\ ~completed /\ ~bought /\ ~died
    BY DEF IInv, Registration, OneRegistration
  <2>2. ASSUME NEW s \in Registering'
        PROVE  ~completed' /\ ~bought' /\ ~died' /\ req'[s].plan \in Plans
    BY <2>1
  <2> QED
    BY <1>1, <2>1, <2>2 DEF OneRegistration, TierFollowsRegistration, BeforeAny
<1>5. RegistrationSettles'
  <2>1. CASE plan # NoPlan /\ UNCHANGED bought
    BY <1>1, <2>1 DEF IInv, Registration, RegistrationSettles
  <2>2. CASE plan = NoPlan /\ bought'
    BY <1>1, <1>3, <2>2 DEF RegistrationSettles
  <2> QED
    BY <2>1, <2>2
<1> QED
  BY <1>4, <1>5 DEF Registration

LEMMA ConfirmPaymentKeeps ==
    ASSUME IInv, NEW s \in Slots, ConfirmPaymentCommit(s)
    PROVE  IInv'
<1> USE IdleRequest
<1>1. /\ req[s].op \in {"confirmCreate", "confirmUpdate"} /\ req[s].plan \in Plans /\ Finish(s)
      /\ UNCHANGED <<approved, completed, change, died, overlapped>>
  BY DEF ConfirmPaymentCommit, IInv, PlansUnderWay
<1>2. /\ req' \in [Slots -> RequestType] /\ PlansUnderWay' /\ req'[s].op = "idle"
      /\ \A t \in Slots \ {s} : req'[t] = req[t]
  BY <1>1, FinishTypes DEF IInv
<1>3. Registering' = Registering /\ \A t \in Registering : req'[t] = req[t]
  BY <1>1, <1>2 DEF Registering, Running
<1>4. \A c : Reviewing(c)' = Reviewing(c)
  BY <1>1, <1>2 DEF Reviewing
<1>5. CASE UNCHANGED <<subscription, categories, bought, torn>>
  <2>1. TypeOK'
    BY <1>1, <1>2, <1>5 DEF IInv, TypeOK, subscription
  <2>2. Registration'
    BY <1>1, <1>3, <1>5, KeepsRegistration DEF subscription
  <2>3. CategoriesWereAllowed'
    BY <1>2, <1>5, KeepsAllowed DEF UnderWay
  <2>4. OneReview' /\ SelectionsUnderWay' /\ AppliedWasApproved' /\ UpdatesHavePlan'
    BY <1>1, <1>2, <1>4, <1>5
    DEF IInv, OneReview, SelectionsUnderWay, AppliedWasApproved, UpdatesHavePlan, Running,
        subscription
  <2> QED
    BY <1>2, <2>1, <2>2, <2>3, <2>4 DEF IInv
<1>6. CASE /\ PutPlan(req[s].plan, FALSE)
           /\ categories' = IF req[s].flag THEN Nothing ELSE categories
           /\ bought' = (bought \/ Running(s, "confirmCreate"))
           /\ Running(s, "confirmUpdate") \/ plan = NoPlan
  <2>1. categories' = Nothing \/ categories' = categories
    BY <1>6
  <2>2. TypeOK'
    <3>1. plan' = req[s].plan /\ tier' = req[s].plan /\ trial' = FALSE /\ torn' \in BOOLEAN
      BY <1>6 DEF PutPlan
    <3>2. bought' \in BOOLEAN
      BY <1>6
    <3>3. categories' \in Selection
      BY <2>1 DEF IInv, TypeOK
    <3> QED
      BY <1>1, <1>2, <3>1, <3>2, <3>3 DEF IInv, TypeOK
  <2>3. (plan # NoPlan /\ UNCHANGED bought) \/ (plan = NoPlan /\ bought')
    <3>1. CASE req[s].op = "confirmCreate"
      BY <1>6, <3>1 DEF Running
    <3>2. CASE req[s].op = "confirmUpdate"
      <4>1. ~Running(s, "confirmCreate") /\ plan # NoPlan
        BY <3>2 DEF Running, IInv, UpdatesHavePlan
      <4>2. bought \in BOOLEAN
        BY DEF IInv, TypeOK
      <4>3. bought' = bought
        BY <1>6, <4>1, <4>2
      <4> QED
        BY <4>1, <4>3
    <3> QED
      BY <1>1, <3>1, <3>2
  <2>4. Registration'
    BY <1>1, <1>3, <1>6, <2>3, PutPlanKeeps
  <2>5. CategoriesWereAllowed'
    BY <1>2, <2>1, KeepsAllowed DEF UnderWay
  <2>6. UpdatesHavePlan'
    BY <1>1, <1>2, <1>6, ConstantsAssumption DEF IInv, UpdatesHavePlan, PutPlan, Running
  <2>7. OneReview' /\ SelectionsUnderWay' /\ AppliedWasApproved'
    BY <1>1, <1>2, <1>4, <2>1, ConstantsAssumption
    DEF IInv, OneReview, SelectionsUnderWay, AppliedWasApproved, Running
  <2> QED
    BY <1>2, <2>2, <2>4, <2>5, <2>6, <2>7 DEF IInv
<1> QED
  BY <1>1, <1>5, <1>6 DEF ConfirmPaymentCommit, Running

\* A change of plan or a renewal, which need a subscription.
LEMMA WrittenPlanKeeps ==
    ASSUME IInv, NEW p \in Plans, NEW t \in BOOLEAN, PutPlan(p, t), plan # NoPlan,
           categories' \in {categories, Nothing},
           UNCHANGED <<approved, completed, change, req, bought, died, overlapped>>
    PROVE  IInv'
<1> USE IdleRequest
<1>1. plan' = p /\ tier' = p /\ trial' = t /\ torn' \in BOOLEAN /\ plan' # NoPlan
  BY ConstantsAssumption DEF PutPlan
<1>2. TypeOK'
  BY <1>1 DEF IInv, TypeOK
<1>3. Registering' = Registering
  BY DEF Registering, Running
<1>4. Registration'
  BY <1>3, PutPlanKeeps
<1>5. CategoriesWereAllowed'
  BY DEF IInv, CategoriesWereAllowed, UnderWay, Allowed
<1>6. PlansUnderWay' /\ UpdatesHavePlan' /\ OneReview' /\ SelectionsUnderWay'
  BY <1>1 DEF IInv, PlansUnderWay, UpdatesHavePlan, OneReview, Reviewing, SelectionsUnderWay,
              Running
<1>7. AppliedWasApproved'
  BY ConstantsAssumption DEF IInv, AppliedWasApproved
<1> QED
  BY <1>2, <1>4, <1>5, <1>6, <1>7 DEF IInv

LEMMA SelectionKeeps ==
    ASSUME IInv, NEW n \in Counts, NEW p \in Plans, UpdateTraderCategorySelection(n, p)
    PROVE  IInv'
<1>1. /\ categories' \in Selection /\ categories'.from = NoChange
      /\ categories'.n > 0 => Allowed(categories'.n, categories'.under)
  BY ChoiceType DEF UpdateTraderCategorySelection
<1>2. UNCHANGED <<approved, completed, plan, trial, tier, change, req, bought, died, torn, overlapped>>
  BY DEF UpdateTraderCategorySelection, subscription, history
<1>3. TypeOK'
  BY <1>1, <1>2 DEF IInv, TypeOK
<1>4. Registration'
  BY <1>2, KeepsRegistration DEF Registering, Running
<1>5. CategoriesWereAllowed'
  BY <1>1, <1>2 DEF IInv, CategoriesWereAllowed, UnderWay, Allowed
<1>6. PlansUnderWay' /\ UpdatesHavePlan' /\ OneReview' /\ SelectionsUnderWay'
  BY <1>2 DEF IInv, PlansUnderWay, UpdatesHavePlan, OneReview, Reviewing, SelectionsUnderWay,
              Running
<1>7. AppliedWasApproved'
  BY <1>1, ConstantsAssumption DEF AppliedWasApproved
<1> QED
  BY <1>3, <1>4, <1>5, <1>6, <1>7 DEF IInv

\* A decision about the trader, a new document, and a step of no account.
LEMMA DecisionKeeps ==
    ASSUME IInv, approved' \in BOOLEAN,
           UNCHANGED <<completed, plan, trial, tier, categories, change, req,
                       bought, died, torn, overlapped>>
    PROVE  IInv'
<1>1. TypeOK'
  BY DEF IInv, TypeOK
<1>2. Registration'
  BY KeepsRegistration DEF Registering, Running
<1>3. CategoriesWereAllowed'
  BY DEF IInv, CategoriesWereAllowed, UnderWay, Allowed
<1>4. /\ PlansUnderWay' /\ UpdatesHavePlan' /\ OneReview' /\ SelectionsUnderWay'
      /\ AppliedWasApproved'
  BY DEF IInv, PlansUnderWay, UpdatesHavePlan, OneReview, Reviewing, SelectionsUnderWay,
         AppliedWasApproved, Running
<1> QED
  BY <1>1, <1>2, <1>3, <1>4 DEF IInv

LEMMA CategoriesWriteKeeps ==
    ASSUME IInv, NEW s \in Slots, UpdateTraderCategoriesWrite(s)
    PROVE  IInv'
<1> USE IdleRequest
<1>1. /\ req[s].op = "categories" /\ req[s].set \in Selection /\ categories' = req[s].set
      /\ Finish(s)
      /\ UNCHANGED <<approved, completed, plan, trial, tier, change, bought, died, torn, overlapped>>
  BY DEF UpdateTraderCategoriesWrite, Running, IInv, TypeOK, RequestType, subscription, history
<1>2. /\ req' \in [Slots -> RequestType] /\ PlansUnderWay' /\ req'[s].op = "idle"
      /\ \A t \in Slots \ {s} : req'[t] = req[t]
  BY <1>1, FinishTypes DEF IInv
<1>3. TypeOK'
  BY <1>1, <1>2 DEF IInv, TypeOK
<1>4. Registering' = Registering /\ \A t \in Registering : req'[t] = req[t]
  BY <1>1, <1>2 DEF Registering, Running
<1>5. Registration'
  BY <1>1, <1>4, KeepsRegistration
<1>6. CategoriesWereAllowed'
  <2>1. categories' \in UnderWay
    BY <1>1 DEF UnderWay
  <2> QED
    BY <1>2, <2>1, KeepsAllowed
<1>7. \A c : Reviewing(c)' = Reviewing(c)
  BY <1>1, <1>2 DEF Reviewing
<1>8. OneReview' /\ SelectionsUnderWay' /\ UpdatesHavePlan'
  BY <1>1, <1>2, <1>7 DEF IInv, OneReview, SelectionsUnderWay, UpdatesHavePlan, Running
<1>9. AppliedWasApproved'
  BY <1>1 DEF IInv, SelectionsUnderWay, AppliedWasApproved, Running
<1> QED
  BY <1>2, <1>3, <1>5, <1>6, <1>8, <1>9 DEF IInv

\* A new request was never under review and no categories come from it.
LEMMA ProposalKeeps ==
    ASSUME IInv, NEW s \in Slots, NEW c \in Changes, UpdateProfileCommit(s, c)
    PROVE  IInv'
<1> USE IdleRequest
<1>1. /\ req[s].op = "propose" /\ Finish(s) /\ change[c].state = "NONE"
      /\ change' = [change EXCEPT ![c] = [state |-> "PENDING", n |-> req[s].set.n]]
      /\ approved' = (approved /\ ~req[s].flag)
      /\ UNCHANGED <<completed, plan, trial, tier, categories, bought, died, torn, overlapped>>
  BY DEF UpdateProfileCommit, Running, subscription, history
<1>2. /\ req' \in [Slots -> RequestType] /\ PlansUnderWay' /\ req'[s].op = "idle"
      /\ \A t \in Slots \ {s} : req'[t] = req[t]
  BY <1>1, FinishTypes DEF IInv
<1>3. TypeOK'
  <2>1. approved' \in BOOLEAN
    BY <1>1
  <2>2. req[s].set.n \in Counts
    BY DEF IInv, TypeOK, RequestType, Selection
  <2>3. change' \in [Changes -> [state : ChangeState, n : Counts]]
    BY <1>1, <2>2 DEF IInv, TypeOK, ChangeState
  <2> QED
    BY <1>1, <1>2, <2>1, <2>3 DEF IInv, TypeOK
<1>4. Registering' = Registering /\ \A t \in Registering : req'[t] = req[t]
  BY <1>1, <1>2 DEF Registering, Running
<1>5. Registration'
  BY <1>1, <1>4, KeepsRegistration
<1>6. CategoriesWereAllowed'
  BY <1>1, <1>2, KeepsAllowed DEF UnderWay
<1>7. \A d : Reviewing(d)' = Reviewing(d)
  BY <1>1, <1>2 DEF Reviewing
<1>8. \A d \in Changes : change'[d] = change[d] \/ (d = c /\ change[d].state = "NONE")
  BY <1>1 DEF IInv, TypeOK
<1>9. OneReview'
  BY <1>1, <1>7, <1>8 DEF IInv, OneReview
<1>10. SelectionsUnderWay' /\ UpdatesHavePlan'
  BY <1>1, <1>2, <1>8 DEF IInv, SelectionsUnderWay, UpdatesHavePlan, Running
<1>11. AppliedWasApproved'
  BY <1>1, <1>8 DEF IInv, AppliedWasApproved
<1> QED
  BY <1>2, <1>3, <1>5, <1>6, <1>9, <1>10, <1>11 DEF IInv

\* The end of a review: the only one of its request, unless reviews of it overlapped.
LEMMA ReviewCommitKeeps ==
    ASSUME IInv, NEW s \in Slots, ReviewCommit(s)
    PROVE  IInv'
<1> USE IdleRequest
<1> DEFINE c == req[s].change
<1>1. /\ req[s].op \in {"approve", "reject"} /\ c \in Changes /\ Finish(s)
      /\ req[s].set \in Selection
      /\ UNCHANGED <<approved, completed, plan, trial, tier, bought, died, torn, overlapped>>
  BY DEF ReviewCommit, Running, IInv, TypeOK, RequestType, SelectionsUnderWay, subscription, history
<1>2. /\ req' \in [Slots -> RequestType] /\ PlansUnderWay' /\ req'[s].op = "idle"
      /\ \A t \in Slots \ {s} : req'[t] = req[t]
  BY <1>1, FinishTypes DEF IInv
<1>3. \/ req[s].op = "approve" /\ categories' = req[s].set
      \/ req[s].op = "reject" /\ categories' = categories
  BY DEF ReviewCommit, Running
<1>4. /\ change' \in [Changes -> [state : ChangeState, n : Counts]]
      /\ \A d \in Changes \ {c} : change'[d] = change[d]
      /\ req[s].op = "approve" => change'[c].state = "APPROVED"
  BY <1>1 DEF ReviewCommit, Running, IInv, TypeOK, ChangeState
<1>5. c \notin overlapped => change[c].state = "PENDING" /\ \A t \in Reviewing(c) : t = s
  BY <1>1 DEF IInv, OneReview, Reviewing
<1> HIDE DEF c
<1>6. TypeOK'
  BY <1>1, <1>2, <1>3, <1>4 DEF IInv, TypeOK
<1>7. Registering' = Registering /\ \A t \in Registering : req'[t] = req[t]
  BY <1>1, <1>2 DEF Registering, Running
<1>8. Registration'
  BY <1>1, <1>7, KeepsRegistration
<1>9. CategoriesWereAllowed'
  <2>1. categories' \in UnderWay
    BY <1>3 DEF UnderWay
  <2> QED
    BY <1>2, <2>1, KeepsAllowed
<1>10. \A d \in Changes \ {c} : Reviewing(d)' = Reviewing(d)
  BY <1>1, <1>2 DEF Reviewing, c
<1>11. OneReview'
  <2>1. ASSUME NEW d \in Changes \ overlapped', NEW t \in Reviewing(d)'
        PROVE  change'[d].state = "PENDING" /\ \A u \in Reviewing(d)' : u = t
    <3>1. CASE d = c
      <4>1. t \in Reviewing(c) /\ t # s
        BY <1>1, <1>2, <2>1, <3>1 DEF Reviewing
      <4> QED
        BY <1>1, <1>5, <2>1, <3>1, <4>1
    <3>2. CASE d # c
      BY <1>1, <1>4, <1>10, <2>1, <3>2 DEF IInv, OneReview
    <3> QED
      BY <3>1, <3>2
  <2> QED
    BY <2>1 DEF OneReview
<1>12. \A d \in Changes \ overlapped :
          change[d].state = "APPROVED" => change'[d].state = "APPROVED"
  BY <1>4, <1>5
<1>13. SelectionsUnderWay' /\ UpdatesHavePlan'
  BY <1>1, <1>2, <1>12 DEF IInv, SelectionsUnderWay, UpdatesHavePlan, Running
<1>14. AppliedWasApproved'
  <2>1. CASE req[s].op = "approve" /\ categories' = req[s].set
    <3>1. categories'.from \in {NoChange, c}
      BY <2>1 DEF IInv, SelectionsUnderWay, Running, c
    <3> QED
      BY <1>4, <2>1, <3>1, ConstantsAssumption DEF AppliedWasApproved
  <2>2. CASE categories' = categories
    BY <1>1, <1>12, <2>2 DEF IInv, AppliedWasApproved
  <2> QED
    BY <1>3, <2>1, <2>2
<1> QED
  BY <1>2, <1>6, <1>8, <1>9, <1>11, <1>13, <1>14 DEF IInv

\* A third step that dies between its writes leaves the registration open for good.
LEMMA DieKeeps ==
    ASSUME IInv, NEW s \in Slots, Die(s)
    PROVE  IInv'
<1> USE IdleRequest
<1>1. /\ Finish(s)
      /\ UNCHANGED <<approved, completed, plan, trial, tier, categories, change, bought, overlapped>>
  BY DEF Die, subscription
<1>2. /\ req' \in [Slots -> RequestType] /\ PlansUnderWay' /\ req'[s].op = "idle"
      /\ \A t \in Slots \ {s} : req'[t] = req[t]
  BY <1>1, FinishTypes DEF IInv
<1>3. /\ Running(s, "step3Profile") => died' /\ torn'
      /\ ~Running(s, "step3Profile") => UNCHANGED <<died, torn>>
  <2>1. died \in BOOLEAN /\ torn \in BOOLEAN
    BY DEF IInv, TypeOK
  <2> QED
    BY <2>1 DEF Die
<1>4. died' \in BOOLEAN /\ torn' \in BOOLEAN
  BY DEF Die
<1>5. TypeOK'
  BY <1>1, <1>2, <1>4 DEF IInv, TypeOK
<1>6. Registration'
  <2>1. CASE Running(s, "step3Profile")
    <3>1. s \in Registering
      BY <2>1 DEF Registering
    <3>2. plan # NoPlan /\ ~completed /\ \A t \in Registering : t = s
      BY <3>1 DEF IInv, Registration, OneRegistration
    <3>3. Registering' = {}
      BY <1>2, <3>2 DEF Registering, Running
    <3> QED
      BY <1>1, <1>3, <2>1, <3>2, <3>3
      DEF Registration, OneRegistration, BeforeAny, RegistrationSettles, TierFollowsRegistration
  <2>2. CASE ~Running(s, "step3Profile")
    <3>1. Registering' = Registering /\ \A t \in Registering : req'[t] = req[t]
      BY <1>2, <2>2 DEF Registering, Running
    <3> QED
      BY <1>1, <1>3, <2>2, <3>1, KeepsRegistration
  <2> QED
    BY <2>1, <2>2
<1>7. CategoriesWereAllowed'
  BY <1>1, <1>2, KeepsAllowed DEF UnderWay
<1>8. \A c : Reviewing(c)' \subseteq Reviewing(c)
  BY <1>2 DEF Reviewing
<1>9. OneReview' /\ SelectionsUnderWay' /\ AppliedWasApproved' /\ UpdatesHavePlan'
  BY <1>1, <1>2, <1>8
  DEF IInv, OneReview, SelectionsUnderWay, AppliedWasApproved, UpdatesHavePlan, Running
<1> QED
  BY <1>2, <1>5, <1>6, <1>7, <1>9 DEF IInv

LEMMA NextIInv == IInv /\ [Next]_vars => IInv'
<1> SUFFICES ASSUME IInv, [Next]_vars PROVE IInv'
  OBVIOUS
<1>1. CASE VerifyTrader \/ UpdateProfileDocument \/ UNCHANGED vars
  <2>1. approved' \in BOOLEAN
    BY <1>1 DEF VerifyTrader, UpdateProfileDocument, IInv, TypeOK, vars
  <2>2. UNCHANGED <<completed, plan, trial, tier, categories, change, req, bought, died, torn, overlapped>>
    BY <1>1 DEF VerifyTrader, UpdateProfileDocument, vars, subscription, history
  <2> QED
    BY <2>1, <2>2, DecisionKeeps
<1>2. ASSUME NEW p \in Plans, ChangePlan(p)
      PROVE  IInv'
  <2>1. trial \in BOOLEAN
    BY DEF IInv, TypeOK
  <2> QED
    BY <1>2, <2>1, WrittenPlanKeeps DEF ChangePlan
<1>3. ASSUME NEW p \in Plans, Renew(p)
      PROVE  IInv'
  BY <1>3, WrittenPlanKeeps DEF Renew
<1>4. ASSUME NEW s \in Slots,
             \/ \E p \in Plans : Step3Read(s, p) \/ ConfirmPaymentRead(s, p)
             \/ \E n \in Counts : UpdateTraderCategoriesRead(s, n)
             \/ UpdateTraderSkillsRead(s)
             \/ \E n \in Counts, document \in BOOLEAN : UpdateProfileRead(s, n, document)
      PROVE  IInv'
  BY <1>4, ReadSteps, ReadsKeep DEF IInv
<1> QED
  BY <1>1, <1>2, <1>3, <1>4, SelectionKeeps, ReviewKeeps, Step3CreateKeeps, Step3ProfileKeeps,
     ConfirmPaymentKeeps, CategoriesWriteKeeps, ProposalKeeps, ReviewCommitKeeps, DieKeeps
  DEF Next

\* Rows and requests keep their types, with any number of handlers at work.
THEOREM TypeCorrect == Spec => []TypeOK
<1>1. IInv => TypeOK
  BY DEF IInv
<1> QED
  BY <1>1, InitIInv, NextIInv, PTL DEF Spec

\* Once no third step is between its two writes, a registration is completed exactly
\* if there is a subscription, save for the two dead ends, and the tier is the plan.
THEOREM RegistrationIsConsistent == Spec => []RegistrationConsistent
<1>1. IInv => RegistrationConsistent
  BY DEF IInv, Registration, RegistrationConsistent
<1> QED
  BY <1>1, InitIInv, NextIInv, PTL DEF Spec

\* Nothing brings more categories into force than the plan it was held against allowed.
THEOREM CategoriesAreAllowed == Spec => []CategoriesWereAllowed
<1>1. IInv => CategoriesWereAllowed
  BY DEF IInv
<1> QED
  BY <1>1, InitIInv, NextIInv, PTL DEF Spec

\* Categories of a request are in force only if it was approved, unless two reviews
\* of it overlapped.
THEOREM AppliedIsApproved == Spec => []AppliedWasApproved
<1>1. IInv => AppliedWasApproved
  BY DEF IInv
<1> QED
  BY <1>1, InitIInv, NextIInv, PTL DEF Spec

-----------------------------------------------------------------------------
(***************************************************************************)
(* The bound on pending requests.  A commit moves one from the proposals   *)
(* to the pending requests, and the test lets a proposal in only while     *)
(* nothing is pending.                                                     *)
(***************************************************************************)

LEMMA Finite ==
    /\ IsFiniteSet(Pending) /\ Cardinality(Pending) \in Nat
    /\ IsFiniteSet(Proposing) /\ Cardinality(Proposing) \in Nat
    /\ Cardinality(Slots) \in Nat
<1>1. Pending \subseteq Changes /\ Proposing \subseteq Slots
  BY DEF Pending, Proposing
<1> QED
  BY <1>1, ConstantsAssumption, FS_Subset, FS_CardinalityType

Shrinks == Pending' \subseteq Pending /\ Proposing' \subseteq Proposing

\* Every step but the two of updateProfile.
LEMMA OthersShrink ==
    ASSUME IInv, [Next]_vars,
           \A s \in Slots, n \in Counts, document \in BOOLEAN : ~UpdateProfileRead(s, n, document),
           \A s \in Slots, c \in Changes : ~UpdateProfileCommit(s, c)
    PROVE  Shrinks
<1> USE IdleRequest DEF IInv, TypeOK, Running, Pending, Proposing, Shrinks
<1>1. ASSUME NEW s \in Slots, NEW p \in Plans, Step3Read(s, p)
      PROVE  Shrinks
  BY <1>1 DEF Step3Read, Begin, Request
<1>2. ASSUME NEW s \in Slots, NEW p \in Plans, ConfirmPaymentRead(s, p)
      PROVE  Shrinks
  BY <1>2 DEF ConfirmPaymentRead, Begin, Request
<1>3. ASSUME NEW s \in Slots, NEW n \in Counts, UpdateTraderCategoriesRead(s, n)
      PROVE  Shrinks
  BY <1>3 DEF UpdateTraderCategoriesRead, Begin, Request
<1>4. ASSUME NEW s \in Slots, UpdateTraderSkillsRead(s)
      PROVE  Shrinks
  BY <1>4 DEF UpdateTraderSkillsRead, Begin, Request
<1>5. ASSUME NEW s \in Slots, NEW c \in Changes, NEW action \in {"approve", "reject"},
             ReviewRead(s, c, action)
      PROVE  Shrinks
  BY <1>5 DEF ReviewRead, ReviewOf, Begin, Request
<1>6. ASSUME NEW s \in Slots, Finish(s), UNCHANGED change
      PROVE  Shrinks
  BY <1>6 DEF Finish
<1>7. ASSUME NEW s \in Slots,
             \/ Step3Profile(s) \/ ConfirmPaymentCommit(s) \/ UpdateTraderCategoriesWrite(s)
             \/ Die(s)
      PROVE  Shrinks
  BY <1>6, <1>7 DEF Step3Profile, ConfirmPaymentCommit, UpdateTraderCategoriesWrite, Die
<1>8. ASSUME NEW s \in Slots, Step3Create(s)
      PROVE  Shrinks
  <2>1. CASE plan # NoPlan
    BY <1>6, <1>8, <2>1 DEF Step3Create
  <2>2. CASE plan = NoPlan
    BY <1>8, <2>2 DEF Step3Create, RequestType
  <2> QED
    BY <2>1, <2>2
<1>9. ASSUME NEW s \in Slots, ReviewCommit(s)
      PROVE  Shrinks
  BY <1>9 DEF ReviewCommit, Finish, ChangeState
<1>10. ASSUME NEW n \in Counts, NEW p \in Plans, UpdateTraderCategorySelection(n, p)
       PROVE  Shrinks
  BY <1>10 DEF UpdateTraderCategorySelection
<1>11. ASSUME NEW p \in Plans, ChangePlan(p) \/ Renew(p)
       PROVE  Shrinks
  BY <1>11 DEF ChangePlan, Renew
<1>12. CASE VerifyTrader \/ UpdateProfileDocument \/ UNCHANGED vars
  BY <1>12 DEF VerifyTrader, UpdateProfileDocument, vars
<1> QED
  BY <1>1, <1>2, <1>3, <1>4, <1>5, <1>7, <1>8, <1>9, <1>10, <1>11, <1>12 DEF Next

LEMMA NextOvershoot == IInv /\ PendingOvershoot /\ [Next]_vars => PendingOvershoot'
<1> SUFFICES ASSUME IInv, PendingOvershoot, [Next]_vars PROVE PendingOvershoot'
  OBVIOUS
<1> DEFINE Bounded == Cardinality(Pending) + Cardinality(Proposing) <= Cardinality(Slots)
<1>1. ASSUME NEW s \in Slots, NEW n \in Counts, NEW document \in BOOLEAN,
             UpdateProfileRead(s, n, document)
      PROVE  Bounded'
  <2>1. Pending' = {} /\ Proposing' \subseteq Slots
    BY <1>1 DEF UpdateProfileRead, Pending, Proposing
  <2>2. /\ Cardinality(Pending') = 0
        /\ Cardinality(Proposing') \in Nat /\ Cardinality(Proposing') <= Cardinality(Slots)
    BY <2>1, ConstantsAssumption, FS_EmptySet, FS_Subset, FS_CardinalityType
  <2> QED
    BY <2>2, Finite
<1>2. ASSUME NEW s \in Slots, NEW c \in Changes, UpdateProfileCommit(s, c)
      PROVE  Bounded'
  <2>1. Pending' \subseteq Pending \cup {c} /\ c \notin Pending
    BY <1>2 DEF UpdateProfileCommit, Pending, IInv, TypeOK
  <2>2. Proposing' = Proposing \ {s} /\ s \in Proposing
    BY <1>2, IdleRequest DEF UpdateProfileCommit, Finish, Running, Proposing, IInv, TypeOK
  <2>3. Cardinality(Pending \cup {c}) = Cardinality(Pending) + 1 /\ IsFiniteSet(Pending \cup {c})
    BY <2>1, Finite, FS_AddElement
  <2>4. Cardinality(Pending') \in Nat /\ Cardinality(Pending') <= Cardinality(Pending) + 1
    BY <2>1, <2>3, FS_Subset, FS_CardinalityType
  <2>5. Cardinality(Proposing') = Cardinality(Proposing) - 1
    BY <2>2, Finite, FS_RemoveElement
  <2> QED
    BY <2>4, <2>5, Finite DEF PendingOvershoot
<1>3. CASE Shrinks
  <2>1. /\ Cardinality(Pending') \in Nat /\ Cardinality(Pending') <= Cardinality(Pending)
        /\ Cardinality(Proposing') \in Nat /\ Cardinality(Proposing') <= Cardinality(Proposing)
    BY <1>3, Finite, FS_Subset, FS_CardinalityType DEF Shrinks
  <2> QED
    BY <2>1, Finite DEF PendingOvershoot
<1> QED
  BY <1>1, <1>2, <1>3, OthersShrink DEF PendingOvershoot

LEMMA InitOvershoot == Init => PendingOvershoot
<1> SUFFICES ASSUME Init PROVE PendingOvershoot
  OBVIOUS
<1>1. Pending = {} /\ Proposing = {}
  BY IdleRequest DEF Init, Pending, Proposing, Running
<1> QED
  BY <1>1, FS_EmptySet, Finite DEF PendingOvershoot

\* Never more requests pending than updates of the profile can run at once.
THEOREM PendingIsBounded == Spec => []PendingOvershoot
  BY InitIInv, NextIInv, InitOvershoot, NextOvershoot, PTL DEF Spec
=============================================================================
