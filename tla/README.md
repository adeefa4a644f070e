# Verification of the Tuga backend

Tuga is a marketplace of trades: customers post jobs, the system sends each job to the
traders near it, traders make quotes, the customer accepts one. Traders pay for a
subscription. The backend is a NestJS server (any number of instances) over PostgreSQL
(Prisma), Redis with BullMQ queues, Stripe and socket.io.

This directory holds TLA+ specifications of its core, configurations that model-check
them with TLC, and proofs that TLAPS checks. All paths below are relative to the
repository's `src/` directory of TypeScript unless they begin with `prisma/`.

## 1. The system

### Components

| component | source | state | operations | models |
|---|---|---|---|---|
| jobs | `modules/job/job.service.ts` | `Job`: status, selectedTraderId, quotesReceived, distributionStatus, currentRadiusKm, escalationVersion | createJob, updateJob, startJob, completeJob, cancelJob, closeMyJob, and for admins closeDistribution, pause, resume, restart, increaseRadius | `JobQuotes`, `Award`, `Escalation` |
| quotes | `modules/quote/quote.service.ts` | `Quote`, one per job and trader; the job's status and count | createQuote, acceptQuote, rejectQuote, updateQuote, withdrawQuote | `JobQuotes`, `Award` |
| job crons | `modules/job/job-escalation.service.ts` | - | autoCloseJobs, reset of fairness scores, archiving of reviews | `JobQuotes`, `Caches`, `Reviews` |
| escalation | `modules/job/escalation.processor.ts` | the queue `escalation`; the job's radius and version | one processor | `Escalation` |
| trader matching | `modules/trader-matching` | `JobTraderMatch`, one per job and trader; `TraderMetrics` | matchAndSendJob | a step in `JobQuotes` and `Escalation` |
| manual distribution | `modules/admin/admin.service.ts` | the same rows | distributeManually | a step in `JobQuotes` and `Escalation` |
| subscriptions | `modules/subscriptions` | `Subscription`, `SubscriptionPayment`, the tier on `TraderProfile` | changePlan, cancelPendingDowngrade, updateTraderCategorySelection, processRenewals (hourly cron, and `POST process-renewals`) | `Subscriptions`, `Accounts` |
| payments | `modules/payment` | `SubscriptionPayment`, `Subscription` | createPaymentIntent, confirmPayment, two webhooks | `Subscriptions`, `Accounts` |
| direct jobs | `modules/direct-job` | `DirectJob` | start, close, remind, confirm, cancel, and any status by an admin | `DirectJobs` |
| reviews | `modules/review`, `modules/admin` | `Review`, averages in `TraderMetrics` | create, edit, delete, approve, recalculate; reply | `Reviews`, the reply in `Caches` |
| moderation | `modules/moderation` | `ViolationKeyword`, `ContentFlag` | scanContent, approveFlag, rejectFlag | `Caches` |
| registration | `auth/auth.service.ts` | `User`, `TraderProfile` | three steps of registration, profile and categories | `Accounts` |
| sessions | `auth/auth.service.ts`, `auth/auth.middleware.ts` | `User.token`, `fcmToken`, `status`; `ContactSubmission`, `PasswordResetOtp` | login, logout, deactivation, requests for reactivation, forgotten passwords | `Sessions` |
| verification, categories | `modules/admin/admin.service.ts` | verificationStatus, category change requests | verifyTrader, reactivateAccount, reviewCategoryChangeRequest | `Accounts`, `Sessions` |
| chat, presence | `modules/chat`, `socket` | `User.isOnline`, socket rooms, `Message` | connect, disconnect, sendMessage | `Chat` |
| conversations | `modules/conversation` | `Conversation` | createConversation, createTraderConversation | `Chat` |
| notifications | `modules/notification` | `Notification`, a queue of pushes | createNotification, the push worker | `Sessions` (worker), `Chat` |
| cache | `redis/redis.service.ts` and its callers everywhere | Redis entries with a time to live | 44 cached queries, 83 handlers that write or drop | `Caches` |
| contact | `modules/contact` | `ContactSubmission`, shared with the requests for reactivation | createContactSubmission, updateContactStatus | `Sessions`, `Caches` |
| reports, FAQ, plans, master data, saved traders | `modules/*` | rows of their own | create, update, toggle | `Caches`, as far as their entries go |
| dashboards, search, mail, storage, seeders | | none | | not modelled |

### How they interact

- Everything meets in the `Job` row. The quote handlers write its status and its count,
  the lifecycle handlers and the crons its status, the escalation processor and the
  admins its radius, version and distribution status. There is no column that tells one
  writer that another came first, except `escalationVersion`.
- `createJob`, a critical `updateJob`, `resumeDistribution` and `restartAutoDistribution`
  queue a matching job and an escalation job after they wrote the row. Each run of the
  escalation processor queues the next one.
- Stripe calls the webhooks. The trader's client calls `confirmPayment` and `changePlan`
  with the same payment intent. The cron writes the same rows without asking either.
- `withdrawQuote` and `updateTraderCategorySelection` clear caches with `FLUSHALL`, on
  the Redis that holds the queues.
- The status of an account is written by its owner, by two admin handlers that do not know
  of each other, and read at login only: after that the token in the row decides.
- A request for reactivation is a `ContactSubmission` like any other message to the support.
  `reactivateAccount` resolves all pending ones of the user, and an admin gives any of them
  any status (`updateContactStatus`), a resolved one PENDING again.
- `sendMessage` reads `User.isOnline`, which the socket handlers of several servers write,
  to choose between a notification and the socket.
- Every service stores the answers of its queries in Redis and drops the answers that its
  own handlers change, by key or by pattern, in most cases those of other services, too.

### What is hard

Handlers read with one query, check, and write with another, mostly in a later
transaction. Transactions run at PostgreSQL's default, READ COMMITTED, no query locks
a row it reads, and updates are keyed by primary key alone. So every check can be stale
when its write happens. Several servers run every handler, processor and cron, and an endpoint
starts the renewal run of the cron at any time. BullMQ
and Stripe deliver at least once, Stripe in no order. A process may die between any two
statements that are not in one transaction.

The hazards, each at its line with the properties about it, are listed in
`PROJECT.json`.

### What makes each component correct

- Jobs and quotes: one winner at most; the match table agrees with the quote table; work
  is only done, and counters only move, for a trader that was selected; the limit on
  quotes. All of it under any interleaving. What handlers keep only when they run one
  after the other is stated apart.
- Escalation: a decision taken on an old row changes nothing; a closed job is left
  alone; the chain of queued jobs is not lost; the radius stays in its range.
- Subscriptions: the tier on the profile is the plan of the subscription; an ending is
  charged once unless runs overtake each other; what is due is renewed; what is charged is recorded, and what is
  confirmed is in force.
- Direct jobs: one is active per conversation; a completed one has its dates and was
  credited; a completion is credited once; a customer is not flooded with reminders.
- Reviews: one per job; the trader's figures are those of the approved reviews.
- Sessions: a deactivated account gets no session; a reactivation leaves no open message
  of the user; a reset token sets the password once; pushes go to the last device.
- Chat: who is away is told of a message by a notification, who is there by a socket;
  `isOnline` is right but for short windows; two people have one direct conversation.
- Cache: an entry that differs from its rows is about to be dropped, and when the writing
  ends stale entries die out.
- Accounts: a registration is completed with its subscription and the tier is the plan;
  the categories in force were allowed by a plan and, if an admin had to approve them,
  approved; one request for other categories is pending.

## 2. Modules

| module | what it is |
|---|---|
| `JobQuotes` | one job, its quotes and its match rows; implements `OpenJob`, and `Award` with one request at a time |
| `MCJobQuotes` | its instances for TLC |
| `JobQuotes_proofs` | its theorems |
| `Escalation` | distribution of one open job: queue, processors, handlers; takes the steps of `OpenJob` for all that quotes do |
| `OpenJob` | the job as its distribution sees it: the abstract specification between `JobQuotes` and `Escalation` |
| `MCEscalation`, `Escalation_proofs` | instances, theorems, those about `Caches` too |
| `Subscriptions` | one trader's subscription, its purchases, the runs of processRenewals |
| `MCSubscriptions`, `Subscriptions_proofs` | instances, theorems |
| `DirectJobs` | the direct jobs of one conversation |
| `MCDirectJobs`, `DirectJobs_proofs` | instances, theorems |
| `Reviews` | the reviews of one trader and the figures computed from them |
| `MCReviews`, `Reviews_proofs` | instances, theorems |
| `Accounts` | one trader's registration, plan and trade categories |
| `MCAccounts`, `Accounts_proofs` | instances, theorems |
| `Award` | what a job promises, every step atomic: the abstract specification of `JobQuotes` |
| `Sessions` | one user's session, deactivation, forgotten passwords, and the device for pushes |
| `MCSessions`, `Sessions_proofs` | instances, theorems |
| `Chat` | presence of one user over several servers, messages to that user, conversations of two people |
| `MCChat`, `Chat_proofs` | instances, theorems |
| `Caches` | every cached query against every handler that makes it stale |
| `MCCaches` | its instance; its theorem is in `Escalation_proofs` |

A job, and a subscription, is a unit: no handler writes two jobs or two subscriptions,
except that autoCloseJobs and the cron go through many, one statement or transaction
each. So one job and one subscription are enough. In the same way the other modules
watch one conversation, one trader, one user or one cache entry.

### Conventions

A handler is split where another process can come in between. `XRead` is everything up
to the last check before the write, `XCommit` or `XWrite` the transaction. What the
handler remembers in between (the trader, the count, the version it read) is kept in the
slot of the request (`req`, `client`, `worker`, `run`). A check that fails ends the request, so
it is the same as `Abandon`, the request that dies. Mutated forms of some definitions
stand before them, marked *Mutant*: each is a plausible bug, and replacing the definition
by it makes a run fail.

**One transaction, one action.** Why this is sound under READ COMMITTED. Two
transactions that write the same row are serialised by its lock from the first common
row on. acceptQuote locks its quote, then the job, then the other quotes; rejectQuote,
withdrawQuote and updateQuote lock a quote, then its match, then the job. Where the
orders cross there is a deadlock and PostgreSQL aborts one of the two, which is
`Abandon`. What a transaction *reads* is not protected, so the reads a transaction
decides on are an action of their own wherever somebody else may write in between:
`CreateQuoteCheck` (the count of quotes, the duplicate, the match row) is apart from
`CreateQuoteCommit`, and the second test in `acceptQuote` belongs to `AcceptQuoteRead`
though it is inside the transaction.

### JobQuotes

| variable | code |
|---|---|
| `status`, `selected`, `received` | `Job.status`, `selectedTraderId`, `quotesReceived` |
| `closed` | `Job.distributionStatus = COMPLETED`, all that the closing handlers test |
| `quote`, `match` | the rows of each trader, `"NONE"` if there is none |
| `completed` | what this job added to `TraderMetrics.completedJobs` |
| `awards` | history: acceptances of each trader's quote |
| `req` | requests in flight |

`MatchStatus` has one value, `INVITED`, for SENT, VIEWED and REJECTED, between which no
handler of a quote or a job branches. Nothing modelled reads
`cancelledJobs` and `closedJobs`, and both only grow: the trader for whom a request raised
one stays in the request's slot (`"blamed"`) until it returns. Statuses that no handler writes (DRAFT, ARCHIVED) are left out.
Notifications, attachments, prices and response metrics are left out.

**Refinement.** `Phase`, `selected` and `completed` implement `Award`: POSTED and
QUOTE_RECEIVED are one phase, reads and quotes that come and go are stutters, and each
commit is one abstract step. `Close` of `Award` has no guard: the handlers that close test
`distributionStatus`, not the status of the job. The refinement holds with one request at a time,
`ActsAsAward`; with two it does not, and `JobQuotesSecondAcceptance` is the reason.
`OpenJob` asks less, and is implemented under every interleaving (`ActsAsOpenJob`): whether
the job is POSTED or QUOTE_RECEIVED, and the count of its quotes as far as the limit goes.

An edit of a job outside its category and location changes none of these variables. The
critical edit is in three steps, because it is not in a transaction.

### Escalation

The variable `delayed` is the set of `expectedVersion` of the escalation jobs in the
queue. The delay of 20 minutes is "any time". `Redeliver` puts the job of a busy worker
back: BullMQ does so with a worker that stalls, and two enqueued duplicates look the
same. `epoch` counts how often `escalationVersion` was set back to 0. `cut` remembers the
events after which no code continues the chain: the processor throws (the queue has no
retry), a handler dies before it queued, an admin widens the radius by hand, or Redis is
flushed.

**Composition.** The processor reads two things of a job that quotes and lifecycle write:
`active` and `quotes`. `OpenJob` says all that may become of them, and both sides are held
to it. `JobQuotes` implements it with any number of requests in flight, and `Escalation`
takes its `QuotesChange` and `JobTaken` for what the rest of the system does, and does
nothing else to the two. So what is shown of the chain holds with the handlers of
`JobQuotes` in their place. `QuotesChange` leaves the count open, since it is written from a
stale read, and may bring a job back that was closed, as rejectQuote does.

### Subscriptions

Plans are their ranks (`TIER_RANK`). Time is `trialOver` and `periodOver`: the cron
compares two pairs of columns with now, and each pair is written together by all code
but `confirmPayment`, which writes neither. `intent` is Stripe's view of a purchase,
`hook` the delivery of its success event. `run` is what each run of `processRenewals` has
read of the row; runs are started by the hourly cron of every server and by every request to
`POST process-renewals`, which asks for no role (`subscriptions.controller.ts:75`), so a run
belongs to no server and `Runs` bounds how many there are at the same time. `endings`,
`renewals` and `overtaken` are history.
`confirmPayment` of an intent that has a payment row, whoever wrote it, answers without
a write: a disjunct of `ConfirmPaymentRead` that changes nothing.

`Init` is what `traderRegisterStep3` leaves: a trial, or a paid period that has begun.
`PaymentFor` restricts the inputs of `changePlan` to a payment intent of the plan that
Stripe has charged, which is how the client calls it; the code itself does not look.
The lock of `processRenewals` is left out since it excludes nobody (finding 2).

### DirectJobs

| variable | code |
|---|---|
| `status` | `DirectJob.status`, `"NONE"` before the row exists |
| `completedAt`, `confirmedAt` | whether the column is set |
| `reminders` | how many reminders went out in the last 12 hours; `lastReminderSentAt` is in that time if it is positive |
| `credits` | what the requests of each slot added to `TraderMetrics.completedJobs` for each job |
| `left` | history: how often each job left COMPLETED or CANCELLED |
| `req` | requests in flight, with what they decided from the row they read |

`updateAdminDirectJobStatus` decides, from the row it read, whether to credit the trader
and whether to set the dates: `credit` and `date` of its request. `SettleCommit` is the
write of three handlers that differ only in these. Chat notices, notifications and
`cancelledAt` are left out: no handler reads them.

### Reviews

| variable | code |
|---|---|
| `status`, `kind`, `rating` | the columns of each review; `kind` says of what it is, by `reviewType` and `directJobId` |
| `total`, `sum` | `TraderMetrics.totalReviews`, and `averageRating` times it |
| `drift` | history: something happened since the last recalculation that the figures do not follow |
| `req` | requests in flight: the status they read, or the rows a recalculation read |

A handler is up to four steps: it reads the review, writes it, reads all approved reviews
and writes the figures. `deleteReview` computes the figures from the old ones instead, in
the transaction in which it deletes; the deletion locks the row (`Locked`), so an edit or
an approval that comes later waits and then fails. The sum of the ratings stands for the
average: the code's average is a quotient of the two, rounded to two digits only by
`deleteReview`. Both copies of `recalculateTraderMetrics` are the same action. Left out:
`bayesianRating`, proofs, the reply of the trader, the limit of ten reviews a day, the
scan of the text, and customers: of one job there is one customer.

### Accounts

| variable | code |
|---|---|
| `approved` | `TraderProfile.verificationStatus = APPROVED`, all that the third step tests |
| `completed` | `isRegistrationCompleted` |
| `plan`, `trial`, `tier` | `Subscription.planId`, `isTrial`; `TraderProfile.subscriptionTier` |
| `categories` | how many `tradeCategories` the profile has; from which request they come and which plan they were held against is history |
| `change` | the rows of `TraderCategoryChangeRequest`: state and number of categories |
| `req` | requests in flight |
| `bought`, `died`, `torn`, `overlapped` | history that the properties name |

`Init` is what the first step leaves. The third step is two writes, `Step3Create` and
`Step3Profile`; the rows between them (payment, history) can only fail, which is `Die`.
Its insert is refused by the unique key if there is a subscription by then. What
`Subscriptions` has in detail is here a writer of the plan: `ConfirmPaymentCommit`
(which may create the subscription), `ChangePlan`, `Renew`. `Renew` may write any plan,
because the cron's snapshot may be older than any change the trader made. There are six
writers of the categories, with three ways to learn the limit: `updateTraderCategories`
and `updateProfile` ask for the plan of the subscription, `reviewCategoryChangeRequest`
asks again when it approves, and `updateTraderCategorySelection` takes the plan that the
request names. The flag `unlimitedTrades` is a plan with a high `Max`.

### Sessions

| variable | code |
|---|---|
| `active`, `rejected` | `User.status = ACTIVE`; `verificationStatus = REJECTED` |
| `token`, `fcm` | `User.token`, `User.fcmToken`, by the app they belong to |
| `gone` | apps that FCM no longer knows |
| `submission`, `recent` | `ContactSubmission` rows of the user, whatever they are about; one is under five minutes old |
| `reset` | `PasswordResetOtp` rows: sent, verified, used, expired |
| `req` | requests and push workers in flight |
| `last`, `late`, `risked`, `stray`, `sets`, `overlapped`, `torn` | history that the properties name |

A registration is an app on one device. Time is three actions: `MinutesPass` for the pause
between requests for reactivation, `ResetExpires` for codes and reset tokens. `PushSend` and
`PushRefused` are FCM, which is external: it takes a message, does not know the
registration, or refuses the message as invalid; the worker treats the last two alike.
`Die` of a push is also an error after which BullMQ tries again. The middleware's test is
`Authorized`: it looks at the token only. `Submit` is the insert of a message, by
`requestReactivation` or `createContactSubmission`; `UpdateContactStatus` is the admin's
write of any status by id. IN_PROGRESS, RESOLVED and CLOSED are one status, HANDLED: all
code asks is whether a row is PENDING. `verifyTrader` sets the status ACTIVE whatever it
was, which is its code's unconditional assignment.

### Chat

| variable | code |
|---|---|
| `isOnline` | `User.isOnline` |
| `sock`, `home` | each socket: away, in the user's room, or in the 300 ms of `handleDisconnect`; its server |
| `setting` | calls of `setUserOnline` and `setUserOffline` under way |
| `msg` | how far `sendMessage` is with each message |
| `row`, `call` | the `Conversation` rows of the two, and requests for one |
| `lapse`, `reached`, `excused` | history: the last write of presence may be wrong; messages the user was told of; messages sent in a window in which that may fail |

The count of the room is what the code's `adapter.rooms` has, the sockets of one server.
Emissions reach all servers by the Redis adapter. `Crash` takes a server's sockets away
without `handleDisconnect`. `lapse` is set again by each write that starts, so the model
says which write is to blame, not that something went wrong some time.

### Caches

`Queries` has every cached query with the groups of columns it reads, `Handlers` every
handler that writes such a column as the sequence of its writes and drops in the order of
the code. A behaviour picks one of each. `entry` and `fill` say of a copy of the rows, in
Redis or in the hand of a reader, whether it is current, behind (a write came after it was
read), late (so did the drop), or an orphan (the handler died before its drop). This is
all that `RedisService.get`, `set`, `del` and `delPattern` do to one entry; a second
handler could only drop more, which helps. Two queries that share a key
(`global:average_rating`) are two queries with the same key.

## 3. Runs

| run | expects | what it shows |
|---|---|---|
| `JobQuotesConcurrent` | pass | two traders, two requests in flight: the invariants that survive every interleaving, and that they implement `OpenJob` |
| `JobQuotesSerial` | pass | three traders, one request at a time: the stronger invariants of legal sequences, and that they implement `Award` |
| `JobQuotesSecondAcceptance` | violation | a second acceptance replaces the first |
| `Escalation` | pass | two processors and one handler request |
| `Subscriptions` | pass | one purchase, one request at a time, the webhook and two runs of the renewals |
| `SubscriptionsTwoRuns` | violation | two runs of the renewals charge twice |
| `DirectJobs` | pass | two direct jobs, two requests of trader, customer or admin in flight |
| `Reviews` | pass | two reviews, two requests in flight and the nightly cron |
| `Accounts` | pass | two requests of trader or admin in flight, with payments and renewals at any time |
| `Sessions` | pass | two requests or push workers at a time for two apps |
| `Chat` | pass | three sockets on two servers that crash, a message; two requests for a conversation |
| `Caches` | pass | each of 44 queries with each handler that writes its rows, two readers, two runs |

### Properties

`JobQuotes`, under concurrency: `AcceptedIsSelected`, `MatchesFollowQuotes`,
`WorkIsEarned`, which is `WorkHasTrader` and `CreditFollowsAward`; `QuoteLimitOvershoot` says
by how much the limit on quotes can be overrun; `ActsAsOpenJob` is the refinement the
escalation relies on. With one request at a time: `RowsAgree`, which is `AssignedSettled` (no sequence of
edits, rejections, withdrawals, closings and acceptances leaves an assigned job with a
pending quote) and `OpenJobCounts`; `CompletedOncePerAward`; and `ActsAsAward`, the
refinement: nothing is started, completed or cancelled that was not awarded, an award
that stands is not replaced, and a completion is credited to the trader whose award it
was. These fail with two slots, and nothing in the code promises them then. `OpenJobCounts` is an inequality because
`withdrawQuote` of a rejected quote lowers the count a second time.

`Escalation`: `FreshVersion` and `EscalationExact` are about the
optimistic lock; the latter is restricted to one epoch because a reset brings
old versions back, and also says that no processor widens a job that was closed.
`ChainHandedOn` and `ChainProgress` are about the chain: the first says at which steps it may
end, the second that it goes on. They are stated of a worker by the version it read *and* the
radius it is about to reach, since after a reset a worker of the old chain can hold the
present version without carrying the chain.

`Subscriptions`: `TierFollowsPlan`, `DueIsRenewed`, `PaidIsRecorded`, and `RenewalOvershoot`:
an ending is charged again only by a run that writes when the row is due no more, since
another run or the trader came first (`overtaken`), and by each run at most once. `RenewedOnce`, what the comment at the
lock says, fails as soon as there are two runs, be they the crons of two servers or the cron
and the endpoint of one.

`DirectJobs`: `CompletedIsSettled`, `CreditedOncePerCompletion`, and by how much two tests
before a write are overrun, `ChecksOvershoot`: `ActiveOvershoot` for the active job and
`ReminderOvershoot` for the reminders. "One credit per
completion" is not true of the code with two requests: both may have read a job that is
not completed. The property says what is left of it: a slot credits a job once, and again
only after the job left a final status; so with n requests at the same time the counter
is too high by at most n - 1 for each completion.

`Reviews`: `FiguresAtRest` names the four causes that make the figures wrong (a deletion,
the cron, a request that dies half way, two recalculations that overlap) and says that
nothing else does and that the next recalculation makes up for all of them.
`ReviewOvershoot` is the bound on reviews of one job.

`Accounts`: `RegistrationConsistent` is `RegistrationSettles` and
`TierFollowsRegistration`, which say what the two separate
writes of the third step can and cannot do. Two third steps with different plans do no
harm, since the insert decides which of them goes on. Two ways lead to a dead end, a
subscription without a completed registration, out of which no handler leads: the third
step died half way, or a payment was confirmed before the third step. The tier differs
from the plan only if somebody wrote the plan while a third step was between its writes,
or that step died. `CategoriesWereAllowed` says that no
write, however old what it brings, puts more categories in force than a plan allowed
that they were held against. "Than the present plan allows" is not true of the code:
`changePlan` to a lower plan during a trial keeps the categories, and
`updateTraderCategorySelection` lets the trader name the plan. `AppliedWasApproved` and
`PendingOvershoot` are about the two tests of a request's status before a write.

`Sessions`: `DeactivationHolds` says who may still be in after a deactivation (a login
that had passed its test before) and which messages of the user may be open in an active
account: those sent, or reopened by an admin, since it is active, and those left by a
reactivation that died or by `verifyTrader` (`stray`). The reactivation itself leaves none,
whatever was sent, handled and reopened before it. `ResetSetsOnce` says of a reset token that it sets the password once unless
two resets overlap or one dies between password and `usedAt`; late verification of a code
and expiry do not matter. `DeviceKept` says when the push worker takes away the device of
the last login: only if FCM did not know it or refused a message to it, or the login came
during a push to an earlier one.

`Chat`: `AwayIsTold` has two parts. `PresenceFollows` says `isOnline` is right outside of the
300 ms and the writes, but for three causes: writes of presence that overlap, writes that
are lost, and a socket at another server. `MissedOnlyInWindow` says that a message that was sent
was seen or is in a notification, but for the windows of the first part. `DirectOvershoot`
bounds the direct conversations of two people by the requests at the same time: the
unique key does not help, since `jobId` is null in all of them.

`Caches`: `StaleHasReason` says of all pairs at once that a handler that drops a key drops
it after the last write the entry is made of, with ten exceptions that are listed by name
in `DroppedTooEarly`. Stale entries of handlers that have no drop for a key are allowed
(`LeavesToExpire`). `StaleDiesOut` is about all stale copies, also the late and the orphaned
ones: once no handler runs any more they are gone for good, though readers still store what
they read before. It needs a time to live in each of the 44 queries, no renewal on a hit, and
that a reader stores once what it has read; a query that stores its entry again when it finds
it, or one without a time to live, breaks the run. A handler changed to drop too early, or a query that
gets a row of a handler that drops before it writes, breaks the run.

### Bounds

- Two slots: every handler can interleave with any other and with another instance of
  itself. The matcher and the admin's reopening are outside the slots and always enabled.
- Two traders and `QuoteLimit` 1 in the concurrent run let the limit be overrun; three
  traders and a limit of 2 in the serial run. The code's limit is 3; the limit enters
  by one comparison and the theorem `QuoteLimitHolds` holds for any.
- `ReceivedBound`, `AwardBound`, `CreditBound` cap counters that the code leaves
  unbounded: quotes can be made, withdrawn and accepted for ever. A bound of 1 on awards
  of *each* trader still allows a second acceptance of the job; with two credits allowed
  per award, a double completion would be seen.
- `Escalation`: radius 1 to 3 in steps of 1 and a review after 2 are 10 to 100 km and
  9 at a smaller scale: the review coincides with the last widening in both. One restart,
  edit, closing or widening is enough for each of them to meet two workers. One quote fills
  the job; a run with a limit of two passes as well (1.9 million states) and shows nothing more.
- `Subscriptions`: two tiers and two cycles give all the branches of `changePlan`. Two
  endings (`EndBound`), a trial and a period or two periods, so that what was read in one
  period can be written in the next and meets the renewals once more. Two runs, so that one
  may overtake the other; the proof of `RenewalOvershoot` is for any number. About 905 000
  states.
- `DirectJobs`: two jobs let the test for an active job be overrun; `LeftBound` 1 lets a
  job be completed, taken back and completed again.
- `Reviews`: two reviews and the ratings 1 and 5, so that a sum that misses a review, or
  counts an old rating, differs from the right one. Two requests can each be between
  their review and the figures.
- `Accounts`: two plans, one that allows the two categories of `Counts` and one that does
  not; two requests for other categories, so that a second one can be pending; no bound
  on the length of a behaviour.
- `Sessions`: two apps, since every property is about an older and a newer one; two
  requests for reactivation and two resets, so that one is resolved or used while the
  other is not. `Apart` cuts behaviours in which a reset and anything else were both used:
  they share no variable but the slots, so what is cut only repeats. The proofs need no
  such cut. Messages count among the requests, for they are the same rows. About 920 000 states up to symmetry.
- `Chat`: two sockets on one server and a third on another are enough for each branch of
  the counts to be right or wrong. Three rows and two slots let the bound on conversations be
  met; `Apart` separates conversations and presence in the same way.
- `Caches`: two readers and two runs of the handler. A third reader can only bring a copy
  as old as one of the two; no bound on length. About 300 000 states.

Deadlock is checked in the runs of `Escalation`, `Subscriptions`, `Accounts`, `Sessions`,
`Chat` and `Caches`. The runs of
`JobQuotes` do not check it: with its counters at their bounds a job may stop. Nor do those of `DirectJobs` and `Reviews`: when all jobs are
created and settled, or nobody writes a review, nothing need happen.

### Fairness

- `Escalation`: each worker takes jobs and finishes them (BullMQ's workers poll), and a
  handler that wrote the row goes on to queue the job, unless it dies, which sets `cut`.
- `Subscriptions`: the cron starts a run every hour, which finds the row as long as it is
  due: weak fairness of the read by *some* run. A renewal may fail, is tried again by the run
  of the next hour, and does not fail every time: strong fairness of the commit by some run.
  No single run is assumed to get anywhere. The same for Stripe's deliveries.
- `Caches`: Redis removes what has expired: weak fairness of `Expire`, which is enabled only
  for a query with a time to live. No reader or handler is assumed to go on.
- Nothing is assumed of traders, customers, admins or Stripe's decisions.

## 4. Findings

Shown by a run:

1. *Second acceptance* (`quote.service.ts:853`). The test in the transaction does not
   exclude a concurrent acceptance. `JobQuotesSecondAcceptance`.
2. *Renewal lock* (`subscriptions.service.ts:545`). Never taken; two runs, of two servers or
   of the cron and `POST process-renewals`, charge twice. `SubscriptionsTwoRuns`.

Plain from the text once the model says what the code does; no run is spent on them:

3. *Manual review* (`escalation.processor.ts:127`). After 9 escalations, not 3 as the
   comment says (`NeedsReview`).
4. *Idempotency of confirmPayment* (`payment.service.ts:158`). A failed attempt, or the
   webhook, makes the confirmation answer success and skip the plan (`ConfirmPaymentRead`).
5. *Deletion of a review* (`review.service.ts:1161`). Takes a pending review out of
   figures that never counted it (`DeleteReviewCommit`).
6. *Archiving of reviews* (`job-escalation.service.ts:189`). Archives all approved
   reviews, expired or not (`CleanupExpiredReviews`).
7. *Completely offline* (`chat.gateway.ts:181`). The count of sockets is that of one
   server (`HandleDisconnect`).
8. *Deduplicated emission* (`socket.service.ts:39`). One call emits to three rooms, and a
   client in two of them gets the message twice. Deliveries are not counted in `Chat`.
9. *Resolved with the reactivation* (`admin.service.ts:2857`). Not only the "reactivation
   contact submissions" of the comment but every pending message of the user is resolved
   (`ReactivateAccountResolve`).

## 5. Proofs

`TLAPS` proves, for every value of the constants that meets the assumption
`ConstantsAssumption` of each module:

| theorem | property |
|---|---|
| `JobQuotes_proofs!TypeCorrect` | `TypeOK` |
| `JobQuotes_proofs!OneWinner` | `AcceptedIsSelected` |
| `JobQuotes_proofs!MatchesAgree` | `MatchesFollowQuotes` |
| `JobQuotes_proofs!WorkIsAwarded` | `WorkIsEarned` |
| `JobQuotes_proofs!QuoteLimitHolds` | `QuoteLimitOvershoot` |
| `JobQuotes_proofs!JobsImplementOpenJob` | `ActsAsOpenJob` |
| `JobQuotes_proofs!RowsAgreeSerially` | `RowsAgree`, if there is one slot |
| `JobQuotes_proofs!OneCompletionPerAward` | `CompletedOncePerAward`, if there is one slot |
| `JobQuotes_proofs!SerialJobsImplementAward` | `ActsAsAward`, if there is one slot |
| `Escalation_proofs!TypeCorrect` | `TypeOK` |
| `Escalation_proofs!FreshChain` | `FreshVersion` |
| `Escalation_proofs!EscalationIsExact` | `EscalationExact` |
| `Escalation_proofs!ChainIsHandedOn` | `ChainHandedOn` |
| `Escalation_proofs!EscalationKeepsOpenJob` | `J!Spec`, the same view of the job |
| `Escalation_proofs!StaleIsExplained` | `StaleHasReason` of `Caches` |
| `Subscriptions_proofs!TypeCorrect` | `TypeOK` |
| `Subscriptions_proofs!TierIsPlan` | `TierFollowsPlan` |
| `Subscriptions_proofs!RunsChargeOnce` | `RenewalOvershoot` |
| `DirectJobs_proofs!TypeCorrect` | `TypeOK` |
| `DirectJobs_proofs!CompletionSettles` | `CompletedIsSettled` |
| `DirectJobs_proofs!CreditsAreBounded` | `CreditedOncePerCompletion` |
| `DirectJobs_proofs!ChecksAreBounded` | `ChecksOvershoot` |
| `Reviews_proofs!TypeCorrect` | `TypeOK` |
| `Reviews_proofs!FiguresSettle` | `FiguresAtRest` |
| `Reviews_proofs!ReviewsAreBounded` | `ReviewOvershoot` |
| `Accounts_proofs!TypeCorrect` | `TypeOK` |
| `Accounts_proofs!RegistrationIsConsistent` | `RegistrationConsistent` |
| `Accounts_proofs!CategoriesAreAllowed` | `CategoriesWereAllowed` |
| `Accounts_proofs!AppliedIsApproved` | `AppliedWasApproved` |
| `Accounts_proofs!PendingIsBounded` | `PendingOvershoot` |
| `Sessions_proofs!TypeIsCorrect` | `TypeOK` |
| `Sessions_proofs!DeactivationIsSafe` | `DeactivationHolds` |
| `Sessions_proofs!ResetsAreUsedOnce` | `ResetSetsOnce` |
| `Sessions_proofs!DeviceIsKept` | `DeviceKept` |
| `Chat_proofs!TypeIsCorrect` | `TypeOK` |
| `Chat_proofs!AwayUsersAreTold` | `AwayIsTold` |
| `Chat_proofs!DirectIsBounded` | `DirectOvershoot` |

**JobQuotes.** The invariants are proved together, in `IInv`, because they need each
other and two more facts. `RequestsKnowWinner`: a request that is going to start,
complete or cancel the job read a status that only an acceptance leads to, so there is a
winner and it remembers one; and a request about a quote does not outlive the quote.
`SelectedWasAwarded`: whoever is selected had a quote accepted. Without them
`WorkHasTrader` is not inductive: a commit from a stale read could come from nowhere. One
lemma per action. The reads are one lemma, `ReadOpens`, since a read only fills a
slot. `QuoteLimitOvershoot` is inductive above `IInv`: each request that passed the check
is counted in `Inserting` until it has inserted.

`JobsImplementOpenJob` rests on `CountedIsOpen`: a transaction that writes the count writes an
open status with it, whatever the status was; any other leaves the count alone. From that
alone every step is one of `OpenJob` (`CountedIsStep`): the job is taken, opened, or the
view does not move.

With one slot, `SInv` adds to `IInv` what serial execution gives: `StillTrue` says that what
a request read still holds when it commits, since nobody else runs. From it
`RowsAgree` and `CompletedOncePerAward` are inductive, and each commit is the
step of `Award` it is meant to be: `SerialJobsImplementAward` proves the initial states and the
step, one lemma per group of actions, and combines them as the refinement. The counts of
pending quotes are finite because `Pending` only grows by one quote at a time
(`PendingFinite`, `PendingMore`, `PendingLess`), so traders may be an infinite set.

**Escalation.** `DecidedIsCurrent` says that, within an epoch, the version only grows, and
that a worker whose version is still current also sees the radius it read and a job that
is not closed. Every writer of the radius or of a closing moves the version: that
is the argument for the optimistic lock. `RememberedRadii` bounds what requests hold. The
`EscalationExact` follows from a step lemma. `ChainIsHandedOn` asks of every step of a holder
of the present version where the version goes: `WorkHandsOn` for processors, `HandlersHandOn`
for requests; a step of anybody else takes nothing from a holder (`OthersHold`) or makes a
promise of the next version (`OthersPromise`). An earlier form of `ChainHeld` named the
version alone; the proof did not go through, for a worker of an older epoch may have
escalated to the same number, and the property was corrected.

**Subscriptions.** `TierFollowsPlan` is inductive above the types: every writer of the
plan writes the tier in the same transaction. `PaidHasPlan` is needed for the types:
a request that confirms names a purchase that exists. `RunsChargeOnce` is a budget: each
ending gives every run one charge, and `ChargesInv` says that what is left is enough for
the runs that may still charge (`MayCharge`): all of them while the row is due, and once
one has written, so that it is not due, only those that had read it before (`Busy`). Of all
these charges one overtakes nobody, and it is open (`Open`) as long as the row is due.
Nothing is assumed of how many runs there are or who starts them.

**DirectJobs.** A completion by an admin may neither credit nor set the dates. That such
a job has both all the same needs to be remembered of the request:
`RequestsBringDates` says that a request that will complete a job without dates read one
that has them, and dates and credits are never taken away. `CreditBudget` is the argument
for `CreditedOncePerCompletion`: a request that will credit a job has read it before it
was completed, so the slot has a credit to spare. The two overshoots count the requests
that passed the test, as `QuoteLimitOvershoot` does.

**Reviews.** `FiguresComing` says, as long as there is no drift, that somebody is going
to read the approved reviews, or that the only request about to write has read just them,
or that the figures are right already. At rest only the last is left. `OneWriter` is
needed with it: a second writer could bring older rows. A step that touches neither an
approved review nor a recalculation is one lemma, `QuietStep`; the write of a review
leads to a reader, `ReaderComes`. What a sum over ratings is does not matter here: the
proof only uses that equal rows have equal sums, so it needs no induction.

**Accounts.** `OneRegistration` says that at most one third step is between its writes,
and what it remembers of the plan; `BeforeAny` that without a subscription nothing has
ended the registration. From the two `RegistrationSettles` and `TierFollowsRegistration`
follow when the step ends. For the categories the invariant has to speak of the writes
under way as well: `SelectionsUnderWay` says of a write of older categories that the
request they come from was approved already, and `OneReview` that the only review of a
request still finds it pending.

**Sessions.** `IInv` is the three properties and what requests in flight remember.
`LoginsAreLate` says that a login under way in a deactivated account was under way when it
was deactivated: the account's status is tested before, so `late` holds all that can still
write a token. `RequestsAreResolved` is inductive with the types, since `stray` follows
every way a message comes to be open in an active account, the admin's included. `PushesFollow` says to which app a push under way goes, and why a
worker is about to clear the column. `ResetsStaged` counts the uses of a reset by the stage
of the only request that works on it. Requests that only begin are one lemma, `BeginStepOpens`.

**Chat.** `WritesAgree` says, unless there was a lapse, that writes of presence under way
agree with the sockets there are: none sets the user offline while a socket is in, none sets
the user online while all are gone unless one is leaving. From it `PresenceFollows` follows, and the decision of
`sendMessage` is right or excused. `EmissionReaches` carries this on to the
emission: whoever leaves in between excuses the message. `DirectOvershoot` counts requests
that found no conversation, as the other overshoots do; it needs the slots to be finite.

**Caches.** The tables are finite, the requests are not. `EveryHandler` is the fact about the
tables: of any handler and any query, a write of rows the query reads is followed by a drop
of its key, or nothing drops it, or the pair is in `DroppedTooEarly`. 76 of the 83 handlers
have it by their shape, writes and then at most one drop, for any query at all; the other
seven drop early, and for these the query is found by its key (`KeysOfEarlyDrops`). Handlers
that call another are joined sequences, whose elements are proved from `Joined`.
`StaleHasReason` alone is not inductive, since a reader may bring an old copy: `CachesInv` asks
for a reason as soon as a copy on its way is behind. The proofs stand after those of
`Escalation`, the other state in Redis.

Only model-checked: the liveness properties (`ChainProgress`, `DueIsRenewed`,
`PaidIsRecorded`, `StaleDiesOut`), as the prover does no temporal reasoning with
fairness.

## 6. Not modelled

- Ranking and search (SQL computed in the database), listings, dashboards: no state.
- Mail and files: outputs on which no modelled decision depends.
- Cached values in decisions: only the average rating (ranking, `bayesianRating`) and the
  keywords of the moderation are taken from Redis by a handler, and neither rating nor scan is
  modelled. `Caches` says how old they may be.
- Daily limits of jobs and quotes: a count before an insert, as the limit on quotes.
- Amounts: which of two prices is higher matters, the sums do not.
- Which categories a trader has, and the skills under them: their number matters here.
- The verification of the e-mail address, changes of the password by its owner, and the
  documents of the second step.
- The search for forbidden words in a text: a pure test.
- Typing and read marks of the chat, and the relay of a sent message by the sender's client.
- The producer of the queue of pushes, and the wording of notifications.

## 7. Plan

Written: `JobQuotes`, `Award`, `OpenJob`, `Escalation`, `Subscriptions`, `DirectJobs`,
`Reviews`, `Accounts`, `Sessions`, `Chat`, `Caches`, and proofs of every invariant and action
property a run checks.

What would add most from here:

1. A composition of `DirectJobs` and `Reviews`: a review of a direct job belongs to one
   that was completed, and what becomes of it when an admin takes the completion back.
2. An abstract specification of `Subscriptions`: a plan is in force while it is paid for.
3. The daily limits, which span the jobs of a customer and the quotes of a trader.
