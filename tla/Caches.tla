------------------------------- MODULE Caches -------------------------------
(***************************************************************************)
(* The cached queries of the backend and the handlers that make them       *)
(* stale: redis.service.ts and its callers in all services.                *)
(*                                                                         *)
(* A cached query looks its key up; on a miss it reads the rows and then   *)
(* stores what it read, with a time to live.  A handler writes rows and    *)
(* drops keys, one statement after the other.  Nothing ties the two: a     *)
(* query may store what it read before a write after the drop that follows *)
(* the write, a handler may die between its write and its drop, drop       *)
(* before it writes or not drop at all.                                    *)
(*                                                                         *)
(* The tables below give every cached query with the rows it is made of,   *)
(* and every handler with its writes and drops in the order of the code.   *)
(* A behaviour watches one entry of one query and one handler that writes  *)
(* rows of it: entries do not touch each other, and a second handler could *)
(* only drop more.  Rows are named by groups of columns that are written   *)
(* together; a key ending in * stands for any page or filter.  The entry   *)
(* is the one of the user, job, quote or review the handler is about.      *)
(* The specification is named so that one module can extend this one and   *)
(* that of another component.                                              *)
(***************************************************************************)
EXTENDS Naturals, Sequences, FiniteSets

CONSTANTS
    Readers,    \* requests that run the query at the same time
    Slots       \* requests that run the handler at the same time

VARIABLES
    query,      \* the query that is watched
    handler,    \* the handler that is watched
    entry,      \* what Redis holds under the key
    fill,       \* what each reader has read and not stored yet
    at          \* the next step of each run of the handler, 0 if it does not run

cacheVars == <<query, handler, entry, fill, at>>

\* ttl is the time to live in seconds; without one, RedisService.set stores for ever.
Query(key, ttl, reads) == [key |-> key, ttl |-> ttl, reads |-> reads]
Writes(rows) == [rows |-> rows, keys |-> {}]
Drops(keys) == [rows |-> {}, keys |-> keys]

-----------------------------------------------------------------------------
(***************************************************************************)
(* Groups of columns, as far as queries and handlers tell them apart.      *)
(***************************************************************************)

\* User and TraderProfile.
NewUser == {"new user"}
Person == {"name, contact, image"}
Account == {"status, isVerified"}
Presence == {"isOnline, lastSeen"}
Profile == {"company, location, about, logo, document"}
Verification == {"verificationStatus, rejectReason"}
Registration == {"registrationStep, isRegistrationCompleted"}
Tier == {"subscriptionTier, subscriptionStatus"}
Trades == {"tradeCategories, skillsServices, subCategories"}
Files == {"portfolio, certificates, insurance documents"}
Rating == {"averageRating, totalReviews, bayesianRating"}
Metrics == {"the other columns of TraderMetrics"}
WholeProfile == Profile \cup Verification \cup Registration \cup Tier \cup Trades

Subscription == {"Subscription"}
Plan == {"SubscriptionPlan"}
ChangeRequest == {"TraderCategoryChangeRequest"}
Saved == {"SavedTrader"}

\* Names and images of master data, and which of them are active.
Names == {"category", "skill service", "sub category"}
Category == {"category"}
SkillService == {"skill service"}
SubCategory == {"sub category"}
ActiveCategory == {"active categories"}
ActiveSkillService == {"active skill services"}
ActiveSubCategory == {"active sub categories"}

NewJob == {"new job"}
JobText == {"what the customer wrote of a job"}
JobState == {"status, winner, counters and distribution of a job"}
Match == {"JobTraderMatch"}
Log == {"JobEscalationLog"}
Quoted == {"which quotes there are"}
Quote == {"price and status of a quote"}
NewReview == {"new review"}
Review == {"Review"}
Conversation == {"Conversation"}
Message == {"Message"}
NewReport == {"new report"}
Report == {"Report"}
NewSubmission == {"new submission"}
Submission == {"ContactSubmission"}
Notification == {"Notification"}
Faq == {"Faq"}
Flag == {"ContentFlag"}
Keyword == {"ViolationKeyword"}

-----------------------------------------------------------------------------
(***************************************************************************)
(* The cached queries.                                                     *)
(***************************************************************************)
registrationStatus == Query("registration-status", 300, Profile \cup Verification \cup Registration \cup Tier \cup Files)
getMyProfile ==
    Query("profile", 300, Person \cup Account \cup WholeProfile \cup Files \cup Subscription \cup Plan \cup Names)
getCustomers == Query("customers:*", 300, NewUser \cup Person \cup Account)
getTraders ==
    Query("traders:*", 300, NewUser \cup Person \cup Account \cup WholeProfile \cup Names)
getUserDetails ==
    Query("admin:user-details", 300, Person \cup Account \cup Presence \cup WholeProfile \cup Files
            \cup Subscription \cup Plan \cup ChangeRequest \cup Rating \cup Metrics
            \cup NewReview \cup Review \cup Saved \cup Names)
getDeactivatedAccounts ==
    Query("deactivated-accounts:*", 300,
          Account \cup Person \cup Profile \cup Verification \cup NewSubmission \cup Submission)
getCategoryChangeRequests ==
    Query("admin:category-change-requests:*", 300, ChangeRequest \cup Person \cup WholeProfile)
getSavedTraders ==
    Query("saved-traders:*", 60, Saved \cup Person \cup Profile \cup Trades \cup Rating \cup Metrics \cup Names)

getAllJobs == Query("admin:jobs:*", 300, NewJob \cup JobText \cup JobState \cup Quoted \cup Person \cup Names)
getManualReviewJobs ==
    Query("admin:manual-review-jobs:*", 300, JobText \cup JobState \cup Quoted \cup Person \cup Names)
\* AdminService and CustomerService each have one, under the same key.
getJobDetails ==
    Query("admin:job", 300, JobText \cup JobState \cup Match \cup Log \cup Quoted \cup Quote
            \cup Conversation \cup NewReview \cup Review \cup Person \cup Names)
getMyJobs ==
    Query("customer:jobs:*", 300, NewJob \cup JobText \cup JobState \cup Quoted \cup Quote
            \cup Person \cup Profile \cup Names)
getMatchedJobs ==
    Query("trader:matched-jobs:*", 300, Match \cup JobText \cup JobState \cup Quoted \cup Person \cup Names)
\* The same query for a trader who was sent the job, too, but did not act.
getMatchedJobsOfOthers == [getMatchedJobs EXCEPT !.key = "trader:matched-jobs:*:others"]
getAllQuotes ==
    Query("admin:quotes:*", 300, Quoted \cup Quote \cup JobText \cup JobState \cup Person \cup Names)
getJobQuotes == Query("job:quotes", 300, Quoted \cup Quote \cup Person \cup Profile \cup Rating)
getMyQuotes == Query("trader:quotes:*", 300, Quoted \cup Quote \cup JobText)
getMyQuoteByJob == Query("trader:quote", 300, Quote \cup JobText)

getPendingReviews == Query("reviews:pending:*", 300, NewReview \cup Review \cup Person)
getAllReviews == Query("admin:reviews:*", 300, NewReview \cup Review \cup Person \cup JobText \cup JobState \cup Names)
getTraderReviews == Query("trader:reviews:*", 300, NewReview \cup Review \cup Person)
getMyReviews == Query("customer:reviews:*", 300, NewReview \cup Review \cup Person \cup JobText)
getReviewById == Query("review:detail:*", 300, Review \cup Person)
getLatestReviews ==
    Query("reviews:latest:*", 300, NewReview \cup Review \cup Person \cup Profile \cup Trades \cup Names)
\* One key for two figures: the mean over all reviews, in recalculateTraderMetrics, ...
averageOfReviews == Query("global:average_rating", 3600, NewReview \cup Review)
\* ... and the mean over the traders' means, in searchTraders, getSuggestedTraders and
\* matchAndSendJob.
averageOfTraders == Query("global:average_rating", 3600, Rating)

getAllCategories == Query("categories", 3600, Category \cup ActiveCategory)
\* Nothing is answered, or stored, for a category or a service that is not active.
getSkillServicesByCategory ==
    Query("skill-services", 3600, SkillService \cup ActiveSkillService \cup ActiveCategory)
getSubCategoriesBySkillService ==
    Query("sub-categories", 3600, SubCategory \cup ActiveSubCategory \cup ActiveSkillService)
\* Mutant: the plans are stored without a time to live.
getAllPlansForEver == Query("subscription:plans", 0, Plan)
getAllPlans == Query("subscription:plans", 86400, Plan)
getMyNotifications == Query("notifications:*", 300, Notification)
getMyConversations == Query("chat:conversations", 30, Conversation \cup Message \cup Person)
getMyReports == Query("reports:user:*", 120, NewReport \cup Report)
\* That the details of a report also show the reported item is left out.
getMyReportDetails == Query("report:user", 120, Report)
getReports == Query("reports:admin:*", 120, NewReport \cup Report \cup Person)
getReportById == Query("report", 120, Report \cup Person \cup Account \cup Presence)
getAllContactSubmissions == Query("contacts:admin:*", 120, NewSubmission \cup Submission \cup Person)
getMyContactSubmissions == [getAllContactSubmissions EXCEPT !.key = "contacts:user:*"]
getContactSubmissionById == Query("admin:contacts:detail", 300, Submission \cup Person)
findAllFaqs == Query("faq:*", 3600, Faq)
findOneFaq == findAllFaqs
publicFaqs == findAllFaqs
getActiveKeywords == Query("moderation:keywords", 86400, Keyword)
getPendingFlags == Query("moderation:flags:pending", 300, Flag \cup Person)

Queries ==
    {registrationStatus, getMyProfile, getCustomers, getTraders, getUserDetails,
     getDeactivatedAccounts, getCategoryChangeRequests, getSavedTraders, getAllJobs,
     getManualReviewJobs, getJobDetails, getMyJobs, getMatchedJobs, getMatchedJobsOfOthers,
     getAllQuotes, getJobQuotes, getMyQuotes, getMyQuoteByJob, getPendingReviews,
     getAllReviews, getTraderReviews, getMyReviews, getReviewById, getLatestReviews,
     averageOfReviews, averageOfTraders, getAllCategories, getSkillServicesByCategory,
     getSubCategoriesBySkillService, getAllPlans, getMyNotifications, getMyConversations,
     getMyReports, getMyReportDetails, getReports, getReportById, getAllContactSubmissions,
     getMyContactSubmissions, getContactSubmissionById, findAllFaqs, findOneFaq, publicFaqs,
     getActiveKeywords, getPendingFlags}

-----------------------------------------------------------------------------
(***************************************************************************)
(* The handlers: what they write and drop, in the order of the code.       *)
(***************************************************************************)
EveryKey == {q.key : q \in Queries}     \* RedisService.flushAll

TraderKeys == {"admin:user-details", "profile", "registration-status", "traders:*"}
customerRegister == <<Writes(NewUser)>>
traderRegisterStep1 == <<Writes(NewUser)>>
traderRegisterStep2 == <<Writes(Files), Writes(Profile \cup Registration), Drops(TraderKeys)>>
traderRegisterStep3 ==
    <<Writes(Subscription), Writes(Tier \cup Registration), Writes(Metrics), Drops(TraderKeys)>>
updateTraderCategories == <<Writes(Trades), Drops(TraderKeys)>>
\* The drop of the list of requests stands in the transaction that inserts one.
updateProfile ==
    <<Drops({"admin:category-change-requests:*"}),
      Writes(Person \cup Profile \cup Verification \cup Trades \cup Files \cup ChangeRequest),
      Drops(TraderKeys \cup {"customers:*"})>>
updateTraderAssets ==
    <<Writes(Profile), Writes(Files), Drops({"admin:user-details", "profile", "traders:*"})>>
deactivateAccount ==
    <<Writes(Account), Drops(TraderKeys \cup {"customers:*", "deactivated-accounts:*"})>>
requestReactivation ==
    <<Writes(NewSubmission), Drops({"deactivated-accounts:*", "contacts:admin:*"})>>
reactivateAccount ==
    <<Writes(Account), Writes(Submission),
      Drops(TraderKeys \cup {"customers:*", "deactivated-accounts:*", "contacts:admin:*"})>>
verifyTrader == <<Writes(Account \cup Verification), Drops(TraderKeys)>>
reviewCategoryChangeRequest ==
    <<Writes(ChangeRequest \cup Trades),
      Drops({"admin:category-change-requests:*", "admin:user-details"})>>

changePlan == <<Writes(Subscription \cup Tier), Drops(TraderKeys)>>
scheduleDowngrade == <<Writes(Subscription)>>
cancelPendingDowngrade == <<Writes(Subscription)>>
processRenewals == <<Writes(Subscription \cup Tier \cup Trades)>>
updateTraderCategorySelection == <<Writes(Trades), Drops(EveryKey)>>
confirmPayment == <<Writes(Subscription \cup Tier \cup Trades), Drops(TraderKeys)>>
handleWebhook == <<Writes(Subscription)>>
updatePlan == <<Writes(Plan), Drops({"subscription:plans"})>>

JobKeys == {"customer:jobs:*", "admin:jobs:*", "admin:job"}
DistributionKeys == JobKeys \cup {"admin:manual-review-jobs:*"}
createJob == <<Writes(NewJob), Drops({"customer:jobs:*", "admin:jobs:*"})>>
updateJob == <<Writes(JobText), Drops(JobKeys)>>
\* The lists of the traders are dropped, and then their matches are deleted.
updateJobCritical ==
    <<Writes(JobText), Drops({getMatchedJobs.key, getMatchedJobsOfOthers.key, "admin:jobs:*"}),
      Writes(Metrics), Writes(Match), Writes(Log), Writes(JobState), Drops(JobKeys)>>
startJob == <<Writes(JobState), Drops(JobKeys \cup {getMatchedJobs.key})>>
completeJob == <<Writes(JobState \cup Metrics), Drops(JobKeys \cup {getMatchedJobs.key})>>
cancelJob == completeJob
pauseDistribution == <<Writes(JobState), Drops(DistributionKeys)>>
resumeDistribution == pauseDistribution
restartAutoDistribution == pauseDistribution
increaseRadius == pauseDistribution
closeDistribution == <<Writes(JobState \cup Metrics), Drops(DistributionKeys)>>
closeMyJob == closeDistribution
autoCloseJobs == <<Writes(JobState), Drops(DistributionKeys \ {"admin:job"})>>
resetWeeklyFairnessScores == <<Writes(Metrics)>>
\* The drops come before the transaction that inserts the matches.
matchAndSendJob == <<Drops({getMatchedJobs.key, "admin:job"}), Writes(Match \cup Metrics)>>
escalate == <<Writes(JobState), Writes(Log)>> \o matchAndSendJob
moveToManualReview ==
    escalate \o <<Writes(JobState), Drops({"admin:manual-review-jobs:*", "admin:job"})>>
distributeManually ==
    <<Writes(Match \cup Metrics), Drops({getMatchedJobs.key}),
      Writes(JobState), Drops(DistributionKeys)>>

QuoteKeys == {"customer:jobs:*", getMatchedJobs.key, "job:quotes", "trader:quotes:*",
              "trader:quote", "admin:jobs:*", "admin:quotes:*"}
createQuote ==
    <<Writes(Quoted \cup JobState \cup Match \cup Metrics), Writes(Metrics), Drops(QuoteKeys)>>
updateQuote == <<Writes(Quote \cup JobState \cup Match), Drops(QuoteKeys)>>
withdrawQuote == <<Writes(Quoted \cup Quote \cup JobState \cup Match), Drops(EveryKey)>>
acceptQuote ==
    <<Writes(Quote \cup JobState \cup Match),
      Drops(QuoteKeys \cup {"admin:job", getMatchedJobsOfOthers.key})>>
\* Mutant: the keys are dropped before the transaction commits.
rejectQuoteDropsFirst ==
    <<Drops(QuoteKeys \cup {"admin:job"}), Writes(Quote \cup JobState \cup Match)>>
rejectQuote ==
    <<Writes(Quote \cup JobState \cup Match), Drops(QuoteKeys \cup {"admin:job"})>>

SettledReviewKeys == {"global:average_rating", "customer:reviews:*", "review:detail:*",
                      "admin:reviews:*", "reviews:latest:*", "trader:reviews:*"}
ReviewKeys == SettledReviewKeys \cup {"reviews:pending:*"}
\* The copy of ReviewService. Both also drop trader:reviews without the asterisk, a
\* key that nobody stores.
recalculateTraderMetrics == <<Writes(Rating)>>
createReview == <<Writes(NewReview)>> \o recalculateTraderMetrics \o <<Drops(ReviewKeys)>>
\* All keys are dropped in the transaction, and all but one again after it.
updateReview ==
    <<Drops(ReviewKeys), Writes(Review)>> \o recalculateTraderMetrics \o <<Drops(SettledReviewKeys)>>
deleteReview == <<Writes(Review \cup Rating), Drops(ReviewKeys)>>
replyToReview == <<Writes(Review), Drops(ReviewKeys)>>
\* The key customer:reviews is dropped without the asterisk, and matches nothing.
approveReview ==
    <<Writes(Review), Writes(Rating), Drops(ReviewKeys \ {"customer:reviews:*"})>>
cleanupExpiredReviews == <<Writes(Review)>>

toggleSaveTrader == <<Writes(Saved), Drops({"saved-traders:*"})>>
createCategory == <<Writes(ActiveCategory), Drops({"categories"})>>
toggleCategory == createCategory
updateCategory == <<Writes(Category), Drops({"categories"})>>
createSkillService == <<Writes(ActiveSkillService), Drops({"skill-services"})>>
toggleSkillService == createSkillService
updateSkillService == <<Writes(SkillService), Drops({"skill-services"})>>
createSubCategory == <<Writes(ActiveSubCategory), Drops({"sub-categories"})>>
toggleSubCategory == createSubCategory
updateSubCategory == <<Writes(SubCategory), Drops({"sub-categories"})>>
createFaq == <<Writes(Faq), Drops({"faq:*"})>>
updateFaq == createFaq
removeFaq == createFaq
scanContent == <<Writes(Flag), Drops({"moderation:flags:pending"})>>
approveFlag == scanContent
rejectFlag == scanContent
seedViolationKeywords == <<Writes(Keyword), Writes(Keyword), Drops({"moderation:keywords"})>>
createContactSubmission ==
    <<Writes(NewSubmission), Drops({"contacts:admin:*", "contacts:user:*"})>>
updateContactStatus ==
    <<Writes(Submission), Drops({"contacts:admin:*", "contacts:user:*", "admin:contacts:detail"})>>
createReport == <<Writes(NewReport), Drops({"reports:user:*", "reports:admin:*"})>>
\* The reporter's list is dropped without its asterisk, by both of these.
updateReportStatus == <<Writes(Report), Drops({"report", "report:user", "reports:admin:*"})>>
openReport == <<Writes(Report), Drops({"report", "report:user"})>>

createNotification == <<Writes(Notification), Drops({"notifications:*"})>>
markAllAsRead == createNotification
sendMessage == <<Writes(Message), Writes(Conversation), Drops({"chat:conversations"})>>
markMessagesAsRead == <<Writes(Message)>>
setUserOnline == <<Writes(Presence)>>
setUserOffline == <<Writes(Presence)>>
createConversation == <<Writes(Conversation)>>
createTraderConversation == createConversation
startDirectJob == sendMessage
closeDirectJob == <<Writes(Message), Writes(Conversation)>>
confirmDirectJob == <<Writes(Metrics)>> \o closeDirectJob
updateAdminDirectJobStatus == <<Writes(Metrics)>>

Handlers ==
    {customerRegister, traderRegisterStep1, traderRegisterStep2, traderRegisterStep3,
     updateTraderCategories, updateProfile, updateTraderAssets, deactivateAccount,
     requestReactivation, reactivateAccount, verifyTrader, reviewCategoryChangeRequest,
     changePlan, scheduleDowngrade, cancelPendingDowngrade, processRenewals,
     updateTraderCategorySelection, confirmPayment, handleWebhook, updatePlan, createJob,
     updateJob, updateJobCritical, startJob, completeJob, cancelJob, pauseDistribution,
     resumeDistribution, restartAutoDistribution, increaseRadius, closeDistribution,
     closeMyJob, autoCloseJobs, resetWeeklyFairnessScores, matchAndSendJob, escalate,
     moveToManualReview, distributeManually, createQuote, updateQuote, withdrawQuote, acceptQuote, rejectQuote,
     createReview, updateReview, deleteReview, replyToReview, approveReview,
     cleanupExpiredReviews, toggleSaveTrader, createCategory, toggleCategory, updateCategory,
     createSkillService, toggleSkillService, updateSkillService, createSubCategory,
     toggleSubCategory, updateSubCategory, createFaq, updateFaq, removeFaq, scanContent,
     approveFlag, rejectFlag, seedViolationKeywords, createContactSubmission,
     updateContactStatus, createReport, updateReportStatus, openReport, createNotification,
     markAllAsRead, sendMessage, markMessagesAsRead, setUserOnline, setUserOffline,
     createConversation, createTraderConversation, startDirectJob, closeDirectJob,
     confirmDirectJob, updateAdminDirectJobStatus}

-----------------------------------------------------------------------------
(***************************************************************************)
(* A copy of the rows is current; behind, when a write came after it was   *)
(* read; late, when even the drop after that write has passed; or an       *)
(* orphan, when the handler that was to drop it has died.                  *)
(***************************************************************************)
Copy == {"current", "behind", "late", "orphan"}

Changes(step) == step.rows \cap query.reads # {}
Covers(step) == query.key \in step.keys
Running(s) == at[s] # 0
\* The run s will drop the key after what it has written.
Owes(s) == Running(s) /\ \E k \in at[s] .. Len(handler) : Covers(handler[k])
Advance(s) == at' = [at EXCEPT ![s] = IF @ = Len(handler) THEN 0 ELSE @ + 1]
InAll(copy, old, new) == [r \in Readers |-> IF copy[r] = old THEN new ELSE copy[r]]

CacheInit ==
    /\ query \in Queries /\ handler \in Handlers
    /\ \E k \in 1 .. Len(handler) : Changes(handler[k])
    /\ entry = "none"
    /\ fill = [r \in Readers |-> "none"]
    /\ at = [s \in Slots |-> 0]

\* Mutant: a query that finds an entry stores it again, to keep what is in use.
MissOrRenew(r) ==
    /\ fill[r] = "none"
    /\ fill' = [fill EXCEPT ![r] = IF entry = "none" THEN "asked" ELSE entry]
    /\ UNCHANGED <<query, handler, entry, at>>

\* A query finds no entry ...
Miss(r) ==
    /\ entry = "none" /\ fill[r] = "none"
    /\ fill' = [fill EXCEPT ![r] = "asked"]
    /\ UNCHANGED <<query, handler, entry, at>>

\* ... reads the rows ...
ReadRows(r) ==
    /\ fill[r] = "asked"
    /\ fill' = [fill EXCEPT ![r] = "current"]
    /\ UNCHANGED <<query, handler, entry, at>>

\* ... and stores what it read, over whatever is there by now.
Store(r) ==
    /\ fill[r] \in Copy
    /\ entry' = fill[r]
    /\ fill' = [fill EXCEPT ![r] = "none"]
    /\ UNCHANGED <<query, handler, at>>

BeginHandler(s) ==
    /\ ~Running(s)
    /\ at' = [at EXCEPT ![s] = 1]
    /\ UNCHANGED <<query, handler, entry, fill>>

Write(s) ==
    /\ Running(s) /\ handler[at[s]].keys = {}
    /\ Advance(s)
    /\ IF Changes(handler[at[s]])
       THEN /\ entry' = IF entry = "current" THEN "behind" ELSE entry
            /\ fill' = InAll(fill, "current", "behind")
       ELSE UNCHANGED <<entry, fill>>
    /\ UNCHANGED <<query, handler>>

Drop(s) ==
    /\ Running(s) /\ handler[at[s]].keys # {}
    /\ Advance(s)
    /\ IF Covers(handler[at[s]])
       THEN entry' = "none" /\ fill' = InAll(fill, "behind", "late")
       ELSE UNCHANGED <<entry, fill>>
    /\ UNCHANGED <<query, handler>>

\* The handler ends half way; what it was to drop stays.
Die(s) ==
    /\ Running(s)
    /\ at' = [at EXCEPT ![s] = 0]
    /\ IF Owes(s)
       THEN /\ entry' = IF entry = "behind" THEN "orphan" ELSE entry
            /\ fill' = InAll(fill, "behind", "orphan")
       ELSE UNCHANGED <<entry, fill>>
    /\ UNCHANGED <<query, handler>>

\* The time to live of the query is over.
Expire ==
    /\ entry # "none" /\ query.ttl > 0
    /\ entry' = "none"
    /\ UNCHANGED <<query, handler, fill, at>>

CacheNext ==
    \/ \E r \in Readers : Miss(r) \/ ReadRows(r) \/ Store(r)
    \/ \E s \in Slots : BeginHandler(s) \/ Write(s) \/ Drop(s) \/ Die(s)
    \/ Expire

\* Redis removes what has expired. Nothing else need happen.
CacheSpec == CacheInit /\ [][CacheNext]_cacheVars /\ WF_cacheVars(Expire)

-----------------------------------------------------------------------------
\* The handler has no drop for the key of the query: it relies on the time to live.
LeavesToExpire == \A k \in 1 .. Len(handler) : ~Covers(handler[k])

\* The handler drops the key, but before it writes.
DroppedTooEarly ==
    {<<updateProfile, getCategoryChangeRequests>>,
     <<updateJobCritical, getMatchedJobs>>, <<updateJobCritical, getMatchedJobsOfOthers>>,
     <<matchAndSendJob, getMatchedJobs>>, <<matchAndSendJob, getJobDetails>>,
     <<escalate, getMatchedJobs>>, <<escalate, getJobDetails>>,
     <<moveToManualReview, getMatchedJobs>>, <<distributeManually, getMatchedJobs>>,
     <<updateReview, getPendingReviews>>}

\* A handler that drops a key at all drops it after the last of its writes that the
\* entry is made of, with the exceptions above. So an entry that is behind its
\* rows is about to be dropped, unless the handler has no drop for it, or it is one
\* that was read before a write and stored after the drop, or its handler died.
StaleHasReason ==
    entry = "behind" =>
        \/ \E s \in Slots : Owes(s)
        \/ LeavesToExpire
        \/ <<handler, query>> \in DroppedTooEarly

\* Once nobody writes any more, stale copies die out for good, whatever made them stale,
\* a forgotten drop, a race or a crash: every query has a time to live, a hit does not
\* renew it, and a reader who holds a stale copy stores it once.
StaleDiesOut ==
    <>[](\A s \in Slots : ~Running(s)) => <>[](entry \notin Copy \ {"current"})
=============================================================================
