\* Two plans with two cycles, one request at a time beside the webhook and two runs of
\* processRenewals.  Two endings: the trial and a period, or two periods.
SPECIFICATION FairSpec
CONSTANTS
    Tiers = {1, 2}
    NoTier = 0
    Cycles = {"MONTHLY", "YEARLY"}
    Price <- MCPrice
    Intents = {i1}
    NoIntent = NoIntent
    Slots = {s1}
    Runs = {k1, k2}
    EndBound = 2
INVARIANTS
    TypeOK
    TierFollowsPlan
    RenewalOvershoot
PROPERTIES
    DueIsRenewed
    PaidIsRecorded
