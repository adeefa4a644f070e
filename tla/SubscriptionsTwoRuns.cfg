\* Two runs of processRenewals find the same subscription: the crons of two servers, or
\* the cron and a request on one.
SPECIFICATION Spec
CONSTANTS
    Tiers = {1, 2}
    NoTier = 0
    Cycles = {"MONTHLY", "YEARLY"}
    Price <- MCPrice
    Intents = {i1}
    NoIntent = NoIntent
    Slots = {s1}
    Runs = {k1, k2}
    EndBound = 2
INVARIANT RenewedOnce
