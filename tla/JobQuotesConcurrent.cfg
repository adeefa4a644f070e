\* Two requests in flight and two traders, one more than the limit on quotes.
SPECIFICATION Spec
CONSTANTS
    Traders = {t1, t2}
    NoTrader = NoTrader
    Slots = {s1, s2}
    QuoteLimit = 1
    ReceivedBound = 2
    AwardBound = 1
    CreditBound = 1
SYMMETRY Symmetry
INVARIANTS
    TypeOK
    AcceptedIsSelected
    MatchesFollowQuotes
    WorkIsEarned
    QuoteLimitOvershoot
PROPERTY
    ActsAsOpenJob
CHECK_DEADLOCK FALSE
