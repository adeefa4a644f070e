\* One request at a time, three traders, one more than the limit on quotes.
SPECIFICATION Spec
CONSTANTS
    Traders = {t1, t2, t3}
    NoTrader = NoTrader
    Slots = {s1}
    QuoteLimit = 2
    ReceivedBound = 2
    AwardBound = 1
    CreditBound = 2
SYMMETRY Symmetry
INVARIANTS
    RowsAgree
    CompletedOncePerAward
PROPERTY
    ActsAsAward
CHECK_DEADLOCK FALSE
