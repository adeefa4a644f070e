\* The customer accepts two quotes of the job at the same time.
SPECIFICATION Spec
CONSTANTS
    Traders = {t1, t2}
    NoTrader = NoTrader
    Slots = {s1, s2}
    QuoteLimit = 2
    ReceivedBound = 2
    AwardBound = 1
    CreditBound = 1
PROPERTY NoSecondAcceptance
CHECK_DEADLOCK FALSE
