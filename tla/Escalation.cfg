\* Two processors, one handler request at a time.  The radius takes two steps to its
\* cap, and the manual review comes with the last of them, as with the nine of the code.
SPECIFICATION FairSpec
CONSTANTS
    Workers = {w1, w2}
    Clients = {c1}
    InitialRadius = 1
    RadiusStep = 1
    MaxRadius = 3
    Widths = {1}
    QuoteLimit = 1
    ReviewAfter = 2
    AdminBound = 1
INVARIANTS
    TypeOK
    FreshVersion
PROPERTIES
    EscalationExact
    ChainHandedOn
    ChainProgress
