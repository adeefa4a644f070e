\* Every query with every handler that makes it stale.
SPECIFICATION CacheSpec
CONSTANTS
    Readers = {r1, r2}
    Slots = {s1, s2}
INVARIANT
    StaleHasReason
PROPERTY
    StaleDiesOut
