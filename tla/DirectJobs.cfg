\* Two jobs of one conversation and two requests in flight.
SPECIFICATION Spec
CONSTANTS
    Jobs = {j1, j2}
    NoJob = NoJob
    Slots = {s1, s2}
    LeftBound = 1
SYMMETRY Symmetry
INVARIANTS
    TypeOK
    CompletedIsSettled
    CreditedOncePerCompletion
    ChecksOvershoot
CHECK_DEADLOCK FALSE
