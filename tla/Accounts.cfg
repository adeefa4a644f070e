\* Two requests in flight, two plans, two requests for other categories.
SPECIFICATION Spec
CONSTANTS
    Plans = {1, 2}
    NoPlan = 0
    Max <- PlanLimits
    Trials = {2}
    Counts = {0, 2}
    Changes = {c1, c2}
    NoChange = NoChange
    Slots = {s1, s2}
SYMMETRY Symmetry
INVARIANTS
    TypeOK
    RegistrationConsistent
    CategoriesWereAllowed
    AppliedWasApproved
    PendingOvershoot
