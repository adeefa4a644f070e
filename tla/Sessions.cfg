\* Two requests at a time, two apps, two requests for reactivation, two resets.
SPECIFICATION Spec
CONSTANTS
    Registrations = {d1, d2}
    Submissions = {x1, x2}
    Resets = {r1, r2}
    Slots = {s1, s2}
    None = None
SYMMETRY Symmetry
CONSTRAINT Apart
INVARIANTS
    TypeOK
    DeactivationHolds
    ResetSetsOnce
    DeviceKept
