\* Two requests in flight, two reviews, the worst and the best rating.
SPECIFICATION Spec
CONSTANTS
    Reviews = {r1, r2}
    NoReview = NoReview
    Ratings = {1, 5}
    Slots = {s1, s2}
SYMMETRY Symmetry
INVARIANTS
    TypeOK
    FiguresAtRest
    ReviewOvershoot
CHECK_DEADLOCK FALSE
