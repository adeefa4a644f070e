\* Three connections to two servers, a message; two requests at a time for three
\* conversations, two jobs.
SPECIFICATION Spec
CONSTANTS
    Sockets = {s1, s2, s3}
    Servers = {v1, v2}
    Messages = {m1}
    Jobs = {j1, j2}
    Rows = {c1, c2, c3}
    Slots = {k1, k2}
SYMMETRY Symmetry
CONSTRAINT Apart
INVARIANTS
    TypeOK
    AwayIsTold
    DirectOvershoot
