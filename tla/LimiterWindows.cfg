SPECIFICATION Spec
\* The bounds on time and on requests end every behaviour.
CHECK_DEADLOCK FALSE
CONSTANTS
    Servers = {s1, s2}
    Requests = {r1, r2}
    Keys = {k1, k2, k3}
    Limit = 1
    Capacity = 2
    UseRedis = TRUE
    MaxMinute = 2
    MaxAsked = 4
SYMMETRY Symmetry
INVARIANTS
    TypeOK
    WindowBound
    RefusedOnlyOverLimit
    LocalBounded
