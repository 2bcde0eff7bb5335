\* No origin listed, two of three, and the wildcard among them; four requests, two of them in the server at once.
CONSTANTS
    r1 = r1
    r2 = r2
    r3 = r3
    r4 = r4
    a = a
    b = b
    other = other
    NoOrigin = NoOrigin
    Star = Star
    Requests = {r1, r2, r3, r4}
    Origins = {a, b, other}
    Lists = {{}, {a, b}, {a, Star}}
    InFlight = 2
SPECIFICATION Spec
INVARIANT OwnGrant
SYMMETRY Symmetry
CHECK_DEADLOCK FALSE
