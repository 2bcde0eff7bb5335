\* Three callers on two keys, one admission per window, without symmetry.  A
\* window is as long as one second of Retry-After, and the clock runs past two
\* window ends.
CONSTANTS
    Requests = {r1, r2, r3}
    NoOne = NoOne
    Keys = {k1, k2}
    N = 1
    Per = 2
    Second = 2
    MaxClock = 5
SPECIFICATION FairSpec
INVARIANTS BudgetExact TwiceInAnyWidth OnlyCurrentKeys RetryLandsLater
PROPERTIES KeepsBook Answered
CHECK_DEADLOCK FALSE
