\* Two requests, one slot of the pool and both settings of the timeouts, through
\* every life of the server, without symmetry: the run checks liveness.
CONSTANTS
    Clients = {c1, c2}
    Slots = {s1}
    Watchful = {c1}
    Settings <- MCSettings
SPECIFICATION FairServingSpec
INVARIANTS ExitHonest ToldTruth WithinBounds OnlyAbandonedLeft
PROPERTIES RunEnds NothingBegunLate AnsweredAndFreed
CHECK_DEADLOCK FALSE
