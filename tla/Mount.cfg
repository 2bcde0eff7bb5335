\* 50 configurations and 13 requests on either side of their limits, one at a
\* time, beside two overlapping probes, one with a check that watches its context.
CONSTANTS
    Probes = {p1, p2}
    Watchful = {p1}
    Configs <- MCConfigs
    Requests <- MCRequests
SPECIFICATION FairMountSpec
INVARIANTS AnswerEarned WhatServes RequestPath
PROPERTIES ProbesAnswered NoGoroutineLeft
CHECK_DEADLOCK FALSE
