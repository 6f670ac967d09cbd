\* pool_destroy against running threads, and liveness with and without it.
SPECIFICATION FairSpec
CONSTANTS
    Threads = {t1, t2}
    Clients = {c1}
    Destroyers = {d1, d2}
    Holders = {c1, d1, d2}
    Jobs = {j1, j2}
    None = None
INVARIANTS AtMostOnce
PROPERTIES EveryJobRuns AwakeThreadsExit
CHECK_DEADLOCK FALSE
