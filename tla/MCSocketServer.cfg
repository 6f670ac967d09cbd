\* Two connections, one to three workers; the fourth identity shows that no more are created.
SPECIFICATION Spec
CONSTANTS
    Workers = {w1, w2, w3, w4}
    Main = Main
    Sockets = {s1, s2}
    minThreads = 1
    maxThreads = 3
    MaxData = 1
    MaxInterrupts = 1
    MaxFailures = 1
    None = None
SYMMETRY Symmetry
INVARIANTS CountersExact OneWorkerPerConnection FreedLast CallbacksPaired
CHECK_DEADLOCK FALSE
