\* A server that is stopped while no client is connected.
SPECIFICATION FairSpec
CONSTANTS
    Workers = {w1, w2}
    Main = Main
    Sockets = {s1}
    minThreads = 1
    maxThreads = 2
    MaxData = 1
    MaxInterrupts = 0
    MaxFailures = 0
    None = None
PROPERTY StoppingSignalsExit
CHECK_DEADLOCK FALSE
