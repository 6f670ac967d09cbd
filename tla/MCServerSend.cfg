\* One or two workers and one connection with two messages: the answer to the
\* second blocks until the peer has read the first, or times out.  The second
\* message can arrive when both workers are idle and about to retire.
SPECIFICATION SSSpec
CONSTANTS
    Workers = {w1, w2}
    Main = Main
    Sockets = {s1}
    minThreads = 1
    maxThreads = 2
    MaxData = 2
    MaxInterrupts = 1
    MaxFailures = 0
    None = None
    Capacity = 1
    MaxChunks = 1
    MaxCalls = 2
    Epoller = Epoller
INVARIANTS SenderOwnsConnection
PROPERTIES DataServed ShutdownCompletes
CHECK_DEADLOCK FALSE
