\* Two connections, room for two chunks, messages of up to three.
SPECIFICATION FairSpec
CONSTANTS
    Conns = {k1, k2}
    Capacity = 2
    MaxChunks = 3
    MaxCalls = 1
    Epoller = Epoller
    None = None
INVARIANTS PositiveMeansAll NoLostSignal StaleOnlyUnsignalled
PROPERTIES RoomWakesSender SenderReturns
CHECK_DEADLOCK FALSE
