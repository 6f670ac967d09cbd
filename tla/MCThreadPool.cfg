\* Use of the pool: three threads, three jobs, two clients that have its address;
\* c3 and d1 use the pointer that pool_init left unset.  No symmetry: the
\* refinement is a temporal property.
SPECIFICATION Spec
CONSTANTS
    Threads = {t1, t2, t3}
    Clients = {c1, c2, c3}
    Destroyers = {d1}
    Holders = {c1, c2}
    Jobs = {j1, j2, j3}
    None = None
INVARIANTS QueueAccounting NoLostWakeup NoJobLost MemorySafe
PROPERTY ImplementsJobQueue
CHECK_DEADLOCK FALSE
