----------------------------- MODULE ThreadPool -----------------------------
(***************************************************************************)
(* The worker pool of lib/cc_thread_pool.c: a linked queue of jobs behind  *)
(* one mutex and one condition variable, max_thread_num detached threads   *)
(* that take jobs from it, clients that append jobs, and pool_destroy.     *)
(*                                                                         *)
(* Atomicity.  A step is what a thread does between two accesses that      *)
(* another thread can observe.  pool_destroy takes no lock, so everything  *)
(* it reads or writes (shutdown, queue_head) splits the critical section   *)
(* of thread_routine into several steps.                                   *)
(*                                                                         *)
(* The pool's address.  pool_init assigns the memory it allocates to its   *)
(* own parameter (line 26): the threads get its address from line 53, the  *)
(* caller's pointer stays as it was.  Holders are the callers that know    *)
(* the address all the same; the others pass the unset pointer.            *)
(*                                                                         *)
(* Memory errors.  An access to released memory, and a second release, are *)
(* undefined: the model records the error in faults and lets the process   *)
(* either abort or carry on with the contents the memory had.              *)
(***************************************************************************)
EXTENDS Integers, Sequences, FiniteSets

CONSTANTS
    Threads,     \* the max_thread_num pool threads
    Clients,     \* threads that call pool_add_worker
    Destroyers,  \* calls of pool_destroy
    Holders,     \* the clients and destroyers that have the pool's address
    Jobs,        \* the worker_buf arguments handed to pool_add_worker
    None         \* "no thread": the mutex is free

ASSUME ThreadPoolAssumption ==
    /\ None \notin Threads \cup Clients \cup Jobs
    /\ Threads \cap Clients = {}
    /\ IsFiniteSet(Threads) /\ IsFiniteSet(Clients)

VARIABLES
    chain,          \* every job ever linked, in order; node i is chain[i]
    queue_head,     \* index in chain of the first queued node; Len(chain)+1 is NULL
    cur_queue_size,
    shutdown,
    queue_lock,     \* holder of the mutex, or None
    queue_ready,    \* threads blocked in pthread_cond_wait
    pool,           \* "none", "live" or "freed"
    freed,          \* nodes (CThread_worker) that have been released
    faults,         \* kinds of memory error that have happened
    aborted,        \* the process is gone
    pc, worker,     \* thread_routine: position and local variable worker (0: NULL)
    cpc, arg,       \* pool_add_worker: position and argument
    dpc, head,      \* pool_destroy: position and local variable head
    ran             \* how often each job's process function was called

queueVars == <<chain, queue_head, cur_queue_size>>
memVars   == <<pool, freed, faults, aborted>>
threadVars  == <<pc, worker, ran>>
clientVars  == <<cpc, arg>>
destroyVars == <<dpc, head>>
vars == <<queueVars, shutdown, queue_lock, queue_ready, memVars,
          threadVars, clientVars, destroyVars>>

-----------------------------------------------------------------------------
FaultKinds == {"pool_use_after_free", "pool_double_free", "node_use_after_free",
               "node_double_free", "arg_double_free", "null_dereference",
               "unset_pool"}

ThreadPcs == {"unborn", "absent", "lock", "check", "wait", "waiting", "relock",
              "test", "dequeue", "advance", "run", "free", "exited"}
ClientPcs  == {"idle", "lock", "signal"}
DestroyPcs == {"idle", "set", "broadcast", "head", "unlink", "release", "done"}

\* pool->queue_head == NULL
QueueIsNull == queue_head > Len(chain)

\* pool_init has returned: every pthread_create has been tried.
PoolReady == pool # "none" /\ \A t \in Threads : pc[t] # "unborn"

\* What a step with the set F of memory errors does to the process.
Raise(F) ==
    /\ faults' = faults \cup F
    /\ IF F = {} THEN aborted' = FALSE
       ELSE IF "null_dereference" \in F THEN aborted' = TRUE
       ELSE aborted' \in BOOLEAN

\* The errors of touching a member of *pool, and of touching node i.
PoolFault    == IF pool = "freed" THEN {"pool_use_after_free"} ELSE {}
NodeFault(i) == IF i \in freed THEN {"node_use_after_free"} ELSE {}
FreeFault(i) == IF i \in freed THEN {"node_double_free"} ELSE {}

\* Mutant: the mutex does not exclude.
MutexIgnored == TRUE
\* pthread_mutex_lock can return
MutexFree == queue_lock = None

\* Mutant: an unlock is forgotten.
UnlockForgotten == UNCHANGED queue_lock
\* pthread_mutex_unlock
Unlock == queue_lock' = None

\* Mutant: the node is linked in front.
LinkedInFront(j) ==
    SubSeq(chain, 1, queue_head - 1) \o <<j>> \o SubSeq(chain, queue_head, Len(chain))
\* the list after the walk to its tail and member->next = newworker
Linked(j) == Append(chain, j)

\* Mutant: a signal wakes nobody.
SignalledNobody == {{}}
\* whom pthread_cond_signal may wake: one waiting thread if there is one
Signalled == IF queue_ready = {} THEN {{}} ELSE {{t} : t \in queue_ready}

\* Mutant: the bound of the loop condition is off by one.
MustWaitOffByOne == cur_queue_size < 0 /\ ~shutdown
\* while (cur_queue_size == 0 && !shutdown)
MustWait == cur_queue_size = 0 /\ ~shutdown

\* if (shutdown)
MustExit == shutdown

Init ==
    /\ chain = <<>> /\ queue_head = 1 /\ cur_queue_size = 0
    /\ shutdown = FALSE
    /\ queue_lock = None /\ queue_ready = {}
    /\ pool = "none" /\ freed = {} /\ faults = {} /\ aborted = FALSE
    /\ pc = [t \in Threads |-> "unborn"]
    /\ worker = [t \in Threads |-> 0]
    /\ cpc = [c \in Clients |-> "idle"] /\ arg = [c \in Clients |-> None]
    /\ dpc = [d \in Destroyers |-> "idle"] /\ head = [d \in Destroyers |-> 0]
    /\ ran = [j \in Jobs |-> 0]

-----------------------------------------------------------------------------
(* pool_init: allocate the pool, then create the threads one by one; the     *)
(* result of pthread_create is ignored.  The pool is live for its threads;   *)
(* the caller's pointer is not set.                                          *)
PoolInit ==
    /\ pool = "none"
    /\ pool' = "live"
    /\ UNCHANGED <<queueVars, shutdown, queue_lock, queue_ready, freed, faults,
                   aborted, threadVars, clientVars, destroyVars>>

CreateThread(t) ==
    /\ pool = "live" /\ pc[t] = "unborn"
    /\ \E p \in {"lock", "absent"} : pc' = [pc EXCEPT ![t] = p]
    /\ UNCHANGED <<queueVars, shutdown, queue_lock, queue_ready, memVars,
                   worker, ran, clientVars, destroyVars>>

-----------------------------------------------------------------------------
(* pool_add_worker.  The clients of one pool stop adding before it is        *)
(* destroyed.                                                                *)
AddCall(c) ==
    /\ PoolReady /\ \A d \in Destroyers : dpc[d] = "idle"
    /\ cpc[c] = "idle"
    /\ \E j \in Jobs :
          /\ \A i \in 1..Len(chain) : chain[i] # j
          /\ \A b \in Clients : arg[b] # j
          /\ arg' = [arg EXCEPT ![c] = j]
    /\ cpc' = [cpc EXCEPT ![c] = "lock"]
    /\ UNCHANGED <<queueVars, shutdown, queue_lock, queue_ready, memVars,
                   threadVars, destroyVars>>

\* lock, walk to the tail, link the node, count it, unlock
AddEnqueue(c) ==
    /\ cpc[c] = "lock" /\ c \in Holders /\ MutexFree
    /\ chain' = Linked(arg[c])
    /\ cur_queue_size' = cur_queue_size + 1
    /\ cpc' = [cpc EXCEPT ![c] = "signal"]
    /\ arg' = [arg EXCEPT ![c] = None]
    /\ UNCHANGED <<queue_head, shutdown, queue_lock, queue_ready, memVars,
                   threadVars, destroyVars>>

\* &(pool->queue_lock) of a pointer that pool_init has not set: the node just
\* allocated is queued nowhere
AddUnset(c) ==
    /\ cpc[c] = "lock" /\ c \notin Holders
    /\ Raise({"unset_pool"})
    /\ cpc' = [cpc EXCEPT ![c] = "idle"]
    /\ arg' = [arg EXCEPT ![c] = None]
    /\ UNCHANGED <<queueVars, shutdown, queue_lock, queue_ready, pool, freed,
                   threadVars, destroyVars>>

\* Wake the threads W: they leave the condition variable and want the mutex.
Wake(W) ==
    /\ queue_ready' = queue_ready \ W
    /\ pc' = [t \in Threads |-> IF t \in W THEN "relock" ELSE pc[t]]

\* pthread_cond_signal, after the unlock
AddSignal(c) ==
    /\ cpc[c] = "signal"
    /\ \E W \in Signalled : Wake(W)
    /\ cpc' = [cpc EXCEPT ![c] = "idle"]
    /\ UNCHANGED <<queueVars, shutdown, queue_lock, memVars, worker, ran, arg,
                   destroyVars>>

-----------------------------------------------------------------------------
(* thread_routine                                                            *)
Lock(t) ==
    /\ pc[t] \in {"lock", "relock"} /\ MutexFree
    /\ queue_lock' = t
    /\ pc' = [pc EXCEPT ![t] = "check"]
    /\ Raise(PoolFault)
    /\ UNCHANGED <<queueVars, shutdown, queue_ready, pool, freed, worker, ran,
                   clientVars, destroyVars>>

\* the test of the while loop
CheckQueue(t) ==
    /\ pc[t] = "check"
    /\ pc' = [pc EXCEPT ![t] = IF MustWait THEN "wait" ELSE "test"]
    /\ Raise(PoolFault)
    /\ UNCHANGED <<queueVars, shutdown, queue_lock, queue_ready, pool, freed,
                   worker, ran, clientVars, destroyVars>>

\* pthread_cond_wait: release the mutex and sleep, in one step
CondWait(t) ==
    /\ pc[t] = "wait"
    /\ pc' = [pc EXCEPT ![t] = "waiting"]
    /\ queue_ready' = queue_ready \cup {t}
    /\ Unlock
    /\ Raise(PoolFault)
    /\ UNCHANGED <<queueVars, shutdown, pool, freed, worker, ran, clientVars,
                   destroyVars>>

\* POSIX allows pthread_cond_wait to return without a signal.
SpuriousWakeup(t) ==
    /\ t \in queue_ready
    /\ Wake({t})
    /\ UNCHANGED <<queueVars, shutdown, queue_lock, memVars, worker, ran,
                   clientVars, destroyVars>>

\* unlock and pthread_exit if the pool is shut down
TestShutdown(t) ==
    /\ pc[t] = "test"
    /\ \/ /\ MustExit
          /\ Unlock
          /\ pc' = [pc EXCEPT ![t] = "exited"]
       \/ /\ ~MustExit
          /\ pc' = [pc EXCEPT ![t] = "dequeue"]
          /\ UNCHANGED queue_lock
    /\ Raise(PoolFault)
    /\ UNCHANGED <<queueVars, shutdown, queue_ready, pool, freed, worker, ran,
                   clientVars, destroyVars>>

\* cur_queue_size--; worker = queue_head
Dequeue(t) ==
    /\ pc[t] = "dequeue"
    /\ cur_queue_size' = cur_queue_size - 1
    /\ worker' = [worker EXCEPT ![t] = IF QueueIsNull THEN 0 ELSE queue_head]
    /\ pc' = [pc EXCEPT ![t] = "advance"]
    /\ Raise(PoolFault)
    /\ UNCHANGED <<chain, queue_head, shutdown, queue_lock, queue_ready, pool,
                   freed, ran, clientVars, destroyVars>>

\* queue_head = worker->next; unlock
Advance(t) ==
    /\ pc[t] = "advance"
    /\ IF worker[t] = 0
       THEN /\ Raise({"null_dereference"})
            /\ UNCHANGED <<queue_head, queue_lock, pc>>
       ELSE /\ Raise(PoolFault \cup NodeFault(worker[t]))
            /\ queue_head' = worker[t] + 1
            /\ Unlock
            /\ pc' = [pc EXCEPT ![t] = "run"]
    /\ UNCHANGED <<chain, cur_queue_size, shutdown, queue_ready, pool, freed,
                   worker, ran, clientVars, destroyVars>>

\* (*worker->process)(...): the node is read, the job is performed
Run(t) ==
    /\ pc[t] = "run"
    /\ Raise(NodeFault(worker[t]))
    /\ ran' = [ran EXCEPT ![chain[worker[t]]] = @ + 1]
    /\ pc' = [pc EXCEPT ![t] = "free"]
    /\ UNCHANGED <<queueVars, shutdown, queue_lock, queue_ready, pool, freed,
                   worker, clientVars, destroyVars>>

\* free(tmp_buf); free(worker->arg) -- the same pointer -- ; free(worker)
FreeJob(t) ==
    /\ pc[t] = "free"
    /\ Raise({"arg_double_free"} \cup NodeFault(worker[t]) \cup FreeFault(worker[t]))
    /\ freed' = freed \cup {worker[t]}
    /\ worker' = [worker EXCEPT ![t] = 0]
    /\ pc' = [pc EXCEPT ![t] = "lock"]
    /\ UNCHANGED <<queueVars, shutdown, queue_lock, queue_ready, pool, ran,
                   clientVars, destroyVars>>

-----------------------------------------------------------------------------
(* pool_destroy: no step of it takes queue_lock.                             *)

\* if (shutdown) return -1
DestroyEnter(d) ==
    /\ PoolReady /\ \A c \in Clients : cpc[c] = "idle"
    /\ dpc[d] = "idle" /\ d \in Holders
    /\ dpc' = [dpc EXCEPT ![d] = IF shutdown THEN "done" ELSE "set"]
    /\ Raise(PoolFault)
    /\ UNCHANGED <<queueVars, shutdown, queue_lock, queue_ready, pool, freed,
                   threadVars, clientVars, head>>

\* pool->shutdown of a pointer that pool_init has not set
DestroyUnset(d) ==
    /\ PoolReady /\ \A c \in Clients : cpc[c] = "idle"
    /\ dpc[d] = "idle" /\ d \notin Holders
    /\ Raise({"unset_pool"})
    /\ dpc' = [dpc EXCEPT ![d] = "done"]
    /\ UNCHANGED <<queueVars, shutdown, queue_lock, queue_ready, pool, freed,
                   threadVars, clientVars, head>>

DestroySet(d) ==
    /\ dpc[d] = "set"
    /\ shutdown' = TRUE
    /\ dpc' = [dpc EXCEPT ![d] = "broadcast"]
    /\ Raise(PoolFault)
    /\ UNCHANGED <<queueVars, queue_lock, queue_ready, pool, freed, threadVars,
                   clientVars, head>>

\* Broadcast; pthread_join fails at once on the detached threads.
DestroyBroadcast(d) ==
    /\ dpc[d] = "broadcast"
    /\ Wake(queue_ready)
    /\ dpc' = [dpc EXCEPT ![d] = "head"]
    /\ Raise(PoolFault)
    /\ UNCHANGED <<queueVars, shutdown, queue_lock, pool, freed, worker, ran,
                   clientVars, head>>

\* while (queue_head != NULL) { head = queue_head;
DestroyHead(d) ==
    /\ dpc[d] = "head"
    /\ IF QueueIsNull
       THEN dpc' = [dpc EXCEPT ![d] = "release"] /\ UNCHANGED head
       ELSE dpc' = [dpc EXCEPT ![d] = "unlink"] /\ head' = [head EXCEPT ![d] = queue_head]
    /\ Raise(PoolFault)
    /\ UNCHANGED <<queueVars, shutdown, queue_lock, queue_ready, pool, freed,
                   threadVars, clientVars>>

\* queue_head = queue_head->next; free (head); }
DestroyUnlink(d) ==
    /\ dpc[d] = "unlink"
    /\ IF QueueIsNull
       THEN /\ Raise({"null_dereference"})
            /\ UNCHANGED <<queue_head, freed, dpc, head>>
       ELSE /\ Raise(PoolFault \cup NodeFault(queue_head) \cup FreeFault(head[d]))
            /\ queue_head' = queue_head + 1
            /\ freed' = freed \cup {head[d]}
            /\ dpc' = [dpc EXCEPT ![d] = "head"]
            /\ head' = [head EXCEPT ![d] = 0]
    /\ UNCHANGED <<chain, cur_queue_size, shutdown, queue_lock, queue_ready,
                   pool, threadVars, clientVars>>

\* destroy the mutex and the condition variable, free (pool), return 0
DestroyRelease(d) ==
    /\ dpc[d] = "release"
    /\ Raise(IF pool = "freed" THEN {"pool_double_free"} ELSE {})
    /\ pool' = "freed"
    /\ dpc' = [dpc EXCEPT ![d] = "done"]
    /\ UNCHANGED <<queueVars, shutdown, queue_lock, queue_ready, freed,
                   threadVars, clientVars, head>>

-----------------------------------------------------------------------------
ThreadStep(t) ==
    \/ Lock(t) \/ CheckQueue(t) \/ CondWait(t) \/ TestShutdown(t)
    \/ Dequeue(t) \/ Advance(t) \/ Run(t) \/ FreeJob(t)

AddStep(c) == AddEnqueue(c) \/ AddUnset(c) \/ AddSignal(c)

DestroyStep(d) ==
    \/ DestroySet(d) \/ DestroyBroadcast(d) \/ DestroyHead(d)
    \/ DestroyUnlink(d) \/ DestroyRelease(d)

Next ==
    /\ ~aborted
    /\ \/ PoolInit
       \/ \E t \in Threads : CreateThread(t) \/ ThreadStep(t) \/ SpuriousWakeup(t)
       \/ \E c \in Clients : AddCall(c) \/ AddStep(c)
       \/ \E d \in Destroyers : DestroyEnter(d) \/ DestroyUnset(d) \/ DestroyStep(d)

Spec == Init /\ [][Next]_vars

\* Every runnable thread is eventually scheduled, a process function returns, and
\* a client that asks for the mutex gets it if it is released again and again
\* (strong fairness: threads woken spuriously may take it in between for ever).
\* Nobody has to call pool_add_worker or pool_destroy, and a spurious wakeup need
\* not happen.
Fairness ==
    /\ WF_vars(~aborted /\ PoolInit)
    /\ \A t \in Threads : /\ WF_vars(~aborted /\ CreateThread(t))
                          /\ WF_vars(~aborted /\ ThreadStep(t))
    /\ \A c \in Clients : SF_vars(~aborted /\ AddStep(c))
    /\ \A d \in Destroyers : WF_vars(~aborted /\ DestroyStep(d))

FairSpec == Spec /\ Fairness
-----------------------------------------------------------------------------
(* Properties.                                                               *)

\* Every variable has its type: the fields of CThread_pool, the positions of
\* the threads in the four functions and their local variables.
TypeOK ==
    /\ chain \in Seq(Jobs) /\ queue_head \in Nat /\ cur_queue_size \in Int
    /\ shutdown \in BOOLEAN
    /\ queue_lock \in Threads \cup {None} /\ queue_ready \subseteq Threads
    /\ pool \in {"none", "live", "freed"} /\ freed \subseteq Nat
    /\ faults \subseteq FaultKinds /\ aborted \in BOOLEAN
    /\ pc \in [Threads -> ThreadPcs] /\ worker \in [Threads -> Nat]
    /\ cpc \in [Clients -> ClientPcs] /\ arg \in [Clients -> Jobs \cup {None}]
    /\ dpc \in [Destroyers -> DestroyPcs] /\ head \in [Destroyers -> Nat]
    /\ ran \in [Jobs -> Nat]

\* Until pool_destroy sets shutdown, cur_queue_size is the length of the list
\* behind queue_head, except that a thread between lines 141 and 143 has
\* already counted the node it is about to unlink.
QueueAccounting ==
    ~shutdown =>
        cur_queue_size = Len(chain) + 1 - queue_head
                         - (IF \E t \in Threads : pc[t] = "advance" THEN 1 ELSE 0)

\* Threads that will look at the queue before they can fall asleep.
Looking == {t \in Threads : pc[t] \in {"lock", "relock", "check", "test", "dequeue"}}

\* No wakeup is lost although pthread_cond_signal follows the unlock: while a
\* thread sleeps, each queued job has a thread that is going to look at the
\* queue or a client that is still going to signal.
NoLostWakeup ==
    ~shutdown /\ queue_ready # {} =>
        cur_queue_size <= Cardinality(Looking)
                          + Cardinality({c \in Clients : cpc[c] = "signal"})

\* No job is performed twice, whatever pool_destroy does to the queue that the
\* threads are reading.
AtMostOnce == \A j \in Jobs : ran[j] <= 1

\* Until shutdown no job is lost: a node that left the queue is in the hands of
\* a thread or has been performed and released, and a queued one is intact.
NoJobLost ==
    ~shutdown => \A i \in 1..Len(chain) :
        IF i < queue_head
        THEN \/ \E t \in Threads : worker[t] = i /\ pc[t] \in {"run", "free"}
             \/ ran[chain[i]] = 1 /\ i \in freed
        ELSE ran[chain[i]] = 0 /\ i \notin freed

\* Until shutdown the pool makes no memory error other than releasing each
\* worker_buf twice (lines 150 and 151), and the use of an unset pointer by a
\* caller that has not got the pool's address (line 26).
MemorySafe ==
    ~shutdown =>
        /\ faults \subseteq {"arg_double_free", "unset_pool"}
        /\ "unset_pool" \in faults => ~(Clients \cup Destroyers \subseteq Holders)

\* past the tests of shutdown, on the way through one job
Committed == {"dequeue", "advance", "run", "free"}

\* A job handed to pool_add_worker is performed, unless the caller has not got the
\* pool's address, shutdown is set, no thread could be created or the process is
\* gone (the double free may end it).
EveryJobRuns ==
    \A j \in Jobs, c \in Clients :
        (cpc[c] = "lock" /\ arg[c] = j) ~>
            \/ ran[j] = 1 \/ c \notin Holders \/ shutdown \/ aborted
            \/ \A t \in Threads : pc[t] = "absent"

\* A thread that is awake when shutdown is broadcast exits.  (One that has
\* checked shutdown and not yet gone to sleep, or sleeps after the broadcast,
\* need not: shutdown is set without queue_lock.)
AwakeThreadsExit ==
    \A t \in Threads :
        (shutdown /\ pc[t] \in {"lock", "relock", "check", "test"} \cup Committed) ~>
            (pc[t] = "exited" \/ aborted)

\* While it is not shut down the pool implements the abstract job queue.
Implements == INSTANCE JobQueue WITH
    pending <- SubSeq(chain, queue_head, Len(chain)),
    running <- {chain[worker[t]] : t \in {u \in Threads : pc[u] = "run"}},
    done    <- {j \in Jobs : ran[j] > 0}
ImplementsJobQueue == Implements!JQSpec
=============================================================================
