-------------------------- MODULE ThreadPoolProofs --------------------------
(***************************************************************************)
(* Proofs about ThreadPool for every number of threads, clients, jobs and  *)
(* calls of pool_destroy.                                                  *)
(***************************************************************************)
EXTENDS ThreadPool, FiniteSetTheorems, SequenceTheorems, TLAPS

\* Positions of thread_routine inside the critical section.
Critical == {"check", "wait", "test", "dequeue", "advance"}

\* The mutex: a thread is in the critical section exactly when it holds
\* queue_lock, and sleeps exactly while it is on the condition variable.
LockInv ==
    /\ \A t \in Threads : pc[t] \in Critical <=> queue_lock = t
    /\ \A t \in Threads : t \in queue_ready => pc[t] = "waiting"

\* The list: local pointers and queue_head point into it.
ListInv ==
    /\ queue_head \in 1..(Len(chain) + 1)
    /\ \A t \in Threads :
          /\ pc[t] \in {"run", "free"} => worker[t] \in 1..Len(chain)
          /\ pc[t] = "advance" => worker[t] \in 0..Len(chain)
    /\ \A d \in Destroyers : dpc[d] = "unlink" => head[d] \in 1..Len(chain)

\* Jobs are fresh: each occurs in one node, or as one client's argument.
FreshInv ==
    /\ \A i, k \in 1..Len(chain) : chain[i] = chain[k] => i = k
    /\ \A c \in Clients :
          /\ cpc[c] = "lock" => arg[c] # None
          /\ arg[c] # None => \A i \in 1..Len(chain) : chain[i] # arg[c]
    /\ \A b, c \in Clients : arg[b] = arg[c] /\ arg[b] # None => b = c
    /\ \A j \in Jobs : (\A i \in 1..Len(chain) : chain[i] # j) => ran[j] = 0

\* No job is started twice.  The second conjunct is what survives the race of
\* pool_destroy with a thread that is already past the test of shutdown.
OnceInv ==
    /\ \A t \in Threads :
          pc[t] \in {"advance", "run"} /\ worker[t] # 0 => ran[chain[worker[t]]] = 0
    /\ (~shutdown \/ \E t \in Threads : pc[t] = "dequeue") =>
          \A i \in 1..Len(chain) : i >= queue_head =>
              /\ ran[chain[i]] = 0
              /\ \A t \in Threads : pc[t] \in {"run", "free"} => worker[t] # i
    /\ \A t, u \in Threads :
          /\ t # u /\ worker[t] # 0
          /\ pc[t] \in {"advance", "run", "free"} /\ pc[u] \in {"advance", "run", "free"}
          => worker[t] # worker[u]
    /\ \A j \in Jobs : ran[j] <= 1

\* Until shutdown: the counter is exact, a thread about to dequeue finds a node
\* and is the only one that moves queue_head.
SizeInv ==
    ~shutdown =>
        /\ QueueAccounting
        /\ \A t \in Threads :
              /\ pc[t] \in {"test", "dequeue"} => cur_queue_size >= 1
              /\ pc[t] = "advance" => worker[t] = queue_head /\ worker[t] # 0
                                      /\ worker[t] <= Len(chain)

\* Until shutdown: nothing in use has been released.
MemoryInv ==
    /\ \A d \in Destroyers : dpc[d] \notin {"idle", "set", "done"} => shutdown
    /\ ~shutdown =>
          /\ pool # "freed"
          /\ faults \subseteq {"arg_double_free", "unset_pool"}
          /\ "unset_pool" \in faults => ~(Clients \cup Destroyers \subseteq Holders)
          /\ \A i \in freed : i < queue_head
          /\ \A t \in Threads : pc[t] \in {"advance", "run", "free"} =>
                                    worker[t] \notin freed

\* A thread that releases a job has performed it, and nothing is lost.
LossInv ==
    /\ \A t \in Threads : pc[t] = "free" => ran[chain[worker[t]]] = 1
    /\ NoJobLost

IInv == TypeOK /\ LockInv /\ ListInv /\ FreshInv /\ OnceInv /\ SizeInv /\ MemoryInv

-----------------------------------------------------------------------------
\* pool_init starts with every part of the invariant.
LEMMA InitInv == Init => IInv
  <1> SUFFICES ASSUME Init PROVE IInv
      OBVIOUS
  <1> USE DEF Init
  <1>1. TypeOK
    <2>1. chain \in Seq(Jobs) /\ queue_head \in Nat /\ cur_queue_size \in Int
      OBVIOUS
    <2>2. shutdown \in BOOLEAN /\ aborted \in BOOLEAN
      OBVIOUS
    <2>3. /\ pc \in [Threads -> ThreadPcs] /\ worker \in [Threads -> Nat]
          /\ cpc \in [Clients -> ClientPcs] /\ arg \in [Clients -> Jobs \cup {None}]
          /\ dpc \in [Destroyers -> DestroyPcs] /\ head \in [Destroyers -> Nat]
          /\ ran \in [Jobs -> Nat]
      BY DEF ThreadPcs, ClientPcs, DestroyPcs
    <2> QED
      BY <2>1, <2>2, <2>3 DEF TypeOK
  <1>2. LockInv /\ ListInv /\ FreshInv
    BY ThreadPoolAssumption DEF LockInv, ListInv, FreshInv, Critical
  <1>3. OnceInv /\ SizeInv /\ MemoryInv
    BY DEF OnceInv, SizeInv, MemoryInv, QueueAccounting
  <1> QED
    BY <1>1, <1>2, <1>3 DEF IInv

\* A step that raises errors of the known kinds keeps the types of memVars.
LEMMA RaiseType ==
  ASSUME faults \subseteq FaultKinds, NEW F, F \subseteq FaultKinds, Raise(F)
  PROVE  faults' \subseteq FaultKinds /\ aborted' \in BOOLEAN
  BY DEF Raise

\* The errors the steps raise are of the known kinds.
LEMMA FaultSets ==
  /\ PoolFault \subseteq FaultKinds
  /\ \A i : NodeFault(i) \subseteq FaultKinds /\ FreeFault(i) \subseteq FaultKinds
  /\ {"null_dereference"} \subseteq FaultKinds /\ {"arg_double_free"} \subseteq FaultKinds
  /\ {"unset_pool"} \subseteq FaultKinds
  /\ (IF pool = "freed" THEN {"pool_double_free"} ELSE {}) \subseteq FaultKinds
  BY DEF PoolFault, NodeFault, FreeFault, FaultKinds

USE DEF queueVars, memVars, threadVars, clientVars, destroyVars
USE DEF MutexFree, Unlock, Linked, Signalled, MustWait, MustExit, QueueIsNull

\* Every step keeps the types.
LEMMA TypeStep == TypeOK /\ ListInv /\ FreshInv /\ Next => TypeOK'
  <1> SUFFICES ASSUME TypeOK, ListInv, FreshInv, Next PROVE TypeOK'
      OBVIOUS
  <1> USE DEF TypeOK, ThreadPcs, ClientPcs, DestroyPcs
  <1>1. CASE PoolInit
    BY <1>1 DEF PoolInit
  <1>2. ASSUME NEW t \in Threads, CreateThread(t) PROVE TypeOK'
    BY <1>2 DEF CreateThread
  <1>3. ASSUME NEW c \in Clients, AddCall(c) PROVE TypeOK'
    BY <1>3 DEF AddCall
  <1>4. ASSUME NEW c \in Clients, AddEnqueue(c) PROVE TypeOK'
    BY <1>4 DEF AddEnqueue, FreshInv
  <1>5. ASSUME NEW c \in Clients, AddSignal(c) PROVE TypeOK'
    BY <1>5 DEF AddSignal, Wake
  <1>6. ASSUME NEW t \in Threads, Lock(t) PROVE TypeOK'

    <2>1. Raise(PoolFault)
      BY <1>6 DEF Lock
    <2>2. faults' \subseteq FaultKinds /\ aborted' \in BOOLEAN
      BY <2>1, RaiseType, FaultSets
    <2> QED
      BY <2>2, <1>6 DEF Lock
  <1>7. ASSUME NEW t \in Threads, CheckQueue(t) PROVE TypeOK'

    <2>1. Raise(PoolFault)
      BY <1>7 DEF CheckQueue
    <2>2. faults' \subseteq FaultKinds /\ aborted' \in BOOLEAN
      BY <2>1, RaiseType, FaultSets
    <2> QED
      BY <2>2, <1>7 DEF CheckQueue
  <1>8. ASSUME NEW t \in Threads, CondWait(t) PROVE TypeOK'

    <2>1. Raise(PoolFault)
      BY <1>8 DEF CondWait
    <2>2. faults' \subseteq FaultKinds /\ aborted' \in BOOLEAN
      BY <2>1, RaiseType, FaultSets
    <2> QED
      BY <2>2, <1>8 DEF CondWait
  <1>9. ASSUME NEW t \in Threads, SpuriousWakeup(t) PROVE TypeOK'
    BY <1>9 DEF SpuriousWakeup, Wake
  <1>10. ASSUME NEW t \in Threads, TestShutdown(t) PROVE TypeOK'

    <2>1. Raise(PoolFault)
      BY <1>10 DEF TestShutdown
    <2>2. faults' \subseteq FaultKinds /\ aborted' \in BOOLEAN
      BY <2>1, RaiseType, FaultSets
    <2> QED
      BY <2>2, <1>10 DEF TestShutdown
  <1>11. ASSUME NEW t \in Threads, Dequeue(t) PROVE TypeOK'

    <2>1. Raise(PoolFault)
      BY <1>11 DEF Dequeue
    <2>2. faults' \subseteq FaultKinds /\ aborted' \in BOOLEAN
      BY <2>1, RaiseType, FaultSets
    <2> QED
      BY <2>2, <1>11 DEF Dequeue
  <1>12. ASSUME NEW t \in Threads, Advance(t) PROVE TypeOK'

    <2> SUFFICES ASSUME Raise({"null_dereference"}) \/ Raise(PoolFault \cup NodeFault(worker[t])) PROVE TypeOK'
      BY <1>12 DEF Advance
    <2>1. faults' \subseteq FaultKinds /\ aborted' \in BOOLEAN
      BY RaiseType, FaultSets
    <2> QED
      BY <2>1, <1>12 DEF Advance
  <1>13. ASSUME NEW t \in Threads, Run(t) PROVE TypeOK'

    <2>1. Raise(NodeFault(worker[t]))
      BY <1>13 DEF Run
    <2>2. faults' \subseteq FaultKinds /\ aborted' \in BOOLEAN
      BY <2>1, RaiseType, FaultSets
    <2> QED
      BY <2>2, <1>13 DEF Run, ListInv
  <1>14. ASSUME NEW t \in Threads, FreeJob(t) PROVE TypeOK'

    <2>1. Raise({"arg_double_free"} \cup NodeFault(worker[t]) \cup FreeFault(worker[t]))
      BY <1>14 DEF FreeJob
    <2>2. faults' \subseteq FaultKinds /\ aborted' \in BOOLEAN
      BY <2>1, RaiseType, FaultSets
    <2> QED
      BY <2>2, <1>14 DEF FreeJob
  <1>15. ASSUME NEW d \in Destroyers, DestroyEnter(d) PROVE TypeOK'

    <2>1. Raise(PoolFault)
      BY <1>15 DEF DestroyEnter
    <2>2. faults' \subseteq FaultKinds /\ aborted' \in BOOLEAN
      BY <2>1, RaiseType, FaultSets
    <2> QED
      BY <2>2, <1>15 DEF DestroyEnter
  <1>16. ASSUME NEW d \in Destroyers, DestroySet(d) PROVE TypeOK'

    <2>1. Raise(PoolFault)
      BY <1>16 DEF DestroySet
    <2>2. faults' \subseteq FaultKinds /\ aborted' \in BOOLEAN
      BY <2>1, RaiseType, FaultSets
    <2> QED
      BY <2>2, <1>16 DEF DestroySet
  <1>17. ASSUME NEW d \in Destroyers, DestroyBroadcast(d) PROVE TypeOK'

    <2>1. Raise(PoolFault)
      BY <1>17 DEF DestroyBroadcast
    <2>2. faults' \subseteq FaultKinds /\ aborted' \in BOOLEAN
      BY <2>1, RaiseType, FaultSets
    <2> QED
      BY <2>2, <1>17 DEF DestroyBroadcast, Wake
  <1>18. ASSUME NEW d \in Destroyers, DestroyHead(d) PROVE TypeOK'

    <2>1. Raise(PoolFault)
      BY <1>18 DEF DestroyHead
    <2>2. faults' \subseteq FaultKinds /\ aborted' \in BOOLEAN
      BY <2>1, RaiseType, FaultSets
    <2> QED
      BY <2>2, <1>18 DEF DestroyHead
  <1>19. ASSUME NEW d \in Destroyers, DestroyUnlink(d) PROVE TypeOK'

    <2>1. Raise({"null_dereference"}) \/ Raise(PoolFault \cup NodeFault(queue_head) \cup FreeFault(head[d]))
      BY <1>19 DEF DestroyUnlink
    <2>2. faults' \subseteq FaultKinds /\ aborted' \in BOOLEAN
      BY <2>1, RaiseType, FaultSets
    <2>3. CASE QueueIsNull
      BY <2>2, <2>3, <1>19 DEF DestroyUnlink
    <2>4. CASE ~QueueIsNull
      <3>1. /\ queue_head' = queue_head + 1 /\ freed' = freed \cup {head[d]}
            /\ dpc' = [dpc EXCEPT ![d] = "head"] /\ head' = [head EXCEPT ![d] = 0]
            /\ UNCHANGED <<chain, cur_queue_size, shutdown, queue_lock, queue_ready, pool,
                            threadVars, clientVars>>
        BY <2>4, <1>19 DEF DestroyUnlink
      <3>2. queue_head' \in Nat
        BY <3>1
      <3>3. head[d] \in Nat
        OBVIOUS
      <3>4. freed' \subseteq Nat
        BY <3>1, <3>3
      <3> QED
        BY <2>2, <3>1, <3>2, <3>4
    <2> QED
      BY <2>3, <2>4
  <1>20. ASSUME NEW d \in Destroyers, DestroyRelease(d) PROVE TypeOK'

    <2>1. Raise(IF pool = "freed" THEN {"pool_double_free"} ELSE {})
      BY <1>20 DEF DestroyRelease
    <2>2. faults' \subseteq FaultKinds /\ aborted' \in BOOLEAN
      BY <2>1, RaiseType, FaultSets
    <2> QED
      BY <2>2, <1>20 DEF DestroyRelease
  <1>21. ASSUME NEW c \in Clients, AddUnset(c) PROVE TypeOK'
    <2>1. Raise({"unset_pool"})
      BY <1>21 DEF AddUnset
    <2>2. faults' \subseteq FaultKinds /\ aborted' \in BOOLEAN
      BY <2>1, RaiseType, FaultSets
    <2> QED
      BY <2>2, <1>21 DEF AddUnset
  <1>22. ASSUME NEW d \in Destroyers, DestroyUnset(d) PROVE TypeOK'
    <2>1. Raise({"unset_pool"})
      BY <1>22 DEF DestroyUnset
    <2>2. faults' \subseteq FaultKinds /\ aborted' \in BOOLEAN
      BY <2>1, RaiseType, FaultSets
    <2> QED
      BY <2>2, <1>22 DEF DestroyUnset
  <1> QED
    BY <1>1, <1>2, <1>3, <1>4, <1>5, <1>6, <1>7, <1>8, <1>9, <1>10, <1>11, <1>12, <1>13,
        <1>14, <1>15, <1>16, <1>17, <1>18, <1>19, <1>20, <1>21, <1>22
       DEF Next, ThreadStep, AddStep, DestroyStep

\* Every step keeps the mutex discipline of thread_routine.
LEMMA LockStep == TypeOK /\ LockInv /\ Next => LockInv'
  <1> SUFFICES ASSUME TypeOK, LockInv, Next PROVE LockInv'
      OBVIOUS
  <1> USE DEF TypeOK, LockInv, Critical
  <1>1. CASE PoolInit
    BY <1>1, ThreadPoolAssumption DEF PoolInit
  <1>2. ASSUME NEW t \in Threads, CreateThread(t) PROVE LockInv'
    BY <1>2, ThreadPoolAssumption DEF CreateThread
  <1>3. ASSUME NEW c \in Clients, AddCall(c) PROVE LockInv'
    BY <1>3, ThreadPoolAssumption DEF AddCall
  <1>4. ASSUME NEW c \in Clients, AddEnqueue(c) PROVE LockInv'
    BY <1>4, ThreadPoolAssumption DEF AddEnqueue
  <1>5. ASSUME NEW c \in Clients, AddSignal(c) PROVE LockInv'
    BY <1>5, ThreadPoolAssumption DEF AddSignal, Wake
  <1>6. ASSUME NEW t \in Threads, Lock(t) PROVE LockInv'
    BY <1>6, ThreadPoolAssumption DEF Lock
  <1>7. ASSUME NEW t \in Threads, CheckQueue(t) PROVE LockInv'
    BY <1>7, ThreadPoolAssumption DEF CheckQueue
  <1>8. ASSUME NEW t \in Threads, CondWait(t) PROVE LockInv'
    BY <1>8, ThreadPoolAssumption DEF CondWait
  <1>9. ASSUME NEW t \in Threads, SpuriousWakeup(t) PROVE LockInv'
    BY <1>9, ThreadPoolAssumption DEF SpuriousWakeup, Wake
  <1>10. ASSUME NEW t \in Threads, TestShutdown(t) PROVE LockInv'
    BY <1>10, ThreadPoolAssumption DEF TestShutdown
  <1>11. ASSUME NEW t \in Threads, Dequeue(t) PROVE LockInv'
    BY <1>11, ThreadPoolAssumption DEF Dequeue
  <1>12. ASSUME NEW t \in Threads, Advance(t) PROVE LockInv'
    BY <1>12, ThreadPoolAssumption DEF Advance
  <1>13. ASSUME NEW t \in Threads, Run(t) PROVE LockInv'
    BY <1>13, ThreadPoolAssumption DEF Run
  <1>14. ASSUME NEW t \in Threads, FreeJob(t) PROVE LockInv'
    BY <1>14, ThreadPoolAssumption DEF FreeJob
  <1>15. ASSUME NEW d \in Destroyers, DestroyEnter(d) PROVE LockInv'
    BY <1>15, ThreadPoolAssumption DEF DestroyEnter
  <1>16. ASSUME NEW d \in Destroyers, DestroySet(d) PROVE LockInv'
    BY <1>16, ThreadPoolAssumption DEF DestroySet
  <1>17. ASSUME NEW d \in Destroyers, DestroyBroadcast(d) PROVE LockInv'
    BY <1>17, ThreadPoolAssumption DEF DestroyBroadcast, Wake
  <1>18. ASSUME NEW d \in Destroyers, DestroyHead(d) PROVE LockInv'
    BY <1>18, ThreadPoolAssumption DEF DestroyHead
  <1>19. ASSUME NEW d \in Destroyers, DestroyUnlink(d) PROVE LockInv'
    BY <1>19, ThreadPoolAssumption DEF DestroyUnlink
  <1>20. ASSUME NEW d \in Destroyers, DestroyRelease(d) PROVE LockInv'
    BY <1>20, ThreadPoolAssumption DEF DestroyRelease
  <1>21. ASSUME NEW c \in Clients, AddUnset(c) PROVE LockInv'
    BY <1>21, ThreadPoolAssumption DEF AddUnset
  <1>22. ASSUME NEW d \in Destroyers, DestroyUnset(d) PROVE LockInv'
    BY <1>22, ThreadPoolAssumption DEF DestroyUnset
  <1> QED
    BY <1>1, <1>2, <1>3, <1>4, <1>5, <1>6, <1>7, <1>8, <1>9, <1>10, <1>11, <1>12, <1>13,
        <1>14, <1>15, <1>16, <1>17, <1>18, <1>19, <1>20, <1>21, <1>22
       DEF Next, ThreadStep, AddStep, DestroyStep

\* Every step keeps the pointers inside the list.
LEMMA ListStep == TypeOK /\ ListInv /\ Next => ListInv'
  <1> SUFFICES ASSUME TypeOK, ListInv, Next PROVE ListInv'
      OBVIOUS
  <1> USE DEF TypeOK, ListInv
  <1>1. CASE PoolInit
    BY <1>1 DEF PoolInit
  <1>2. ASSUME NEW t \in Threads, CreateThread(t) PROVE ListInv'
    BY <1>2 DEF CreateThread
  <1>3. ASSUME NEW c \in Clients, AddCall(c) PROVE ListInv'
    BY <1>3 DEF AddCall
  <1>4. ASSUME NEW c \in Clients, AddEnqueue(c) PROVE ListInv'
    BY <1>4 DEF AddEnqueue
  <1>5. ASSUME NEW c \in Clients, AddSignal(c) PROVE ListInv'
    BY <1>5 DEF AddSignal, Wake
  <1>6. ASSUME NEW t \in Threads, Lock(t) PROVE ListInv'
    BY <1>6 DEF Lock
  <1>7. ASSUME NEW t \in Threads, CheckQueue(t) PROVE ListInv'
    BY <1>7 DEF CheckQueue
  <1>8. ASSUME NEW t \in Threads, CondWait(t) PROVE ListInv'
    BY <1>8 DEF CondWait
  <1>9. ASSUME NEW t \in Threads, SpuriousWakeup(t) PROVE ListInv'
    BY <1>9 DEF SpuriousWakeup, Wake
  <1>10. ASSUME NEW t \in Threads, TestShutdown(t) PROVE ListInv'
    BY <1>10 DEF TestShutdown
  <1>11. ASSUME NEW t \in Threads, Dequeue(t) PROVE ListInv'
    BY <1>11 DEF Dequeue
  <1>12. ASSUME NEW t \in Threads, Advance(t) PROVE ListInv'
    BY <1>12 DEF Advance
  <1>13. ASSUME NEW t \in Threads, Run(t) PROVE ListInv'
    BY <1>13 DEF Run
  <1>14. ASSUME NEW t \in Threads, FreeJob(t) PROVE ListInv'
    BY <1>14 DEF FreeJob
  <1>15. ASSUME NEW d \in Destroyers, DestroyEnter(d) PROVE ListInv'
    BY <1>15 DEF DestroyEnter
  <1>16. ASSUME NEW d \in Destroyers, DestroySet(d) PROVE ListInv'
    BY <1>16 DEF DestroySet
  <1>17. ASSUME NEW d \in Destroyers, DestroyBroadcast(d) PROVE ListInv'
    BY <1>17 DEF DestroyBroadcast, Wake
  <1>18. ASSUME NEW d \in Destroyers, DestroyHead(d) PROVE ListInv'
    BY <1>18 DEF DestroyHead
  <1>19. ASSUME NEW d \in Destroyers, DestroyUnlink(d) PROVE ListInv'
    BY <1>19 DEF DestroyUnlink
  <1>20. ASSUME NEW d \in Destroyers, DestroyRelease(d) PROVE ListInv'
    BY <1>20 DEF DestroyRelease
  <1>21. ASSUME NEW c \in Clients, AddUnset(c) PROVE ListInv'
    BY <1>21 DEF AddUnset
  <1>22. ASSUME NEW d \in Destroyers, DestroyUnset(d) PROVE ListInv'
    BY <1>22 DEF DestroyUnset
  <1> QED
    BY <1>1, <1>2, <1>3, <1>4, <1>5, <1>6, <1>7, <1>8, <1>9, <1>10, <1>11, <1>12, <1>13,
        <1>14, <1>15, <1>16, <1>17, <1>18, <1>19, <1>20, <1>21, <1>22
       DEF Next, ThreadStep, AddStep, DestroyStep

\* Every step keeps jobs distinct: pool_add_worker is called with new ones.
LEMMA FreshStep == TypeOK /\ ListInv /\ FreshInv /\ Next => FreshInv'
  <1> SUFFICES ASSUME TypeOK, ListInv, FreshInv, Next PROVE FreshInv'
      OBVIOUS
  <1> USE DEF TypeOK, FreshInv
  <1>1. CASE PoolInit
    BY <1>1, ThreadPoolAssumption DEF PoolInit
  <1>2. ASSUME NEW t \in Threads, CreateThread(t) PROVE FreshInv'
    BY <1>2, ThreadPoolAssumption DEF CreateThread
  <1>3. ASSUME NEW c \in Clients, AddCall(c) PROVE FreshInv'

    <2>1. PICK j \in Jobs : /\ \A i \in 1..Len(chain) : chain[i] # j
                            /\ \A b \in Clients : arg[b] # j
                            /\ arg' = [arg EXCEPT ![c] = j]
      BY <1>3 DEF AddCall
    <2>2. UNCHANGED <<chain, ran>> /\ cpc' = [cpc EXCEPT ![c] = "lock"]
      BY <1>3 DEF AddCall
    <2> QED
      BY <2>1, <2>2, ThreadPoolAssumption
  <1>4. ASSUME NEW c \in Clients, AddEnqueue(c) PROVE FreshInv'
    BY <1>4, ThreadPoolAssumption DEF AddEnqueue
  <1>5. ASSUME NEW c \in Clients, AddSignal(c) PROVE FreshInv'
    BY <1>5, ThreadPoolAssumption DEF AddSignal, Wake
  <1>6. ASSUME NEW t \in Threads, Lock(t) PROVE FreshInv'
    BY <1>6, ThreadPoolAssumption DEF Lock
  <1>7. ASSUME NEW t \in Threads, CheckQueue(t) PROVE FreshInv'
    BY <1>7, ThreadPoolAssumption DEF CheckQueue
  <1>8. ASSUME NEW t \in Threads, CondWait(t) PROVE FreshInv'
    BY <1>8, ThreadPoolAssumption DEF CondWait
  <1>9. ASSUME NEW t \in Threads, SpuriousWakeup(t) PROVE FreshInv'
    BY <1>9, ThreadPoolAssumption DEF SpuriousWakeup, Wake
  <1>10. ASSUME NEW t \in Threads, TestShutdown(t) PROVE FreshInv'
    BY <1>10, ThreadPoolAssumption DEF TestShutdown
  <1>11. ASSUME NEW t \in Threads, Dequeue(t) PROVE FreshInv'
    BY <1>11, ThreadPoolAssumption DEF Dequeue
  <1>12. ASSUME NEW t \in Threads, Advance(t) PROVE FreshInv'
    BY <1>12, ThreadPoolAssumption DEF Advance
  <1>13. ASSUME NEW t \in Threads, Run(t) PROVE FreshInv'
    BY <1>13, ThreadPoolAssumption DEF Run, ListInv
  <1>14. ASSUME NEW t \in Threads, FreeJob(t) PROVE FreshInv'
    BY <1>14, ThreadPoolAssumption DEF FreeJob
  <1>15. ASSUME NEW d \in Destroyers, DestroyEnter(d) PROVE FreshInv'
    BY <1>15, ThreadPoolAssumption DEF DestroyEnter
  <1>16. ASSUME NEW d \in Destroyers, DestroySet(d) PROVE FreshInv'
    BY <1>16, ThreadPoolAssumption DEF DestroySet
  <1>17. ASSUME NEW d \in Destroyers, DestroyBroadcast(d) PROVE FreshInv'
    BY <1>17, ThreadPoolAssumption DEF DestroyBroadcast, Wake
  <1>18. ASSUME NEW d \in Destroyers, DestroyHead(d) PROVE FreshInv'
    BY <1>18, ThreadPoolAssumption DEF DestroyHead
  <1>19. ASSUME NEW d \in Destroyers, DestroyUnlink(d) PROVE FreshInv'
    BY <1>19, ThreadPoolAssumption DEF DestroyUnlink
  <1>20. ASSUME NEW d \in Destroyers, DestroyRelease(d) PROVE FreshInv'
    BY <1>20, ThreadPoolAssumption DEF DestroyRelease
  <1>21. ASSUME NEW c \in Clients, AddUnset(c) PROVE FreshInv'
    BY <1>21, ThreadPoolAssumption DEF AddUnset
  <1>22. ASSUME NEW d \in Destroyers, DestroyUnset(d) PROVE FreshInv'
    BY <1>22, ThreadPoolAssumption DEF DestroyUnset
  <1> QED
    BY <1>1, <1>2, <1>3, <1>4, <1>5, <1>6, <1>7, <1>8, <1>9, <1>10, <1>11, <1>12, <1>13,
        <1>14, <1>15, <1>16, <1>17, <1>18, <1>19, <1>20, <1>21, <1>22
       DEF Next, ThreadStep, AddStep, DestroyStep

\* Every step keeps jobs from being started twice.
LEMMA OnceStep == TypeOK /\ LockInv /\ ListInv /\ FreshInv /\ OnceInv /\ SizeInv /\ Next => OnceInv'
  <1> SUFFICES ASSUME TypeOK, LockInv, ListInv, FreshInv, OnceInv, SizeInv, Next PROVE OnceInv'
      OBVIOUS
  <1> USE DEF TypeOK, OnceInv, LockInv, ListInv, FreshInv, Critical
  <1>1. CASE PoolInit
    BY <1>1, ThreadPoolAssumption DEF PoolInit
  <1>2. ASSUME NEW t \in Threads, CreateThread(t) PROVE OnceInv'
    BY <1>2, ThreadPoolAssumption DEF CreateThread
  <1>3. ASSUME NEW c \in Clients, AddCall(c) PROVE OnceInv'
    BY <1>3, ThreadPoolAssumption DEF AddCall
  <1>4. ASSUME NEW c \in Clients, AddEnqueue(c) PROVE OnceInv'
    BY <1>4, ThreadPoolAssumption DEF AddEnqueue
  <1>5. ASSUME NEW c \in Clients, AddSignal(c) PROVE OnceInv'
    BY <1>5, ThreadPoolAssumption DEF AddSignal, Wake
  <1>6. ASSUME NEW t \in Threads, Lock(t) PROVE OnceInv'
    BY <1>6, ThreadPoolAssumption DEF Lock
  <1>7. ASSUME NEW t \in Threads, CheckQueue(t) PROVE OnceInv'
    BY <1>7, ThreadPoolAssumption DEF CheckQueue
  <1>8. ASSUME NEW t \in Threads, CondWait(t) PROVE OnceInv'
    BY <1>8, ThreadPoolAssumption DEF CondWait
  <1>9. ASSUME NEW t \in Threads, SpuriousWakeup(t) PROVE OnceInv'
    BY <1>9, ThreadPoolAssumption DEF SpuriousWakeup, Wake
  <1>10. ASSUME NEW t \in Threads, TestShutdown(t) PROVE OnceInv'

    <2>1. UNCHANGED <<chain, queue_head, worker, ran, shutdown>>
      BY <1>10 DEF TestShutdown
    <2>2. \A u \in Threads : pc'[u] \in {"advance", "run", "free"} => pc[u] = pc'[u]
      BY <1>10 DEF TestShutdown
    <2>3. (\E u \in Threads : pc'[u] = "dequeue") => ~shutdown \/ \E u \in Threads : pc[u] = "dequeue"
      BY <1>10 DEF TestShutdown
    <2> QED
      BY <2>1, <2>2, <2>3
  <1>11. ASSUME NEW t \in Threads, Dequeue(t) PROVE OnceInv'
    BY <1>11, ThreadPoolAssumption DEF Dequeue, SizeInv
  <1>12. ASSUME NEW t \in Threads, Advance(t) PROVE OnceInv'

    <2>1. CASE worker[t] = 0
      BY <2>1, <1>12 DEF Advance
    <2>2. CASE worker[t] # 0
      <3>1. /\ UNCHANGED <<chain, worker, ran, shutdown>> /\ queue_head' = worker[t] + 1
            /\ pc' = [pc EXCEPT ![t] = "run"]
        BY <2>2, <1>12 DEF Advance
      <3>2. \A u \in Threads : u # t => pc[u] \notin {"advance", "dequeue"}
        BY <1>12 DEF Advance
      <3>3. ~shutdown => worker[t] = queue_head
        BY <1>12 DEF Advance, SizeInv
      <3>4. (~shutdown' \/ \E u \in Threads : pc'[u] = "dequeue") => ~shutdown
        BY <3>1, <3>2
      <3>5. ASSUME ~shutdown, NEW i \in 1..Len(chain), i >= queue_head'
            PROVE  /\ ran[chain[i]] = 0
                   /\ \A u \in Threads : pc'[u] \in {"run", "free"} => worker[u] # i
        BY <3>1, <3>3, <3>5
      <3>6. \A u \in Threads : pc'[u] \in {"advance", "run", "free"} =>
                pc[u] \in {"advance", "run", "free"}
        BY <3>1, <1>12 DEF Advance
      <3>7. \A u \in Threads : pc'[u] \in {"advance", "run"} => pc[u] \in {"advance", "run"}
        BY <3>1, <1>12 DEF Advance
      <3> QED
        BY <3>1, <3>4, <3>5, <3>6, <3>7
    <2> QED
      BY <2>1, <2>2
  <1>13. ASSUME NEW t \in Threads, Run(t) PROVE OnceInv'
    BY <1>13, ThreadPoolAssumption DEF Run
  <1>14. ASSUME NEW t \in Threads, FreeJob(t) PROVE OnceInv'
    BY <1>14, ThreadPoolAssumption DEF FreeJob
  <1>15. ASSUME NEW d \in Destroyers, DestroyEnter(d) PROVE OnceInv'
    BY <1>15, ThreadPoolAssumption DEF DestroyEnter
  <1>16. ASSUME NEW d \in Destroyers, DestroySet(d) PROVE OnceInv'
    BY <1>16, ThreadPoolAssumption DEF DestroySet
  <1>17. ASSUME NEW d \in Destroyers, DestroyBroadcast(d) PROVE OnceInv'
    BY <1>17, ThreadPoolAssumption DEF DestroyBroadcast, Wake
  <1>18. ASSUME NEW d \in Destroyers, DestroyHead(d) PROVE OnceInv'
    BY <1>18, ThreadPoolAssumption DEF DestroyHead
  <1>19. ASSUME NEW d \in Destroyers, DestroyUnlink(d) PROVE OnceInv'
    BY <1>19, ThreadPoolAssumption DEF DestroyUnlink
  <1>20. ASSUME NEW d \in Destroyers, DestroyRelease(d) PROVE OnceInv'
    BY <1>20, ThreadPoolAssumption DEF DestroyRelease
  <1>21. ASSUME NEW c \in Clients, AddUnset(c) PROVE OnceInv'
    BY <1>21, ThreadPoolAssumption DEF AddUnset
  <1>22. ASSUME NEW d \in Destroyers, DestroyUnset(d) PROVE OnceInv'
    BY <1>22, ThreadPoolAssumption DEF DestroyUnset
  <1> QED
    BY <1>1, <1>2, <1>3, <1>4, <1>5, <1>6, <1>7, <1>8, <1>9, <1>10, <1>11, <1>12, <1>13,
        <1>14, <1>15, <1>16, <1>17, <1>18, <1>19, <1>20, <1>21, <1>22
       DEF Next, ThreadStep, AddStep, DestroyStep

\* Every step keeps cur_queue_size exact until shutdown.
LEMMA SizeStep == TypeOK /\ LockInv /\ ListInv /\ SizeInv /\ MemoryInv /\ Next => SizeInv'
  <1> SUFFICES ASSUME TypeOK, LockInv, ListInv, SizeInv, MemoryInv, Next PROVE SizeInv'
      OBVIOUS
  <1> USE DEF TypeOK, LockInv, SizeInv, Critical, QueueAccounting
  <1>1. CASE PoolInit
    BY <1>1, ThreadPoolAssumption DEF PoolInit
  <1>2. ASSUME NEW t \in Threads, CreateThread(t) PROVE SizeInv'
    BY <1>2, ThreadPoolAssumption DEF CreateThread
  <1>3. ASSUME NEW c \in Clients, AddCall(c) PROVE SizeInv'
    BY <1>3, ThreadPoolAssumption DEF AddCall
  <1>4. ASSUME NEW c \in Clients, AddEnqueue(c) PROVE SizeInv'
    BY <1>4, ThreadPoolAssumption DEF AddEnqueue
  <1>5. ASSUME NEW c \in Clients, AddSignal(c) PROVE SizeInv'
    BY <1>5, ThreadPoolAssumption DEF AddSignal, Wake
  <1>6. ASSUME NEW t \in Threads, Lock(t) PROVE SizeInv'
    BY <1>6, ThreadPoolAssumption DEF Lock
  <1>7. ASSUME NEW t \in Threads, CheckQueue(t) PROVE SizeInv'

    <2>1. \A u \in Threads : u # t => pc[u] \notin Critical
      BY <1>7 DEF CheckQueue
    <2>2. ~shutdown => cur_queue_size = Len(chain) + 1 - queue_head /\ cur_queue_size >= 0
      BY <2>1, <1>7 DEF CheckQueue, ListInv
    <2>3. /\ UNCHANGED <<chain, queue_head, cur_queue_size, shutdown, worker>>
          /\ pc' = [pc EXCEPT ![t] = IF MustWait THEN "wait" ELSE "test"]
      BY <1>7 DEF CheckQueue
    <2>4. \A u \in Threads : pc'[u] \notin {"advance", "dequeue"}
      BY <2>1, <2>3, <1>7 DEF CheckQueue
    <2> QED
      BY <2>1, <2>2, <2>3, <2>4
  <1>8. ASSUME NEW t \in Threads, CondWait(t) PROVE SizeInv'
    BY <1>8, ThreadPoolAssumption DEF CondWait
  <1>9. ASSUME NEW t \in Threads, SpuriousWakeup(t) PROVE SizeInv'
    BY <1>9, ThreadPoolAssumption DEF SpuriousWakeup, Wake
  <1>10. ASSUME NEW t \in Threads, TestShutdown(t) PROVE SizeInv'
    BY <1>10, ThreadPoolAssumption DEF TestShutdown
  <1>11. ASSUME NEW t \in Threads, Dequeue(t) PROVE SizeInv'

    <2> SUFFICES ASSUME ~shutdown PROVE SizeInv'
      BY <1>11 DEF Dequeue
    <2>1. \A u \in Threads : u # t => pc[u] \notin Critical
      BY <1>11 DEF Dequeue
    <2>2. cur_queue_size >= 1 /\ cur_queue_size = Len(chain) + 1 - queue_head
      BY <2>1, <1>11 DEF Dequeue
    <2> ~QueueIsNull
      BY <2>2
    <2>3. /\ cur_queue_size' = cur_queue_size - 1 /\ pc' = [pc EXCEPT ![t] = "advance"]
          /\ worker' = [worker EXCEPT ![t] = queue_head]
          /\ UNCHANGED <<chain, queue_head, shutdown>>
      BY <1>11 DEF Dequeue
    <2>4. pc'[t] = "advance"
      BY <2>3
    <2>5. QueueAccounting'
      BY <2>2, <2>3, <2>4
    <2> QED
      BY <2>1, <2>2, <2>3, <2>5 DEF ListInv
  <1>12. ASSUME NEW t \in Threads, Advance(t) PROVE SizeInv'

    <2> SUFFICES ASSUME ~shutdown PROVE SizeInv'
      BY <1>12 DEF Advance
    <2>1. \A u \in Threads : u # t => pc[u] \notin Critical
      BY <1>12 DEF Advance
    <2>2. cur_queue_size = Len(chain) + 1 - queue_head - 1 /\ worker[t] = queue_head /\ worker[t] # 0
      BY <1>12 DEF Advance
    <2>3. /\ queue_head' = queue_head + 1 /\ pc' = [pc EXCEPT ![t] = "run"]
          /\ UNCHANGED <<chain, cur_queue_size, shutdown, worker>>
      BY <2>2, <1>12 DEF Advance
    <2>4. \A u \in Threads : pc'[u] \notin Critical
      BY <2>1, <2>3
    <2>5. QueueAccounting'
      BY <2>2, <2>3, <2>4
    <2> QED
      BY <2>3, <2>4, <2>5
  <1>13. ASSUME NEW t \in Threads, Run(t) PROVE SizeInv'
    BY <1>13, ThreadPoolAssumption DEF Run
  <1>14. ASSUME NEW t \in Threads, FreeJob(t) PROVE SizeInv'
    BY <1>14, ThreadPoolAssumption DEF FreeJob
  <1>15. ASSUME NEW d \in Destroyers, DestroyEnter(d) PROVE SizeInv'
    BY <1>15, ThreadPoolAssumption DEF DestroyEnter
  <1>16. ASSUME NEW d \in Destroyers, DestroySet(d) PROVE SizeInv'
    BY <1>16, ThreadPoolAssumption DEF DestroySet
  <1>17. ASSUME NEW d \in Destroyers, DestroyBroadcast(d) PROVE SizeInv'
    BY <1>17, ThreadPoolAssumption DEF DestroyBroadcast, Wake
  <1>18. ASSUME NEW d \in Destroyers, DestroyHead(d) PROVE SizeInv'
    BY <1>18, ThreadPoolAssumption DEF DestroyHead
  <1>19. ASSUME NEW d \in Destroyers, DestroyUnlink(d) PROVE SizeInv'
    BY <1>19, ThreadPoolAssumption DEF DestroyUnlink, MemoryInv
  <1>20. ASSUME NEW d \in Destroyers, DestroyRelease(d) PROVE SizeInv'
    BY <1>20, ThreadPoolAssumption DEF DestroyRelease
  <1>21. ASSUME NEW c \in Clients, AddUnset(c) PROVE SizeInv'
    BY <1>21, ThreadPoolAssumption DEF AddUnset
  <1>22. ASSUME NEW d \in Destroyers, DestroyUnset(d) PROVE SizeInv'
    BY <1>22, ThreadPoolAssumption DEF DestroyUnset
  <1> QED
    BY <1>1, <1>2, <1>3, <1>4, <1>5, <1>6, <1>7, <1>8, <1>9, <1>10, <1>11, <1>12, <1>13,
        <1>14, <1>15, <1>16, <1>17, <1>18, <1>19, <1>20, <1>21, <1>22
       DEF Next, ThreadStep, AddStep, DestroyStep

\* Until shutdown every step keeps released memory out of use.
LEMMA MemoryStep == TypeOK /\ LockInv /\ ListInv /\ OnceInv /\ SizeInv /\ MemoryInv /\ Next => MemoryInv'
  <1> SUFFICES ASSUME TypeOK, LockInv, ListInv, OnceInv, SizeInv, MemoryInv, Next PROVE MemoryInv'
      OBVIOUS
  <1> USE DEF TypeOK, MemoryInv, LockInv, Critical
  <1>1. CASE PoolInit
    BY <1>1 DEF PoolInit
  <1>2. ASSUME NEW t \in Threads, CreateThread(t) PROVE MemoryInv'
    BY <1>2 DEF CreateThread
  <1>3. ASSUME NEW c \in Clients, AddCall(c) PROVE MemoryInv'
    BY <1>3 DEF AddCall
  <1>4. ASSUME NEW c \in Clients, AddEnqueue(c) PROVE MemoryInv'
    BY <1>4 DEF AddEnqueue
  <1>5. ASSUME NEW c \in Clients, AddSignal(c) PROVE MemoryInv'
    BY <1>5 DEF AddSignal, Wake
  <1>6. ASSUME NEW t \in Threads, Lock(t) PROVE MemoryInv'
    BY <1>6 DEF Lock, Raise, PoolFault
  <1>7. ASSUME NEW t \in Threads, CheckQueue(t) PROVE MemoryInv'
    BY <1>7 DEF CheckQueue, Raise, PoolFault
  <1>8. ASSUME NEW t \in Threads, CondWait(t) PROVE MemoryInv'
    BY <1>8 DEF CondWait, Raise, PoolFault
  <1>9. ASSUME NEW t \in Threads, SpuriousWakeup(t) PROVE MemoryInv'
    BY <1>9 DEF SpuriousWakeup, Wake
  <1>10. ASSUME NEW t \in Threads, TestShutdown(t) PROVE MemoryInv'
    BY <1>10 DEF TestShutdown, Raise, PoolFault
  <1>11. ASSUME NEW t \in Threads, Dequeue(t) PROVE MemoryInv'
    BY <1>11 DEF Dequeue, Raise, PoolFault, ListInv, SizeInv, QueueAccounting
  <1>12. ASSUME NEW t \in Threads, Advance(t) PROVE MemoryInv'
    BY <1>12 DEF Advance, PoolFault, NodeFault, FreeFault, Raise, SizeInv
  <1>13. ASSUME NEW t \in Threads, Run(t) PROVE MemoryInv'
    BY <1>13 DEF Run, PoolFault, NodeFault, FreeFault, Raise
  <1>14. ASSUME NEW t \in Threads, FreeJob(t) PROVE MemoryInv'
    BY <1>14 DEF FreeJob, PoolFault, NodeFault, FreeFault, Raise, OnceInv, ListInv
  <1>15. ASSUME NEW d \in Destroyers, DestroyEnter(d) PROVE MemoryInv'
    BY <1>15 DEF DestroyEnter, Raise, PoolFault
  <1>16. ASSUME NEW d \in Destroyers, DestroySet(d) PROVE MemoryInv'
    BY <1>16 DEF DestroySet, Raise, PoolFault
  <1>17. ASSUME NEW d \in Destroyers, DestroyBroadcast(d) PROVE MemoryInv'
    BY <1>17 DEF DestroyBroadcast, Wake, Raise, PoolFault
  <1>18. ASSUME NEW d \in Destroyers, DestroyHead(d) PROVE MemoryInv'
    BY <1>18 DEF DestroyHead, Raise, PoolFault
  <1>19. ASSUME NEW d \in Destroyers, DestroyUnlink(d) PROVE MemoryInv'
    BY <1>19 DEF DestroyUnlink, PoolFault, NodeFault, FreeFault, Raise
  <1>20. ASSUME NEW d \in Destroyers, DestroyRelease(d) PROVE MemoryInv'
    BY <1>20 DEF DestroyRelease, Raise, PoolFault
  <1>21. ASSUME NEW c \in Clients, AddUnset(c) PROVE MemoryInv'
    BY <1>21 DEF AddUnset, Raise
  <1>22. ASSUME NEW d \in Destroyers, DestroyUnset(d) PROVE MemoryInv'
    BY <1>22 DEF DestroyUnset, Raise
  <1> QED
    BY <1>1, <1>2, <1>3, <1>4, <1>5, <1>6, <1>7, <1>8, <1>9, <1>10, <1>11, <1>12, <1>13,
        <1>14, <1>15, <1>16, <1>17, <1>18, <1>19, <1>20, <1>21, <1>22
       DEF Next, ThreadStep, AddStep, DestroyStep

\* Until shutdown no step loses a job.
LEMMA LossStep == IInv /\ LossInv /\ Next => LossInv'
  <1> SUFFICES ASSUME IInv, LossInv, Next PROVE LossInv'
      OBVIOUS
  <1> USE DEF IInv, LossInv, NoJobLost, TypeOK
  <1>1. CASE PoolInit
    BY <1>1 DEF PoolInit
  <1>2. ASSUME NEW t \in Threads, CreateThread(t) PROVE LossInv'
    BY <1>2 DEF CreateThread
  <1>3. ASSUME NEW c \in Clients, AddCall(c) PROVE LossInv'
    BY <1>3 DEF AddCall
  <1>4. ASSUME NEW c \in Clients, AddEnqueue(c) PROVE LossInv'

    <2>1. /\ chain' = Append(chain, arg[c]) /\ arg[c] \in Jobs
          /\ UNCHANGED <<queue_head, shutdown, pc, worker, ran, freed>>
      BY <1>4 DEF AddEnqueue, FreshInv
    <2>2. /\ Len(chain') = Len(chain) + 1 /\ chain'[Len(chain) + 1] = arg[c]
          /\ \A i \in 1..Len(chain) : chain'[i] = chain[i]
      BY <2>1
    <2>3. ran[arg[c]] = 0
      BY <2>1, <1>4 DEF FreshInv, AddEnqueue
    <2>4. ~shutdown => Len(chain) + 1 \notin freed /\ Len(chain) + 1 >= queue_head
      BY DEF MemoryInv, ListInv
    <2>5. \A u \in Threads : pc'[u] = "free" => ran'[chain'[worker'[u]]] = 1
      BY <2>1, <2>2 DEF ListInv
    <2>6. NoJobLost'
      <3> SUFFICES ASSUME ~shutdown, NEW i \in 1..Len(chain')
                   PROVE  IF i < queue_head
                          THEN \/ \E u \in Threads : worker[u] = i /\ pc[u] \in {"run", "free"}
                               \/ ran[chain'[i]] = 1 /\ i \in freed
                          ELSE ran[chain'[i]] = 0 /\ i \notin freed
        BY <2>1
      <3>1. CASE i \in 1..Len(chain)
        BY <2>2, <3>1
      <3>2. CASE i = Len(chain) + 1
        BY <2>2, <2>3, <2>4, <3>2 DEF ListInv
      <3> QED
        BY <2>2, <3>1, <3>2
    <2> QED
      BY <2>5, <2>6
  <1>5. ASSUME NEW c \in Clients, AddSignal(c) PROVE LossInv'

    <2>1. UNCHANGED <<chain, queue_head, shutdown, worker, ran, freed>>
      BY <1>5 DEF AddSignal
    <2>2. PICK W \in Signalled : pc' = [u \in Threads |-> IF u \in W THEN "relock" ELSE pc[u]]
      BY <1>5 DEF AddSignal, Wake
    <2>3. \A u \in Threads : u \in W => pc[u] = "waiting"
      BY <2>2 DEF LockInv
    <2>4. \A u \in Threads : (pc'[u] = "run" <=> pc[u] = "run") /\ (pc'[u] = "free" <=> pc[u] = "free")
      BY <2>2, <2>3
    <2> QED
      BY <2>1, <2>4
  <1>6. ASSUME NEW t \in Threads, Lock(t) PROVE LossInv'
    BY <1>6 DEF Lock
  <1>7. ASSUME NEW t \in Threads, CheckQueue(t) PROVE LossInv'
    BY <1>7 DEF CheckQueue
  <1>8. ASSUME NEW t \in Threads, CondWait(t) PROVE LossInv'
    BY <1>8 DEF CondWait
  <1>9. ASSUME NEW t \in Threads, SpuriousWakeup(t) PROVE LossInv'
    BY <1>9 DEF SpuriousWakeup, Wake, LockInv
  <1>10. ASSUME NEW t \in Threads, TestShutdown(t) PROVE LossInv'
    BY <1>10 DEF TestShutdown
  <1>11. ASSUME NEW t \in Threads, Dequeue(t) PROVE LossInv'
    BY <1>11 DEF Dequeue, LockInv, ListInv
  <1>12. ASSUME NEW t \in Threads, Advance(t) PROVE LossInv'

    <2>1. CASE worker[t] = 0
      BY <2>1, <1>12 DEF Advance
    <2>2. CASE worker[t] # 0
      <3>1. /\ UNCHANGED <<chain, worker, ran, shutdown, freed>> /\ queue_head' = worker[t] + 1
            /\ pc' = [pc EXCEPT ![t] = "run"] /\ pc[t] = "advance"
        BY <2>2, <1>12 DEF Advance
      <3>2. ~shutdown => worker[t] = queue_head
        BY <3>1 DEF SizeInv
      <3> QED
        BY <3>1, <3>2
    <2> QED
      BY <2>1, <2>2
  <1>13. ASSUME NEW t \in Threads, Run(t) PROVE LossInv'

    <2>1. /\ UNCHANGED <<chain, queue_head, shutdown, worker, freed>> /\ pc' = [pc EXCEPT ![t] = "free"]
          /\ ran' = [ran EXCEPT ![chain[worker[t]]] = ran[chain[worker[t]]] + 1] /\ pc[t] = "run"
      BY <1>13 DEF Run
    <2>2. worker[t] \in 1..Len(chain) /\ ran[chain[worker[t]]] = 0
      BY <2>1 DEF ListInv, OnceInv
    <2>3. \A u \in Threads : pc'[u] = "free" => ran'[chain[worker[u]]] = 1
      BY <2>1, <2>2 DEF ListInv, OnceInv, FreshInv
    <2>4. NoJobLost'
      <3> SUFFICES ASSUME ~shutdown, NEW i \in 1..Len(chain)
                   PROVE  IF i < queue_head
                          THEN \/ \E u \in Threads : worker[u] = i /\ pc'[u] \in {"run", "free"}
                               \/ ran'[chain[i]] = 1 /\ i \in freed
                          ELSE ran'[chain[i]] = 0 /\ i \notin freed
        BY <2>1
      <3>1. CASE i = worker[t]
        BY <2>1, <2>2, <3>1 DEF OnceInv
      <3>2. CASE i # worker[t]
        <4>0. chain[i] # chain[worker[t]]
          BY <2>2, <3>2 DEF FreshInv
        <4>1. ran'[chain[i]] = ran[chain[i]]
          BY <2>1, <2>2, <4>0
        <4> QED
          BY <2>1, <4>1
      <3> QED
        BY <3>1, <3>2
    <2> QED
      BY <2>1, <2>3, <2>4
  <1>14. ASSUME NEW t \in Threads, FreeJob(t) PROVE LossInv'

    <2>1. /\ UNCHANGED <<chain, queue_head, shutdown, ran>> /\ pc' = [pc EXCEPT ![t] = "lock"]
          /\ freed' = freed \cup {worker[t]} /\ worker' = [worker EXCEPT ![t] = 0]
          /\ pc[t] = "free"
      BY <1>14 DEF FreeJob
    <2>2. worker[t] \in 1..Len(chain) /\ ran[chain[worker[t]]] = 1
      BY <2>1 DEF ListInv
    <2>3. ~shutdown => worker[t] < queue_head
      BY <2>1, <2>2 DEF OnceInv, ListInv
    <2> QED
      BY <2>1, <2>2, <2>3
  <1>15. ASSUME NEW d \in Destroyers, DestroyEnter(d) PROVE LossInv'
    BY <1>15 DEF DestroyEnter
  <1>16. ASSUME NEW d \in Destroyers, DestroySet(d) PROVE LossInv'
    BY <1>16 DEF DestroySet
  <1>17. ASSUME NEW d \in Destroyers, DestroyBroadcast(d) PROVE LossInv'
    BY <1>17 DEF DestroyBroadcast, Wake, LockInv
  <1>18. ASSUME NEW d \in Destroyers, DestroyHead(d) PROVE LossInv'
    BY <1>18 DEF DestroyHead
  <1>19. ASSUME NEW d \in Destroyers, DestroyUnlink(d) PROVE LossInv'
    BY <1>19 DEF DestroyUnlink, MemoryInv
  <1>20. ASSUME NEW d \in Destroyers, DestroyRelease(d) PROVE LossInv'
    BY <1>20 DEF DestroyRelease
  <1>21. ASSUME NEW c \in Clients, AddUnset(c) PROVE LossInv'
    BY <1>21 DEF AddUnset
  <1>22. ASSUME NEW d \in Destroyers, DestroyUnset(d) PROVE LossInv'
    BY <1>22 DEF DestroyUnset
  <1> QED
    BY <1>1, <1>2, <1>3, <1>4, <1>5, <1>6, <1>7, <1>8, <1>9, <1>10, <1>11, <1>12, <1>13,
        <1>14, <1>15, <1>16, <1>17, <1>18, <1>19, <1>20, <1>21, <1>22
       DEF Next, ThreadStep, AddStep, DestroyStep

\* The invariant is inductive.
LEMMA InvStep == IInv /\ [Next]_vars => IInv'
  <1>1. CASE Next
    BY <1>1, TypeStep, LockStep, ListStep, FreshStep, OnceStep, SizeStep, MemoryStep DEF IInv
  <1>2. CASE UNCHANGED vars
    BY <1>2 DEF IInv, vars, TypeOK, LockInv, ListInv, FreshInv, OnceInv, SizeInv, MemoryInv,
                QueueAccounting
  <1> QED
    BY <1>1, <1>2

\* The invariant holds in every reachable state.
LEMMA Invariance == Spec => []IInv
  BY InitInv, InvStep, PTL DEF Spec

\* No job is lost, given the invariant.
LEMMA LossInvariance == Spec => []LossInv
  <1>1. Init => LossInv
    BY DEF Init, LossInv, NoJobLost
  <1>2. IInv /\ LossInv /\ [Next]_vars => LossInv'
    <2>1. CASE Next
      BY <2>1, LossStep
    <2>2. CASE UNCHANGED vars
      BY <2>2 DEF LossInv, NoJobLost, vars
    <2> QED
      BY <2>1, <2>2
  <1> QED
    BY <1>1, <1>2, Invariance, PTL DEF Spec

-----------------------------------------------------------------------------
(* No wakeup is lost.                                                        *)

\* Clients that have linked a node and not yet signalled.
Signalling == {c \in Clients : cpc[c] = "signal"}

\* A thread about to sleep has seen an empty queue, and still holds the mutex.
WakeInv ==
    /\ ~shutdown => \A t \in Threads : pc[t] = "wait" => cur_queue_size = 0
    /\ NoLostWakeup

\* Looking and Signalling are finite, so that they can be counted.
LEMMA FiniteCounts ==
  /\ IsFiniteSet(Looking) /\ Cardinality(Looking) \in Nat
  /\ IsFiniteSet(Signalling) /\ Cardinality(Signalling) \in Nat
  <1>1. Looking \in SUBSET Threads /\ Signalling \in SUBSET Clients
    BY DEF Looking, Signalling
  <1> QED
    BY <1>1, ThreadPoolAssumption, FS_Subset, FS_CardinalityType

\* NoLostWakeup survives a step that changes neither its premise for the worse
\* nor its bound.
LEMMA WakeupKept ==
  ASSUME TypeOK, NoLostWakeup, queue_ready' # {} => queue_ready # {}, UNCHANGED shutdown,
         \/ UNCHANGED cur_queue_size /\ Looking' = Looking
         \/ \E t : UNCHANGED cur_queue_size /\ Looking' = Looking \cup {t}
         \/ \E t \in Looking : cur_queue_size' = cur_queue_size - 1 /\ Looking' = Looking \ {t},
         Signalling' = Signalling
  PROVE  NoLostWakeup'
  <1>1. ASSUME NEW t, Looking' = Looking \cup {t}
        PROVE  Cardinality(Looking') >= Cardinality(Looking) /\ Cardinality(Looking') \in Nat
    <2>1. Cardinality(Looking \cup {t}) = IF t \in Looking THEN Cardinality(Looking)
                                                          ELSE Cardinality(Looking) + 1
      BY FiniteCounts, FS_AddElement
    <2> QED
      BY <1>1, <2>1, FiniteCounts
  <1>2. ASSUME NEW t \in Looking, Looking' = Looking \ {t}
        PROVE  Cardinality(Looking') = Cardinality(Looking) - 1
    BY <1>2, FiniteCounts, FS_RemoveElement
  <1> DEFINE L == Cardinality(Looking)
             S == Cardinality(Signalling)
  <1>3. (L \in Nat /\ S \in Nat /\ cur_queue_size \in Int)
    BY FiniteCounts DEF TypeOK
  <1>4. S' = S
    OBVIOUS
  <1>5. \/ cur_queue_size' = cur_queue_size /\ L' \in Nat /\ L' >= L
        \/ cur_queue_size' = cur_queue_size - 1 /\ L' = L - 1
    BY <1>1, <1>2, FiniteCounts
  <1>6. ~shutdown /\ queue_ready # {} => cur_queue_size <= L + S
    BY DEF NoLostWakeup, Signalling
  <1>7. ~shutdown' /\ queue_ready' # {} => cur_queue_size' <= L' + S'
    <2> HIDE DEF L, S
    <2> QED
      BY <1>3, <1>4, <1>5, <1>6
  <1> QED
    BY <1>7 DEF NoLostWakeup, Signalling

\* pool_destroy has set shutdown when it does anything else.
LEMMA DestroyShuts ==
  ASSUME TypeOK, MemoryInv, NEW d \in Destroyers, DestroyStep(d)
  PROVE  shutdown'
  BY DEF TypeOK, MemoryInv, DestroyStep, DestroySet, DestroyBroadcast, DestroyHead,
         DestroyUnlink, DestroyRelease

\* Every step keeps WakeInv.
LEMMA WakeStep == IInv /\ WakeInv /\ Next => WakeInv'
  <1> SUFFICES ASSUME IInv, WakeInv, Next PROVE WakeInv'
      OBVIOUS
  <1> DEFINE AsleepEmpty == ~shutdown => \A t \in Threads : pc[t] = "wait" => cur_queue_size = 0
  <1> SUFFICES AsleepEmpty' /\ NoLostWakeup'
      BY DEF WakeInv
  <1> USE DEF IInv, WakeInv, TypeOK, LockInv, Critical
  <1>1. CASE PoolInit
    BY <1>1, WakeupKept DEF PoolInit, Looking, Signalling
  <1>2. ASSUME NEW t \in Threads, CreateThread(t) PROVE AsleepEmpty' /\ NoLostWakeup'
    <2>1. Looking' = Looking \cup {t} \/ Looking' = Looking
      BY <1>2 DEF CreateThread, Looking
    <2>2. UNCHANGED <<cur_queue_size, queue_ready, shutdown, Signalling>>
      BY <1>2 DEF CreateThread, Signalling
    <2>3. NoLostWakeup'
      BY <2>1, <2>2, WakeupKept
    <2> QED
      BY <1>2, <2>3 DEF CreateThread
  <1>3. ASSUME NEW c \in Clients, AddCall(c) PROVE AsleepEmpty' /\ NoLostWakeup'
    <2>1. UNCHANGED <<cur_queue_size, queue_ready, shutdown, pc, Looking, Signalling>>
      BY <1>3 DEF AddCall, Looking, Signalling
    <2> QED
      BY <2>1, WakeupKept
  <1>4. ASSUME NEW c \in Clients, AddEnqueue(c) PROVE AsleepEmpty' /\ NoLostWakeup'
    <2>1. Looking' = Looking /\ Signalling' = Signalling \cup {c} /\ c \notin Signalling
      BY <1>4 DEF AddEnqueue, Looking, Signalling
    <2>2. Cardinality(Signalling') = Cardinality(Signalling) + 1
      BY <2>1, FiniteCounts, FS_AddElement
    <2>3. cur_queue_size' = cur_queue_size + 1 /\ UNCHANGED <<pc, queue_ready, shutdown>>
      BY <1>4 DEF AddEnqueue
    <2>4. NoLostWakeup'
      BY <2>1, <2>2, <2>3, FiniteCounts DEF NoLostWakeup, Signalling
    <2>5. AsleepEmpty'
      BY <1>4, <2>3, ThreadPoolAssumption DEF AddEnqueue
    <2> QED
      BY <2>4, <2>5
  <1>5. ASSUME NEW c \in Clients, AddSignal(c) PROVE AsleepEmpty' /\ NoLostWakeup'
    <2>1. PICK W \in Signalled : /\ queue_ready' = queue_ready \ W
                                 /\ pc' = [u \in Threads |-> IF u \in W THEN "relock" ELSE pc[u]]
      BY <1>5 DEF AddSignal, Wake
    <2>2. UNCHANGED <<cur_queue_size, shutdown>>
      BY <1>5 DEF AddSignal
    <2>3. AsleepEmpty'
      BY <2>1, <2>2
    <2>4. ASSUME ~shutdown, queue_ready # {} PROVE NoLostWakeup'
      <3>1. PICK t \in queue_ready : W = {t}
        BY <2>1, <2>4
      <3>2. t \in Threads /\ pc[t] = "waiting"
        BY <3>1
      <3>3. Looking' = Looking \cup {t} /\ t \notin Looking
        BY <2>1, <3>1, <3>2 DEF Looking
      <3>4. Signalling' = Signalling \ {c} /\ c \in Signalling
        BY <1>5 DEF AddSignal, Signalling
      <3>5. /\ Cardinality(Looking') = Cardinality(Looking) + 1
            /\ Cardinality(Signalling') = Cardinality(Signalling) - 1
        BY <3>3, <3>4, FiniteCounts, FS_AddElement, FS_RemoveElement
      <3> QED
        BY <2>2, <2>4, <3>5, FiniteCounts DEF NoLostWakeup, Signalling
    <2>5. CASE shutdown \/ queue_ready = {}
      BY <2>1, <2>2, <2>5 DEF NoLostWakeup
    <2> QED
      BY <2>3, <2>4, <2>5
  <1>6. ASSUME NEW t \in Threads, Lock(t) PROVE AsleepEmpty' /\ NoLostWakeup'
    <2>1. UNCHANGED <<cur_queue_size, queue_ready, shutdown, Looking, Signalling>>
      BY <1>6 DEF Lock, Looking, Signalling
    <2> QED
      BY <1>6, <2>1, WakeupKept DEF Lock
  <1>7. ASSUME NEW t \in Threads, CheckQueue(t) PROVE AsleepEmpty' /\ NoLostWakeup'
    <2>1. /\ UNCHANGED <<cur_queue_size, queue_ready, shutdown>> /\ pc[t] = "check"
          /\ pc' = [pc EXCEPT ![t] = IF MustWait THEN "wait" ELSE "test"]
      BY <1>7 DEF CheckQueue
    <2>2. AsleepEmpty'
      BY <2>1
    <2>3. Signalling' = Signalling
      BY <1>7 DEF CheckQueue, Signalling
    <2>4. CASE ~MustWait
      <3>1. Looking' = Looking
        BY <2>1, <2>4 DEF Looking
      <3> QED
        BY <2>1, <2>2, <2>3, <3>1, WakeupKept
    <2>5. CASE MustWait
      <3>1. IsFiniteSet(Looking') /\ IsFiniteSet(Signalling')
        <4>1. Looking' \in SUBSET Threads /\ Signalling' \in SUBSET Clients
          BY DEF Looking, Signalling
        <4> QED
          BY <4>1, ThreadPoolAssumption, FS_Subset
      <3>2. Cardinality(Looking') \in Nat /\ Cardinality(Signalling') \in Nat
        BY <3>1, FS_CardinalityType
      <3> QED
        BY <2>1, <2>2, <2>5, <3>2 DEF NoLostWakeup, Signalling
    <2> QED
      BY <2>4, <2>5
  <1>8. ASSUME NEW t \in Threads, CondWait(t) PROVE AsleepEmpty' /\ NoLostWakeup'
    <2>0. /\ UNCHANGED <<cur_queue_size, shutdown, cpc>> /\ pc[t] = "wait"
          /\ pc' = [pc EXCEPT ![t] = "waiting"]
      BY <1>8 DEF CondWait
    <2>1. UNCHANGED <<cur_queue_size, shutdown, Looking, Signalling>> /\ pc[t] = "wait"
      BY <2>0 DEF Looking, Signalling
    <2>2. AsleepEmpty'
      BY <2>0
    <2>3. ~shutdown => cur_queue_size = 0
      BY <2>1
    <2>4. Cardinality(Looking') \in Nat /\ Cardinality(Signalling') \in Nat
      BY <2>1, FiniteCounts
    <2>5. ~shutdown' => cur_queue_size' <= Cardinality(Looking') + Cardinality(Signalling')
      BY <2>1, <2>3, <2>4
    <2> QED
      BY <2>2, <2>5 DEF NoLostWakeup, Signalling
  <1>9. ASSUME NEW t \in Threads, SpuriousWakeup(t) PROVE AsleepEmpty' /\ NoLostWakeup'
    <2>1. pc[t] = "waiting" /\ pc' = [u \in Threads |-> IF u \in {t} THEN "relock" ELSE pc[u]]
      BY <1>9 DEF SpuriousWakeup, Wake
    <2>2. Looking' = Looking \cup {t}
      BY <2>1 DEF Looking
    <2>3. UNCHANGED <<cur_queue_size, shutdown, Signalling>> /\ queue_ready' = queue_ready \ {t}
      BY <1>9 DEF SpuriousWakeup, Signalling, Wake
    <2> QED
      BY <2>1, <2>2, <2>3, WakeupKept
  <1>10. ASSUME NEW t \in Threads, TestShutdown(t) PROVE AsleepEmpty' /\ NoLostWakeup'
    <2>1. ~shutdown => Looking' = Looking
      BY <1>10 DEF TestShutdown, Looking
    <2>2. UNCHANGED <<cur_queue_size, queue_ready, shutdown, Signalling>>
      BY <1>10 DEF TestShutdown, Signalling
    <2>3. NoLostWakeup'
      BY <2>1, <2>2, WakeupKept DEF NoLostWakeup
    <2> QED
      BY <1>10, <2>3 DEF TestShutdown
  <1>11. ASSUME NEW t \in Threads, Dequeue(t) PROVE AsleepEmpty' /\ NoLostWakeup'
    <2>1. t \in Looking /\ Looking' = Looking \ {t}
      BY <1>11 DEF Dequeue, Looking
    <2>2. /\ UNCHANGED <<queue_ready, shutdown, Signalling>> /\ cur_queue_size' = cur_queue_size - 1
          /\ pc[t] = "dequeue" /\ pc' = [pc EXCEPT ![t] = "advance"]
      BY <1>11 DEF Dequeue, Signalling
    <2>3. NoLostWakeup'
      BY <2>1, <2>2, WakeupKept
    <2>4. AsleepEmpty'
      BY <2>2
    <2> QED
      BY <2>3, <2>4
  <1>12. ASSUME NEW t \in Threads, Advance(t) PROVE AsleepEmpty' /\ NoLostWakeup'
    <2>0. /\ UNCHANGED <<cur_queue_size, queue_ready, shutdown, cpc>> /\ pc[t] = "advance"
          /\ UNCHANGED pc \/ pc' = [pc EXCEPT ![t] = "run"]
      BY <1>12 DEF Advance
    <2>1. UNCHANGED <<cur_queue_size, queue_ready, shutdown, Looking, Signalling>>
      BY <2>0 DEF Looking, Signalling
    <2> QED
      BY <1>12, <2>1, WakeupKept DEF Advance
  <1>13. ASSUME NEW t \in Threads, Run(t) PROVE AsleepEmpty' /\ NoLostWakeup'
    <2>1. UNCHANGED <<cur_queue_size, queue_ready, shutdown, Looking, Signalling>>
      BY <1>13 DEF Run, Looking, Signalling
    <2> QED
      BY <1>13, <2>1, WakeupKept DEF Run
  <1>14. ASSUME NEW t \in Threads, FreeJob(t) PROVE AsleepEmpty' /\ NoLostWakeup'
    <2>1. Looking' = Looking \cup {t}
      BY <1>14 DEF FreeJob, Looking
    <2>2. UNCHANGED <<cur_queue_size, queue_ready, shutdown, Signalling>>
      BY <1>14 DEF FreeJob, Signalling
    <2>3. NoLostWakeup'
      BY <2>1, <2>2, WakeupKept
    <2>4. AsleepEmpty'
      BY <1>14, <2>2 DEF FreeJob
    <2> QED
      BY <2>3, <2>4
  <1>15. ASSUME NEW d \in Destroyers, DestroyEnter(d) PROVE AsleepEmpty' /\ NoLostWakeup'
    <2>1. UNCHANGED <<cur_queue_size, queue_ready, shutdown, pc, Looking, Signalling>>
      BY <1>15 DEF DestroyEnter, Looking, Signalling
    <2> QED
      BY <2>1, WakeupKept
  <1>16. ASSUME NEW d \in Destroyers, DestroyStep(d) PROVE AsleepEmpty' /\ NoLostWakeup'
    BY <1>16, DestroyShuts DEF NoLostWakeup
  <1>17. ASSUME NEW c \in Clients, AddUnset(c) PROVE AsleepEmpty' /\ NoLostWakeup'
    <2>1. UNCHANGED <<cur_queue_size, queue_ready, shutdown, pc, Looking, Signalling>>
      BY <1>17 DEF AddUnset, Looking, Signalling
    <2> QED
      BY <2>1, WakeupKept
  <1>18. ASSUME NEW d \in Destroyers, DestroyUnset(d) PROVE AsleepEmpty' /\ NoLostWakeup'
    <2>1. UNCHANGED <<cur_queue_size, queue_ready, shutdown, pc, Looking, Signalling>>
      BY <1>18 DEF DestroyUnset, Looking, Signalling
    <2> QED
      BY <2>1, WakeupKept
  <1> QED
    BY <1>1, <1>2, <1>3, <1>4, <1>5, <1>6, <1>7, <1>8, <1>9, <1>10, <1>11, <1>12, <1>13,
        <1>14, <1>15, <1>16, <1>17, <1>18
       DEF Next, ThreadStep, AddStep

\* A sleeping thread is never forgotten, given the invariant.
LEMMA WakeInvariance == Spec => []WakeInv
  <1>1. Init => WakeInv
    BY DEF Init, WakeInv, NoLostWakeup
  <1>2. IInv /\ WakeInv /\ [Next]_vars => WakeInv'
    <2>1. CASE Next
      BY <2>1, WakeStep
    <2>2. CASE UNCHANGED vars
      BY <2>2 DEF WakeInv, NoLostWakeup, Looking, vars
    <2> QED
      BY <2>1, <2>2
  <1> QED
    BY <1>1, <1>2, Invariance, PTL DEF Spec

-----------------------------------------------------------------------------
(* The refinement of JobQueue.                                               *)

\* The threads that perform a job, and the abstract state.
Performing == {u \in Threads : pc[u] = "run"}
Pending == SubSeq(chain, queue_head, Len(chain))
Started == {chain[worker[t]] : t \in Performing}
Performed == {j \in Jobs : ran[j] > 0}

\* Linking a node at the end of the list appends to what is queued.
LEMMA PendingAppend ==
  ASSUME NEW s \in Seq(Jobs), NEW h \in 1..(Len(s) + 1), NEW j \in Jobs
  PROVE  SubSeq(Append(s, j), h, Len(s) + 1) = Append(SubSeq(s, h, Len(s)), j)
  <1> DEFINE a == Append(s, j)
             n == Len(s)
             q == SubSeq(s, h, n)
             r == SubSeq(a, h, n + 1)
  <1>1. n \in Nat /\ h \in Int /\ h <= n + 1
    OBVIOUS
  <1>2. /\ a \in Seq(Jobs) /\ Len(a) = n + 1 /\ a[n + 1] = j
        /\ \A i \in 1..n : a[i] = s[i]
    BY AppendProperties
  <1>3. /\ q \in Seq(Jobs) /\ Len(q) = n - h + 1
        /\ \A i \in 1..(n - h + 1) : q[i] = s[h + i - 1]
    <2>1. \A i \in h..n : s[i] \in Jobs
      BY <1>1
    <2> QED
      BY <1>1, <2>1, SubSeqProperties
  <1>4. /\ r \in Seq(Jobs) /\ Len(r) = n - h + 2
        /\ \A i \in 1..(n - h + 2) : r[i] = a[h + i - 1]
    <2>1. \A i \in h..(n + 1) : a[i] \in Jobs
      BY <1>1, <1>2
    <2> HIDE DEF a
    <2>2. /\ r \in Seq(Jobs) /\ Len(r) = IF h <= n + 1 THEN n + 1 - h + 1 ELSE 0
          /\ \A i \in 1..(n + 1 - h + 1) : r[i] = a[h + i - 1]
      BY <1>1, <2>1, SubSeqProperties
    <2> HIDE DEF r, n
    <2> QED
      BY <1>1, <2>2
  <1>5. /\ Append(q, j) \in Seq(Jobs) /\ Len(Append(q, j)) = n - h + 2
        /\ \A i \in 1..(n - h + 1) : Append(q, j)[i] = q[i]
        /\ Append(q, j)[n - h + 2] = j
    <2> HIDE DEF q
    <2> QED
      BY <1>1, <1>3, AppendProperties
  <1>6. \A i \in 1..Len(r) : r[i] = Append(q, j)[i]
    <2> HIDE DEF a, q, r, n
    <2> SUFFICES ASSUME NEW i \in 1..(n - h + 2) PROVE r[i] = Append(q, j)[i]
      BY <1>4
    <2>1. CASE i = n - h + 2
      BY <1>1, <1>2, <1>4, <1>5, <2>1
    <2>2. CASE i \in 1..(n - h + 1)
      <3>1. h + i - 1 \in 1..n
        BY <1>1, <2>2
      <3> QED
        BY <1>1, <1>2, <1>3, <1>4, <1>5, <2>2, <3>1
    <2>3. i = n - h + 2 \/ i \in 1..(n - h + 1)
      BY <1>1
    <2> QED
      BY <2>1, <2>2, <2>3
  <1> HIDE DEF q, r
  <1>7. r = Append(q, j)
    BY <1>4, <1>5, <1>6, SeqEqual
  <1> QED
    BY <1>7 DEF r, q

\* A step of the pool that is not one of the queue's.
LEMMA QueueStutters ==
  ASSUME TypeOK, UNCHANGED <<chain, queue_head, ran, Performing>>,
         \A u \in Performing : worker'[u] = worker[u]
  PROVE  UNCHANGED Implements!jqVars
  <1>1. Started' = Started
    BY DEF Started
  <1>2. Pending' = Pending /\ Performed' = Performed
    BY DEF Pending, Performed
  <1> QED
    BY <1>1, <1>2 DEF Implements!jqVars, Started, Pending, Performed, Performing

\* pool_add_worker submits its job.
LEMMA EnqueueSubmits ==
  ASSUME IInv, NEW c \in Clients, AddEnqueue(c)
  PROVE  \E j \in Jobs : Implements!Submit(j)
  <1> DEFINE j == arg[c]
  <1> USE DEF IInv, TypeOK
  <1>1. j \in Jobs
    BY DEF AddEnqueue, FreshInv
  <1>2. /\ chain' = Append(chain, j) /\ UNCHANGED <<queue_head, pc, worker, ran>>
        /\ chain \in Seq(Jobs) /\ queue_head \in 1..(Len(chain) + 1)
      BY DEF AddEnqueue, ListInv
  <1>3. /\ Len(chain') = Len(chain) + 1 /\ \A i \in 1..Len(chain) : chain'[i] = chain[i]
    BY <1>1, <1>2, AppendProperties
  <1>4. Pending' = Append(Pending, j)
    BY <1>1, <1>2, <1>3, PendingAppend DEF Pending
  <1>5. Started' = Started
    <2>1. \A u \in Performing : worker[u] \in 1..Len(chain)
      BY DEF Performing, ListInv
    <2>2. Performing' = Performing
      BY <1>2 DEF Performing
    <2> QED
      BY <1>2, <1>3, <2>1, <2>2 DEF Started
  <1>6. \A i \in 1..Len(chain) : chain[i] # j
    BY <1>1, ThreadPoolAssumption DEF FreshInv
  <1>7. j \notin Started \cup Performed
    <2> HIDE DEF j
    <2>1. \A u \in Performing : chain[worker[u]] # j
      BY <1>6 DEF Performing, ListInv
    <2>2. ran[j] = 0
      BY <1>1, <1>6 DEF FreshInv
    <2> QED
      BY <2>1, <2>2 DEF Started, Performed
  <1>8. \A i \in DOMAIN Pending : Pending[i] # j
    <2>1. \A i \in queue_head..Len(chain) : chain[i] \in Jobs
      BY <1>2
    <2>2. /\ Pending \in Seq(Jobs)
          /\ Len(Pending) = IF queue_head <= Len(chain) THEN Len(chain) - queue_head + 1 ELSE 0
          /\ \A i \in 1..(Len(chain) - queue_head + 1) :
                Pending[i] = chain[queue_head + i - 1]
      BY <1>2, <2>1, SubSeqProperties DEF Pending
    <2>3. DOMAIN Pending = 1..Len(Pending)
      BY <2>2
    <2>4. ASSUME NEW i \in 1..Len(Pending)
          PROVE  i \in 1..(Len(chain) - queue_head + 1) /\ queue_head + i - 1 \in 1..Len(chain)
      BY <1>2, <2>2
    <2> QED
      BY <1>6, <2>2, <2>3, <2>4
  <1>9. Performed' = Performed
    BY <1>2 DEF Performed
  <1>10. Implements!Submit(j)
    BY <1>4, <1>5, <1>7, <1>8, <1>9 DEF Implements!Submit, Pending, Started, Performed, Performing
  <1> QED
    BY <1>1, <1>10

\* A thread that unlinks the head of the list starts its job.
LEMMA AdvanceStarts ==
  ASSUME IInv, ~shutdown, NEW t \in Threads, Advance(t)
  PROVE  Implements!Start
  <1> USE DEF IInv, TypeOK
  <1>1. /\ worker[t] = queue_head /\ worker[t] # 0 /\ queue_head \in 1..Len(chain)
        /\ pc[t] = "advance" /\ chain \in Seq(Jobs)
    BY DEF Advance, SizeInv, ListInv
  <1>2. /\ queue_head' = queue_head + 1 /\ pc' = [pc EXCEPT ![t] = "run"]
        /\ UNCHANGED <<chain, worker, ran>>
    BY <1>1 DEF Advance
  <1>3. Head(Pending) = chain[queue_head] /\ Pending' = Tail(Pending)
    <2>1. queue_head \in 1..Len(chain) /\ Len(chain) \in queue_head..Len(chain)
      BY <1>1
    <2>2. /\ Head(SubSeq(chain, queue_head, Len(chain))) = chain[queue_head]
          /\ Tail(SubSeq(chain, queue_head, Len(chain))) = SubSeq(chain, queue_head + 1, Len(chain))
      BY <1>1, <2>1, HeadTailOfSubSeq
    <2> QED
      BY <1>2, <2>2 DEF Pending
  <1>4. Pending # <<>>
    <2>1. \A i \in queue_head..Len(chain) : chain[i] \in Jobs
      BY <1>1
    <2>2. Len(Pending) = IF queue_head <= Len(chain) THEN Len(chain) - queue_head + 1 ELSE 0
      BY <1>1, <2>1, SubSeqProperties DEF Pending
    <2> QED
      BY <1>1, <2>2
  <1>5. Performing' = Performing \cup {t}
    BY <1>2 DEF Performing
  <1>6. Started' = Started \cup {chain[queue_head]}
    BY <1>1, <1>2, <1>5 DEF Started
  <1>7. Performed' = Performed
    BY <1>2 DEF Performed
  <1> QED
    BY <1>3, <1>4, <1>6, <1>7 DEF Implements!Start, Pending, Started, Performed, Performing

\* A thread that calls the process function finishes its job.
LEMMA RunFinishes ==
  ASSUME IInv, NEW t \in Threads, Run(t)
  PROVE  \E j \in Jobs : Implements!Finish(j)
  <1> USE DEF IInv, TypeOK
  <1>1. pc[t] = "run" /\ worker[t] \in 1..Len(chain)
    BY DEF Run, ListInv
  <1>0. PICK j \in Jobs : j = chain[worker[t]]
    BY <1>1
  <1>2. /\ pc' = [pc EXCEPT ![t] = "free"] /\ UNCHANGED <<chain, queue_head, worker>>
        /\ ran' = [ran EXCEPT ![j] = ran[j] + 1]
    BY <1>0 DEF Run
  <1>3. Performing' = Performing \ {t} /\ t \in Performing
    BY <1>1, <1>2 DEF Performing
  <1>4. \A u \in Performing : u # t => chain[worker[u]] # j
    BY <1>0, <1>1 DEF Performing, OnceInv, FreshInv, ListInv
  <1>5. j \in Started /\ Started' = Started \ {j}
    BY <1>0, <1>2, <1>3, <1>4 DEF Started
  <1>6. Performed' = Performed \cup {j}
    BY <1>1, <1>2 DEF Performed
  <1>7. Pending' = Pending
    BY <1>2 DEF Pending
  <1>8. Implements!Finish(j)
    BY <1>5, <1>6, <1>7 DEF Implements!Finish, Pending, Started, Performed, Performing
  <1> QED
    BY <1>8

\* Until shutdown every step of the pool is one of the queue, or none.
LEMMA QueueStep ==
  ASSUME IInv, Next, ~shutdown'
  PROVE  [Implements!JQNext]_(Implements!jqVars)
  <1> USE DEF IInv, TypeOK, Implements!JQNext
  <1>1. CASE PoolInit
    BY <1>1, QueueStutters DEF PoolInit, Performing
  <1>2. ASSUME NEW t \in Threads, CreateThread(t) PROVE UNCHANGED Implements!jqVars
    BY <1>2, QueueStutters DEF CreateThread, Performing
  <1>3. ASSUME NEW c \in Clients, AddCall(c) PROVE UNCHANGED Implements!jqVars
    BY <1>3, QueueStutters DEF AddCall, Performing
  <1>4. ASSUME NEW c \in Clients, AddEnqueue(c) PROVE Implements!JQNext
    BY <1>4, EnqueueSubmits
  <1>5. ASSUME NEW c \in Clients, AddSignal(c) PROVE UNCHANGED Implements!jqVars
    <2>1. PICK W \in Signalled : pc' = [u \in Threads |-> IF u \in W THEN "relock" ELSE pc[u]]
      BY <1>5 DEF AddSignal, Wake
    <2>2. \A u \in Threads : u \in W => pc[u] = "waiting"
      BY <2>1 DEF LockInv
    <2>3. Performing' = Performing
      BY <2>1, <2>2 DEF Performing
    <2> QED
      BY <1>5, <2>3, QueueStutters DEF AddSignal
  <1>6. ASSUME NEW t \in Threads, Lock(t) \/ CheckQueue(t) \/ CondWait(t) \/ TestShutdown(t)
        PROVE  UNCHANGED Implements!jqVars
    <2>1. Performing' = Performing
      BY <1>6 DEF Lock, CheckQueue, CondWait, TestShutdown, Performing
    <2> QED
      BY <1>6, <2>1, QueueStutters DEF Lock, CheckQueue, CondWait, TestShutdown
  <1>7. ASSUME NEW t \in Threads, SpuriousWakeup(t) PROVE UNCHANGED Implements!jqVars
    <2>1. Performing' = Performing
      BY <1>7 DEF SpuriousWakeup, Wake, Performing, LockInv
    <2> QED
      BY <1>7, <2>1, QueueStutters DEF SpuriousWakeup
  <1>8. ASSUME NEW t \in Threads, Dequeue(t) PROVE UNCHANGED Implements!jqVars
    <2>1. Performing' = Performing /\ t \notin Performing
      BY <1>8 DEF Dequeue, Performing
    <2>2. \A u \in Performing : worker'[u] = worker[u]
      BY <1>8, <2>1 DEF Dequeue, Performing
    <2> QED
      BY <1>8, <2>1, <2>2, QueueStutters DEF Dequeue
  <1>9. ASSUME NEW t \in Threads, Advance(t) PROVE Implements!JQNext
    <2>1. ~shutdown
      BY <1>9 DEF Advance
    <2> QED
      BY <1>9, <2>1, AdvanceStarts
  <1>10. ASSUME NEW t \in Threads, Run(t) PROVE Implements!JQNext
    BY <1>10, RunFinishes
  <1>11. ASSUME NEW t \in Threads, FreeJob(t) PROVE UNCHANGED Implements!jqVars
    <2>1. Performing' = Performing /\ t \notin Performing
      BY <1>11 DEF FreeJob, Performing
    <2>2. \A u \in Performing : worker'[u] = worker[u]
      BY <1>11, <2>1 DEF FreeJob, Performing
    <2> QED
      BY <1>11, <2>1, <2>2, QueueStutters DEF FreeJob
  <1>12. ASSUME NEW d \in Destroyers, DestroyEnter(d) PROVE UNCHANGED Implements!jqVars
    BY <1>12, QueueStutters DEF DestroyEnter, Performing
  <1>13. ASSUME NEW d \in Destroyers PROVE ~DestroyStep(d)
    BY DestroyShuts
  <1>14. ASSUME NEW c \in Clients, AddUnset(c) PROVE UNCHANGED Implements!jqVars
    BY <1>14, QueueStutters DEF AddUnset, Performing
  <1>15. ASSUME NEW d \in Destroyers, DestroyUnset(d) PROVE UNCHANGED Implements!jqVars
    BY <1>15, QueueStutters DEF DestroyUnset, Performing
  <1> QED
    BY <1>1, <1>2, <1>3, <1>4, <1>5, <1>6, <1>7, <1>8, <1>9, <1>10, <1>11, <1>12, <1>13,
        <1>14, <1>15
       DEF Next, ThreadStep, AddStep

\* The pool starts as an empty queue.
LEMMA QueueInit == Init => Implements!JQInit
  <1> SUFFICES ASSUME Init PROVE Implements!JQInit
      OBVIOUS
  <1>1. Pending = <<>>
    BY SubSeqEmpty DEF Init, Pending
  <1>2. Started = {} /\ Performed = {}
    BY DEF Init, Started, Performing, Performed
  <1> QED
    BY <1>1, <1>2 DEF Implements!JQInit, Pending, Started, Performing, Performed

\* A stuttering step of the pool is one of the abstract queue.
LEMMA QueueStutter == UNCHANGED vars => UNCHANGED Implements!jqVars
  BY DEF vars, Implements!jqVars

-----------------------------------------------------------------------------
\* The variables of the pool keep their types: the fields of CThread_pool, the
\* positions in the four functions and their local pointers, under any
\* interleaving of pool_add_worker, thread_routine and pool_destroy.
THEOREM PoolTypeCorrect == Spec => []TypeOK
  BY Invariance, PTL DEF IInv

\* thread_routine performs no job twice, even while pool_destroy, which takes
\* no lock, is unlinking the same queue.
THEOREM JobsRunAtMostOnce == Spec => []AtMostOnce
  <1>1. IInv => AtMostOnce
    BY DEF IInv, OnceInv, AtMostOnce
  <1> QED
    BY <1>1, Invariance, PTL

\* Until pool_destroy sets shutdown, cur_queue_size is the number of queued
\* nodes: pool_add_worker and thread_routine keep counter and list together.
THEOREM QueueSizeExact == Spec => []QueueAccounting
  <1>1. IInv => QueueAccounting
    BY DEF IInv, SizeInv, QueueAccounting
  <1> QED
    BY <1>1, Invariance, PTL

\* Until shutdown no step of the pool touches or releases memory it should
\* not, other than the second release of each worker_buf; and only a caller
\* without the pool's address goes through the pointer that line 26 left unset.
THEOREM PoolMemorySafe == Spec => []MemorySafe
  <1>1. IInv => MemorySafe
    BY DEF IInv, MemoryInv, MemorySafe
  <1> QED
    BY <1>1, Invariance, PTL

\* Until shutdown every job that was queued is still queued, in the hands of
\* exactly the thread that took it, or performed and released.
THEOREM NothingLost == Spec => []NoJobLost
  <1>1. LossInv => NoJobLost
    BY DEF LossInv
  <1> QED
    BY <1>1, LossInvariance, PTL

\* pthread_cond_signal may come after the unlock, wakeups may be spurious and
\* clients may overtake each other: while a thread sleeps there is, for every
\* queued job, a thread that will look at the queue or a client that will signal.
THEOREM WakeupsNotLost == Spec => []NoLostWakeup
  <1>1. WakeInv => NoLostWakeup
    BY DEF WakeInv
  <1> QED
    BY <1>1, WakeInvariance, PTL

\* Whatever pool_destroy is called for later, every step that leaves shutdown
\* unset is a step of the abstract queue: jobs are started in the order in which
\* pool_add_worker linked them, by one thread each.
THEOREM QueueUntilShutdown ==
  Spec => Implements!JQInit /\ [][Implements!JQNext \/ shutdown']_(Implements!jqVars)
  <1>1. IInv /\ [Next]_vars => [Implements!JQNext \/ shutdown']_(Implements!jqVars)
    BY QueueStep, QueueStutter
  <1> QED
    BY <1>1, QueueInit, Invariance, PTL DEF Spec

\* A pool that nobody who has its address destroys implements the abstract job
\* queue: pool_add_worker submits, the unlinking of the head starts a job, its
\* process function ends it.
THEOREM PoolImplementsJobQueue ==
  ASSUME Destroyers \cap Holders = {} PROVE Spec => ImplementsJobQueue
  <1> DEFINE Kept == ~shutdown /\ \A d \in Destroyers : dpc[d] \in {"idle", "done"}
  <1>1. Init => Kept
    BY DEF Init
  <1>2. ASSUME IInv, Kept, [Next]_vars PROVE Kept'
    <2>1. ASSUME NEW d \in Destroyers PROVE ~DestroyStep(d) /\ ~DestroyEnter(d)
      BY <1>2 DEF DestroyStep, DestroyEnter, DestroySet, DestroyBroadcast, DestroyHead,
                  DestroyUnlink, DestroyRelease
    <2>2. ASSUME NEW d \in Destroyers, DestroyUnset(d) PROVE Kept'
      BY <1>2, <2>2 DEF DestroyUnset, IInv, TypeOK
    <2>3. ASSUME NEW t \in Threads, CreateThread(t) \/ ThreadStep(t) \/ SpuriousWakeup(t) PROVE Kept'
      BY <1>2, <2>3 DEF CreateThread, ThreadStep, Lock, CheckQueue, CondWait, TestShutdown,
                        Dequeue, Advance, Run, FreeJob, SpuriousWakeup
    <2>4. ASSUME NEW c \in Clients, AddCall(c) \/ AddStep(c) PROVE Kept'
      BY <1>2, <2>4 DEF AddCall, AddStep, AddEnqueue, AddUnset, AddSignal
    <2>5. CASE PoolInit
      BY <1>2, <2>5 DEF PoolInit
    <2>6. CASE UNCHANGED vars
      BY <1>2, <2>6 DEF vars
    <2> QED
      BY <1>2, <2>1, <2>2, <2>3, <2>4, <2>5, <2>6 DEF Next
  <1>3. IInv /\ Kept' /\ [Next]_vars => [Implements!JQNext]_(Implements!jqVars)
    BY QueueStep, QueueStutter
  <1> QED
    BY <1>1, <1>2, <1>3, QueueInit, Invariance, PTL DEF Spec, ImplementsJobQueue, Implements!JQSpec
=============================================================================
