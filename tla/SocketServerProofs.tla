------------------------- MODULE SocketServerProofs -------------------------
(***************************************************************************)
(* Proofs about SocketServer for any number of workers, connections and    *)
(* failures, and any limits minThreads <= maxThreads, and about            *)
(* ServerSend: the composition keeps what the socket server guarantees,    *)
(* and from it follows what the blocking sender relies on.                 *)
(***************************************************************************)
EXTENDS ServerSend, FiniteSetTheorems, TLAPS

Absent == {"none", "gone", "clearup"}
\* The workers that workerCounter counts.
Running == Workers \ At(Absent)
\* The workers that currentBusyWorkers counts.
BusyPcs == {"addcheck", "addlock", "spawn", "spawned", "handle", "unbusy"}
\* The connections that CSocketsCounter counts.
Opened == {s \in Sockets : sock[s] = "open"}

\* The life cycle follows startSocketServer and shutdownSocketServer, and no
\* worker exists before the first is created.
StartInv ==
    /\ pc[Main] \in MainPcs /\ \A w \in Workers : pc[w] \in WorkerPcs
    /\ lifecycleStatus = 0 => pc[Main] = "idle"
    /\ pc[Main] = "idle" => lifecycleStatus = 0
    /\ pc[Main] \in MainPcs \ {"idle", "up", "shutdown", "stopped"} => lifecycleStatus = 1
    /\ pc[Main] = "up" => lifecycleStatus = 2
    /\ pc[Main] \in {"shutdown", "stopped"} => lifecycleStatus >= 3
    /\ pc[Main] \in {"idle", "setup", "failed", "addcheck", "addlock"} =>
          workerCounter = 0 /\ \A w \in Workers : pc[w] = "none"

\* The spin lock is held exactly in the creation loop of addQSSWorker, which
\* stays within maxThreads and whose new thread cannot have left yet.
SpinInv ==
    /\ \A t \in Threads : g_spinlock = t <=> pc[t] \in {"spawn", "spawned"}
    /\ \A t \in Threads : pc[t] = "spawn" => newborn = None
    /\ g_spinlock = None => newborn = None
    /\ newborn # None => newborn \in Running
    /\ \A t \in Threads : pc[t] = "spawned" => newborn # None
    /\ g_spinlock # None => todo >= 1 /\ workerCounter + todo <= maxThreads
    /\ workerCounter <= maxThreads

\* workerCounter is exact.
WorkerInv == workerCounter = Cardinality(Running) - (IF newborn = None THEN 0 ELSE 1) + phantoms

\* currentBusyWorkers is exact.
BusyNow == currentBusyWorkers = Cardinality(At(BusyPcs))

\* A worker leaves its loop, other than by retirement, only when it has been
\* told to or epoll_wait has failed; until then the minimum is kept.
MinInv ==
    /\ (\E w \in Workers : pc[w] = "exit") => lifecycleStatus = 4 \/ interrupts > 0
    /\ failures = 0 /\ interrupts = 0 /\ lifecycleStatus <= 3 =>
          /\ pc[Main] \in {"spawn", "spawned"} => workerCounter + todo = minThreads
          /\ pc[Main] \in {"added", "up", "shutdown", "stopped"} => workerCounter >= minThreads

\* Whoever clears up is the last one.
CleanInv ==
    /\ qss = "freed" => \A w \in Workers : pc[w] \in {"none", "gone"}
    /\ \A w \in Workers : pc[w] = "clearup" =>
          \A v \in Workers : v # w => pc[v] \in {"none", "gone"}
    /\ qss = "freed" \/ (\E w \in Workers : pc[w] = "clearup") => lifecycleStatus = 4

\* A registered connection is open, and is served by one worker or armed.
ServInv ==
    /\ \A s \in armed : sock[s] = "open"
    /\ \A w \in Workers : pc[w] \in Serving =>
          /\ event[w] \in Sockets
          /\ sock[event[w]] = "open" /\ event[w] \notin armed
          /\ \A v \in Workers : pc[v] \in Serving /\ event[v] = event[w] => v = w

\* A connection being accepted is announced by one worker, before or after
\* another worker announces that it was closed.
CallbackInv ==
    /\ \A w \in Workers : pc[w] = "count" =>
          /\ event[w] \in Sockets
          /\ \/ sock[event[w]] = "open" /\ told[event[w]] = {}
             \/ sock[event[w]] = "closed" /\ told[event[w]] = {-1}
          /\ \A v \in Workers : pc[v] = "count" /\ event[v] = event[w] => v = w
    /\ \A s \in Sockets : sock[s] \in {"unused", "backlog", "leaked"} => told[s] = {}
    /\ \A s \in Sockets : (\A w \in Workers : pc[w] = "count" => event[w] # s) =>
          /\ sock[s] = "open" => told[s] = {0}
          /\ sock[s] = "closed" => told[s] \in {{}, {0, -1}}

IInv == /\ TypeOK /\ StartInv /\ SpinInv /\ WorkerInv /\ BusyNow /\ SocketsCounted
        /\ MinInv /\ CleanInv /\ ServInv /\ CallbackInv

-----------------------------------------------------------------------------
(* The proofs.                                                               *)

\* A protocol handler returns, whatever it did with the connection.
HandlerReturns(w) ==
    /\ pc[w] = "handle"
    /\ rx' \in [Sockets -> Nat]
    /\ \E ok \in BOOLEAN : handleCode' = [handleCode EXCEPT ![w] = ok]
    /\ Go(w, "unbusy")
    /\ UNCHANGED <<counters, creation, qss, listener, sock, armed, eof, sent, told, event,
                   faults, aborted>>

\* The steps of the server, of its handlers only that they return.
Step ==
    \/ StartCall \/ MainStep \/ ShutdownCall
    \/ \E w \in Workers : LoopStep(w) \/ HandlerReturns(w) \/ Close(w) \/ PollError(w)
    \/ \E s \in Sockets : Client(s)

USE DEF counters, creation, network, locals, faults, Go, SpinFree, Threads

ListenerType == listener \in [registered : BOOLEAN, edge : BOOLEAN, down : BOOLEAN]

\* The record of the listening socket keeps its type.
LEMMA ListenerStep ==
  ASSUME ListenerType,
         \/ UNCHANGED listener
         \/ listener' = [listener EXCEPT !.registered = TRUE]
         \/ listener' = [listener EXCEPT !.edge = FALSE]
         \/ listener' = [listener EXCEPT !.registered = FALSE, !.edge = FALSE]
         \/ listener' = [listener EXCEPT !.down = TRUE, !.edge = listener.registered]
         \/ listener' = [listener EXCEPT !.edge = listener.registered]
  PROVE  ListenerType'
  BY DEF ListenerType

\* Every step keeps the types.
LEMMA TypeStep == IInv /\ Step => TypeOK'
  <1> SUFFICES ASSUME IInv, Step PROVE TypeOK'
      OBVIOUS
  <1> USE SocketServerAssumption DEF IInv, TypeOK, WorkerPcs, MainPcs, StartInv, SpinInv,
        ServInv, CallbackInv, Serving
  <1>1. CASE StartCall \/ StartFail \/ StartListen \/ StartDone
    <2>1. ListenerType'
      BY <1>1, ListenerStep DEF ListenerType, StartCall, StartFail, StartListen, StartDone
    <2>2. aborted' \in BOOLEAN
      BY <1>1 DEF StartCall, StartFail, StartListen, StartDone
    <2> QED
      BY <1>1, <2>1, <2>2 DEF ListenerType, StartCall, StartFail, StartListen, StartDone
  <1>2. ASSUME NEW t \in Threads, AddCheck(t) \/ AddLock(t)
        PROVE TypeOK'
    BY <1>2 DEF AddCheck, AddLock, Added, addCounter, Room
  <1>3. ASSUME NEW t \in Threads, Spawn(t)
        PROVE TypeOK'
    BY <1>3 DEF Spawn
  <1>4. ASSUME NEW t \in Threads, SpawnFail(t)
        PROVE TypeOK'
    BY <1>4 DEF SpawnFail, NextRound, Added
  <1>5. ASSUME NEW t \in Threads, Spawned(t)
        PROVE TypeOK'
    <2>1. ListenerType'
      BY <1>5, ListenerStep DEF ListenerType, Spawned, NextRound, Added
    <2>2. aborted' \in BOOLEAN
      BY <1>5 DEF Spawned, NextRound, Added
    <2> QED
      BY <1>5, <2>1, <2>2 DEF ListenerType, Spawned, NextRound, Added
  <1>6. ASSUME NEW w \in Workers, WorkerStart(w)
        PROVE TypeOK'
    <2>1. ListenerType'
      BY <1>6, ListenerStep DEF ListenerType, WorkerStart
    <2>2. aborted' \in BOOLEAN
      BY <1>6 DEF WorkerStart
    <2> QED
      BY <1>6, <2>1, <2>2 DEF ListenerType, WorkerStart
  <1>7. ASSUME NEW w \in Workers, PollListener(w)
        PROVE TypeOK'
    <2>1. ListenerType'
      BY <1>7, ListenerStep DEF ListenerType, PollListener
    <2>2. aborted' \in BOOLEAN
      BY <1>7 DEF PollListener
    <2> QED
      BY <1>7, <2>1, <2>2 DEF ListenerType, PollListener
  <1>8. ASSUME NEW w \in Workers, PollClient(w)
        PROVE TypeOK'
    BY <1>8 DEF PollClient, ReadyClients, Disarmed
  <1>9. ASSUME NEW w \in Workers, PollTimeout(w) \/ PollError(w)
        PROVE TypeOK'
    BY <1>9 DEF PollTimeout, PollError, MayRetire
  <1>10. ASSUME NEW w \in Workers, Retire(w)
        PROVE TypeOK'
    BY <1>10 DEF Retire, RetireConfirmed, MayRetire
  <1>11. ASSUME NEW w \in Workers, AcceptFail(w) \/ Accept(w) \/ Count(w)
        PROVE TypeOK'
    <2>1. ListenerType'
      BY <1>11, ListenerStep DEF ListenerType, AcceptFail, Accept, Backlog, Count, CountedUp
    <2>2. aborted' \in BOOLEAN
      BY <1>11 DEF AcceptFail, Accept, Backlog, Count, CountedUp
    <2> QED
      BY <1>11, <2>1, <2>2 DEF ListenerType, AcceptFail, Accept, Backlog, Count, CountedUp
  <1>12. ASSUME NEW w \in Workers, Busy(w) \/ Unbusy(w) \/ Rearm(w)
        PROVE TypeOK'
    BY <1>12 DEF Busy, Unbusy, IdleAgain, Rearm, Rearmed
  <1>13. ASSUME NEW w \in Workers, HandlerReturns(w)
        PROVE TypeOK'
    BY <1>13 DEF HandlerReturns
  <1>14. ASSUME NEW w \in Workers, Close(w) \/ Uncount(w)
        PROVE TypeOK'
    BY <1>14 DEF Close, ToldClosed, Uncount, LastOne
  <1>15. ASSUME NEW w \in Workers, Exit(w) \/ Clearup(w)
        PROVE TypeOK'
    BY <1>15 DEF Exit, Cleaner, Clearup
  <1>16. CASE ShutdownCall
    BY <1>16 DEF ShutdownCall
  <1>17. CASE ShutdownSockets
    <2>1. ListenerType'
      BY <1>17, ListenerStep DEF ListenerType, ShutdownSockets
    <2>2. aborted' \in BOOLEAN
      BY <1>17 DEF ShutdownSockets
    <2> QED
      BY <1>17, <2>1, <2>2 DEF ListenerType, ShutdownSockets
  <1>18. ASSUME NEW s \in Sockets, Client(s)
        PROVE TypeOK'
    BY <1>18 DEF Client, Connect, ClientSend, ClientClose, ClientReset
  <1> QED
    BY <1>1, <1>2, <1>3, <1>4, <1>5, <1>6, <1>7, <1>8, <1>9, <1>10, <1>11, <1>12, <1>13,
       <1>14, <1>15, <1>16, <1>17, <1>18
    DEF Step, MainStep, StartStep, LoopStep, AddStep, Threads

\* The life cycle.
LEMMA LifeStep == IInv /\ Step => StartInv'
  <1> SUFFICES ASSUME IInv, Step PROVE StartInv'
      OBVIOUS
  <1> USE SocketServerAssumption DEF IInv, TypeOK, WorkerPcs, MainPcs, StartInv, SpinInv, WorkerInv
  <1>1. CASE StartCall \/ StartFail \/ StartListen \/ StartDone
    BY <1>1 DEF StartCall, StartFail, StartListen, StartDone
  <1>2. ASSUME NEW t \in Threads, AddCheck(t) \/ AddLock(t)
        PROVE StartInv'
    BY <1>2 DEF AddCheck, AddLock, Added, addCounter, Room
  <1>3. ASSUME NEW t \in Threads, Spawn(t)
        PROVE StartInv'
    BY <1>3 DEF Spawn
  <1>4. ASSUME NEW t \in Threads, SpawnFail(t)
        PROVE StartInv'
    BY <1>4 DEF SpawnFail, NextRound, Added
  <1>5. ASSUME NEW t \in Threads, Spawned(t)
        PROVE StartInv'
    BY <1>5 DEF Spawned, NextRound, Added
  <1>6. ASSUME NEW w \in Workers, WorkerStart(w)
        PROVE StartInv'
    BY <1>6 DEF WorkerStart
  <1>7. ASSUME NEW w \in Workers, PollListener(w)
        PROVE StartInv'
    BY <1>7 DEF PollListener
  <1>8. ASSUME NEW w \in Workers, PollClient(w)
        PROVE StartInv'
    BY <1>8 DEF PollClient, ReadyClients, Disarmed
  <1>9. ASSUME NEW w \in Workers, PollTimeout(w) \/ PollError(w)
        PROVE StartInv'
    BY <1>9 DEF PollTimeout, PollError, MayRetire
  <1>10. ASSUME NEW w \in Workers, Retire(w)
        PROVE StartInv'
    BY <1>10 DEF Retire, RetireConfirmed, MayRetire
  <1>11. ASSUME NEW w \in Workers, AcceptFail(w) \/ Accept(w) \/ Count(w)
        PROVE StartInv'
    BY <1>11 DEF AcceptFail, Accept, Backlog, Count, CountedUp
  <1>12. ASSUME NEW w \in Workers, Busy(w) \/ Unbusy(w) \/ Rearm(w)
        PROVE StartInv'
    BY <1>12 DEF Busy, Unbusy, IdleAgain, Rearm, Rearmed
  <1>13. ASSUME NEW w \in Workers, HandlerReturns(w)
        PROVE StartInv'
    BY <1>13 DEF HandlerReturns
  <1>14. ASSUME NEW w \in Workers, Close(w) \/ Uncount(w)
        PROVE StartInv'
    BY <1>14 DEF Close, ToldClosed, Uncount, LastOne
  <1>15. ASSUME NEW w \in Workers, Exit(w) \/ Clearup(w)
        PROVE StartInv'
    BY <1>15 DEF Exit, Cleaner, Clearup
  <1>16. CASE ShutdownCall
    BY <1>16 DEF ShutdownCall
  <1>17. CASE ShutdownSockets
    BY <1>17 DEF ShutdownSockets
  <1>18. ASSUME NEW s \in Sockets, Client(s)
        PROVE StartInv'
    BY <1>18 DEF Client, Connect, ClientSend, ClientClose, ClientReset
  <1> QED
    BY <1>1, <1>2, <1>3, <1>4, <1>5, <1>6, <1>7, <1>8, <1>9, <1>10, <1>11, <1>12, <1>13,
       <1>14, <1>15, <1>16, <1>17, <1>18
    DEF Step, MainStep, StartStep, LoopStep, AddStep, Threads

\* The spin lock and the creation loop.
LEMMA SpinStep == IInv /\ Step => SpinInv'
  <1> SUFFICES ASSUME IInv, Step PROVE SpinInv'
      OBVIOUS
  <1> USE SocketServerAssumption DEF IInv, TypeOK, WorkerPcs, MainPcs, StartInv, SpinInv,
        Running, At, Absent
  <1>1. CASE StartCall \/ StartFail \/ StartListen \/ StartDone
    BY <1>1 DEF StartCall, StartFail, StartListen, StartDone
  <1>2. ASSUME NEW t \in Threads, AddCheck(t) \/ AddLock(t)
        PROVE SpinInv'
    BY <1>2 DEF AddCheck, AddLock, Added, addCounter, Room
  <1>3. ASSUME NEW t \in Threads, Spawn(t)
        PROVE SpinInv'
    BY <1>3 DEF Spawn
  <1>4. ASSUME NEW t \in Threads, SpawnFail(t)
        PROVE SpinInv'
    BY <1>4 DEF SpawnFail, NextRound, Added
  <1>5. ASSUME NEW t \in Threads, Spawned(t)
        PROVE SpinInv'
    BY <1>5 DEF Spawned, NextRound, Added
  <1>6. ASSUME NEW w \in Workers, WorkerStart(w)
        PROVE SpinInv'
    BY <1>6 DEF WorkerStart
  <1>7. ASSUME NEW w \in Workers, PollListener(w)
        PROVE SpinInv'
    BY <1>7 DEF PollListener
  <1>8. ASSUME NEW w \in Workers, PollClient(w)
        PROVE SpinInv'
    BY <1>8 DEF PollClient, ReadyClients, Disarmed
  <1>9. ASSUME NEW w \in Workers, PollTimeout(w) \/ PollError(w)
        PROVE SpinInv'
    BY <1>9 DEF PollTimeout, PollError, MayRetire
  <1>10. ASSUME NEW w \in Workers, Retire(w)
        PROVE SpinInv'
    BY <1>10 DEF Retire, RetireConfirmed, MayRetire
  <1>11. ASSUME NEW w \in Workers, AcceptFail(w) \/ Accept(w) \/ Count(w)
        PROVE SpinInv'
    BY <1>11 DEF AcceptFail, Accept, Backlog, Count, CountedUp
  <1>12. ASSUME NEW w \in Workers, Busy(w) \/ Unbusy(w) \/ Rearm(w)
        PROVE SpinInv'
    BY <1>12 DEF Busy, Unbusy, IdleAgain, Rearm, Rearmed
  <1>13. ASSUME NEW w \in Workers, HandlerReturns(w)
        PROVE SpinInv'
    BY <1>13 DEF HandlerReturns
  <1>14. ASSUME NEW w \in Workers, Close(w) \/ Uncount(w)
        PROVE SpinInv'
    BY <1>14 DEF Close, ToldClosed, Uncount, LastOne
  <1>15. ASSUME NEW w \in Workers, Exit(w) \/ Clearup(w)
        PROVE SpinInv'
    BY <1>15 DEF Exit, Cleaner, Clearup
  <1>16. CASE ShutdownCall
    BY <1>16 DEF ShutdownCall
  <1>17. CASE ShutdownSockets
    BY <1>17 DEF ShutdownSockets
  <1>18. ASSUME NEW s \in Sockets, Client(s)
        PROVE SpinInv'
    BY <1>18 DEF Client, Connect, ClientSend, ClientClose, ClientReset
  <1> QED
    BY <1>1, <1>2, <1>3, <1>4, <1>5, <1>6, <1>7, <1>8, <1>9, <1>10, <1>11, <1>12, <1>13,
       <1>14, <1>15, <1>16, <1>17, <1>18
    DEF Step, MainStep, StartStep, LoopStep, AddStep, Threads

\* The minimum.
LEMMA MinStep == IInv /\ Step => MinInv'
  <1> SUFFICES ASSUME IInv, Step PROVE MinInv'
      OBVIOUS
  <1> USE SocketServerAssumption DEF IInv, TypeOK, WorkerPcs, MainPcs, StartInv, SpinInv, MinInv
  <1>1. CASE StartCall \/ StartFail \/ StartListen \/ StartDone
    BY <1>1 DEF StartCall, StartFail, StartListen, StartDone
  <1>2. ASSUME NEW t \in Threads, AddCheck(t) \/ AddLock(t)
        PROVE MinInv'
    BY <1>2 DEF AddCheck, AddLock, Added, addCounter, Room
  <1>3. ASSUME NEW t \in Threads, Spawn(t)
        PROVE MinInv'
    BY <1>3 DEF Spawn
  <1>4. ASSUME NEW t \in Threads, SpawnFail(t)
        PROVE MinInv'
    BY <1>4 DEF SpawnFail, NextRound, Added
  <1>5. ASSUME NEW t \in Threads, Spawned(t)
        PROVE MinInv'
    BY <1>5 DEF Spawned, NextRound, Added
  <1>6. ASSUME NEW w \in Workers, WorkerStart(w)
        PROVE MinInv'
    BY <1>6 DEF WorkerStart
  <1>7. ASSUME NEW w \in Workers, PollListener(w)
        PROVE MinInv'
    BY <1>7 DEF PollListener
  <1>8. ASSUME NEW w \in Workers, PollClient(w)
        PROVE MinInv'
    BY <1>8 DEF PollClient, ReadyClients, Disarmed
  <1>9. ASSUME NEW w \in Workers, PollTimeout(w) \/ PollError(w)
        PROVE MinInv'
    BY <1>9 DEF PollTimeout, PollError, MayRetire
  <1>10. ASSUME NEW w \in Workers, Retire(w)
        PROVE MinInv'
    BY <1>10 DEF Retire, RetireConfirmed, MayRetire
  <1>11. ASSUME NEW w \in Workers, AcceptFail(w) \/ Accept(w) \/ Count(w)
        PROVE MinInv'
    BY <1>11 DEF AcceptFail, Accept, Backlog, Count, CountedUp
  <1>12. ASSUME NEW w \in Workers, Busy(w) \/ Unbusy(w) \/ Rearm(w)
        PROVE MinInv'
    BY <1>12 DEF Busy, Unbusy, IdleAgain, Rearm, Rearmed
  <1>13. ASSUME NEW w \in Workers, HandlerReturns(w)
        PROVE MinInv'
    BY <1>13 DEF HandlerReturns
  <1>14. ASSUME NEW w \in Workers, Close(w) \/ Uncount(w)
        PROVE MinInv'
    BY <1>14 DEF Close, ToldClosed, Uncount, LastOne
  <1>15. ASSUME NEW w \in Workers, Exit(w) \/ Clearup(w)
        PROVE MinInv'
    BY <1>15 DEF Exit, Cleaner, Clearup
  <1>16. CASE ShutdownCall
    BY <1>16 DEF ShutdownCall
  <1>17. CASE ShutdownSockets
    BY <1>17 DEF ShutdownSockets
  <1>18. ASSUME NEW s \in Sockets, Client(s)
        PROVE MinInv'
    BY <1>18 DEF Client, Connect, ClientSend, ClientClose, ClientReset
  <1> QED
    BY <1>1, <1>2, <1>3, <1>4, <1>5, <1>6, <1>7, <1>8, <1>9, <1>10, <1>11, <1>12, <1>13,
       <1>14, <1>15, <1>16, <1>17, <1>18
    DEF Step, MainStep, StartStep, LoopStep, AddStep, Threads

\* One worker per connection.
LEMMA ServStep == IInv /\ Step => ServInv'
  <1> SUFFICES ASSUME IInv, Step PROVE ServInv'
      OBVIOUS
  <1> USE SocketServerAssumption DEF IInv, TypeOK, ServInv, Serving
  <1>1. CASE StartCall \/ StartFail \/ StartListen \/ StartDone
    BY <1>1 DEF StartCall, StartFail, StartListen, StartDone
  <1>2. ASSUME NEW t \in Threads, AddCheck(t) \/ AddLock(t)
        PROVE ServInv'
    BY <1>2 DEF AddCheck, AddLock, Added, addCounter, Room
  <1>3. ASSUME NEW t \in Threads, Spawn(t)
        PROVE ServInv'
    BY <1>3 DEF Spawn
  <1>4. ASSUME NEW t \in Threads, SpawnFail(t)
        PROVE ServInv'
    BY <1>4 DEF SpawnFail, NextRound, Added
  <1>5. ASSUME NEW t \in Threads, Spawned(t)
        PROVE ServInv'
    BY <1>5 DEF Spawned, NextRound, Added
  <1>6. ASSUME NEW w \in Workers, WorkerStart(w)
        PROVE ServInv'
    BY <1>6 DEF WorkerStart
  <1>7. ASSUME NEW w \in Workers, PollListener(w)
        PROVE ServInv'
    BY <1>7 DEF PollListener
  <1>8. ASSUME NEW w \in Workers, PollClient(w)
        PROVE ServInv'
    BY <1>8 DEF PollClient, ReadyClients, Disarmed
  <1>9. ASSUME NEW w \in Workers, PollTimeout(w) \/ PollError(w)
        PROVE ServInv'
    BY <1>9 DEF PollTimeout, PollError, MayRetire
  <1>10. ASSUME NEW w \in Workers, Retire(w)
        PROVE ServInv'
    BY <1>10 DEF Retire, RetireConfirmed, MayRetire
  <1>11. ASSUME NEW w \in Workers, AcceptFail(w) \/ Accept(w) \/ Count(w)
        PROVE ServInv'
    BY <1>11 DEF AcceptFail, Accept, Backlog, Count, CountedUp
  <1>12. ASSUME NEW w \in Workers, Busy(w) \/ Unbusy(w) \/ Rearm(w)
        PROVE ServInv'
    BY <1>12 DEF Busy, Unbusy, IdleAgain, Rearm, Rearmed
  <1>13. ASSUME NEW w \in Workers, HandlerReturns(w)
        PROVE ServInv'
    BY <1>13 DEF HandlerReturns
  <1>14. ASSUME NEW w \in Workers, Close(w) \/ Uncount(w)
        PROVE ServInv'
    BY <1>14 DEF Close, ToldClosed, Uncount, LastOne
  <1>15. ASSUME NEW w \in Workers, Exit(w) \/ Clearup(w)
        PROVE ServInv'
    BY <1>15 DEF Exit, Cleaner, Clearup
  <1>16. CASE ShutdownCall
    BY <1>16 DEF ShutdownCall
  <1>17. CASE ShutdownSockets
    BY <1>17 DEF ShutdownSockets
  <1>18. ASSUME NEW s \in Sockets, Client(s)
        PROVE ServInv'
    BY <1>18 DEF Client, Connect, ClientSend, ClientClose, ClientReset
  <1> QED
    BY <1>1, <1>2, <1>3, <1>4, <1>5, <1>6, <1>7, <1>8, <1>9, <1>10, <1>11, <1>12, <1>13,
       <1>14, <1>15, <1>16, <1>17, <1>18
    DEF Step, MainStep, StartStep, LoopStep, AddStep, Threads

\* The callbacks.
LEMMA CallbackStep == IInv /\ Step => CallbackInv'
  <1> SUFFICES ASSUME IInv, Step PROVE CallbackInv'
      OBVIOUS
  <1> USE SocketServerAssumption DEF IInv, TypeOK, ServInv, Serving, CallbackInv
  <1>1. CASE StartCall \/ StartFail \/ StartListen \/ StartDone
    BY <1>1 DEF StartCall, StartFail, StartListen, StartDone
  <1>2. ASSUME NEW t \in Threads, AddCheck(t) \/ AddLock(t)
        PROVE CallbackInv'
    BY <1>2 DEF AddCheck, AddLock, Added, addCounter, Room
  <1>3. ASSUME NEW t \in Threads, Spawn(t)
        PROVE CallbackInv'
    BY <1>3 DEF Spawn
  <1>4. ASSUME NEW t \in Threads, SpawnFail(t)
        PROVE CallbackInv'
    BY <1>4 DEF SpawnFail, NextRound, Added
  <1>5. ASSUME NEW t \in Threads, Spawned(t)
        PROVE CallbackInv'
    BY <1>5 DEF Spawned, NextRound, Added
  <1>6. ASSUME NEW w \in Workers, WorkerStart(w)
        PROVE CallbackInv'
    BY <1>6 DEF WorkerStart
  <1>7. ASSUME NEW w \in Workers, PollListener(w)
        PROVE CallbackInv'
    BY <1>7 DEF PollListener
  <1>8. ASSUME NEW w \in Workers, PollClient(w)
        PROVE CallbackInv'
    BY <1>8 DEF PollClient, ReadyClients, Disarmed
  <1>9. ASSUME NEW w \in Workers, PollTimeout(w) \/ PollError(w)
        PROVE CallbackInv'
    BY <1>9 DEF PollTimeout, PollError, MayRetire
  <1>10. ASSUME NEW w \in Workers, Retire(w)
        PROVE CallbackInv'
    BY <1>10 DEF Retire, RetireConfirmed, MayRetire
  <1>11. ASSUME NEW w \in Workers, AcceptFail(w) \/ Accept(w) \/ Count(w)
        PROVE CallbackInv'
    BY <1>11 DEF AcceptFail, Accept, Backlog, Count, CountedUp
  <1>12. ASSUME NEW w \in Workers, Busy(w) \/ Unbusy(w) \/ Rearm(w)
        PROVE CallbackInv'
    BY <1>12 DEF Busy, Unbusy, IdleAgain, Rearm, Rearmed
  <1>13. ASSUME NEW w \in Workers, HandlerReturns(w)
        PROVE CallbackInv'
    BY <1>13 DEF HandlerReturns
  <1>14. ASSUME NEW w \in Workers, Close(w) \/ Uncount(w)
        PROVE CallbackInv'
    BY <1>14 DEF Close, ToldClosed, Uncount, LastOne
  <1>15. ASSUME NEW w \in Workers, Exit(w) \/ Clearup(w)
        PROVE CallbackInv'
    BY <1>15 DEF Exit, Cleaner, Clearup
  <1>16. CASE ShutdownCall
    BY <1>16 DEF ShutdownCall
  <1>17. CASE ShutdownSockets
    BY <1>17 DEF ShutdownSockets
  <1>18. ASSUME NEW s \in Sockets, Client(s)
        PROVE CallbackInv'
    BY <1>18 DEF Client, Connect, ClientSend, ClientClose, ClientReset
  <1> QED
    BY <1>1, <1>2, <1>3, <1>4, <1>5, <1>6, <1>7, <1>8, <1>9, <1>10, <1>11, <1>12, <1>13,
       <1>14, <1>15, <1>16, <1>17, <1>18
    DEF Step, MainStep, StartStep, LoopStep, AddStep, Threads

\* The sets that are counted are finite.
LEMMA Finite ==
  /\ IsFiniteSet(Running) /\ IsFiniteSet(Opened) /\ \A P : IsFiniteSet(At(P))
  /\ Cardinality(Running) \in Nat /\ Cardinality(Opened) \in Nat
  /\ \A P : Cardinality(At(P)) \in Nat
  <1>1. Running \in SUBSET Workers /\ Opened \in SUBSET Sockets /\ \A P : At(P) \in SUBSET Workers
    BY DEF Running, Opened, At
  <1> QED
    BY <1>1, SocketServerAssumption, FS_Subset, FS_CardinalityType

\* How a cardinality changes with one element.
LEMMA CardAdd ==
  ASSUME NEW S, NEW T, NEW x, IsFiniteSet(S), x \notin S, T = S \cup {x}
  PROVE  Cardinality(T) = Cardinality(S) + 1
  BY FS_AddElement

\* Removing one element from a finite set lowers its cardinality by one.
LEMMA CardRemove ==
  ASSUME NEW S, NEW T, NEW x, IsFiniteSet(S), x \in S, T = S \ {x}
  PROVE  Cardinality(T) = Cardinality(S) - 1
  BY FS_RemoveElement

\* workerCounter follows the running workers.
LEMMA WorkersStep == IInv /\ Step => WorkerInv'
  <1> SUFFICES ASSUME IInv, Step PROVE WorkerInv'
      OBVIOUS
  <1> USE SocketServerAssumption DEF IInv, TypeOK, StartInv, SpinInv
  <1>1. CASE StartCall \/ StartFail \/ StartListen \/ StartDone
    <2>1. Running' = Running
      BY <1>1 DEF StartCall, StartFail, StartListen, StartDone, Running, At, Absent
    <2> QED
      BY <1>1, <2>1 DEF StartCall, StartFail, StartListen, StartDone, WorkerInv
  <1>2. ASSUME NEW t \in Threads, AddCheck(t) \/ AddLock(t)
        PROVE WorkerInv'
    <2>1. Running' = Running
      BY <1>2 DEF AddCheck, AddLock, Added, addCounter, Room, Running, At, Absent
    <2> QED
      BY <1>2, <2>1 DEF AddCheck, AddLock, Added, addCounter, Room, WorkerInv
  <1>3. ASSUME NEW t \in Threads, Spawn(t)
        PROVE WorkerInv'
    <2>1. PICK w \in Workers : /\ pc[w] \in {"none", "gone"} /\ newborn' = w
                               /\ pc' = [pc EXCEPT ![t] = "spawned", ![w] = "start"]
      BY <1>3 DEF Spawn
    <2>2. Running' = Running \cup {w} /\ w \notin Running
      BY <1>3, <2>1 DEF Spawn, Running, At, Absent
    <2>3. newborn = None /\ newborn' # None
      BY <1>3, <2>1 DEF Spawn, SpinInv
    <2>4. UNCHANGED <<workerCounter, phantoms>>
      BY <1>3 DEF Spawn
    <2> QED
      BY <2>2, <2>3, <2>4, Finite, CardAdd DEF WorkerInv
  <1>4. ASSUME NEW t \in Threads, SpawnFail(t)
        PROVE WorkerInv'
    <2>1. Running' = Running
      BY <1>4 DEF SpawnFail, NextRound, Added, Running, At, Absent
    <2> QED
      BY <1>4, <2>1, Finite DEF SpawnFail, NextRound, Added, WorkerInv
  <1>5. ASSUME NEW t \in Threads, Spawned(t)
        PROVE WorkerInv'
    <2>1. Running' = Running
      BY <1>5 DEF Spawned, NextRound, Added, Running, At, Absent
    <2>2. newborn # None /\ newborn' = None
      BY <1>5 DEF Spawned, SpinInv
    <2> QED
      BY <1>5, <2>1, <2>2, Finite DEF Spawned, WorkerInv
  <1>6. ASSUME NEW w \in Workers, WorkerStart(w)
        PROVE WorkerInv'
    <2>1. Running' = Running
      BY <1>6 DEF WorkerStart, Running, At, Absent
    <2> QED
      BY <1>6, <2>1 DEF WorkerStart, WorkerInv
  <1>7. ASSUME NEW w \in Workers, PollListener(w)
        PROVE WorkerInv'
    <2>1. Running' = Running
      BY <1>7 DEF PollListener, Running, At, Absent
    <2> QED
      BY <1>7, <2>1 DEF PollListener, WorkerInv
  <1>8. ASSUME NEW w \in Workers, PollClient(w)
        PROVE WorkerInv'
    <2>1. Running' = Running
      BY <1>8 DEF PollClient, ReadyClients, Disarmed, Running, At, Absent
    <2> QED
      BY <1>8, <2>1 DEF PollClient, ReadyClients, Disarmed, WorkerInv
  <1>9. ASSUME NEW w \in Workers, PollTimeout(w) \/ PollError(w)
        PROVE WorkerInv'
    <2>1. Running' = Running
      BY <1>9 DEF PollTimeout, PollError, MayRetire, Running, At, Absent
    <2> QED
      BY <1>9, <2>1 DEF PollTimeout, PollError, MayRetire, WorkerInv
  <1>10. ASSUME NEW w \in Workers, Retire(w)
        PROVE WorkerInv'
    <2>1. CASE RetireConfirmed
      <3>1. Running' = Running \ {w} /\ w \in Running
        BY <1>10, <2>1 DEF Retire, Running, At, Absent
      <3> QED
        BY <1>10, <2>1, <3>1, Finite, CardRemove DEF Retire, WorkerInv
    <2>2. CASE ~RetireConfirmed
      <3>1. Running' = Running
        BY <1>10, <2>2 DEF Retire, Running, At, Absent
      <3> QED
        BY <1>10, <2>2, <3>1 DEF Retire, WorkerInv
    <2> QED
      BY <2>1, <2>2
  <1>11. ASSUME NEW w \in Workers, AcceptFail(w) \/ Accept(w) \/ Count(w)
        PROVE WorkerInv'
    <2>1. Running' = Running
      BY <1>11 DEF AcceptFail, Accept, Backlog, Count, CountedUp, Running, At, Absent
    <2> QED
      BY <1>11, <2>1 DEF AcceptFail, Accept, Backlog, Count, CountedUp, WorkerInv
  <1>12. ASSUME NEW w \in Workers, Busy(w) \/ Unbusy(w) \/ Rearm(w)
        PROVE WorkerInv'
    <2>1. Running' = Running
      BY <1>12 DEF Busy, Unbusy, IdleAgain, Rearm, Rearmed, Running, At, Absent
    <2> QED
      BY <1>12, <2>1 DEF Busy, Unbusy, IdleAgain, Rearm, Rearmed, WorkerInv
  <1>13. ASSUME NEW w \in Workers, HandlerReturns(w)
        PROVE WorkerInv'
    <2>1. Running' = Running
      BY <1>13 DEF HandlerReturns, Running, At, Absent
    <2> QED
      BY <1>13, <2>1 DEF HandlerReturns, WorkerInv
  <1>14. ASSUME NEW w \in Workers, Close(w) \/ Uncount(w)
        PROVE WorkerInv'
    <2>1. Running' = Running
      BY <1>14 DEF Close, ToldClosed, Uncount, LastOne, Running, At, Absent
    <2> QED
      BY <1>14, <2>1 DEF Close, ToldClosed, Uncount, LastOne, WorkerInv
  <1>15. ASSUME NEW w \in Workers, Exit(w) \/ Clearup(w)
        PROVE WorkerInv'
    <2>1. CASE Exit(w)
      <3>1. Running' = Running \ {w} /\ w \in Running
        BY <2>1 DEF Exit, Running, At, Absent
      <3> QED
        BY <2>1, <3>1, Finite, CardRemove DEF Exit, WorkerInv
    <2>2. CASE Clearup(w)
      <3>1. Running' = Running
        BY <2>2 DEF Clearup, Running, At, Absent
      <3> QED
        BY <2>2, <3>1 DEF Clearup, WorkerInv
    <2> QED
      BY <1>15, <2>1, <2>2
  <1>16. CASE ShutdownCall
    <2>1. Running' = Running
      BY <1>16 DEF ShutdownCall, Running, At, Absent
    <2> QED
      BY <1>16, <2>1 DEF ShutdownCall, WorkerInv
  <1>17. CASE ShutdownSockets
    <2>1. Running' = Running
      BY <1>17 DEF ShutdownSockets, Running, At, Absent
    <2> QED
      BY <1>17, <2>1 DEF ShutdownSockets, WorkerInv
  <1>18. ASSUME NEW s \in Sockets, Client(s)
        PROVE WorkerInv'
    <2>1. Running' = Running
      BY <1>18 DEF Client, Connect, ClientSend, ClientClose, ClientReset, Running, At, Absent
    <2> QED
      BY <1>18, <2>1 DEF Client, Connect, ClientSend, ClientClose, ClientReset, WorkerInv
  <1> QED
    BY <1>1, <1>2, <1>3, <1>4, <1>5, <1>6, <1>7, <1>8, <1>9, <1>10, <1>11, <1>12, <1>13,
       <1>14, <1>15, <1>16, <1>17, <1>18
    DEF Step, MainStep, StartStep, LoopStep, AddStep, Threads

\* currentBusyWorkers follows the busy workers.
LEMMA BusyStep == IInv /\ Step => BusyNow'
  <1> SUFFICES ASSUME IInv, Step PROVE BusyNow'
      OBVIOUS
  <1> USE SocketServerAssumption DEF IInv, TypeOK, StartInv, SpinInv, BusyNow
  <1>1. CASE StartCall \/ StartFail \/ StartListen \/ StartDone
    <2>1. At(BusyPcs)' = At(BusyPcs)
      BY <1>1 DEF StartCall, StartFail, StartListen, StartDone, At, BusyPcs
    <2> QED
      BY <1>1, <2>1 DEF StartCall, StartFail, StartListen, StartDone
  <1>2. ASSUME NEW t \in Threads, AddCheck(t) \/ AddLock(t)
        PROVE BusyNow'
    <2>1. At(BusyPcs)' = At(BusyPcs)
      BY <1>2 DEF AddCheck, AddLock, Added, addCounter, Room, At, BusyPcs
    <2> QED
      BY <1>2, <2>1 DEF AddCheck, AddLock, Added, addCounter, Room
  <1>3. ASSUME NEW t \in Threads, Spawn(t)
        PROVE BusyNow'
    <2>1. At(BusyPcs)' = At(BusyPcs)
      BY <1>3 DEF Spawn, At, BusyPcs
    <2> QED
      BY <1>3, <2>1 DEF Spawn
  <1>4. ASSUME NEW t \in Threads, SpawnFail(t)
        PROVE BusyNow'
    <2>1. At(BusyPcs)' = At(BusyPcs)
      BY <1>4 DEF SpawnFail, NextRound, Added, At, BusyPcs
    <2> QED
      BY <1>4, <2>1 DEF SpawnFail, NextRound, Added
  <1>5. ASSUME NEW t \in Threads, Spawned(t)
        PROVE BusyNow'
    <2>1. At(BusyPcs)' = At(BusyPcs)
      BY <1>5 DEF Spawned, NextRound, Added, At, BusyPcs
    <2> QED
      BY <1>5, <2>1 DEF Spawned, NextRound, Added
  <1>6. ASSUME NEW w \in Workers, WorkerStart(w)
        PROVE BusyNow'
    <2>1. At(BusyPcs)' = At(BusyPcs)
      BY <1>6 DEF WorkerStart, At, BusyPcs
    <2> QED
      BY <1>6, <2>1 DEF WorkerStart
  <1>7. ASSUME NEW w \in Workers, PollListener(w)
        PROVE BusyNow'
    <2>1. At(BusyPcs)' = At(BusyPcs)
      BY <1>7 DEF PollListener, At, BusyPcs
    <2> QED
      BY <1>7, <2>1 DEF PollListener
  <1>8. ASSUME NEW w \in Workers, PollClient(w)
        PROVE BusyNow'
    <2>1. At(BusyPcs)' = At(BusyPcs)
      BY <1>8 DEF PollClient, ReadyClients, Disarmed, At, BusyPcs
    <2> QED
      BY <1>8, <2>1 DEF PollClient, ReadyClients, Disarmed
  <1>9. ASSUME NEW w \in Workers, PollTimeout(w) \/ PollError(w)
        PROVE BusyNow'
    <2>1. At(BusyPcs)' = At(BusyPcs)
      BY <1>9 DEF PollTimeout, PollError, MayRetire, At, BusyPcs
    <2> QED
      BY <1>9, <2>1 DEF PollTimeout, PollError, MayRetire
  <1>10. ASSUME NEW w \in Workers, Retire(w)
        PROVE BusyNow'
    <2>1. At(BusyPcs)' = At(BusyPcs)
      BY <1>10 DEF Retire, RetireConfirmed, MayRetire, At, BusyPcs
    <2> QED
      BY <1>10, <2>1 DEF Retire, RetireConfirmed, MayRetire
  <1>11. ASSUME NEW w \in Workers, AcceptFail(w) \/ Accept(w) \/ Count(w)
        PROVE BusyNow'
    <2>1. At(BusyPcs)' = At(BusyPcs)
      BY <1>11 DEF AcceptFail, Accept, Backlog, Count, CountedUp, At, BusyPcs
    <2> QED
      BY <1>11, <2>1 DEF AcceptFail, Accept, Backlog, Count, CountedUp
  <1>12. ASSUME NEW w \in Workers, Busy(w) \/ Unbusy(w) \/ Rearm(w)
        PROVE BusyNow'
    <2>1. CASE Busy(w)
      <3>1. At(BusyPcs)' = At(BusyPcs) \cup {w} /\ w \notin At(BusyPcs)
        BY <2>1 DEF Busy, At, BusyPcs
      <3> QED
        BY <2>1, <3>1, Finite, CardAdd DEF Busy
    <2>2. CASE Unbusy(w)
      <3>1. At(BusyPcs)' = At(BusyPcs) \ {w} /\ w \in At(BusyPcs)
        BY <2>2 DEF Unbusy, At, BusyPcs
      <3> QED
        BY <2>2, <3>1, Finite, CardRemove DEF Unbusy, IdleAgain
    <2>3. CASE Rearm(w)
      <3>1. At(BusyPcs)' = At(BusyPcs)
        BY <2>3 DEF Rearm, At, BusyPcs
      <3> QED
        BY <2>3, <3>1 DEF Rearm
    <2> QED
      BY <1>12, <2>1, <2>2, <2>3
  <1>13. ASSUME NEW w \in Workers, HandlerReturns(w)
        PROVE BusyNow'
    <2>1. At(BusyPcs)' = At(BusyPcs)
      BY <1>13 DEF HandlerReturns, At, BusyPcs
    <2> QED
      BY <1>13, <2>1 DEF HandlerReturns
  <1>14. ASSUME NEW w \in Workers, Close(w) \/ Uncount(w)
        PROVE BusyNow'
    <2>1. At(BusyPcs)' = At(BusyPcs)
      BY <1>14 DEF Close, ToldClosed, Uncount, LastOne, At, BusyPcs
    <2> QED
      BY <1>14, <2>1 DEF Close, ToldClosed, Uncount, LastOne
  <1>15. ASSUME NEW w \in Workers, Exit(w) \/ Clearup(w)
        PROVE BusyNow'
    <2>1. At(BusyPcs)' = At(BusyPcs)
      BY <1>15 DEF Exit, Cleaner, Clearup, At, BusyPcs
    <2> QED
      BY <1>15, <2>1 DEF Exit, Cleaner, Clearup
  <1>16. CASE ShutdownCall
    <2>1. At(BusyPcs)' = At(BusyPcs)
      BY <1>16 DEF ShutdownCall, At, BusyPcs
    <2> QED
      BY <1>16, <2>1 DEF ShutdownCall
  <1>17. CASE ShutdownSockets
    <2>1. At(BusyPcs)' = At(BusyPcs)
      BY <1>17 DEF ShutdownSockets, At, BusyPcs
    <2> QED
      BY <1>17, <2>1 DEF ShutdownSockets
  <1>18. ASSUME NEW s \in Sockets, Client(s)
        PROVE BusyNow'
    <2>1. At(BusyPcs)' = At(BusyPcs)
      BY <1>18 DEF Client, Connect, ClientSend, ClientClose, ClientReset, At, BusyPcs
    <2> QED
      BY <1>18, <2>1 DEF Client, Connect, ClientSend, ClientClose, ClientReset
  <1> QED
    BY <1>1, <1>2, <1>3, <1>4, <1>5, <1>6, <1>7, <1>8, <1>9, <1>10, <1>11, <1>12, <1>13,
       <1>14, <1>15, <1>16, <1>17, <1>18
    DEF Step, MainStep, StartStep, LoopStep, AddStep, Threads

\* CSocketsCounter follows the open connections.
LEMMA SocketsStep == IInv /\ Step => SocketsCounted'
  <1> SUFFICES ASSUME IInv, Step PROVE SocketsCounted'
      OBVIOUS
  <1> USE SocketServerAssumption DEF IInv, TypeOK
  <1>1. CASE StartCall \/ StartFail \/ StartListen \/ StartDone
    <2>1. Opened' = Opened /\ At({"count"})' = At({"count"}) /\ At({"uncount"})' = At({"uncount"})
      BY <1>1 DEF StartCall, StartFail, StartListen, StartDone, Opened, At
    <2> QED
      BY <1>1, <2>1 DEF StartCall, StartFail, StartListen, StartDone, SocketsCounted, Opened
  <1>2. ASSUME NEW t \in Threads, AddCheck(t) \/ AddLock(t)
        PROVE SocketsCounted'
    <2>1. Opened' = Opened /\ At({"count"})' = At({"count"}) /\ At({"uncount"})' = At({"uncount"})
      BY <1>2 DEF AddCheck, AddLock, Added, addCounter, Room, Opened, At
    <2> QED
      BY <1>2, <2>1 DEF AddCheck, AddLock, Added, addCounter, Room, SocketsCounted, Opened
  <1>3. ASSUME NEW t \in Threads, Spawn(t)
        PROVE SocketsCounted'
    <2>1. Opened' = Opened /\ At({"count"})' = At({"count"}) /\ At({"uncount"})' = At({"uncount"})
      BY <1>3 DEF Spawn, Opened, At
    <2> QED
      BY <1>3, <2>1 DEF Spawn, SocketsCounted, Opened
  <1>4. ASSUME NEW t \in Threads, SpawnFail(t)
        PROVE SocketsCounted'
    <2>1. Opened' = Opened /\ At({"count"})' = At({"count"}) /\ At({"uncount"})' = At({"uncount"})
      BY <1>4 DEF SpawnFail, NextRound, Added, Opened, At
    <2> QED
      BY <1>4, <2>1 DEF SpawnFail, NextRound, Added, SocketsCounted, Opened
  <1>5. ASSUME NEW t \in Threads, Spawned(t)
        PROVE SocketsCounted'
    <2>1. Opened' = Opened /\ At({"count"})' = At({"count"}) /\ At({"uncount"})' = At({"uncount"})
      BY <1>5 DEF Spawned, NextRound, Added, Opened, At
    <2> QED
      BY <1>5, <2>1 DEF Spawned, NextRound, Added, SocketsCounted, Opened
  <1>6. ASSUME NEW w \in Workers, WorkerStart(w)
        PROVE SocketsCounted'
    <2>1. Opened' = Opened /\ At({"count"})' = At({"count"}) /\ At({"uncount"})' = At({"uncount"})
      BY <1>6 DEF WorkerStart, Opened, At
    <2> QED
      BY <1>6, <2>1 DEF WorkerStart, SocketsCounted, Opened
  <1>7. ASSUME NEW w \in Workers, PollListener(w)
        PROVE SocketsCounted'
    <2>1. Opened' = Opened /\ At({"count"})' = At({"count"}) /\ At({"uncount"})' = At({"uncount"})
      BY <1>7 DEF PollListener, Opened, At
    <2> QED
      BY <1>7, <2>1 DEF PollListener, SocketsCounted, Opened
  <1>8. ASSUME NEW w \in Workers, PollClient(w)
        PROVE SocketsCounted'
    <2>1. Opened' = Opened /\ At({"count"})' = At({"count"}) /\ At({"uncount"})' = At({"uncount"})
      BY <1>8 DEF PollClient, ReadyClients, Disarmed, Opened, At
    <2> QED
      BY <1>8, <2>1 DEF PollClient, ReadyClients, Disarmed, SocketsCounted, Opened
  <1>9. ASSUME NEW w \in Workers, PollTimeout(w) \/ PollError(w)
        PROVE SocketsCounted'
    <2>1. Opened' = Opened /\ At({"count"})' = At({"count"}) /\ At({"uncount"})' = At({"uncount"})
      BY <1>9 DEF PollTimeout, PollError, MayRetire, Opened, At
    <2> QED
      BY <1>9, <2>1 DEF PollTimeout, PollError, MayRetire, SocketsCounted, Opened
  <1>10. ASSUME NEW w \in Workers, Retire(w)
        PROVE SocketsCounted'
    <2>1. Opened' = Opened /\ At({"count"})' = At({"count"}) /\ At({"uncount"})' = At({"uncount"})
      BY <1>10 DEF Retire, RetireConfirmed, MayRetire, Opened, At
    <2> QED
      BY <1>10, <2>1 DEF Retire, RetireConfirmed, MayRetire, SocketsCounted, Opened
  <1>11. ASSUME NEW w \in Workers, AcceptFail(w) \/ Accept(w) \/ Count(w)
        PROVE SocketsCounted'
    <2>1. CASE AcceptFail(w)
      <3>1. Opened' = Opened /\ At({"count"})' = At({"count"}) /\ At({"uncount"})' = At({"uncount"})
        BY <2>1 DEF AcceptFail, Opened, At
      <3> QED
        BY <2>1, <3>1 DEF AcceptFail, SocketsCounted, Opened
    <2>2. CASE Accept(w)
      <3>1. PICK s \in Backlog :
               \/ /\ sock' = [sock EXCEPT ![s] = "open"] /\ pc' = [pc EXCEPT ![w] = "count"]
               \/ /\ sock' = [sock EXCEPT ![s] = "leaked"] /\ pc' = [pc EXCEPT ![w] = "poll"]
        BY <2>2 DEF Accept
      <3>2. pc[w] = "accept" /\ sock[s] = "backlog" /\ s \in Sockets /\ UNCHANGED CSocketsCounter
        BY <2>2 DEF Accept, Backlog
      <3>3. CASE sock' = [sock EXCEPT ![s] = "open"] /\ pc' = [pc EXCEPT ![w] = "count"]
        <4>1. /\ Opened' = Opened \cup {s} /\ s \notin Opened
              /\ At({"count"})' = At({"count"}) \cup {w} /\ w \notin At({"count"})
              /\ At({"uncount"})' = At({"uncount"})
          BY <3>2, <3>3 DEF Opened, At
        <4>2. Cardinality(Opened)' = Cardinality(Opened) + 1
          BY <4>1, Finite, CardAdd
        <4>3. Cardinality(At({"count"}))' = Cardinality(At({"count"})) + 1
          BY <4>1, Finite, CardAdd
        <4> QED
          BY <3>2, <4>1, <4>2, <4>3, Finite DEF SocketsCounted, Opened
      <3>4. CASE sock' = [sock EXCEPT ![s] = "leaked"] /\ pc' = [pc EXCEPT ![w] = "poll"]
        <4>1. /\ Opened' = Opened
              /\ At({"count"})' = At({"count"}) /\ At({"uncount"})' = At({"uncount"})
          BY <3>2, <3>4 DEF Opened, At
        <4> QED
          BY <3>2, <4>1 DEF SocketsCounted, Opened
      <3> QED
        BY <3>1, <3>3, <3>4
    <2>3. CASE Count(w)
      <3>1. /\ At({"count"})' = At({"count"}) \ {w} /\ w \in At({"count"})
            /\ At({"uncount"})' = At({"uncount"}) /\ Opened' = Opened
        BY <2>3 DEF Count, Opened, At
      <3> QED
        BY <2>3, <3>1, Finite, CardRemove DEF Count, CountedUp, SocketsCounted, Opened
    <2> QED
      BY <1>11, <2>1, <2>2, <2>3
  <1>12. ASSUME NEW w \in Workers, Busy(w) \/ Unbusy(w) \/ Rearm(w)
        PROVE SocketsCounted'
    <2>1. Opened' = Opened /\ At({"count"})' = At({"count"}) /\ At({"uncount"})' = At({"uncount"})
      BY <1>12 DEF Busy, Unbusy, IdleAgain, Rearm, Rearmed, Opened, At
    <2> QED
      BY <1>12, <2>1 DEF Busy, Unbusy, IdleAgain, Rearm, Rearmed, SocketsCounted, Opened
  <1>13. ASSUME NEW w \in Workers, HandlerReturns(w)
        PROVE SocketsCounted'
    <2>1. Opened' = Opened /\ At({"count"})' = At({"count"}) /\ At({"uncount"})' = At({"uncount"})
      BY <1>13 DEF HandlerReturns, Opened, At
    <2> QED
      BY <1>13, <2>1 DEF HandlerReturns, SocketsCounted, Opened
  <1>14. ASSUME NEW w \in Workers, Close(w) \/ Uncount(w)
        PROVE SocketsCounted'
    <2>1. CASE Close(w)
      <3>1. event[w] \in Sockets /\ sock[event[w]] = "open"
        BY <2>1 DEF Close, ServInv, Serving
      <3>2. /\ Opened' = Opened \ {event[w]} /\ event[w] \in Opened
            /\ At({"uncount"})' = At({"uncount"}) \cup {w} /\ w \notin At({"uncount"})
            /\ At({"count"})' = At({"count"})
        BY <2>1, <3>1 DEF Close, Opened, At
      <3>3. UNCHANGED CSocketsCounter
        BY <2>1 DEF Close
      <3>4. Cardinality(Opened)' = Cardinality(Opened) - 1
        BY <3>2, Finite, CardRemove
      <3>5. Cardinality(At({"uncount"}))' = Cardinality(At({"uncount"})) + 1
        BY <3>2, Finite, CardAdd
      <3> QED
        BY <3>2, <3>3, <3>4, <3>5, Finite DEF SocketsCounted, Opened
    <2>2. CASE Uncount(w)
      <3>1. /\ At({"uncount"})' = At({"uncount"}) \ {w} /\ w \in At({"uncount"})
            /\ At({"count"})' = At({"count"}) /\ Opened' = Opened
        BY <2>2 DEF Uncount, Opened, At
      <3> QED
        BY <2>2, <3>1, Finite, CardRemove DEF Uncount, SocketsCounted, Opened
    <2> QED
      BY <1>14, <2>1, <2>2
  <1>15. ASSUME NEW w \in Workers, Exit(w) \/ Clearup(w)
        PROVE SocketsCounted'
    <2>1. Opened' = Opened /\ At({"count"})' = At({"count"}) /\ At({"uncount"})' = At({"uncount"})
      BY <1>15 DEF Exit, Cleaner, Clearup, Opened, At
    <2> QED
      BY <1>15, <2>1 DEF Exit, Cleaner, Clearup, SocketsCounted, Opened
  <1>16. CASE ShutdownCall
    <2>1. Opened' = Opened /\ At({"count"})' = At({"count"}) /\ At({"uncount"})' = At({"uncount"})
      BY <1>16 DEF ShutdownCall, Opened, At
    <2> QED
      BY <1>16, <2>1 DEF ShutdownCall, SocketsCounted, Opened
  <1>17. CASE ShutdownSockets
    <2>1. Opened' = Opened /\ At({"count"})' = At({"count"}) /\ At({"uncount"})' = At({"uncount"})
      BY <1>17 DEF ShutdownSockets, Opened, At
    <2> QED
      BY <1>17, <2>1 DEF ShutdownSockets, SocketsCounted, Opened
  <1>18. ASSUME NEW s \in Sockets, Client(s)
        PROVE SocketsCounted'
    <2>1. Opened' = Opened /\ At({"count"})' = At({"count"}) /\ At({"uncount"})' = At({"uncount"})
      BY <1>18 DEF Client, Connect, ClientSend, ClientClose, ClientReset, Opened, At
    <2> QED
      BY <1>18, <2>1 DEF Client, Connect, ClientSend, ClientClose, ClientReset, SocketsCounted,
         Opened
  <1> QED
    BY <1>1, <1>2, <1>3, <1>4, <1>5, <1>6, <1>7, <1>8, <1>9, <1>10, <1>11, <1>12, <1>13,
       <1>14, <1>15, <1>16, <1>17, <1>18
    DEF Step, MainStep, StartStep, LoopStep, AddStep, Threads

\* The last worker clears up.
LEMMA CleanStep == IInv /\ Step => CleanInv'
  <1> SUFFICES ASSUME IInv, Step PROVE CleanInv'
      OBVIOUS
  <1> USE SocketServerAssumption DEF IInv, TypeOK, WorkerPcs, MainPcs, StartInv, SpinInv, CleanInv
  <1>1. CASE StartCall \/ StartFail \/ StartListen \/ StartDone
    BY <1>1 DEF StartCall, StartFail, StartListen, StartDone
  <1>2. ASSUME NEW t \in Threads, AddCheck(t) \/ AddLock(t)
        PROVE CleanInv'
    BY <1>2 DEF AddCheck, AddLock, Added, addCounter, Room
  <1>3. ASSUME NEW t \in Threads, Spawn(t)
        PROVE CleanInv'
    BY <1>3 DEF Spawn
  <1>4. ASSUME NEW t \in Threads, SpawnFail(t)
        PROVE CleanInv'
    BY <1>4 DEF SpawnFail, NextRound, Added
  <1>5. ASSUME NEW t \in Threads, Spawned(t)
        PROVE CleanInv'
    BY <1>5 DEF Spawned, NextRound, Added
  <1>6. ASSUME NEW w \in Workers, WorkerStart(w)
        PROVE CleanInv'
    BY <1>6 DEF WorkerStart
  <1>7. ASSUME NEW w \in Workers, PollListener(w)
        PROVE CleanInv'
    BY <1>7 DEF PollListener
  <1>8. ASSUME NEW w \in Workers, PollClient(w)
        PROVE CleanInv'
    BY <1>8 DEF PollClient, ReadyClients, Disarmed
  <1>9. ASSUME NEW w \in Workers, PollTimeout(w) \/ PollError(w)
        PROVE CleanInv'
    BY <1>9 DEF PollTimeout, PollError, MayRetire
  <1>10. ASSUME NEW w \in Workers, Retire(w)
        PROVE CleanInv'
    BY <1>10 DEF Retire, RetireConfirmed, MayRetire
  <1>11. ASSUME NEW w \in Workers, AcceptFail(w) \/ Accept(w) \/ Count(w)
        PROVE CleanInv'
    BY <1>11 DEF AcceptFail, Accept, Backlog, Count, CountedUp
  <1>12. ASSUME NEW w \in Workers, Busy(w) \/ Unbusy(w) \/ Rearm(w)
        PROVE CleanInv'
    BY <1>12 DEF Busy, Unbusy, IdleAgain, Rearm, Rearmed
  <1>13. ASSUME NEW w \in Workers, HandlerReturns(w)
        PROVE CleanInv'
    BY <1>13 DEF HandlerReturns
  <1>14. ASSUME NEW w \in Workers, Close(w) \/ Uncount(w)
        PROVE CleanInv'
    BY <1>14 DEF Close, ToldClosed, Uncount, LastOne
  <1>15. ASSUME NEW w \in Workers, Exit(w) \/ Clearup(w)
        PROVE CleanInv'
    <2>1. CASE Exit(w)
      <3>1. w \in Running /\ newborn = None
        BY <2>1 DEF Exit, Running, At, Absent, SpinInv
      <3>2. ASSUME Cleaner PROVE Running = {w}
        <4>1. Cardinality(Running) = 1
          <5>1. Cardinality(Running) # 0
            BY <3>1, Finite, FS_EmptySet
          <5> QED
            BY <3>1, <3>2, <5>1, Finite DEF Cleaner, WorkerInv
        <4> QED
          BY <3>1, <4>1, Finite, FS_Singleton
      <3>3. CASE Cleaner
        <4>1. \A v \in Workers : v # w => pc[v] \in {"none", "gone"}
          BY <3>1, <3>2, <3>3, <2>1 DEF Running, At, Absent, CleanInv, Exit
        <4> QED
          BY <2>1, <3>1, <3>3, <4>1 DEF Exit, Cleaner, CleanInv
      <3>4. CASE ~Cleaner
        BY <2>1, <3>4 DEF Exit, CleanInv
      <3> QED
        BY <3>3, <3>4
    <2>2. CASE Clearup(w)
      BY <2>2 DEF Clearup, CleanInv
    <2> QED
      BY <1>15, <2>1, <2>2
  <1>16. CASE ShutdownCall
    BY <1>16 DEF ShutdownCall
  <1>17. CASE ShutdownSockets
    BY <1>17 DEF ShutdownSockets
  <1>18. ASSUME NEW s \in Sockets, Client(s)
        PROVE CleanInv'
    BY <1>18 DEF Client, Connect, ClientSend, ClientClose, ClientReset
  <1> QED
    BY <1>1, <1>2, <1>3, <1>4, <1>5, <1>6, <1>7, <1>8, <1>9, <1>10, <1>11, <1>12, <1>13,
       <1>14, <1>15, <1>16, <1>17, <1>18
    DEF Step, MainStep, StartStep, LoopStep, AddStep, Threads

-----------------------------------------------------------------------------
\* createSocketServer
LEMMA InitInv == Init => IInv
  <1> SUFFICES ASSUME Init PROVE IInv
      OBVIOUS
  <1> USE SocketServerAssumption DEF Init
  <1>1. TypeOK
    <2>1. ListenerType /\ aborted \in BOOLEAN
      BY DEF ListenerType
    <2> QED
      BY <2>1 DEF TypeOK, ListenerType, WorkerPcs, MainPcs
  <1>2. StartInv /\ SpinInv /\ MinInv /\ CleanInv
    BY DEF StartInv, SpinInv, MinInv, CleanInv, WorkerPcs, MainPcs
  <1>3. ServInv /\ CallbackInv
    BY DEF ServInv, CallbackInv, Serving
  <1>4. /\ Running = {} /\ Opened = {} /\ At(BusyPcs) = {}
        /\ At({"count"}) = {} /\ At({"uncount"}) = {}
    BY DEF Running, Opened, At, Absent, BusyPcs
  <1>5. Cardinality({}) = 0
    BY FS_EmptySet
  <1>6. WorkerInv
    BY <1>4, <1>5 DEF WorkerInv
  <1>7. BusyNow
    BY <1>4, <1>5 DEF BusyNow
  <1>8. SocketsCounted
    <2>1. CSocketsCounter = Cardinality(Opened) - Cardinality(At({"count"}))
                            + Cardinality(At({"uncount"}))
      BY <1>4, <1>5
    <2> QED
      BY <2>1 DEF SocketsCounted, Opened
  <1> QED
    BY <1>1, <1>2, <1>3, <1>6, <1>7, <1>8 DEF IInv

\* A step that leaves the server alone, but for the life of the process.
LEMMA Stutter ==
  ASSUME IInv, aborted' \in BOOLEAN, rx' \in [Sockets -> Nat],
         UNCHANGED <<counters, creation, qss, listener, sock, armed, eof, sent, told, pc,
                     locals, faults>>
  PROVE  IInv'
  <1>1. UNCHANGED <<Running, Opened, At(BusyPcs), At({"count"}), At({"uncount"})>>
    BY DEF Running, Opened, At
  <1>2. TypeOK'
    BY DEF IInv, TypeOK
  <1>3. StartInv' /\ SpinInv' /\ MinInv' /\ CleanInv'
    BY <1>1 DEF IInv, StartInv, SpinInv, MinInv, CleanInv
  <1>4. ServInv' /\ CallbackInv'
    BY DEF IInv, ServInv, CallbackInv
  <1>5. WorkerInv' /\ BusyNow' /\ SocketsCounted'
    BY <1>1 DEF IInv, WorkerInv, BusyNow, SocketsCounted, Opened
  <1> QED
    BY <1>2, <1>3, <1>4, <1>5 DEF IInv

\* The invariant is inductive, whatever handlers do.
LEMMA StepInv == IInv /\ Step => IInv'
  BY TypeStep, LifeStep, SpinStep, WorkersStep, BusyStep, SocketsStep, MinStep, CleanStep,
     ServStep, CallbackStep DEF IInv

\* The handler of the module is one of them.
LEMMA HandleReturns ==
  ASSUME IInv, NEW w \in Workers, Handle(w)
  PROVE  HandlerReturns(w)
  <1>1. event[w] \in Sockets
    BY DEF IInv, ServInv, Serving, Handle
  <1>2. rx' \in [Sockets -> Nat]
    BY <1>1 DEF IInv, TypeOK, Handle
  <1>3. \E ok \in BOOLEAN : handleCode' = [handleCode EXCEPT ![w] = ok]
    BY DEF Handle
  <1> QED
    BY <1>2, <1>3 DEF Handle, HandlerReturns

\* The next-state relation is one of the steps considered above.
LEMMA NextIsStep == IInv /\ Next => Step
  BY HandleReturns DEF Next, Step, WorkerStep

\* Every state of the specification satisfies the invariant.
LEMMA Inductive == Spec => []IInv
  <1>1. IInv /\ [Next]_vars => IInv'
    <2> SUFFICES ASSUME IInv, [Next]_vars PROVE IInv'
        OBVIOUS
    <2>1. CASE Next
      BY <2>1, NextIsStep, StepInv
    <2>2. CASE UNCHANGED vars
      BY <2>2, Stutter DEF vars, IInv, TypeOK
    <2> QED
      BY <2>1, <2>2
  <1> QED
    BY InitInv, <1>1, PTL DEF Spec

\* The properties follow from the invariant, whoever keeps it.
LEMMA Consequences ==
  IInv => CountersExact /\ OneWorkerPerConnection /\ FreedLast /\ CallbacksPaired
  <1> SUFFICES ASSUME IInv
               PROVE  CountersExact /\ OneWorkerPerConnection /\ FreedLast /\ CallbacksPaired
      OBVIOUS
  <1>1. CountersExact
    BY DEF IInv, CountersExact, WorkerInv, Running, Absent, SpinInv, BusyNow, BusyPcs,
           BusyCounted, MinInv, MinimumKept, StartInv, MainPcs
  <1>2. OneWorkerPerConnection
    BY DEF IInv, ServInv, OneWorkerPerConnection, At
  <1>3. FreedLast
    BY DEF IInv, CleanInv, FreedLast, At
  <1>4. CallbacksPaired
    BY DEF IInv, CallbackInv, CallbacksPaired, At
  <1> QED
    BY <1>1, <1>2, <1>3, <1>4

\* workerCounter, currentBusyWorkers and CSocketsCounter count what they name,
\* workerCounter never exceeds maxThreads, and retirement stops at minThreads.
THEOREM ServerCountersExact == Spec => []CountersExact
  BY Inductive, Consequences, PTL

\* EPOLLONESHOT gives every connection to one worker at a time.
THEOREM ConnectionsExclusive == Spec => []OneWorkerPerConnection
  BY Inductive, Consequences, PTL

\* qss is freed when no worker is left.
THEOREM ServerFreedLast == Spec => []FreedLast
  BY Inductive, Consequences, PTL

\* cslifecb is told of every connection what happened to it.
THEOREM CallbacksArePaired == Spec => []CallbacksPaired
  BY Inductive, Consequences, PTL

-----------------------------------------------------------------------------
(* The server with handlers that block in a send.                            *)

SenderPcs == {"idle", "send", "lock", "register", "wait", "waiting", "relock", "unlock",
              "returned", "close", "closed"}
\* Positions outside internalBlockingSender.
NotSending == {"idle", "close", "closed"}

\* A sender runs in the handler of a worker that holds its connection, and a
\* freed event is that of a closed connection.
SenderInv ==
    /\ spc \in [Sockets -> SenderPcs] /\ current \in Sockets \cup {None}
    /\ \A s \in Sockets : spc[s] \notin NotSending =>
          \E w \in Workers : pc[w] = "handle" /\ event[w] = s
    /\ \A s \in Sockets : s \in freed => spc[s] = "closed"

SSInv == IInv /\ SenderInv

\* The combined invariant holds initially.
LEMMA SSInitInv == SSInit => SSInv
  <1> SUFFICES ASSUME SSInit PROVE SSInv
      OBVIOUS
  <1>1. IInv
    BY InitInv DEF SSInit
  <1>2. SenderInv
    BY DEF SSInit, B!Init, SenderInv, SenderPcs, NotSending
  <1> QED
    BY <1>1, <1>2 DEF SSInv

\* The steps of the server that are not those of a handler.
Untouched ==
    \/ StartCall \/ ShutdownCall \/ StartStep \/ ShutdownSockets
    \/ \E w \in Workers : LoopStep(w) \/ PollError(w) \/ Close(w)
    \/ \E s \in Sockets : Client(s)

\* They leave a worker that is in its handler where it is, with its connection.
LEMMA HandlersStay ==
  ASSUME IInv, Untouched, NEW w \in Workers, pc[w] = "handle"
  PROVE  pc'[w] = "handle" /\ event'[w] = event[w]
  <1> USE SocketServerAssumption DEF IInv, TypeOK
  <1>1. CASE StartCall \/ ShutdownCall \/ StartFail \/ StartListen \/ StartDone \/ ShutdownSockets
    BY <1>1 DEF StartCall, ShutdownCall, StartFail, StartListen, StartDone, ShutdownSockets
  <1>2. ASSUME NEW t \in Threads, AddStep(t) PROVE pc'[w] = "handle" /\ event'[w] = event[w]
    <2>1. CASE AddCheck(t) \/ AddLock(t)
      BY <1>2, <2>1 DEF AddCheck, AddLock, Added
    <2>2. CASE Spawn(t)
      BY <1>2, <2>2 DEF Spawn
    <2>3. CASE SpawnFail(t) \/ Spawned(t)
      BY <1>2, <2>3 DEF SpawnFail, Spawned, NextRound, Added
    <2> QED
      BY <1>2, <2>1, <2>2, <2>3 DEF AddStep
  <1>3. ASSUME NEW v \in Workers, LoopStep(v) PROVE pc'[w] = "handle" /\ event'[w] = event[w]
    <2>1. CASE WorkerStart(v) \/ PollListener(v) \/ PollClient(v) \/ PollTimeout(v) \/ Retire(v)
      BY <1>3, <2>1 DEF WorkerStart, PollListener, PollClient, PollTimeout, Retire
    <2>2. CASE AcceptFail(v) \/ Accept(v) \/ Count(v) \/ Busy(v)
      BY <1>3, <2>2 DEF AcceptFail, Accept, Count, Busy
    <2>3. CASE Unbusy(v) \/ Rearm(v) \/ Uncount(v) \/ Exit(v) \/ Clearup(v)
      BY <1>3, <2>3 DEF Unbusy, Rearm, Uncount, Exit, Clearup
    <2> QED
      BY <1>3, <1>2, <2>1, <2>2, <2>3 DEF LoopStep
  <1>4. ASSUME NEW v \in Workers, PollError(v) \/ Close(v)
        PROVE  pc'[w] = "handle" /\ event'[w] = event[w]
    BY <1>4 DEF PollError, Close
  <1>5. ASSUME NEW s \in Sockets, Client(s) PROVE pc'[w] = "handle" /\ event'[w] = event[w]
    BY <1>5 DEF Client, Connect, ClientSend, ClientClose, ClientReset
  <1> QED
    BY <1>1, <1>2, <1>3, <1>4, <1>5 DEF Untouched, StartStep

\* The steps that only concern the senders and the epoller.
SendOnly ==
    \/ \E w \in Workers : Sending(w)
    \/ \E s \in Sockets : Spurious(s)
    \/ EpollerSignal \/ Outside \/ EpollEnter \/ EpollReport

\* A step of a sender leaves the abort flag a Boolean.
LEMMA SendOnlyAborted == IInv /\ SendOnly => aborted' \in BOOLEAN
  <1> SUFFICES ASSUME IInv, SendOnly PROVE aborted' \in BOOLEAN
      OBVIOUS
  <1> USE DEF B!epollerVars, B!senderVars, B!Go
  <1>0. aborted \in BOOLEAN
    BY DEF IInv, TypeOK
  <1>1. ASSUME NEW w \in Workers, Sending(w) PROVE UNCHANGED aborted
    BY <1>1 DEF Sending, B!Sending, B!Send, B!SendDone, B!SendError, B!SendFull, B!Waiting,
         B!LockWritable, B!Register, B!TimedWait, B!Relock, B!UnlockWritable, B!WaitEnds
  <1>2. ASSUME NEW s \in Sockets, Spurious(s) PROVE UNCHANGED aborted
    BY <1>2 DEF Spurious, B!WaitEnds
  <1>3. CASE EpollerSignal
    BY <1>3 DEF EpollerSignal, B!Signal, B!UseEvent
  <1>4. CASE Outside
    BY <1>4, <1>0 DEF Outside, B!SignalLock, B!Drain, B!UseEvent
  <1>5. CASE EpollEnter
    BY <1>5 DEF EpollEnter
  <1>6. CASE EpollReport
    BY <1>6, <1>0 DEF EpollReport, B!EpollWait, B!EpollFails
  <1> QED
    BY <1>0, <1>1, <1>2, <1>3, <1>4, <1>5, <1>6 DEF SendOnly

\* A step of a sender changes no variable of the server.
LEMMA SendOnlyServer == SendOnly => UNCHANGED serverVars
  BY DEF SendOnly, Sending, Spurious, EpollerSignal, Outside, EpollEnter, EpollReport

\* To the server, a step of the composition is one of its own, or nothing.
LEMMA ServerStep == SSInv /\ SSNext => IInv'
  <1> SUFFICES ASSUME SSInv, SSNext PROVE IInv'
      OBVIOUS
  <1> USE DEF SSInv
  <1>1. CASE StartCall \/ ShutdownCall \/ StartStep \/ ShutdownBoth
    BY <1>1, StepInv DEF Step, MainStep, ShutdownBoth
  <1>2. ASSUME NEW w \in Workers, LoopStep(w) \/ PollError(w) \/ CloseBoth(w) PROVE IInv'
    BY <1>2, StepInv DEF Step, CloseBoth
  <1>3. ASSUME NEW s \in Sockets, Client(s) PROVE IInv'
    BY <1>3, StepInv DEF Step
  <1>4. ASSUME NEW w \in Workers, Receive(w) PROVE IInv'
    <2>1. rx' \in [Sockets -> Nat]
      <3>1. event[w] \in Sockets
        BY <1>4 DEF Receive, IInv, ServInv, Serving
      <3> QED
        BY <1>4, <3>1 DEF Receive, IInv, TypeOK
    <2>2. aborted' \in BOOLEAN
      BY <1>4 DEF Receive, B!SendCall, B!epollerVars, IInv, TypeOK
    <2> QED
      BY <1>4, <2>1, <2>2, Stutter DEF Receive
  <1>5. ASSUME NEW w \in Workers, ReceiveNothing(w) PROVE IInv'
    BY <1>5, HandleReturns, StepInv DEF ReceiveNothing, Step
  <1>6. ASSUME NEW w \in Workers, SendReturns(w) PROVE IInv'
    <2>1. Result(event[w]) \in BOOLEAN
      BY DEF Result
    <2>2. \E ok \in BOOLEAN : handleCode' = [handleCode EXCEPT ![w] = ok]
      BY <1>6, <2>1 DEF SendReturns
    <2>3. rx' \in [Sockets -> Nat]
      BY <1>6 DEF SendReturns, IInv, TypeOK
    <2>4. UNCHANGED aborted
      BY <1>6 DEF SendReturns, B!Return, B!epollerVars
    <2>5. HandlerReturns(w)
      BY <1>6, <2>2, <2>3, <2>4 DEF SendReturns, HandlerReturns
    <2> QED
      BY <2>5, StepInv DEF Step
  <1>7. CASE SendOnly
    <2>1. UNCHANGED serverVars
      BY <1>7, SendOnlyServer
    <2>2. rx' \in [Sockets -> Nat]
      BY <2>1 DEF serverVars, IInv, TypeOK
    <2>3. aborted' \in BOOLEAN
      BY <1>7, SendOnlyAborted
    <2> QED
      BY <2>1, <2>2, <2>3, Stutter DEF serverVars
  <1> QED
    BY <1>1, <1>2, <1>3, <1>4, <1>5, <1>6, <1>7 DEF SSNext, SSMain, SSWorker, SendOnly

\* Every step keeps a sender in the handler it was called from.
LEMMA OwnerStep == SSInv /\ SSNext => SenderInv'
  <1> SUFFICES ASSUME SSInv, SSNext PROVE SenderInv'
      OBVIOUS
  <1> USE DEF SSInv, SenderInv, SenderPcs, NotSending
  <1>1. CASE Untouched /\ UNCHANGED <<spc, freed, current>>
    BY <1>1, HandlersStay
  <1>2. ASSUME NEW w \in Workers, CloseBoth(w) PROVE SenderInv'
    <2>1. event[w] \in Sockets
      BY <1>2 DEF CloseBoth, Close, IInv, ServInv, Serving
    <2>2. spc' = [spc EXCEPT ![event[w]] = "closed"] /\ freed' = freed \cup {event[w]}
          /\ UNCHANGED current
      BY <1>2 DEF CloseBoth, B!CloseEvent, B!Go, B!epollerVars
    <2>3. Untouched
      BY <1>2 DEF Untouched, CloseBoth
    <2> QED
      BY <2>1, <2>2, <2>3, HandlersStay
  <1>3. ASSUME NEW w \in Workers, Receive(w) PROVE SenderInv'
    <2>1. event[w] \in Sockets /\ pc[w] = "handle"
      BY <1>3 DEF Receive, IInv, ServInv, Serving
    <2>2. /\ spc' = [spc EXCEPT ![event[w]] = "send"] /\ spc[event[w]] = "idle"
          /\ UNCHANGED <<freed, current, pc, event>>
      BY <1>3 DEF Receive, B!SendCall, B!Go, B!epollerVars
    <2> QED
      BY <2>1, <2>2
  <1>4. ASSUME NEW w \in Workers, ReceiveNothing(w) PROVE SenderInv'
    <2>1. /\ spc[event[w]] = "idle" /\ pc' = [pc EXCEPT ![w] = "unbusy"]
          /\ UNCHANGED <<spc, freed, current, event>>
      BY <1>4 DEF ReceiveNothing, Handle, others, sending
    <2> QED
      BY <2>1 DEF IInv, TypeOK
  <1>5. ASSUME NEW w \in Workers, SendReturns(w) PROVE SenderInv'
    <2>1. event[w] \in Sockets
      BY <1>5 DEF SendReturns, IInv, ServInv, Serving
    <2>2. /\ spc[event[w]] = "returned" /\ pc' = [pc EXCEPT ![w] = "unbusy"]
          /\ \E p \in {"idle", "close"} : spc' = [spc EXCEPT ![event[w]] = p]
          /\ UNCHANGED <<freed, current, event>>
      BY <1>5 DEF SendReturns, B!Return, B!Go, B!epollerVars
    <2> QED
      BY <2>1, <2>2 DEF IInv, TypeOK
  <1>6. ASSUME NEW w \in Workers, Sending(w) PROVE SenderInv'
    <2> DEFINE s == event[w]
    <2>1. s \in Sockets /\ pc[w] = "handle"
      BY <1>6 DEF Sending, IInv, ServInv, Serving
    <2>2. /\ UNCHANGED <<freed, current, pc, event>> /\ spc[s] # "closed"
          /\ UNCHANGED spc \/ \E p \in SenderPcs \ NotSending : spc' = [spc EXCEPT ![s] = p]
      BY <1>6 DEF Sending, serverVars, B!Sending, B!Send, B!SendDone, B!SendError, B!SendFull,
           B!Waiting, B!LockWritable, B!Register, B!TimedWait, B!Relock, B!UnlockWritable,
           B!WaitEnds, B!epollerVars, B!Go
    <2> QED
      BY <2>1, <2>2
  <1>7. ASSUME NEW s \in Sockets, Spurious(s) PROVE SenderInv'
    <2>1. /\ UNCHANGED <<freed, current, pc, event>> /\ spc[s] = "waiting"
          /\ spc' = [spc EXCEPT ![s] = "relock"]
      BY <1>7 DEF Spurious, serverVars, B!WaitEnds, B!epollerVars, B!Go
    <2> QED
      BY <2>1
  <1>8. CASE EpollerSignal
    <2>1. PICK s \in Sockets : B!Signal(s)
      BY <1>8 DEF EpollerSignal
    <2>2. UNCHANGED <<freed, pc, event>> /\ current' = None
      BY <1>8, <2>1 DEF EpollerSignal, B!Signal, serverVars
    <2>3. spc' = (IF spc[s] = "waiting" THEN [spc EXCEPT ![s] = "relock"] ELSE spc)
      BY <2>1 DEF B!Signal, B!Woken
    <2> QED
      BY <2>2, <2>3
  <1>9. CASE Outside
    <2>1. UNCHANGED <<pc, event>>
      BY <1>9 DEF Outside, serverVars
    <2>2. UNCHANGED <<freed, spc>>
      BY <1>9 DEF Outside, B!SignalLock, B!Drain
    <2>3. current' \in Sockets \cup {None}
      BY <1>9 DEF Outside, B!SignalLock, B!Drain, B!epollerVars
    <2> QED
      BY <2>1, <2>2, <2>3
  <1>10. CASE EpollEnter \/ EpollReport
    <2>1. UNCHANGED <<pc, event>>
      BY <1>10 DEF EpollEnter, EpollReport, serverVars
    <2>2. UNCHANGED <<freed, spc, current>>
      BY <1>10 DEF EpollEnter, EpollReport, sending, B!EpollWait, B!EpollFails
    <2> QED
      BY <2>1, <2>2
  <1>11. CASE ShutdownBoth
    BY <1>1, <1>11 DEF ShutdownBoth, Untouched
  <1> QED
    <2>1. (StartCall \/ ShutdownCall \/ StartStep) /\ UNCHANGED others => SenderInv'
      BY <1>1 DEF Untouched, others, sending
    <2>2. \A w \in Workers : (LoopStep(w) \/ PollError(w)) /\ UNCHANGED others => SenderInv'
      BY <1>1 DEF Untouched, others, sending
    <2>3. \A s \in Sockets : Client(s) /\ UNCHANGED others => SenderInv'
      BY <1>1 DEF Untouched, others, sending
    <2> QED
      BY <1>2, <1>3, <1>4, <1>5, <1>6, <1>7, <1>8, <1>9, <1>10, <1>11, <2>1, <2>2, <2>3
         DEF SSNext, SSMain, SSWorker

\* Stuttering keeps the combined invariant.
LEMMA SSStutter == SSInv /\ UNCHANGED allVars => SSInv'
  <1> SUFFICES ASSUME SSInv, UNCHANGED allVars PROVE SSInv'
      OBVIOUS
  <1>1. IInv'
    BY Stutter DEF allVars, vars, SSInv, IInv, TypeOK
  <1>2. SenderInv'
    BY DEF allVars, vars, sending, SSInv, SenderInv
  <1> QED
    BY <1>1, <1>2 DEF SSInv

\* Every state of the composition satisfies the combined invariant.
LEMMA SSInductive == SSSpec => []SSInv
  <1>1. SSInv /\ [SSNext]_allVars => SSInv'
    BY ServerStep, OwnerStep, SSStutter DEF SSInv
  <1> QED
    BY SSInitInv, <1>1, PTL DEF SSSpec

-----------------------------------------------------------------------------
\* internalBlockingSender relies on nobody else using its connection: until it
\* returns, its worker alone holds the connection, whose event, lock and server
\* are not freed, whatever shutdownSocketServer and the other workers do.
THEOREM SenderAlone == SSSpec => []SenderOwnsConnection
  <1>1. SSInv => SenderOwnsConnection
    <2> SUFFICES ASSUME SSInv, NEW s \in Sockets, spc[s] \notin NotSending
                 PROVE  /\ \E w \in At({"handle"}) : event[w] = s
                        /\ \A v, w \in At(Serving) : event[v] = s /\ event[w] = s => v = w
                        /\ s \notin freed /\ s \notin armed /\ sock[s] = "open" /\ qss = "live"
        BY DEF SenderOwnsConnection, NotSending
    <2>1. PICK w \in Workers : pc[w] = "handle" /\ event[w] = s
      BY DEF SSInv, SenderInv
    <2>2. w \in At({"handle"})
      BY <2>1 DEF At
    <2>3. \A u, v \in At(Serving) : event[u] = s /\ event[v] = s => u = v
      BY DEF SSInv, IInv, ServInv, At
    <2>4. s \notin armed /\ sock[s] = "open"
      BY <2>1 DEF SSInv, IInv, ServInv, Serving
    <2>5. s \notin freed
      BY DEF SSInv, SenderInv, NotSending
    <2>6. qss = "live"
      BY <2>1 DEF SSInv, IInv, CleanInv, TypeOK
    <2> QED
      BY <2>1, <2>2, <2>3, <2>4, <2>5, <2>6
  <1> QED
    BY SSInductive, <1>1, PTL

\* The server keeps its guarantees when handlers block in a send, time out and
\* are woken by the epoller: exact counters, one worker per connection, qss
\* freed last and paired callbacks do not depend on the handler being one step.
THEOREM ServerKeptWhileSending ==
  SSSpec => [](CountersExact /\ OneWorkerPerConnection /\ FreedLast /\ CallbacksPaired)
  <1>1. SSInv => CountersExact /\ OneWorkerPerConnection /\ FreedLast /\ CallbacksPaired
    BY Consequences DEF SSInv
  <1> QED
    BY SSInductive, <1>1, PTL
=============================================================================
