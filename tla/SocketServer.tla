---------------------------- MODULE SocketServer ----------------------------
(***************************************************************************)
(* The epoll server of src/cc_conn.c: worker threads that accept and serve *)
(* connections from one epoll set, grow and shrink between minThreads and  *)
(* maxThreads, and the orderly shutdown that ends in free(qss).            *)
(*                                                                         *)
(* A section under g_spinlock is one step, except the thread creation of   *)
(* addQSSWorker, whose new thread runs before its parameter is complete.   *)
(* What a protocol handler does with a connection is one step: it reads a  *)
(* message, or end of file, and returns a code; the blocking send inside   *)
(* it is module BlockingSend.                                              *)
(***************************************************************************)
EXTENDS Integers, FiniteSets

CONSTANTS
    Workers,        \* identities for worker threads
    Main,           \* the thread that calls start- and shutdownSocketServer
    Sockets,        \* client connections
    minThreads, maxThreads,
    MaxData,        \* bound: messages a client sends
    MaxInterrupts,  \* bound: failures (-1) of epoll_wait
    MaxFailures,    \* bound: workers that malloc or pthread_create refuses
    None

ASSUME SocketServerAssumption ==
    /\ Main \notin Workers /\ None \notin Workers \cup Sockets \cup {Main}
    /\ IsFiniteSet(Workers) /\ IsFiniteSet(Sockets)
    /\ minThreads \in Nat \ {0} /\ maxThreads \in Nat /\ minThreads <= maxThreads
    /\ MaxData \in Nat /\ MaxInterrupts \in Nat /\ MaxFailures \in Nat

VARIABLES
    lifecycleStatus, workerCounter, currentBusyWorkers, CSocketsCounter,
    g_spinlock,     \* the thread inside the creation loop, or None
    todo,           \* workers that loop has still to create
    newborn,        \* the thread it has created and not yet counted, or None
    qss,            \* "live" or "freed"
    listener,       \* server_s: registered in epollFD, pending edge, shut down
    sock,           \* "unused", "backlog", "open", "leaked" or "closed"
    armed,          \* connections whose one-shot registration is armed
    rx, eof,        \* unread messages; end of file reached or socket shut down
    sent,           \* messages the client has sent (bounded by MaxData)
    told,           \* what cslifecb was told: 0 accepted, -1 closed
    pc, event,      \* per thread: position and qssEPEvent
    handleCode,     \* per worker: the handler's result is positive
    interrupts,     \* failures of epoll_wait
    failures,       \* workers that could not be created
    phantoms,       \* those of them that are counted all the same
    aborted         \* the process died of an undefined access

counters == <<lifecycleStatus, workerCounter, currentBusyWorkers, CSocketsCounter>>
creation == <<g_spinlock, todo, newborn>>
network  == <<listener, sock, armed, rx, eof, sent, told>>
locals   == <<event, handleCode>>
faults   == <<interrupts, failures, phantoms>>
vars == <<counters, creation, qss, network, pc, locals, faults, aborted>>

Threads == Workers \cup {Main}

Go(t, p) == pc' = [pc EXCEPT ![t] = p]

SpinFree == g_spinlock = None

-----------------------------------------------------------------------------
\* createSocketServer
Init ==
    /\ lifecycleStatus = 0 /\ workerCounter = 0
    /\ currentBusyWorkers = 0 /\ CSocketsCounter = 0
    /\ g_spinlock = None /\ todo = 0 /\ newborn = None
    /\ qss = "live"
    /\ listener = [registered |-> FALSE, edge |-> FALSE, down |-> FALSE]
    /\ sock = [s \in Sockets |-> "unused"] /\ armed = {}
    /\ rx = [s \in Sockets |-> 0] /\ eof = {} /\ sent = [s \in Sockets |-> 0]
    /\ told = [s \in Sockets |-> {}]
    /\ pc = [t \in Threads |-> IF t = Main THEN "idle" ELSE "none"]
    /\ event = [w \in Workers |-> None] /\ handleCode = [w \in Workers |-> FALSE]
    /\ interrupts = 0 /\ failures = 0 /\ phantoms = 0 /\ aborted = FALSE

-----------------------------------------------------------------------------
(* startSocketServer                                                         *)
StartCall ==
    /\ pc[Main] = "idle" /\ SpinFree /\ lifecycleStatus = 0
    /\ lifecycleStatus' = 1
    /\ Go(Main, "setup")
    /\ UNCHANGED <<workerCounter, currentBusyWorkers, CSocketsCounter, creation, qss,
                   network, locals, faults, aborted>>

\* socket, bind, listen, epoll_create1 or epoll_ctl fails: return 0
StartFail ==
    /\ pc[Main] = "setup"
    /\ Go(Main, "failed")
    /\ UNCHANGED <<counters, creation, qss, network, locals, faults, aborted>>

StartListen ==
    /\ pc[Main] = "setup"
    /\ listener' = [listener EXCEPT !.registered = TRUE]
    /\ Go(Main, "addcheck")
    /\ UNCHANGED <<counters, creation, qss, sock, armed, rx, eof, sent, told, locals,
                   faults, aborted>>

\* lifecycleStatus=2, written without the lock
StartDone ==
    /\ pc[Main] = "added"
    /\ lifecycleStatus' = 2
    /\ Go(Main, "up")
    /\ UNCHANGED <<workerCounter, currentBusyWorkers, CSocketsCounter, creation, qss,
                   network, locals, faults, aborted>>

-----------------------------------------------------------------------------
(* addQSSWorker(qss, addCounter)                                             *)
\* Mutant: one worker too few at the start.
addCounterLess(t) == IF t = Main THEN minThreads - 1 ELSE 1
addCounter(t) == IF t = Main THEN minThreads ELSE 1

\* where the caller of addQSSWorker continues
Added(t) == IF t = Main THEN "added" ELSE "handle"

\* the test before the lock
AddCheck(t) ==
    /\ pc[t] = "addcheck"
    /\ IF \/ workerCounter < minThreads
          \/ currentBusyWorkers = workerCounter /\ workerCounter < maxThreads
       THEN Go(t, "addlock") ELSE Go(t, Added(t))
    /\ UNCHANGED <<counters, creation, qss, network, locals, faults, aborted>>

\* Mutant: the limit is not tested again under the lock.
RoomUnchecked(n) == TRUE
\* the test under the lock
Room(n) == workerCounter + n <= maxThreads

AddLock(t) ==
    /\ pc[t] = "addlock" /\ SpinFree
    /\ IF Room(addCounter(t))
       THEN Go(t, "spawn") /\ g_spinlock' = t /\ todo' = addCounter(t)
       ELSE Go(t, Added(t)) /\ UNCHANGED <<g_spinlock, todo>>
    /\ UNCHANGED <<counters, newborn, qss, network, locals, faults, aborted>>

\* pthread_create: the new thread runs, pParam->qss is not yet set
Spawn(t) ==
    /\ pc[t] = "spawn"
    /\ \E w \in Workers :
          /\ pc[w] \in {"none", "gone"}
          /\ newborn' = w
          /\ pc' = [pc EXCEPT ![t] = "spawned", ![w] = "start"]
    /\ UNCHANGED <<counters, g_spinlock, todo, qss, network, locals, faults, aborted>>

\* the next round of the loop, or the unlock
NextRound(t) ==
    /\ todo' = todo - 1
    /\ IF todo = 1 THEN Go(t, Added(t)) /\ g_spinlock' = None
                   ELSE Go(t, "spawn") /\ UNCHANGED g_spinlock

\* malloc returns NULL, and the round is skipped; or pthread_create fails, which
\* nobody looks at, so that the worker is counted
SpawnFail(t) ==
    /\ pc[t] = "spawn" /\ failures < MaxFailures
    /\ failures' = failures + 1
    /\ \E n \in {0, 1} : phantoms' = phantoms + n /\ workerCounter' = workerCounter + n
    /\ NextRound(t)
    /\ UNCHANGED <<lifecycleStatus, currentBusyWorkers, CSocketsCounter, newborn, qss,
                   network, locals, interrupts, aborted>>

\* pParam->qss=qss; workerCounter++.
\* If the new thread has already freed pParam this writes to freed memory.
Spawned(t) ==
    /\ pc[t] = "spawned"
    /\ aborted' \in (IF pc[newborn] = "start" THEN {FALSE} ELSE BOOLEAN)
    /\ newborn' = None
    /\ workerCounter' = workerCounter + 1
    /\ NextRound(t)
    /\ UNCHANGED <<lifecycleStatus, currentBusyWorkers, CSocketsCounter, qss, network,
                   locals, faults>>

-----------------------------------------------------------------------------
(* epollWorkerRoutine                                                        *)

\* A thread that starts before pParam->qss is set reads an uninitialized
\* pointer: it dies, or finds the value an earlier parameter left there.
WorkerStart(w) ==
    /\ pc[w] = "start"
    /\ aborted' \in (IF newborn = w THEN BOOLEAN ELSE {FALSE})
    /\ Go(w, "poll")
    /\ UNCHANGED <<counters, creation, qss, network, locals, faults>>

ListenerReady == listener.registered /\ listener.edge
ReadyClients  == {s \in armed : rx[s] > 0 \/ s \in eof}

\* epoll_wait returns the (edge-triggered) listening socket
PollListener(w) ==
    /\ pc[w] = "poll" /\ ListenerReady
    /\ listener' = [listener EXCEPT !.edge = FALSE]
    /\ Go(w, "accept")
    /\ UNCHANGED <<counters, creation, qss, sock, armed, rx, eof, sent, told, locals,
                   faults, aborted>>

\* Mutant: EPOLLONESHOT is forgotten.
DisarmedNever(s) == armed
\* delivering a one-shot event disables the registration
Disarmed(s) == armed \ {s}

\* epoll_wait returns a connection
PollClient(w) ==
    /\ pc[w] = "poll"
    /\ \E s \in ReadyClients :
          /\ armed' = Disarmed(s)
          /\ event' = [event EXCEPT ![w] = s]
    /\ Go(w, "busy")
    /\ UNCHANGED <<counters, creation, qss, listener, sock, rx, eof, sent, told,
                   handleCode, faults, aborted>>

MayRetire == /\ lifecycleStatus <= 3 /\ currentBusyWorkers = 0
             /\ workerCounter > minThreads

\* epoll_wait times out: the test before the lock
PollTimeout(w) ==
    /\ pc[w] = "poll" /\ ~ListenerReady /\ ReadyClients = {}
    /\ Go(w, IF MayRetire THEN "retire"
             ELSE IF lifecycleStatus >= 4 THEN "exit" ELSE "poll")
    /\ UNCHANGED <<counters, creation, qss, network, locals, faults, aborted>>

\* Mutant: the second test, under the lock, is left out.
RetireUnchecked == TRUE
\* the test under the lock
RetireConfirmed == MayRetire

\* exitCode=2
Retire(w) ==
    /\ pc[w] = "retire" /\ SpinFree
    /\ IF RetireConfirmed
       THEN workerCounter' = workerCounter - 1 /\ Go(w, "gone")
       ELSE Go(w, "poll") /\ UNCHANGED workerCounter
    /\ UNCHANGED <<lifecycleStatus, currentBusyWorkers, CSocketsCounter, creation, qss,
                   network, locals, faults, aborted>>

\* epoll_wait fails, for instance interrupted by a signal: exitCode=1
PollError(w) ==
    /\ pc[w] = "poll" /\ interrupts < MaxInterrupts
    /\ interrupts' = interrupts + 1
    /\ Go(w, "exit")
    /\ UNCHANGED <<counters, creation, qss, network, locals, failures, phantoms, aborted>>

-----------------------------------------------------------------------------
(* onAcceptRoutine                                                           *)
Backlog == {s \in Sockets : sock[s] = "backlog"}

\* accept fails, because nobody is waiting, the socket is shut down or no
\* descriptor is left: the listening socket is taken out of the epoll set
AcceptFail(w) ==
    /\ pc[w] = "accept"
    /\ listener' = [listener EXCEPT !.registered = FALSE, !.edge = FALSE]
    /\ Go(w, "poll")
    /\ UNCHANGED <<counters, creation, qss, sock, armed, rx, eof, sent, told, locals,
                   faults, aborted>>

\* accept, setNonBlocking, keepalive options and EPOLL_CTL_ADD succeed, or one
\* of the later calls fails and the descriptor is leaked
Accept(w) ==
    /\ pc[w] = "accept" /\ ~listener.down
    /\ \E s \in Backlog :
          \/ /\ sock' = [sock EXCEPT ![s] = "open"]
             /\ armed' = armed \cup {s}
             /\ event' = [event EXCEPT ![w] = s]
             /\ Go(w, "count")
          \/ /\ sock' = [sock EXCEPT ![s] = "leaked"]
             /\ Go(w, "poll")
             /\ UNCHANGED <<armed, event>>
    /\ UNCHANGED <<counters, creation, qss, listener, rx, eof, sent, told, handleCode,
                   faults, aborted>>

\* Mutant: the counter of connections is not incremented.
CountForgotten == CSocketsCounter
CountedUp == CSocketsCounter + 1

\* CSocketsCounter++, after the connection is visible to the other workers;
\* then cslifecb(cs,0)
Count(w) ==
    /\ pc[w] = "count" /\ SpinFree
    /\ CSocketsCounter' = CountedUp
    /\ told' = [told EXCEPT ![event[w]] = @ \cup {0}]
    /\ event' = [event EXCEPT ![w] = None]
    /\ Go(w, "poll")
    /\ UNCHANGED <<lifecycleStatus, workerCounter, currentBusyWorkers, creation, qss,
                   listener, sock, armed, rx, eof, sent, handleCode, faults, aborted>>

-----------------------------------------------------------------------------
(* epollWorkerRoutine, a connection's event                                  *)
Busy(w) ==
    /\ pc[w] = "busy" /\ SpinFree
    /\ currentBusyWorkers' = currentBusyWorkers + 1
    /\ Go(w, "addcheck")
    /\ UNCHANGED <<lifecycleStatus, workerCounter, CSocketsCounter, creation, qss, network,
                   locals, faults, aborted>>

\* protoHandler: a message is read and answered, or recv or send fails
Handle(w) ==
    /\ pc[w] = "handle"
    /\ LET s == event[w] IN
          \/ /\ rx[s] > 0
             /\ rx' = [rx EXCEPT ![s] = @ - 1]
             /\ \E ok \in BOOLEAN : handleCode' = [handleCode EXCEPT ![w] = ok]
          \/ /\ rx[s] = 0
             /\ handleCode' = [handleCode EXCEPT ![w] = FALSE]
             /\ UNCHANGED rx
    /\ Go(w, "unbusy")
    /\ UNCHANGED <<counters, creation, qss, listener, sock, armed, eof, sent, told, event,
                   faults, aborted>>

\* Mutant: the busy counter is only decremented on success.
UnbusyOnSuccess(w) == IF handleCode[w] THEN currentBusyWorkers - 1 ELSE currentBusyWorkers
IdleAgain(w) == currentBusyWorkers - 1

Unbusy(w) ==
    /\ pc[w] = "unbusy" /\ SpinFree
    /\ currentBusyWorkers' = IdleAgain(w)
    /\ Go(w, IF handleCode[w] THEN "rearm" ELSE "close")
    /\ UNCHANGED <<lifecycleStatus, workerCounter, CSocketsCounter, creation, qss, network,
                   locals, faults, aborted>>

\* Mutant: the one-shot registration is not renewed.
RearmedNot(s) == armed
Rearmed(s) == armed \cup {s}

\* EPOLL_CTL_MOD arms the registration again, or fails
Rearm(w) ==
    /\ pc[w] = "rearm"
    /\ \/ /\ armed' = Rearmed(event[w])
          /\ event' = [event EXCEPT ![w] = None]
          /\ Go(w, "poll")
       \/ Go(w, "close") /\ UNCHANGED <<armed, event>>
    /\ UNCHANGED <<counters, creation, qss, listener, sock, rx, eof, sent, told,
                   handleCode, faults, aborted>>

\* Mutant: the close is not announced.
ToldNothing(s) == told[s]
ToldClosed(s) == told[s] \cup {-1}

\* cslifecb(cs,-1), EPOLL_CTL_DEL, close, free(qssEPEvent)
Close(w) ==
    /\ pc[w] = "close"
    /\ sock' = [sock EXCEPT ![event[w]] = "closed"]
    /\ armed' = armed \ {event[w]}
    /\ told' = [told EXCEPT ![event[w]] = ToldClosed(event[w])]
    /\ event' = [event EXCEPT ![w] = None]
    /\ Go(w, "uncount")
    /\ UNCHANGED <<counters, creation, qss, listener, rx, eof, sent, handleCode,
                   faults, aborted>>

\* --CSocketsCounter==0&&lifecycleStatus>=3
LastOne == CSocketsCounter - 1 = 0 /\ lifecycleStatus >= 3

Uncount(w) ==
    /\ pc[w] = "uncount" /\ SpinFree
    /\ CSocketsCounter' = CSocketsCounter - 1
    /\ IF LastOne
       THEN lifecycleStatus' = 4 /\ Go(w, "exit")
       ELSE UNCHANGED lifecycleStatus /\ Go(w, "poll")
    /\ UNCHANGED <<workerCounter, currentBusyWorkers, creation, qss, network, locals,
                   faults, aborted>>

\* Mutant: the first worker to leave cleans up.
CleanerFirst == lifecycleStatus >= 4
\* !--workerCounter&&lifecycleStatus>=4
Cleaner == workerCounter - 1 = 0 /\ lifecycleStatus >= 4

\* after the loop, exitCode other than 2
Exit(w) ==
    /\ pc[w] = "exit" /\ SpinFree
    /\ workerCounter' = workerCounter - 1
    /\ Go(w, IF Cleaner THEN "clearup" ELSE "gone")
    /\ UNCHANGED <<lifecycleStatus, currentBusyWorkers, CSocketsCounter, creation, qss,
                   network, locals, faults, aborted>>

\* close the epoll descriptors, destroy the lock, free(qss)
Clearup(w) ==
    /\ pc[w] = "clearup"
    /\ qss' = "freed"
    /\ Go(w, "gone")
    /\ UNCHANGED <<counters, creation, network, locals, faults, aborted>>

-----------------------------------------------------------------------------
(* shutdownSocketServer                                                      *)
ShutdownCall ==
    /\ pc[Main] = "up" /\ SpinFree /\ lifecycleStatus = 2
    /\ lifecycleStatus' = 3
    /\ Go(Main, "shutdown")
    /\ UNCHANGED <<workerCounter, currentBusyWorkers, CSocketsCounter, creation, qss,
                   network, locals, faults, aborted>>

\* shutdown server_s, then every socket descriptor of the process.  qss may
\* already be freed when server_s is read.
ShutdownSockets ==
    /\ pc[Main] = "shutdown"
    /\ aborted' \in (IF qss = "freed" THEN BOOLEAN ELSE {FALSE})
    /\ listener' = [listener EXCEPT !.down = TRUE, !.edge = listener.registered]
    /\ eof' = eof \cup {s \in Sockets : sock[s] \in {"open", "leaked"}}
    /\ Go(Main, "stopped")
    /\ UNCHANGED <<counters, creation, qss, sock, armed, rx, sent, told, locals, faults>>

-----------------------------------------------------------------------------
(* The clients (external)                                                    *)
Connect(s) ==
    /\ sock[s] = "unused" /\ ~listener.down
    /\ pc[Main] \notin {"idle", "setup", "failed"}
    /\ sock' = [sock EXCEPT ![s] = "backlog"]
    /\ listener' = [listener EXCEPT !.edge = listener.registered]
    /\ UNCHANGED <<counters, creation, qss, armed, rx, eof, sent, told, pc, locals,
                   faults, aborted>>

ClientSend(s) ==
    /\ sock[s] \in {"backlog", "open"} /\ s \notin eof /\ sent[s] < MaxData
    /\ rx' = [rx EXCEPT ![s] = @ + 1]
    /\ sent' = [sent EXCEPT ![s] = @ + 1]
    /\ UNCHANGED <<counters, creation, qss, listener, sock, armed, eof, told, pc, locals,
                   faults, aborted>>

ClientClose(s) ==
    /\ sock[s] \in {"backlog", "open"} /\ s \notin eof
    /\ eof' = eof \cup {s}
    /\ UNCHANGED <<counters, creation, qss, listener, sock, armed, rx, sent, told, pc,
                   locals, faults, aborted>>

\* a client gives up before it is accepted
ClientReset(s) ==
    /\ sock[s] = "backlog"
    /\ sock' = [sock EXCEPT ![s] = "closed"]
    /\ UNCHANGED <<counters, creation, qss, listener, armed, rx, eof, sent, told, pc,
                   locals, faults, aborted>>

-----------------------------------------------------------------------------
AddStep(t) == AddCheck(t) \/ AddLock(t) \/ Spawn(t) \/ SpawnFail(t) \/ Spawned(t)

\* all but the two steps that concern the sender
LoopStep(w) ==
    \/ WorkerStart(w) \/ PollListener(w) \/ PollClient(w) \/ PollTimeout(w) \/ Retire(w)
    \/ AcceptFail(w) \/ Accept(w) \/ Count(w) \/ Busy(w) \/ AddStep(w)
    \/ Unbusy(w) \/ Rearm(w) \/ Uncount(w) \/ Exit(w) \/ Clearup(w)

WorkerStep(w) == LoopStep(w) \/ Handle(w) \/ Close(w)

StartStep == StartFail \/ StartListen \/ AddStep(Main) \/ StartDone
MainStep == StartStep \/ ShutdownSockets

Client(s) == Connect(s) \/ ClientSend(s) \/ ClientClose(s) \/ ClientReset(s)

Next ==
    /\ ~aborted
    /\ \/ StartCall \/ MainStep \/ ShutdownCall
       \/ \E w \in Workers : WorkerStep(w) \/ PollError(w)
       \/ \E s \in Sockets : Client(s)

Spec == Init /\ [][Next]_vars

\* Threads are scheduled, and a handler returns (the blocking send gives up
\* after BLOCKING_SEND_TIMEOUT).  Nothing is assumed of clients, of calls of
\* the two functions, or of failures of epoll_wait.
Fairness ==
    /\ WF_vars(~aborted /\ MainStep)
    /\ \A w \in Workers : WF_vars(~aborted /\ WorkerStep(w))

FairSpec == Spec /\ Fairness

-----------------------------------------------------------------------------
(* Properties.                                                               *)
WorkerPcs == {"none", "start", "poll", "accept", "count", "busy", "addcheck",
    "addlock", "spawn", "spawned", "handle", "unbusy", "rearm", "close", "uncount",
    "retire", "exit", "clearup", "gone"}
MainPcs == {"idle", "setup", "failed", "addcheck", "addlock", "spawn", "spawned",
    "added", "up", "shutdown", "stopped"}

\* Every variable has its type.
TypeOK ==
    /\ lifecycleStatus \in 0..4 /\ workerCounter \in Int
    /\ currentBusyWorkers \in Int /\ CSocketsCounter \in Int
    /\ g_spinlock \in Threads \cup {None} /\ todo \in 0..maxThreads
    /\ newborn \in Workers \cup {None} /\ qss \in {"live", "freed"}
    /\ listener \in [registered : BOOLEAN, edge : BOOLEAN, down : BOOLEAN]
    /\ sock \in [Sockets -> {"unused", "backlog", "open", "leaked", "closed"}]
    /\ armed \subseteq Sockets /\ eof \subseteq Sockets
    /\ rx \in [Sockets -> Nat] /\ sent \in [Sockets -> 0..MaxData]
    /\ told \in [Sockets -> SUBSET {0, -1}]
    /\ pc \in [Threads -> WorkerPcs \cup MainPcs]
    /\ event \in [Workers -> Sockets \cup {None}]
    /\ handleCode \in [Workers -> BOOLEAN]
    /\ interrupts \in 0..MaxInterrupts /\ aborted \in BOOLEAN
    /\ failures \in 0..MaxFailures /\ phantoms \in 0..failures

At(P) == {w \in Workers : pc[w] \in P}

\* currentBusyWorkers is the number of workers between line 400 and line 407.
BusyCounted ==
    currentBusyWorkers =
        Cardinality(At({"addcheck", "addlock", "spawn", "spawned", "handle", "unbusy"}))

\* Idle workers retire "until qss->workerCounter decrease to qss->minThreads"
\* (line 426): while the server runs it keeps minThreads workers, unless
\* epoll_wait has failed or a worker could not be created.
MinimumKept ==
    lifecycleStatus \in {2, 3} /\ interrupts = 0 /\ failures = 0 => workerCounter >= minThreads

\* CSocketsCounter counts the registered connections, except that it runs
\* behind by those being accepted and ahead by those being closed.
SocketsCounted ==
    CSocketsCounter = Cardinality({s \in Sockets : sock[s] = "open"})
                      - Cardinality(At({"count"})) + Cardinality(At({"uncount"}))

\* workerCounter is the number of worker threads (the one being created is
\* counted a moment later), plus those that pthread_create refused, and never
\* exceeds maxThreads, although the first test of addQSSWorker reads it without
\* the lock; currentBusyWorkers and CSocketsCounter count what they name, and
\* retirement stops at minThreads.
CountersExact ==
    /\ TypeOK
    /\ workerCounter = Cardinality(Workers \ At({"none", "gone", "clearup"}))
                       - (IF newborn = None THEN 0 ELSE 1) + phantoms
    /\ workerCounter <= maxThreads
    /\ BusyCounted /\ SocketsCounted /\ MinimumKept

\* EPOLLONESHOT gives a connection to one worker at a time: the QSSEPollEvent
\* a worker uses is not armed, not used by another worker and not freed.
Serving == {"busy", "addcheck", "addlock", "spawn", "spawned", "handle", "unbusy",
            "rearm", "close"}
OneWorkerPerConnection ==
    \A w \in At(Serving) :
        /\ sock[event[w]] = "open" /\ event[w] \notin armed
        /\ \A v \in At(Serving) : event[v] = event[w] => v = w

\* free(qss) happens when no worker thread is left that could use it.
FreedLast == qss = "freed" => At({"none", "gone"}) = Workers

\* Unless a worker is still between EPOLL_CTL_ADD and cslifecb(cs,0), the
\* application has been told of every connection exactly what happened to it:
\* an open one was announced, one the server closed was announced and closed.
\* (In between, OnClose may reach the application before OnAccepted.)
CallbacksPaired ==
    \A s \in Sockets : (\A w \in At({"count"}) : event[w] # s) =>
        /\ sock[s] = "open" => told[s] = {0}
        /\ sock[s] = "closed" => told[s] \in {{}, {0, -1}}

\* A message on an open connection is read by a worker, however many workers
\* retire meanwhile, unless the connection is closed, the workers have been
\* told to exit (a connection accepted between lines 192 and 199 is then left
\* open), epoll_wait failed or a worker could not be created (one that is
\* counted and does not exist lets the others retire).
DataServed ==
    \A s \in Sockets : (sock[s] = "open" /\ rx[s] > 0) ~>
        \/ sock[s] = "closed" \/ rx[s] = 0
        \/ lifecycleStatus = 4 \/ interrupts > 0 \/ failures > 0 \/ aborted

\* A shutdown that finds a counted connection, and none half accepted, is
\* completed: the last worker frees the server.
ShutdownCompletes ==
    (lifecycleStatus = 3 /\ CSocketsCounter >= 1 /\ At({"count"}) = {}) ~>
        (qss = "freed" \/ interrupts > 0 \/ failures > 0 \/ aborted)

\* The life cycle of cc_conn.h:86, "3-stopping,4-exitSignaled": a server that
\* is stopping comes to signal its workers to exit.
StoppingSignalsExit ==
    lifecycleStatus = 3 ~> (lifecycleStatus = 4 \/ aborted)
=============================================================================
