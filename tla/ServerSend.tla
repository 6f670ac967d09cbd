----------------------------- MODULE ServerSend -----------------------------
(***************************************************************************)
(* The socket server with its blocking sends: SocketServer, in which the   *)
(* handler is one step, and BlockingSend, in which the connections are     *)
(* given, put together.  The handler of a worker receives a message and    *)
(* calls internalBlockingSender to answer it; the worker stays in the      *)
(* handler, counted as busy, until the sender returns; the event that the  *)
(* sender, the epoller and the other workers share is freed by Close.      *)
(*                                                                         *)
(* Nothing is assumed of the epoller but that it gives back a lock it has  *)
(* taken: its thread may not have been created, or have ended.             *)
(***************************************************************************)
EXTENDS SocketServer

CONSTANTS Capacity, MaxChunks, MaxCalls, Epoller

VARIABLES space, nbs, left, ret, calls, related, writable, lock, flag, spc, freed, batch,
          current, running, unsignalled, stale,
          epoller   \* in epoll_wait ("in") or outside ("out")

B == INSTANCE BlockingSend WITH Conns <- Sockets

sending == <<space, nbs, left, ret, calls, related, writable, lock, flag, spc, freed, batch,
             current, running, unsignalled, stale>>
allVars == <<vars, sending, epoller>>
others == <<sending, epoller>>
serverVars == <<counters, creation, qss, network, pc, locals, faults>>

SSInit == Init /\ B!Init /\ epoller = "out"

-----------------------------------------------------------------------------
(* The worker in its handler.                                                *)

\* recv returns a message, which is answered
Receive(w) ==
    /\ pc[w] = "handle" /\ spc[event[w]] = "idle" /\ rx[event[w]] > 0
    /\ rx' = [rx EXCEPT ![event[w]] = @ - 1]
    /\ B!SendCall(event[w])
    /\ UNCHANGED <<counters, creation, qss, listener, sock, armed, eof, sent, told, pc,
                   locals, faults, epoller>>

\* recv returns 0 or -1
ReceiveNothing(w) ==
    /\ pc[w] = "handle" /\ spc[event[w]] = "idle" /\ rx[event[w]] = 0
    /\ Handle(w)
    /\ UNCHANGED others

\* ret>0
Result(s) == ret[s] > 0

SendReturns(w) ==
    /\ pc[w] = "handle" /\ B!Return(event[w])
    /\ handleCode' = [handleCode EXCEPT ![w] = Result(event[w])]
    /\ Go(w, "unbusy")
    /\ UNCHANGED <<counters, creation, qss, network, event, faults, epoller>>

Sending(w) ==
    /\ pc[w] = "handle"
    /\ B!Sending(event[w]) \/ B!Waiting(event[w]) \/ B!WaitEnds(event[w], -1)
    /\ UNCHANGED serverVars /\ UNCHANGED epoller

\* bound: a connection's wait ends spuriously at most once
Spurious(s) ==
    /\ s \notin unsignalled /\ B!WaitEnds(s, 0)
    /\ UNCHANGED serverVars /\ UNCHANGED epoller

CloseBoth(w) == Close(w) /\ B!CloseEvent(event[w]) /\ UNCHANGED epoller

\* a socket that is shut down is reported for EPOLLOUT
RoomAfterShutdown(s) == IF sock[s] \in {"open", "leaked"} THEN Capacity ELSE space[s]

ShutdownBoth ==
    /\ ShutdownSockets
    /\ space' = [s \in Sockets |-> RoomAfterShutdown(s)]
    /\ UNCHANGED <<nbs, left, ret, calls, related, writable, lock, flag, spc, freed, batch,
                   current, running, unsignalled, stale, epoller>>

\* the epoller, and the peer that reads
EpollerSignal ==
    /\ \E s \in Sockets : B!Signal(s)
    /\ UNCHANGED epoller /\ UNCHANGED serverVars
Outside ==
    /\ UNCHANGED epoller
    /\ \E s \in Sockets : B!SignalLock(s) \/ B!Drain(s)
    /\ UNCHANGED serverVars

\* The epoller reads qss->BSendEpollFD before each epoll_wait.  When qss is
\* freed this is undefined; at best the descriptor is closed and it ends.
EpollEnter ==
    /\ running /\ epoller = "out" /\ batch = {} /\ current = None
    /\ pc[Main] \notin {"idle", "setup", "failed"}
    /\ epoller' = IF qss = "freed" THEN "out" ELSE "in"
    /\ running' = (qss # "freed")
    /\ aborted' \in (IF qss = "freed" THEN BOOLEAN ELSE {FALSE})
    /\ UNCHANGED <<serverVars, space, nbs, left, ret, calls, related, writable, lock, flag, spc,
                   freed, batch, current, unsignalled, stale>>

EpollReport ==
    /\ epoller = "in" /\ epoller' = "out"
    /\ B!EpollWait \/ B!EpollFails
    /\ UNCHANGED serverVars

-----------------------------------------------------------------------------
SSWorker(w) ==
    \/ LoopStep(w) /\ UNCHANGED others
    \/ Receive(w) \/ ReceiveNothing(w) \/ SendReturns(w) \/ Sending(w) \/ CloseBoth(w)

SSMain == (StartStep /\ UNCHANGED others) \/ ShutdownBoth

SSNext ==
    /\ ~aborted
    /\ \/ (StartCall \/ ShutdownCall) /\ UNCHANGED others
       \/ SSMain
       \/ \E w \in Workers : SSWorker(w) \/ (PollError(w) /\ UNCHANGED others)
       \/ \E s \in Sockets : (Client(s) /\ UNCHANGED others) \/ Spurious(s)
       \/ EpollerSignal \/ Outside \/ EpollEnter \/ EpollReport

\* Threads are scheduled, the timeout of the sender's wait expires, and the
\* epoller does not stop between lock and unlock.
SSSpec ==
    /\ SSInit /\ [][SSNext]_allVars
    /\ WF_allVars(~aborted /\ SSMain) /\ WF_allVars(~aborted /\ EpollerSignal)
    /\ \A w \in Workers : WF_allVars(~aborted /\ SSWorker(w))

-----------------------------------------------------------------------------
(* Properties.                                                               *)

\* What BlockingSend takes for granted: a connection has one sender, it runs in
\* the one worker that holds the connection, and until it has returned neither
\* the event with its lock nor the server with BSendEpollFD is freed, whatever
\* the other workers, the clients and shutdownSocketServer do.
SenderOwnsConnection ==
    \A s \in Sockets : spc[s] \notin {"idle", "close", "closed"} =>
        /\ \E w \in At({"handle"}) : event[w] = s
        /\ \A v, w \in At(Serving) : event[v] = s /\ event[w] = s => v = w
        /\ s \notin freed /\ s \notin armed /\ sock[s] = "open" /\ qss = "live"

\* DataServed and ShutdownCompletes of SocketServer, which takes it for granted
\* that a handler returns, are checked here with handlers that block in a send
\* to a peer that does not read, until the send times out.
=============================================================================
