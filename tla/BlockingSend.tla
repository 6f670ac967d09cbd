---------------------------- MODULE BlockingSend ----------------------------
(***************************************************************************)
(* internalBlockingSender and blockingSendEpollerRoutine of src/cc_conn.c: *)
(* a worker whose non-blocking socket is full registers it for EPOLLOUT in *)
(* BSendEpollFD and sleeps on the condition variable of the connection     *)
(* until the epoller thread signals it or BLOCKING_SEND_TIMEOUT passes.    *)
(* One worker at a time serves a connection (OneWorkerPerConnection of     *)
(* SocketServer), so the sender of connection c is called c too.           *)
(***************************************************************************)
EXTENDS Integers

CONSTANTS
    Conns,
    Capacity,   \* room of a socket's send buffer, in chunks
    MaxChunks,  \* bound: chunks of one message
    MaxCalls,   \* bound: calls of the sender per connection
    Epoller, None

ASSUME BlockingSendAssumption ==
    /\ Capacity \in Nat \ {0} /\ MaxChunks \in Nat \ {0} /\ MaxCalls \in Nat
    /\ Epoller \notin Conns /\ None \notin Conns \cup {Epoller}

VARIABLES
    space,      \* free room in the send buffer of each socket
    nbs,        \* chunks of the running call's message
    left,       \* nbs-sum of the running call
    ret,        \* the sender's variable ret: 1 (any positive value), 0 or -1
    calls,
    related,    \* connections with BSendEpollFDRelated
    writable,   \* EPOLLOUT registration in BSendEpollFD: "none", "armed", "fired"
    lock,       \* holder of writableLock: the sender c, Epoller or None
    flag,       \* the sender's variable flag
    spc,        \* position of the sender
    freed,      \* QSSEPollEvents that have been freed
    batch,      \* epEvents the epoller has still to signal
    current,    \* the event the epoller holds locked
    running,    \* the epoller's thread exists
    unsignalled,\* connections on which a wait ended without a signal
    stale,      \* freed events that the epoller used
    aborted

epollerVars == <<batch, current, running, stale, aborted>>
senderVars == <<space, nbs, left, ret, calls, related, flag>>
vars == <<senderVars, writable, lock, spc, freed, epollerVars, unsignalled>>

Init ==
    /\ space = [c \in Conns |-> Capacity]
    /\ nbs = [c \in Conns |-> 0] /\ left = [c \in Conns |-> 0]
    /\ ret = [c \in Conns |-> 1] /\ calls = [c \in Conns |-> 0]
    /\ related = {} /\ writable = [c \in Conns |-> "none"]
    /\ lock = [c \in Conns |-> None] /\ flag = [c \in Conns |-> 0]
    /\ spc = [c \in Conns |-> "idle"] /\ freed = {}
    /\ batch = {} /\ current = None /\ unsignalled = {} /\ stale = {} /\ aborted = FALSE
    /\ running \in BOOLEAN   \* nobody looks at the result of pthread_create

Go(c, p) == spc' = [spc EXCEPT ![c] = p]

-----------------------------------------------------------------------------
(* internalBlockingSender                                                    *)
SendCall(c) ==
    /\ spc[c] = "idle" /\ calls[c] < MaxCalls
    /\ calls' = [calls EXCEPT ![c] = @ + 1]
    /\ \E n \in 0..MaxChunks :
          nbs' = [nbs EXCEPT ![c] = n] /\ left' = [left EXCEPT ![c] = n]
    /\ ret' = [ret EXCEPT ![c] = 0]
    /\ Go(c, "send")
    /\ UNCHANGED <<space, related, flag, writable, lock, freed, epollerVars, unsignalled>>

\* Mutant: every send offers the whole message.
OfferedWhole(c) == MaxChunks
\* nbs-sum
Offered(c) == left[c]

\* send accepts part of what is left
Send(c) ==
    /\ spc[c] = "send" /\ left[c] > 0
    /\ \E n \in 1..Offered(c) :
          /\ n <= space[c]
          /\ left' = [left EXCEPT ![c] = @ - n]
          /\ space' = [space EXCEPT ![c] = @ - n]
    /\ ret' = [ret EXCEPT ![c] = 1]
    /\ UNCHANGED <<nbs, calls, related, flag, writable, lock, spc, freed, epollerVars, unsignalled>>

\* sum==nbs
AllSent(c) == left[c] = 0

SendDone(c) ==
    /\ spc[c] = "send" /\ AllSent(c)
    /\ Go(c, "returned")
    /\ UNCHANGED <<senderVars, writable, lock, freed, epollerVars, unsignalled>>

\* send returns 0, or -1 with an error other than EAGAIN
SendError(c) ==
    /\ spc[c] = "send" /\ left[c] > 0
    /\ \E r \in {0, -1} : ret' = [ret EXCEPT ![c] = r]
    /\ Go(c, "returned")
    /\ UNCHANGED <<space, nbs, left, calls, related, flag, writable, lock, freed, epollerVars, unsignalled>>

\* EAGAIN; the lock and the condition variable are initialized the first time
SendFull(c) ==
    /\ spc[c] = "send" /\ left[c] > 0 /\ space[c] = 0
    /\ ret' = [ret EXCEPT ![c] = -1]
    /\ flag' = [flag EXCEPT ![c] = 0]
    /\ related' = related \cup {c}
    /\ Go(c, "lock")
    /\ UNCHANGED <<space, nbs, left, calls, writable, lock, freed, epollerVars, unsignalled>>

LockWritable(c) ==
    /\ spc[c] = "lock" /\ lock[c] = None
    /\ lock' = [lock EXCEPT ![c] = c]
    /\ Go(c, "register")
    /\ UNCHANGED <<senderVars, writable, freed, epollerVars, unsignalled>>

\* EPOLL_CTL_ADD the first time, EPOLL_CTL_MOD later, under writableLock
Register(c) ==
    /\ spc[c] = "register"
    /\ \/ /\ writable' = [writable EXCEPT ![c] = "armed"]
          /\ Go(c, "wait")
          /\ UNCHANGED flag
       \/ /\ flag' = [flag EXCEPT ![c] = -1]
          /\ Go(c, "unlock")
          /\ UNCHANGED writable
    /\ UNCHANGED <<space, nbs, left, ret, calls, related, lock, freed, epollerVars, unsignalled>>

\* Mutant: the sender sleeps without giving the lock back.
KeepLock(c) == lock
\* pthread_cond_timedwait releases writableLock as it falls asleep
ReleaseToSleep(c) == [lock EXCEPT ![c] = None]

TimedWait(c) ==
    /\ spc[c] = "wait"
    /\ lock' = ReleaseToSleep(c)
    /\ Go(c, "waiting")
    /\ UNCHANGED <<senderVars, writable, freed, epollerVars, unsignalled>>

\* the wait ends without a signal: ETIMEDOUT, or spuriously with 0
WaitEnds(c, err) ==
    /\ spc[c] = "waiting"
    /\ flag' = [flag EXCEPT ![c] = err]
    /\ unsignalled' = unsignalled \cup {c}
    /\ Go(c, "relock")
    /\ UNCHANGED <<space, nbs, left, ret, calls, related, writable, lock, freed, epollerVars>>

Relock(c) ==
    /\ spc[c] = "relock" /\ lock[c] = None
    /\ lock' = [lock EXCEPT ![c] = c]
    /\ Go(c, "unlock")
    /\ UNCHANGED <<senderVars, writable, freed, epollerVars, unsignalled>>

\* Mutant: a timeout is reported as success.
TimeoutIgnored(c) == 1
\* ret is still the -1 of the failed send
GaveUp(c) == ret[c]

\* unlock, then leave the loop if flag==-1
UnlockWritable(c) ==
    /\ spc[c] = "unlock"
    /\ lock' = [lock EXCEPT ![c] = None]
    /\ IF flag[c] = -1
       THEN Go(c, "returned") /\ ret' = [ret EXCEPT ![c] = GaveUp(c)]
       ELSE Go(c, "send") /\ UNCHANGED ret
    /\ UNCHANGED <<space, nbs, left, calls, related, flag, writable, freed, epollerVars, unsignalled>>

\* handleCode>0
Served(c) == ret[c] > 0

\* back in epollWorkerRoutine: serve on, or go and close the connection
Return(c) ==
    /\ spc[c] = "returned"
    /\ Go(c, IF Served(c) THEN "idle" ELSE "close")
    /\ UNCHANGED <<senderVars, writable, lock, freed, epollerVars, unsignalled>>

\* The worker deletes both registrations, closes the socket and frees the event,
\* after a failed send or because the peer closed the connection.
CloseEvent(c) ==
    /\ spc[c] \in {"idle", "close"}
    /\ Go(c, "closed")
    /\ writable' = [writable EXCEPT ![c] = "none"]
    /\ freed' = freed \cup {c}
    /\ UNCHANGED <<senderVars, lock, epollerVars, unsignalled>>

-----------------------------------------------------------------------------
(* blockingSendEpollerRoutine                                                *)
Reported == {c \in Conns : writable[c] = "armed" /\ space[c] > 0}

\* Mutant: EPOLLONESHOT is forgotten.
Persistent == "armed"
\* a one-shot registration is disabled by its event
OneShot == "fired"

\* epoll_wait returns some of the writable connections
EpollWait ==
    /\ running /\ batch = {} /\ current = None
    /\ \E B \in SUBSET Reported \ {{}} :
          /\ batch' = B
          /\ writable' = [c \in Conns |-> IF c \in B THEN OneShot ELSE writable[c]]
    /\ UNCHANGED <<senderVars, lock, spc, freed, current, running, stale, unsignalled, aborted>>

\* epoll_wait returns -1 and the thread ends
EpollFails ==
    /\ running /\ batch = {} /\ current = None
    /\ running' = FALSE
    /\ UNCHANGED <<senderVars, writable, lock, spc, freed, batch, current, stale, unsignalled,
                   aborted>>

\* Mutant: the epoller signals without taking the lock.
SignalUnlocked(c) == TRUE
SignalLockFree(c) == lock[c] = None

\* an event that the worker has freed may be used without harm, or end the process
UseEvent(c) ==
    /\ stale' = (IF c \in freed THEN stale \cup {c} ELSE stale)
    /\ aborted' \in (IF c \in freed THEN BOOLEAN ELSE {FALSE})

\* pthread_mutex_lock on the event's lock; the event may have been freed
SignalLock(c) ==
    /\ c \in batch /\ current = None
    /\ SignalLockFree(c)
    /\ batch' = batch \ {c}
    /\ UseEvent(c)
    /\ current' = c
    /\ lock' = [lock EXCEPT ![c] = Epoller]
    /\ UNCHANGED <<senderVars, writable, spc, freed, running, unsignalled>>

\* Mutant: the signal is forgotten.
WokenNot(c) == spc
\* pthread_cond_signal
Woken(c) == IF spc[c] = "waiting" THEN [spc EXCEPT ![c] = "relock"] ELSE spc

\* signal and unlock
Signal(c) ==
    /\ current = c
    /\ UseEvent(c)
    /\ spc' = Woken(c)
    /\ lock' = [lock EXCEPT ![c] = None]
    /\ current' = None
    /\ UNCHANGED <<senderVars, writable, freed, batch, running, unsignalled>>

\* the peer reads: room appears in the send buffer (external)
Drain(c) ==
    /\ space[c] < Capacity
    /\ space' = [space EXCEPT ![c] = @ + 1]
    /\ UNCHANGED <<nbs, left, ret, calls, related, flag, writable, lock, spc, freed, epollerVars, unsignalled>>

-----------------------------------------------------------------------------
Sending(c) == Send(c) \/ SendDone(c) \/ SendError(c) \/ SendFull(c)
Waiting(c) == LockWritable(c) \/ Register(c) \/ TimedWait(c) \/ Relock(c) \/ UnlockWritable(c)
SenderStep(c) == Sending(c) \/ Waiting(c) \/ Return(c) \/ (spc[c] = "close" /\ CloseEvent(c))
EpollerStep == EpollWait \/ \E c \in Conns : SignalLock(c) \/ Signal(c)

Next ==
    /\ ~aborted
    /\ \/ EpollerStep \/ EpollFails
       \/ \E c \in Conns : \/ SendCall(c) \/ SenderStep(c) \/ CloseEvent(c) \/ Drain(c)
                           \/ WaitEnds(c, 0) \/ WaitEnds(c, -1)

Spec == Init /\ [][Next]_vars

\* Both threads are scheduled.  Nothing is assumed of the peer, nor that the
\* epoller's thread exists.
Scheduled == /\ WF_vars(~aborted /\ EpollerStep)
             /\ \A c \in Conns : WF_vars(~aborted /\ SenderStep(c))
FairSpec == Spec /\ Scheduled

-----------------------------------------------------------------------------
(* Properties.                                                               *)

\* Every variable has its type.
TypeOK ==
    /\ space \in [Conns -> 0..Capacity]
    /\ nbs \in [Conns -> 0..MaxChunks] /\ left \in [Conns -> 0..MaxChunks]
    /\ ret \in [Conns -> {-1, 0, 1}] /\ calls \in [Conns -> 0..MaxCalls]
    /\ related \subseteq Conns /\ writable \in [Conns -> {"none", "armed", "fired"}]
    /\ lock \in [Conns -> Conns \cup {Epoller, None}] /\ flag \in [Conns -> {0, -1}]
    /\ spc \in [Conns -> {"idle", "send", "lock", "register", "wait", "waiting",
                          "relock", "unlock", "returned", "close", "closed"}]
    /\ freed \subseteq Conns /\ batch \subseteq Conns
    /\ current \in Conns \cup {None} /\ stale \subseteq freed /\ unsignalled \subseteq Conns
    /\ running \in BOOLEAN /\ aborted \in BOOLEAN

\* A positive result means that the whole message was handed to the kernel,
\* and only then: a partial send followed by a timeout is an error.  An empty
\* message returns 0, as an error of send does.
PositiveMeansAll ==
    TypeOK /\ \A c \in Conns :
        spc[c] = "returned" => (ret[c] > 0 <=> left[c] = 0 /\ nbs[c] > 0)

\* The wakeup cannot be lost: while a sender sleeps its connection is armed
\* for EPOLLOUT, or the epoller has the event and is still going to signal.  (An
\* epoller that has ended reports nothing any more: only the timeout is left.)
NoLostSignal ==
    \A c \in Conns : spc[c] \in {"wait", "waiting"} =>
        writable[c] = "armed" \/ c \in batch \/ current = c

\* The epoller uses a freed event only if a wait on that connection had ended
\* without its signal, by timeout or spuriously.  A wait that the epoller ended
\* is never followed by another use of the event by it, however soon the worker
\* closes the connection.
StaleOnlyUnsignalled == stale \subseteq unsignalled

\* A sender sleeping on a connection that has room again is woken without the
\* help of its timeout, as long as the epoller's thread lives.
RoomWakesSender ==
    \A c \in Conns : (spc[c] = "waiting" /\ space[c] > 0) ~>
        (spc[c] # "waiting" \/ aborted \/ ~running)

\* The timeout of pthread_cond_timedwait expires, and a wait does not end
\* spuriously for ever (each round of the loop starts a new timeout).
Timely(c) == WF_vars(~aborted /\ WaitEnds(c, -1)) /\ <>[][~WaitEnds(c, 0)]_vars

\* internalBlockingSender returns, even if the peer never reads: with waits
\* that time out, every call comes to its end.
SenderReturns ==
    (\A c \in Conns : Timely(c)) =>
        \A c \in Conns : spc[c] = "send" ~> (spc[c] = "returned" \/ aborted)
=============================================================================
