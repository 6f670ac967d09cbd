------------------------- MODULE BlockingSendProofs -------------------------
(***************************************************************************)
(* Proofs about BlockingSend for any connections, buffer sizes and message *)
(* lengths.                                                                *)
(***************************************************************************)
EXTENDS BlockingSend, TLAPS

\* writableLock: the sender holds it between lock and unlock, except while it
\* sleeps; the epoller holds it exactly for the event it is signalling.
LockInv ==
    \A c \in Conns :
        /\ lock[c] \in {c, Epoller, None}
        /\ lock[c] = c <=> spc[c] \in {"register", "wait", "unlock"}
        /\ lock[c] = Epoller <=> current = c

\* ret: a sender that met a full buffer has something left and the error of
\* its last send; one that has nothing left has the result of a send that did.
RetInv ==
    \A c \in Conns :
        /\ spc[c] \in {"lock", "register", "wait", "waiting", "relock", "unlock"} =>
              left[c] > 0 /\ ret[c] = -1
        /\ left[c] > 0 => nbs[c] > 0
        /\ spc[c] = "send" /\ left[c] = 0 => (IF nbs[c] > 0 THEN ret[c] = 1 ELSE ret[c] = 0)
        /\ spc[c] = "returned" => (ret[c] > 0 <=> left[c] = 0 /\ nbs[c] > 0)

\* Until a wait of the connection ends without its signal, the epoller is to
\* signal it once at most, and only while the sender is at its wait.
PendingInv ==
    \A c \in Conns : c \notin unsignalled =>
        /\ spc[c] \notin {"wait", "waiting"} =>
              writable[c] # "armed" /\ c \notin batch /\ current # c
        /\ writable[c] = "armed" => c \notin batch /\ current # c
        /\ c \in batch => current # c

\* A freed event belongs to a closed connection.
FreedInv == \A c \in Conns : c \in freed <=> spc[c] = "closed"

IInv == /\ TypeOK /\ LockInv /\ RetInv /\ NoLostSignal /\ PendingInv /\ FreedInv
        /\ StaleOnlyUnsignalled

-----------------------------------------------------------------------------
\* The invariant holds before anybody sends.
LEMMA InitInv == Init => IInv
  <1> SUFFICES ASSUME Init PROVE IInv
      OBVIOUS
  <1> USE BlockingSendAssumption DEF Init
  <1>0. stale \subseteq freed /\ aborted \in BOOLEAN /\ running \in BOOLEAN
    OBVIOUS
  <1>1. TypeOK
    BY <1>0 DEF TypeOK
  <1>2. LockInv /\ RetInv /\ PendingInv
    BY DEF LockInv, RetInv, PendingInv
  <1>3. NoLostSignal /\ FreedInv /\ StaleOnlyUnsignalled
    BY DEF NoLostSignal, FreedInv, StaleOnlyUnsignalled
  <1> QED
    BY <1>1, <1>2, <1>3 DEF IInv

USE DEF epollerVars, senderVars, Go, Offered, AllSent, ReleaseToSleep, GaveUp, Served,
        OneShot, SignalLockFree, Woken

\* Every step keeps the types.
LEMMA TypeStep == IInv /\ Next => TypeOK'
  <1> SUFFICES ASSUME IInv, Next PROVE TypeOK'
      OBVIOUS
  <1> USE BlockingSendAssumption DEF IInv, TypeOK
  <1>1. CASE EpollWait \/ EpollFails
    BY <1>1 DEF EpollWait, EpollFails, Reported
  <1>2. ASSUME NEW c \in Conns, SignalLock(c) PROVE TypeOK'
    BY <1>2 DEF SignalLock, UseEvent
  <1>3. ASSUME NEW c \in Conns, Signal(c) PROVE TypeOK'
    BY <1>3 DEF Signal, UseEvent
  <1>4. ASSUME NEW c \in Conns, SendCall(c) PROVE TypeOK'
    BY <1>4 DEF SendCall
  <1>5. ASSUME NEW c \in Conns, Sending(c) PROVE TypeOK'
    BY <1>5 DEF Sending, Send, SendDone, SendError, SendFull
  <1>6. ASSUME NEW c \in Conns, Waiting(c) PROVE TypeOK'
    BY <1>6 DEF Waiting, LockWritable, Register, TimedWait, Relock, UnlockWritable
  <1>7. ASSUME NEW c \in Conns, Return(c) \/ CloseEvent(c) PROVE TypeOK'
    BY <1>7 DEF Return, CloseEvent
  <1>8. ASSUME NEW c \in Conns, Drain(c) PROVE TypeOK'
    BY <1>8 DEF Drain
  <1>9. ASSUME NEW c \in Conns, NEW e \in {0, -1}, WaitEnds(c, e) PROVE TypeOK'
    BY <1>9 DEF WaitEnds
  <1> QED
    BY <1>1, <1>2, <1>3, <1>4, <1>5, <1>6, <1>7, <1>8, <1>9
    DEF Next, EpollerStep, SenderStep

\* The lock changes hands only where it is free.
LEMMA LockStep == IInv /\ Next => LockInv'
  <1> SUFFICES ASSUME IInv, Next PROVE LockInv'
      OBVIOUS
  <1> USE BlockingSendAssumption DEF IInv, TypeOK, LockInv
  <1>1. CASE EpollWait \/ EpollFails
    BY <1>1 DEF EpollWait, EpollFails, Reported
  <1>2. ASSUME NEW c \in Conns, SignalLock(c) PROVE LockInv'
    BY <1>2 DEF SignalLock
  <1>3. ASSUME NEW c \in Conns, Signal(c) PROVE LockInv'
    BY <1>3 DEF Signal
  <1>4. ASSUME NEW c \in Conns, SendCall(c) PROVE LockInv'
    BY <1>4 DEF SendCall
  <1>5. ASSUME NEW c \in Conns, Sending(c) PROVE LockInv'
    BY <1>5 DEF Sending, Send, SendDone, SendError, SendFull
  <1>6. ASSUME NEW c \in Conns, Waiting(c) PROVE LockInv'
    BY <1>6 DEF Waiting, LockWritable, Register, TimedWait, Relock, UnlockWritable
  <1>7. ASSUME NEW c \in Conns, Return(c) \/ CloseEvent(c) PROVE LockInv'
    BY <1>7 DEF Return, CloseEvent
  <1>8. ASSUME NEW c \in Conns, Drain(c) PROVE LockInv'
    BY <1>8 DEF Drain
  <1>9. ASSUME NEW c \in Conns, NEW e \in {0, -1}, WaitEnds(c, e) PROVE LockInv'
    BY <1>9 DEF WaitEnds
  <1> QED
    BY <1>1, <1>2, <1>3, <1>4, <1>5, <1>6, <1>7, <1>8, <1>9
    DEF Next, EpollerStep, SenderStep

\* The result and what is left agree after every step.
LEMMA RetStep == IInv /\ Next => RetInv'
  <1> SUFFICES ASSUME IInv, Next PROVE RetInv'
      OBVIOUS
  <1> USE BlockingSendAssumption DEF IInv, TypeOK, RetInv
  <1>1. CASE EpollWait \/ EpollFails
    BY <1>1 DEF EpollWait, EpollFails, Reported
  <1>2. ASSUME NEW c \in Conns, SignalLock(c) PROVE RetInv'
    BY <1>2 DEF SignalLock
  <1>3. ASSUME NEW c \in Conns, Signal(c) PROVE RetInv'
    BY <1>3 DEF Signal
  <1>4. ASSUME NEW c \in Conns, SendCall(c) PROVE RetInv'
    BY <1>4 DEF SendCall
  <1>5. ASSUME NEW c \in Conns, Sending(c) PROVE RetInv'
    BY <1>5 DEF Sending, Send, SendDone, SendError, SendFull
  <1>6. ASSUME NEW c \in Conns, Waiting(c) PROVE RetInv'
    BY <1>6 DEF Waiting, LockWritable, Register, TimedWait, Relock, UnlockWritable
  <1>7. ASSUME NEW c \in Conns, Return(c) \/ CloseEvent(c) PROVE RetInv'
    BY <1>7 DEF Return, CloseEvent
  <1>8. ASSUME NEW c \in Conns, Drain(c) PROVE RetInv'
    BY <1>8 DEF Drain
  <1>9. ASSUME NEW c \in Conns, NEW e \in {0, -1}, WaitEnds(c, e) PROVE RetInv'
    BY <1>9 DEF WaitEnds
  <1> QED
    BY <1>1, <1>2, <1>3, <1>4, <1>5, <1>6, <1>7, <1>8, <1>9
    DEF Next, EpollerStep, SenderStep

\* The epoller's signal is not lost.
LEMMA SignalStep == IInv /\ Next => NoLostSignal'
  <1> SUFFICES ASSUME IInv, Next PROVE NoLostSignal'
      OBVIOUS
  <1> USE BlockingSendAssumption DEF IInv, TypeOK, LockInv, NoLostSignal
  <1>1. CASE EpollWait \/ EpollFails
    BY <1>1 DEF EpollWait, EpollFails, Reported
  <1>2. ASSUME NEW c \in Conns, SignalLock(c) PROVE NoLostSignal'
    BY <1>2 DEF SignalLock
  <1>3. ASSUME NEW c \in Conns, Signal(c) PROVE NoLostSignal'
    BY <1>3 DEF Signal
  <1>4. ASSUME NEW c \in Conns, SendCall(c) PROVE NoLostSignal'
    BY <1>4 DEF SendCall
  <1>5. ASSUME NEW c \in Conns, Sending(c) PROVE NoLostSignal'
    BY <1>5 DEF Sending, Send, SendDone, SendError, SendFull
  <1>6. ASSUME NEW c \in Conns, Waiting(c) PROVE NoLostSignal'
    BY <1>6 DEF Waiting, LockWritable, Register, TimedWait, Relock, UnlockWritable
  <1>7. ASSUME NEW c \in Conns, Return(c) \/ CloseEvent(c) PROVE NoLostSignal'
    BY <1>7 DEF Return, CloseEvent
  <1>8. ASSUME NEW c \in Conns, Drain(c) PROVE NoLostSignal'
    BY <1>8 DEF Drain
  <1>9. ASSUME NEW c \in Conns, NEW e \in {0, -1}, WaitEnds(c, e) PROVE NoLostSignal'
    BY <1>9 DEF WaitEnds
  <1> QED
    BY <1>1, <1>2, <1>3, <1>4, <1>5, <1>6, <1>7, <1>8, <1>9
    DEF Next, EpollerStep, SenderStep

\* The epoller signals a wait once.
LEMMA PendingStep == IInv /\ Next => PendingInv'
  <1> SUFFICES ASSUME IInv, Next PROVE PendingInv'
      OBVIOUS
  <1> USE BlockingSendAssumption DEF IInv, TypeOK, LockInv, NoLostSignal, FreedInv, PendingInv
  <1>1. CASE EpollWait \/ EpollFails
    BY <1>1 DEF EpollWait, EpollFails, Reported
  <1>2. ASSUME NEW c \in Conns, SignalLock(c) PROVE PendingInv'
    BY <1>2 DEF SignalLock
  <1>3. ASSUME NEW c \in Conns, Signal(c) PROVE PendingInv'
    BY <1>3 DEF Signal
  <1>4. ASSUME NEW c \in Conns, SendCall(c) PROVE PendingInv'
    BY <1>4 DEF SendCall
  <1>5. ASSUME NEW c \in Conns, Sending(c) PROVE PendingInv'
    BY <1>5 DEF Sending, Send, SendDone, SendError, SendFull
  <1>6. ASSUME NEW c \in Conns, Waiting(c) PROVE PendingInv'
    BY <1>6 DEF Waiting, LockWritable, Register, TimedWait, Relock, UnlockWritable
  <1>7. ASSUME NEW c \in Conns, Return(c) \/ CloseEvent(c) PROVE PendingInv'
    BY <1>7 DEF Return, CloseEvent
  <1>8. ASSUME NEW c \in Conns, Drain(c) PROVE PendingInv'
    BY <1>8 DEF Drain
  <1>9. ASSUME NEW c \in Conns, NEW e \in {0, -1}, WaitEnds(c, e) PROVE PendingInv'
    BY <1>9 DEF WaitEnds
  <1> QED
    BY <1>1, <1>2, <1>3, <1>4, <1>5, <1>6, <1>7, <1>8, <1>9
    DEF Next, EpollerStep, SenderStep

\* Only Close frees.
LEMMA FreedStep == IInv /\ Next => FreedInv'
  <1> SUFFICES ASSUME IInv, Next PROVE FreedInv'
      OBVIOUS
  <1> USE BlockingSendAssumption DEF IInv, TypeOK, FreedInv
  <1>1. CASE EpollWait \/ EpollFails
    BY <1>1 DEF EpollWait, EpollFails, Reported
  <1>2. ASSUME NEW c \in Conns, SignalLock(c) PROVE FreedInv'
    BY <1>2 DEF SignalLock
  <1>3. ASSUME NEW c \in Conns, Signal(c) PROVE FreedInv'
    BY <1>3 DEF Signal
  <1>4. ASSUME NEW c \in Conns, SendCall(c) PROVE FreedInv'
    BY <1>4 DEF SendCall
  <1>5. ASSUME NEW c \in Conns, Sending(c) PROVE FreedInv'
    BY <1>5 DEF Sending, Send, SendDone, SendError, SendFull
  <1>6. ASSUME NEW c \in Conns, Waiting(c) PROVE FreedInv'
    BY <1>6 DEF Waiting, LockWritable, Register, TimedWait, Relock, UnlockWritable
  <1>7. ASSUME NEW c \in Conns, Return(c) \/ CloseEvent(c) PROVE FreedInv'
    BY <1>7 DEF Return, CloseEvent
  <1>8. ASSUME NEW c \in Conns, Drain(c) PROVE FreedInv'
    BY <1>8 DEF Drain
  <1>9. ASSUME NEW c \in Conns, NEW e \in {0, -1}, WaitEnds(c, e) PROVE FreedInv'
    BY <1>9 DEF WaitEnds
  <1> QED
    BY <1>1, <1>2, <1>3, <1>4, <1>5, <1>6, <1>7, <1>8, <1>9
    DEF Next, EpollerStep, SenderStep

\* A freed event is used only by a signal that a wait did not receive.
LEMMA StaleStep == IInv /\ Next => StaleOnlyUnsignalled'
  <1> SUFFICES ASSUME IInv, Next PROVE StaleOnlyUnsignalled'
      OBVIOUS
  <1> USE BlockingSendAssumption DEF IInv, TypeOK, FreedInv, PendingInv, StaleOnlyUnsignalled
  <1>1. CASE EpollWait \/ EpollFails
    BY <1>1 DEF EpollWait, EpollFails, Reported
  <1>2. ASSUME NEW c \in Conns, SignalLock(c) PROVE StaleOnlyUnsignalled'
    BY <1>2 DEF SignalLock, UseEvent
  <1>3. ASSUME NEW c \in Conns, Signal(c) PROVE StaleOnlyUnsignalled'
    BY <1>3 DEF Signal, UseEvent
  <1>4. ASSUME NEW c \in Conns, SendCall(c) PROVE StaleOnlyUnsignalled'
    BY <1>4 DEF SendCall
  <1>5. ASSUME NEW c \in Conns, Sending(c) PROVE StaleOnlyUnsignalled'
    BY <1>5 DEF Sending, Send, SendDone, SendError, SendFull
  <1>6. ASSUME NEW c \in Conns, Waiting(c) PROVE StaleOnlyUnsignalled'
    BY <1>6 DEF Waiting, LockWritable, Register, TimedWait, Relock, UnlockWritable
  <1>7. ASSUME NEW c \in Conns, Return(c) \/ CloseEvent(c) PROVE StaleOnlyUnsignalled'
    BY <1>7 DEF Return, CloseEvent
  <1>8. ASSUME NEW c \in Conns, Drain(c) PROVE StaleOnlyUnsignalled'
    BY <1>8 DEF Drain
  <1>9. ASSUME NEW c \in Conns, NEW e \in {0, -1}, WaitEnds(c, e) PROVE StaleOnlyUnsignalled'
    BY <1>9 DEF WaitEnds
  <1> QED
    BY <1>1, <1>2, <1>3, <1>4, <1>5, <1>6, <1>7, <1>8, <1>9
    DEF Next, EpollerStep, SenderStep

-----------------------------------------------------------------------------
\* Every state of the specification satisfies the invariant.
LEMMA Inductive == Spec => []IInv
  <1>1. IInv /\ [Next]_vars => IInv'
    <2> SUFFICES ASSUME IInv, [Next]_vars PROVE IInv'
        OBVIOUS
    <2>1. CASE Next
      BY <2>1, TypeStep, LockStep, RetStep, SignalStep, PendingStep, FreedStep, StaleStep
      DEF IInv
    <2>2. CASE UNCHANGED vars
      BY <2>2 DEF IInv, TypeOK, LockInv, RetInv, NoLostSignal, PendingInv, FreedInv,
                  StaleOnlyUnsignalled, vars
    <2> QED
      BY <2>1, <2>2
  <1> QED
    BY InitInv, <1>1, PTL DEF Spec

\* internalBlockingSender reports success exactly when every byte of the message
\* was accepted by send, for any number of rounds, timeouts and failures.
THEOREM SenderResultExact == Spec => []PositiveMeansAll
  <1>1. IInv => PositiveMeansAll
    BY DEF IInv, RetInv, PositiveMeansAll
  <1> QED
    BY Inductive, <1>1, PTL

\* Registering for EPOLLOUT under writableLock closes the window in which the
\* epoller could signal before the sender sleeps.
THEOREM SignalNotLost == Spec => []NoLostSignal
  <1>1. IInv => NoLostSignal
    BY DEF IInv
  <1> QED
    BY Inductive, <1>1, PTL

\* The epoller meets a freed event only after a wait that it did not end.
THEOREM StaleEventsExplained == Spec => []StaleOnlyUnsignalled
  <1>1. IInv => StaleOnlyUnsignalled
    BY DEF IInv
  <1> QED
    BY Inductive, <1>1, PTL
=============================================================================
