--------------------------- MODULE StartupProofs ----------------------------
(***************************************************************************)
(* Proofs about Startup for any number of switches, descriptors and        *)
(* options.                                                                *)
(***************************************************************************)
EXTENDS Startup, FiniteSetTheorems, SequenceTheorems, WellFoundedInduction, TLAPS

\* Positions of the parent and of the children; a child has been handed its
\* connection.
PcInv ==
    /\ pc[Parent] \in {"options", "create", "select", "accept", "accepted", "ended"}
    /\ \A c \in Conns : /\ pc[c] \in {"none", "record", "loop", "ended"}
                        /\ pc[c] # "none" => c \in handed
    /\ logs <= options

\* Nothing is connected before the server listens.
ServerInv ==
    /\ pc[Parent] \in {"options", "create"} => server = "none"
    /\ server \in {"unset", "listening"} => server_fd \in Fds
    /\ server # "listening" => /\ handed = {} /\ backlog = <<>>
                               /\ pc[Parent] # "accepted"

\* A connection is pending once, and then it is neither accepted nor handed on;
\* one that was never opened is nowhere.
BacklogInv ==
    /\ backlog \in Seq(Conns)
    /\ \A i, j \in 1..Len(backlog) : backlog[i] = backlog[j] => i = j
    /\ \A i \in 1..Len(backlog) : backlog[i] \notin handed /\ ~InFlight(backlog[i])
    /\ \A c \in Conns : client[c] = "none" =>
          /\ c \notin handed /\ ~InFlight(c)
          /\ \A i \in 1..Len(backlog) : backlog[i] # c

\* A descriptor the program has opened.
Own(o) == o \notin {Free, "inherited"}

\* What the parent's table holds.  Descriptors are given out from below, so
\* none that the program opened lies above a free one, except the one that
\* cc_conn_accept is about to close.
ParentInv ==
    pc[Parent] # "ended" =>
        /\ Cardinality(Held(Parent, "log")) = logs
        /\ Held(Parent, "listener") = IF server \in {"unset", "listening"} THEN {server_fd} ELSE {}
        /\ \A c \in Conns :
              /\ c \in handed => \E f \in Fds : Held(Parent, c) = {f}
              /\ InFlight(c) => c \notin handed /\ Held(Parent, c) = {accept_fd[Parent]}
              /\ c \notin handed /\ ~InFlight(c) => Held(Parent, c) = {}
        /\ \A f, g \in Fds : fds[Parent][f] = Free /\ Own(fds[Parent][g]) => g < f
        /\ pc[Parent] = "accepted" =>
              /\ accept_fd[Parent] \in Fds /\ fds[Parent][accept_fd[Parent]] \in Conns
              /\ \A g \in Fds : Own(fds[Parent][g]) /\ g # accept_fd[Parent] =>
                                    g < accept_fd[Parent]

\* What a child's table holds before and after the descriptor is moved.
Copied(c) ==
    /\ accept_fd[c] \in Fds /\ accept_fd[c] <= FD_SETSIZE
    /\ Held(c, c) = {accept_fd[c]} /\ Held(c, "listener") = {server_fd}
    /\ Cardinality(Held(c, "log")) = logs
    /\ \A g \in Fds : Own(fds[c][g]) /\ g # accept_fd[c] => g < accept_fd[c]
Settled(c) ==
    /\ accept_fd[c] \in CC_ACCEPT_FD..FD_SETSIZE
    /\ Held(c, c) = {accept_fd[c]} /\ Held(c, "listener") = {server_fd}
    /\ Cardinality(Held(c, "log")) = logs
    /\ sw_fd[c] # accept_fd[c] => fds[c][sw_fd[c]] = Free
ChildInv ==
    \A c \in Conns : (pc[c] = "record" => Copied(c)) /\ (pc[c] = "loop" => Settled(c))

IInv == TypeOK /\ PcInv /\ ServerInv /\ BacklogInv /\ ParentInv /\ ChildInv

-----------------------------------------------------------------------------
\* The number a new descriptor gets.
LEMMA LowestNumber ==
  ASSUME NEW S \in SUBSET Nat, S # {}
  PROVE  Min(S) \in S /\ \A f \in S : Min(S) <= f
  <1> DEFINE Less == {ss \in Nat \X Nat : ss[1] < ss[2]}
  <1>1. IsWellFoundedOn(Less, Nat)
    BY NatLessThanWellFounded, Zenon DEF OpToRel
  <1>2. \E x \in S : \A y \in S : ~(<<y, x>> \in Less)
    <2> HIDE DEF Less
    <2> QED
      BY <1>1, WFMin
  <1>3. \E x \in S : \A y \in S : x <= y
    <2>1. \A x, y \in Nat : ~(<<y, x>> \in Less) => x <= y
      OBVIOUS
    <2> HIDE DEF Less
    <2> QED
      BY <1>2, <2>1
  <1> QED
    BY <1>3 DEF Min

\* The initial tables hold at most inherited descriptors.
LEMMA InitInv == Init => IInv
  <1> SUFFICES ASSUME Init PROVE IInv
      OBVIOUS
  <1> USE StartupAssumption DEF Procs
  <1>1. PICK S \in SUBSET (0..3) :
          fds = [p \in Procs |-> IF p = Parent
                                 THEN [f \in Fds |-> IF f \in S THEN "inherited" ELSE Free]
                                 ELSE Closed]
    BY DEF Init
  <1>2. fds \in [Procs -> [Fds -> Objects \cup {Free}]]
    BY <1>1 DEF Closed, Objects
  <1>3. pc = [p \in Procs |-> IF p = Parent THEN "options" ELSE "none"]
    BY DEF Init
  <1>4. TypeOK
    <2>1. polling \in BOOLEAN
      BY DEF Init
    <2>2. /\ accept_fd \in [Procs -> Fds \cup {-1}] /\ sw_fd \in [Conns -> Fds \cup {-1}]
          /\ client \in [Conns -> {"none", "open", "reset"}]
      BY DEF Init
    <2>3. server_fd \in Fds
      BY DEF Init, Fds, CC_ACCEPT_FD
    <2> QED
      BY <1>2, <1>3, <2>1, <2>2, <2>3 DEF Init, TypeOK
  <1>5. pc[Parent] = "options" /\ \A c \in Conns : pc[c] = "none"
    BY <1>3
  <1>6. PcInv /\ ServerInv /\ ChildInv
    BY <1>5 DEF Init, PcInv, ServerInv, ChildInv
  <1>7. BacklogInv
    BY <1>5 DEF Init, BacklogInv, InFlight
  <1>8. \A f \in Fds : fds[Parent][f] \in {"inherited", Free}
    BY <1>1
  <1>9. Held(Parent, "log") = {} /\ Held(Parent, "listener") = {}
        /\ \A c \in Conns : Held(Parent, c) = {}
    BY <1>8 DEF Held, Objects
  <1>10. ParentInv
    BY <1>5, <1>8, <1>9, FS_EmptySet DEF Init, ParentInv, InFlight, Own
  <1> QED
    BY <1>4, <1>6, <1>7, <1>10 DEF IInv

\* A child that a step does not touch stays as it is.
LEMMA ChildKept ==
  ASSUME IInv, NEW c \in Conns,
         pc'[c] = pc[c], fds'[c] = fds[c], accept_fd'[c] = accept_fd[c], sw_fd'[c] = sw_fd[c],
         handed = {} \/ UNCHANGED <<server_fd, logs>>
  PROVE  (pc'[c] = "record" => Copied(c)') /\ (pc'[c] = "loop" => Settled(c)')
  <1>1. pc[c] \in {"record", "loop"} => UNCHANGED <<server_fd, logs>>
    BY DEF IInv, PcInv
  <1>2. \A o : Held(c, o)' = Held(c, o)
    BY DEF Held
  <1>3. pc[c] = "record" => Copied(c)'
    BY <1>1, <1>2 DEF IInv, ChildInv, Copied
  <1>4. pc[c] = "loop" => Settled(c)'
    BY <1>1, <1>2 DEF IInv, ChildInv, Settled
  <1> QED
    BY <1>3, <1>4

\* The parent's table does not change when nothing of the parent's does.
LEMMA ParentKept ==
  ASSUME IInv, pc'[Parent] = pc[Parent], fds'[Parent] = fds[Parent],
         accept_fd'[Parent] = accept_fd[Parent], UNCHANGED <<logs, server, server_fd, handed>>
  PROVE  ParentInv' /\ \A c : InFlight(c)' = InFlight(c)
  <1>1. \A o : Held(Parent, o)' = Held(Parent, o)
    BY DEF Held
  <1>2. \A c : InFlight(c)' = InFlight(c)
    BY DEF InFlight
  <1> QED
    BY <1>1, <1>2 DEF IInv, ParentInv

\* A step of a switch: only the backlog changes.
LEMMA ClientKept ==
  ASSUME IInv, UNCHANGED <<parentv, pc, fds, accept_fd, sw_fd, handed>>
  PROVE  /\ PcInv' /\ ParentInv' /\ ChildInv'
         /\ \A c : InFlight(c)' = InFlight(c)
  <1> USE DEF parentv
  <1>1. PcInv'
    BY DEF IInv, PcInv
  <1>2. ParentInv' /\ \A c : InFlight(c)' = InFlight(c)
    BY ParentKept
  <1>3. ChildInv'
    <2>1. \A c \in Conns : (pc'[c] = "record" => Copied(c)') /\ (pc'[c] = "loop" => Settled(c)')
      BY ChildKept
    <2> QED
      BY <2>1 DEF ChildInv
  <1> QED
    BY <1>1, <1>2, <1>3

\* A switch connects: its connection joins the end of the backlog.
LEMMA ConnectStep ==
  ASSUME IInv, NEW c \in Conns, Connect(c)
  PROVE  IInv'
  <1> USE DEF parentv
  <1>1. /\ UNCHANGED <<parentv, pc, fds, accept_fd, sw_fd, handed>>
        /\ client[c] = "none" /\ server = "listening"
        /\ client' = [client EXCEPT ![c] = "open"] /\ backlog' = Append(backlog, c)
    BY DEF Connect
  <1>2. /\ PcInv' /\ ParentInv' /\ ChildInv' /\ \A b : InFlight(b)' = InFlight(b)
    BY <1>1, ClientKept
  <1>3. TypeOK' /\ ServerInv'
    BY <1>1 DEF IInv, TypeOK, ServerInv
  <1>4. /\ backlog \in Seq(Conns) /\ Len(backlog) \in Nat
        /\ backlog' \in Seq(Conns) /\ Len(backlog') = Len(backlog) + 1
        /\ \A i \in 1..Len(backlog) : backlog'[i] = backlog[i]
        /\ backlog'[Len(backlog) + 1] = c
    BY <1>1, AppendProperties DEF IInv, BacklogInv
  <1>5. c \notin handed /\ ~InFlight(c) /\ \A i \in 1..Len(backlog) : backlog[i] # c
    BY <1>1 DEF IInv, BacklogInv
  <1>6. \A i \in 1..Len(backlog') : i \in 1..Len(backlog) \/ i = Len(backlog) + 1
    BY <1>4
  <1>7. BacklogInv'
    <2>1. \A i, j \in 1..Len(backlog') : backlog'[i] = backlog'[j] => i = j
      BY <1>4, <1>5, <1>6 DEF IInv, BacklogInv
    <2>2. \A i \in 1..Len(backlog') : backlog'[i] \notin handed' /\ ~InFlight(backlog'[i])
      BY <1>1, <1>4, <1>5, <1>6 DEF IInv, BacklogInv
    <2>3. \A b \in Conns : client'[b] = "none" =>
             /\ b \notin handed' /\ ~InFlight(b)
             /\ \A i \in 1..Len(backlog') : backlog'[i] # b
      BY <1>1, <1>4, <1>6 DEF IInv, BacklogInv, TypeOK
    <2> QED
      BY <1>2, <1>4, <2>1, <2>2, <2>3 DEF BacklogInv
  <1> QED
    BY <1>2, <1>3, <1>7 DEF IInv

\* A sequence without its element k.
LEMMA Removed ==
  ASSUME NEW S, NEW s \in Seq(S), NEW k \in 1..Len(s)
  PROVE  /\ RemoveAt(s, k) \in Seq(S) /\ Len(RemoveAt(s, k)) = Len(s) - 1
         /\ \A i \in 1..(Len(s) - 1) : RemoveAt(s, k)[i] = IF i < k THEN s[i] ELSE s[i + 1]
  <1> DEFINE n == Len(s)
             a == SubSeq(s, 1, k - 1)
             b == SubSeq(s, k + 1, n)
  <1>1. n \in Nat /\ k \in 1..n
    OBVIOUS
  <1>2. a \in Seq(S) /\ Len(a) = k - 1 /\ \A i \in 1..(k - 1) : a[i] = s[i]
    <2>1. \A i \in 1..(k - 1) : s[i] \in S
      BY <1>1
    <2>2. 1 \in Int /\ k - 1 \in Int
      BY <1>1
    <2>3. /\ a \in Seq(S) /\ Len(a) = IF 1 <= k - 1 THEN k - 1 - 1 + 1 ELSE 0
          /\ \A i \in 1..(k - 1 - 1 + 1) : a[i] = s[1 + i - 1]
      BY <2>1, <2>2, SubSeqProperties
    <2> HIDE DEF a, n
    <2> QED
      BY <1>1, <2>3
  <1>3. b \in Seq(S) /\ Len(b) = n - k /\ \A i \in 1..(n - k) : b[i] = s[k + i]
    <2>1. \A i \in (k + 1)..n : s[i] \in S
      BY <1>1
    <2>2. k + 1 \in Int /\ n \in Int
      BY <1>1
    <2>3. /\ b \in Seq(S) /\ Len(b) = IF k + 1 <= n THEN n - (k + 1) + 1 ELSE 0
          /\ \A i \in 1..(n - (k + 1) + 1) : b[i] = s[k + 1 + i - 1]
      BY <2>1, <2>2, SubSeqProperties
    <2> HIDE DEF b, n
    <2> QED
      BY <1>1, <2>3
  <1> HIDE DEF a, b, n
  <1>4. /\ a \o b \in Seq(S) /\ Len(a \o b) = Len(a) + Len(b)
        /\ \A i \in 1..(Len(a) + Len(b)) :
              (a \o b)[i] = IF i <= Len(a) THEN a[i] ELSE b[i - Len(a)]
    BY <1>2, <1>3, ConcatProperties
  <1>5. /\ a \o b \in Seq(S) /\ Len(a \o b) = n - 1
        /\ \A i \in 1..(n - 1) : (a \o b)[i] = IF i < k THEN s[i] ELSE s[i + 1]
    <2>1. Len(a) + Len(b) = n - 1
      BY <1>1, <1>2, <1>3
    <2>2. ASSUME NEW i \in 1..(n - 1)
          PROVE  (a \o b)[i] = IF i < k THEN s[i] ELSE s[i + 1]
      <3>1. CASE i < k
        BY <1>1, <1>2, <1>4, <2>1, <3>1
      <3>2. CASE ~(i < k)
        <4>1. i - (k - 1) \in 1..(n - k) /\ k + (i - (k - 1)) = i + 1 /\ ~(i <= k - 1)
          BY <1>1, <3>2
        <4> QED
          BY <1>2, <1>3, <1>4, <2>1, <3>2, <4>1
      <3> QED
        BY <3>1, <3>2
    <2> QED
      BY <1>4, <2>1, <2>2
  <1> QED
    BY <1>5 DEF RemoveAt, a, b, n

\* A switch gives its connection up: it leaves the backlog if it is pending.
LEMMA ResetStep ==
  ASSUME IInv, NEW c \in Conns, Reset(c)
  PROVE  IInv'
  <1> USE DEF parentv
  <1>1. /\ UNCHANGED <<parentv, pc, fds, accept_fd, sw_fd, handed>>
        /\ client' = [client EXCEPT ![c] = "reset"]
    BY DEF Reset
  <1>2. /\ PcInv' /\ ParentInv' /\ ChildInv' /\ \A b : InFlight(b)' = InFlight(b)
    BY <1>1, ClientKept
  <1>3. TypeOK'
    BY <1>1 DEF IInv, TypeOK
  <1>4. backlog \in Seq(Conns) /\ DOMAIN backlog = 1..Len(backlog) /\ Len(backlog) \in Nat
    BY DEF IInv, BacklogInv
  <1>5. CASE UNCHANGED backlog
    <2>1. BacklogInv'
      BY <1>1, <1>2, <1>5 DEF IInv, BacklogInv, TypeOK
    <2>2. ServerInv'
      BY <1>1, <1>5 DEF IInv, ServerInv
    <2> QED
      BY <1>2, <1>3, <2>1, <2>2 DEF IInv
  <1>6. ASSUME NEW k \in 1..Len(backlog), backlog[k] = c, backlog' = RemoveAt(backlog, k)
        PROVE  IInv'
    <2>1. /\ backlog' \in Seq(Conns) /\ Len(backlog') = Len(backlog) - 1
          /\ \A i \in 1..(Len(backlog) - 1) :
                backlog'[i] = IF i < k THEN backlog[i] ELSE backlog[i + 1]
      BY <1>4, <1>6, Removed
    <2>2. \A i \in 1..Len(backlog') :
             /\ i < k => i \in 1..Len(backlog) /\ backlog'[i] = backlog[i]
             /\ ~(i < k) => i + 1 \in 1..Len(backlog) /\ backlog'[i] = backlog[i + 1]
      BY <1>4, <2>1
    <2>3. \A i \in 1..Len(backlog') : \E h \in 1..Len(backlog) : backlog'[i] = backlog[h]
      BY <2>2
    <2>4. ASSUME NEW i \in 1..Len(backlog'), NEW j \in 1..Len(backlog'), backlog'[i] = backlog'[j]
          PROVE  i = j
      <3>0. \A h, l \in 1..Len(backlog) : backlog[h] = backlog[l] => h = l
        BY DEF IInv, BacklogInv
      <3>1. CASE i < k /\ j < k
        BY <2>2, <2>4, <3>0, <3>1
      <3>2. CASE i < k /\ ~(j < k)
        <4>1. i = j + 1
          BY <2>2, <2>4, <3>0, <3>2
        <4> QED
          BY <1>4, <2>1, <3>2, <4>1
      <3>3. CASE ~(i < k) /\ j < k
        <4>1. j = i + 1
          BY <2>2, <2>4, <3>0, <3>3
        <4> QED
          BY <1>4, <2>1, <3>3, <4>1
      <3>4. CASE ~(i < k) /\ ~(j < k)
        <4>1. i + 1 = j + 1
          BY <2>2, <2>4, <3>0, <3>4
        <4> QED
          BY <1>4, <2>1, <4>1
      <3> QED
        BY <3>1, <3>2, <3>3, <3>4
    <2>5. \A i \in 1..Len(backlog') : backlog'[i] \notin handed' /\ ~InFlight(backlog'[i])
      BY <1>1, <2>3 DEF IInv, BacklogInv
    <2>6. \A b \in Conns : client'[b] = "none" =>
             /\ b \notin handed' /\ ~InFlight(b)
             /\ \A i \in 1..Len(backlog') : backlog'[i] # b
      BY <1>1, <2>3 DEF IInv, BacklogInv, TypeOK
    <2>7. BacklogInv'
      BY <1>2, <2>1, <2>4, <2>5, <2>6 DEF BacklogInv
    <2>8. server = "listening"
      BY <1>4, <1>6 DEF IInv, ServerInv
    <2>9. ServerInv'
      BY <1>1, <2>8 DEF IInv, ServerInv
    <2> QED
      BY <1>2, <1>3, <2>7, <2>9 DEF IInv
  <1> QED
    BY <1>4, <1>5, <1>6 DEF Reset

\* Nothing but one child's own state changes.
LEMMA ChildOnly ==
  ASSUME IInv, NEW c \in Conns, NEW l \in {"loop", "ended"},
         pc[c] # "none", pc' = [pc EXCEPT ![c] = l],
         \A b \in Procs : b # c => fds'[b] = fds[b] /\ accept_fd'[b] = accept_fd[b],
         \A b \in Conns : b # c => sw_fd'[b] = sw_fd[b],
         UNCHANGED <<parentv, backlog, handed, client>>,
         TypeOK', l = "loop" => Settled(c)'
  PROVE  IInv'
  <1> USE StartupAssumption DEF parentv, Procs
  <1>1. pc'[Parent] = pc[Parent] /\ pc'[c] = l /\ \A b \in Conns : b # c => pc'[b] = pc[b]
    BY DEF IInv, TypeOK
  <1>2. ParentInv' /\ \A b : InFlight(b)' = InFlight(b)
    BY <1>1, ParentKept
  <1>3. PcInv' /\ ServerInv'
    <2>0. pc'[Parent] \in {"options", "create", "select", "accept", "accepted", "ended"}
          /\ c \in handed /\ logs' <= options'
      BY <1>1 DEF IInv, PcInv
    <2>1. ASSUME NEW b \in Conns
          PROVE  pc'[b] \in {"none", "record", "loop", "ended"} /\ (pc'[b] # "none" => b \in handed')
      <3>1. CASE b = c
        BY <1>1, <2>0, <3>1
      <3>2. CASE b # c
        BY <1>1, <3>2 DEF IInv, PcInv
      <3> QED
        BY <3>1, <3>2
    <2>2. ServerInv'
      BY <1>1 DEF IInv, ServerInv
    <2> QED
      BY <2>0, <2>1, <2>2 DEF PcInv
  <1>4. BacklogInv'
    BY <1>2 DEF IInv, BacklogInv
  <1>5. ChildInv'
    <2>1. \A b \in Conns : b # c => /\ pc'[b] = "record" => Copied(b)'
                                    /\ pc'[b] = "loop" => Settled(b)'
      BY <1>1, ChildKept
    <2> QED
      BY <1>1, <2>1 DEF ChildInv
  <1> QED
    BY <1>2, <1>3, <1>4, <1>5 DEF IInv

\* select fails in a child, which ends.
LEMMA ChildFailsStep ==
  ASSUME IInv, NEW c \in Conns, ChildFails(c)
  PROVE  IInv'
  <1> USE DEF parentv
  <1>1. /\ pc[c] = "loop" /\ pc' = [pc EXCEPT ![c] = "ended"] /\ fds' = [fds EXCEPT ![c] = Closed]
        /\ UNCHANGED <<parentv, backlog, accept_fd, sw_fd, handed, client>>
    BY DEF ChildFails, Ends, Goto
  <1>2. Closed \in [Fds -> Objects \cup {Free}]
    BY DEF Closed
  <1>3. TypeOK'
    BY <1>1, <1>2 DEF IInv, TypeOK, Procs
  <1>4. \A b \in Procs : b # c => fds'[b] = fds[b]
    BY <1>1 DEF IInv, TypeOK
  <1> QED
    BY <1>1, <1>3, <1>4, ChildOnly

\* The move of a low descriptor to CC_ACCEPT_FD overwrites nothing that the
\* program has opened.
LEMMA ChildRecordStep ==
  ASSUME IInv, NEW c \in Conns, ChildRecord(c)
  PROVE  IInv'
  <1> USE StartupAssumption DEF parentv
  <1>1. /\ pc[c] = "record" /\ pc' = [pc EXCEPT ![c] = "loop"]
        /\ sw_fd' = [sw_fd EXCEPT ![c] = accept_fd[c]]
        /\ UNCHANGED <<parentv, backlog, handed, client>>
    BY DEF ChildRecord, Goto
  <1>2. Copied(c) /\ c \in Procs
    BY <1>1 DEF IInv, ChildInv, Procs
  <1>3. sw_fd'[c] = accept_fd[c] /\ sw_fd' \in [Conns -> Fds \cup {-1}]
        /\ \A b \in Conns : b # c => sw_fd'[b] = sw_fd[b]
    BY <1>1, <1>2 DEF IInv, TypeOK, Procs
  <1>4. pc' \in [Procs -> {"options", "create", "select", "accept", "accepted", "none",
                            "record", "loop", "ended"}]
    BY <1>1 DEF IInv, TypeOK
  <1>5. CASE ~Moves(accept_fd[c])
    <2>1. UNCHANGED <<fds, accept_fd>> /\ ~(accept_fd[c] < 3)
      BY <1>5 DEF ChildRecord, Moves, CC_ACCEPT_FD
    <2>2. TypeOK'
      BY <1>1, <1>3, <1>4, <2>1 DEF IInv, TypeOK
    <2>3. accept_fd[c] \in CC_ACCEPT_FD..FD_SETSIZE
      BY <1>2, <2>1 DEF Copied, CC_ACCEPT_FD, Fds
    <2>4. \A o : Held(c, o)' = Held(c, o)
      BY <2>1 DEF Held
    <2>5. Settled(c)'
      BY <1>1, <1>2, <1>3, <2>1, <2>3, <2>4 DEF Copied, Settled
    <2> QED
      BY <1>1, <1>3, <2>1, <2>2, <2>5, ChildOnly
  <1>6. CASE Moves(accept_fd[c])
    <2>0. PICK a \in Fds : a = accept_fd[c]
      BY <1>2 DEF Copied
    <2>1. a < 3 /\ 3 \in Fds /\ a # 3
      BY <1>6, <2>0 DEF Moves, CC_ACCEPT_FD, Fds
    <2>2. /\ fds' = [fds EXCEPT ![c] = [[fds[c] EXCEPT ![3] = fds[c][a]] EXCEPT ![a] = Free]]
          /\ accept_fd' = [accept_fd EXCEPT ![c] = 3]
      BY <1>6, <2>0 DEF ChildRecord, CC_ACCEPT_FD
    <2>3. fds[c] \in [Fds -> Objects \cup {Free}] /\ fds[c][a] = c
      BY <1>2, <2>0 DEF IInv, TypeOK, Copied, Held
    <2>4. /\ fds'[c] = [[fds[c] EXCEPT ![3] = fds[c][a]] EXCEPT ![a] = Free]
          /\ accept_fd'[c] = 3
          /\ \A b \in Procs : b # c => fds'[b] = fds[b] /\ accept_fd'[b] = accept_fd[b]
      BY <1>2, <2>2 DEF IInv, TypeOK
    <2>5. /\ fds'[c][a] = Free /\ fds'[c][3] = c
          /\ \A f \in Fds : f # a /\ f # 3 => fds'[c][f] = fds[c][f]
      BY <2>1, <2>3, <2>4
    <2>6. TypeOK'
      <3>1. fds' \in [Procs -> [Fds -> Objects \cup {Free}]]
        BY <1>2, <2>1, <2>2, <2>3 DEF IInv, TypeOK
      <3>2. accept_fd' \in [Procs -> Fds \cup {-1}]
        BY <2>1, <2>2 DEF IInv, TypeOK
      <3> QED
        BY <1>1, <1>3, <1>4, <3>1, <3>2 DEF IInv, TypeOK
    <2>7. fds[c][3] \in {Free, "inherited"}
      BY <1>2, <2>0, <2>1 DEF Copied, Own, Fds
    <2>8. c \notin {Free, "inherited", "log", "listener"} /\ Free \notin {"inherited", "log", "listener"}
      BY DEF Objects
    <2>9. \A o \in {"log", "listener"} : Held(c, o)' = Held(c, o)
      BY <2>3, <2>5, <2>7, <2>8 DEF Held
    <2>10. Held(c, c)' = {3}
      <3>1. \A f \in Fds : fds[c][f] = c <=> f = a
        BY <1>2, <2>0 DEF Copied, Held
      <3> QED
        BY <2>1, <2>5, <2>8, <3>1 DEF Held
    <2>11. Settled(c)'
      BY <1>1, <1>2, <1>3, <2>0, <2>4, <2>5, <2>9, <2>10 DEF Copied, Settled, CC_ACCEPT_FD
    <2> QED
      BY <1>1, <1>3, <2>4, <2>6, <2>11, ChildOnly
  <1> QED
    BY <1>5, <1>6

-----------------------------------------------------------------------------
(* The parent.                                                               *)

\* The connections that are pending, handed on and in flight stay apart when
\* none is newly in flight.
LEMMA BacklogKept ==
  ASSUME IInv, UNCHANGED <<backlog, handed, client>>,
         \A c \in Conns : InFlight(c)' => InFlight(c)
  PROVE  BacklogInv'
  <1>1. \A i \in 1..Len(backlog) : backlog[i] \in Conns
    BY DEF IInv, BacklogInv
  <1> QED
    BY <1>1 DEF IInv, BacklogInv

\* A step of the parent leaves the children alone.
LEMMA ParentOnly ==
  ASSUME IInv,
         NEW l \in {"options", "create", "select", "accept", "accepted", "ended"},
         pc' = [pc EXCEPT ![Parent] = l],
         \A c \in Conns : fds'[c] = fds[c] /\ accept_fd'[c] = accept_fd[c],
         UNCHANGED <<sw_fd, handed>>,
         handed = {} \/ UNCHANGED <<server_fd, logs>>,
         TypeOK', logs' <= options', ServerInv', BacklogInv', ParentInv'
  PROVE  IInv'
  <1>1. pc'[Parent] = l /\ \A c \in Conns : pc'[c] = pc[c]
    BY StartupAssumption DEF IInv, TypeOK, Procs
  <1>2. PcInv'
    BY <1>1 DEF IInv, PcInv
  <1>3. ChildInv'
    <2>1. \A c \in Conns : (pc'[c] = "record" => Copied(c)') /\ (pc'[c] = "loop" => Settled(c)')
      BY <1>1, ChildKept
    <2> QED
      BY <2>1 DEF ChildInv
  <1> QED
    BY <1>2, <1>3 DEF IInv

\* exit, from wherever it is called
LEMMA EndStep ==
  ASSUME IInv, Ends(Parent),
         options' \in 0..MaxOptions, logs <= options',
         UNCHANGED <<polling, logs, server_fd, server, backlog, accept_fd, sw_fd, handed, client>>
  PROVE  IInv'
  <1>1. pc' = [pc EXCEPT ![Parent] = "ended"] /\ fds' = [fds EXCEPT ![Parent] = Closed]
    BY DEF Ends, Goto
  <1>2. pc'[Parent] = "ended" /\ \A c \in Conns : fds'[c] = fds[c]
    BY <1>1, StartupAssumption DEF IInv, TypeOK, Procs
  <1>3. Closed \in [Fds -> Objects \cup {Free}]
    BY DEF Closed
  <1>4. TypeOK'
    BY <1>1, <1>3 DEF IInv, TypeOK
  <1>5. ServerInv' /\ ParentInv'
    BY <1>2 DEF IInv, ServerInv, ParentInv
  <1>6. BacklogInv'
    BY <1>2, BacklogKept DEF InFlight
  <1> QED
    BY <1>1, <1>2, <1>4, <1>5, <1>6, ParentOnly

\* The parent goes on with the table as it is.
LEMMA MoveStep ==
  ASSUME IInv, NEW l \in {"options", "create", "select", "accept"}, Goto(Parent, l),
         pc[Parent] \notin {"accepted", "ended"},
         options' \in 0..MaxOptions, logs <= options', server_fd' \in Fds \cup {-1},
         UNCHANGED <<polling, fds, logs, backlog, accept_fd, sw_fd, handed, client>>,
         \/ UNCHANGED <<server_fd, server>> /\ (l \in {"options", "create"} => server = "none")
         \/ pc[Parent] = "create" /\ l \in {"select", "accept"} /\ server' \in {"none", "closed"}
  PROVE  IInv'
  <1>1. pc' = [pc EXCEPT ![Parent] = l] /\ pc'[Parent] = l
    BY DEF Goto, IInv, TypeOK, Procs
  <1>2. TypeOK'
    BY <1>1 DEF IInv, TypeOK
  <1>3. pc[Parent] = "create" => server = "none" /\ handed = {} /\ backlog = <<>>
    BY DEF IInv, ServerInv
  <1>4. ServerInv'
    BY <1>1, <1>3 DEF IInv, ServerInv
  <1>5. BacklogInv'
    BY <1>1, BacklogKept DEF InFlight
  <1>6. \A o : Held(Parent, o)' = Held(Parent, o)
    BY DEF Held
  <1>7. \A c : ~InFlight(c) /\ ~InFlight(c)'
    BY <1>1 DEF InFlight
  <1>8. ParentInv'
    BY <1>1, <1>3, <1>6, <1>7 DEF IInv, ParentInv
  <1> QED
    BY <1>1, <1>2, <1>3, <1>4, <1>5, <1>8, ParentOnly

\* The names of the objects differ from each other and from Free.
LEMMA ObjectsDiffer ==
  /\ Free \notin Conns /\ Free \notin {"inherited", "log", "listener"}
  /\ \A c \in Conns : c \notin {"inherited", "log", "listener"}
  BY StartupAssumption DEF Objects

\* A new descriptor is the lowest free number, so what the program has opened
\* before lies below it, and what is free after lies above it.
LEMMA OpenLow ==
  ASSUME IInv, pc[Parent] # "ended", FreeFds(Parent) # {},
         NEW o \in Objects, Own(o), fds' = [fds EXCEPT ![Parent] = Opened(Parent, o)]
  PROVE  \E m \in Fds :
            /\ m = Min(FreeFds(Parent)) /\ fds[Parent][m] = Free
            /\ fds'[Parent] = [fds[Parent] EXCEPT ![m] = o]
            /\ \A c \in Conns : fds'[c] = fds[c]
            /\ fds' \in [Procs -> [Fds -> Objects \cup {Free}]]
            /\ Held(Parent, o)' = Held(Parent, o) \cup {m} /\ m \notin Held(Parent, o)
            /\ \A x : x # o /\ x # Free => Held(Parent, x)' = Held(Parent, x)
            /\ \A f, g \in Fds : fds'[Parent][f] = Free /\ Own(fds'[Parent][g]) => g < f
            /\ \A g \in Fds : Own(fds'[Parent][g]) /\ g # m => g < m
  <1>1. Fds \subseteq Nat /\ FreeFds(Parent) \in SUBSET Nat
    BY StartupAssumption DEF Fds, FreeFds, Held
  <1>2. PICK m : m = Min(FreeFds(Parent))
    OBVIOUS
  <1>3. m \in FreeFds(Parent) /\ \A f \in FreeFds(Parent) : m <= f
    BY <1>1, <1>2, LowestNumber
  <1>4. m \in Fds /\ fds[Parent][m] = Free /\ \A f \in Fds : fds[Parent][f] = Free => m <= f
    BY <1>3 DEF FreeFds, Held
  <1>5. fds \in [Procs -> [Fds -> Objects \cup {Free}]] /\ Parent \in Procs
        /\ \A c \in Conns : c \in Procs /\ c # Parent
    BY StartupAssumption DEF IInv, TypeOK, Procs
  <1>6. fds'[Parent] = [fds[Parent] EXCEPT ![m] = o]
        /\ \A c \in Conns : fds'[c] = fds[c]
    BY <1>2, <1>5 DEF Opened
  <1>7. fds' \in [Procs -> [Fds -> Objects \cup {Free}]]
    BY <1>2, <1>4, <1>5 DEF Opened
  <1>8. fds'[Parent][m] = o /\ \A f \in Fds : f # m => fds'[Parent][f] = fds[Parent][f]
    BY <1>4, <1>5, <1>6
  <1>9. o # Free
    BY DEF Own
  <1>10. Held(Parent, o)' = Held(Parent, o) \cup {m} /\ m \notin Held(Parent, o)
    BY <1>4, <1>8, <1>9 DEF Held
  <1>11. \A x : x # o /\ x # Free => Held(Parent, x)' = Held(Parent, x)
    BY <1>4, <1>8 DEF Held
  <1>12. \A f, g \in Fds : fds[Parent][f] = Free /\ Own(fds[Parent][g]) => g < f
    BY DEF IInv, ParentInv
  <1>13. \A g \in Fds : Own(fds'[Parent][g]) /\ g # m => g < m
    BY <1>4, <1>8, <1>12
  <1>14. \A f, g \in Fds : fds'[Parent][f] = Free /\ Own(fds'[Parent][g]) => g < f
    <2> SUFFICES ASSUME NEW f \in Fds, NEW g \in Fds, fds'[Parent][f] = Free, Own(fds'[Parent][g])
                 PROVE  g < f
      OBVIOUS
    <2>1. f # m /\ fds[Parent][f] = Free /\ m <= f
      BY <1>4, <1>8, <1>9
    <2>2. CASE g = m
      BY <1>1, <2>1, <2>2
    <2>3. CASE g # m
      BY <1>8, <1>12, <2>1, <2>3
    <2> QED
      BY <2>2, <2>3
  <1> QED
    BY <1>2, <1>4, <1>6, <1>7, <1>10, <1>11, <1>13, <1>14

\* An option is read; -l opens a log file, whose number is new.
LEMMA OptionsStep ==
  ASSUME IInv, cc_set_init_config
  PROVE  IInv'
  <1> USE StartupAssumption
  <1>1. pc[Parent] = "options" /\ server = "none"
        /\ UNCHANGED <<polling, server_fd, server, backlog, accept_fd, sw_fd, handed, client>>
    BY DEF cc_set_init_config, IInv, ServerInv
  <1>2. options \in 0..MaxOptions /\ logs \in 0..MaxOptions /\ logs <= options
        /\ server_fd' \in Fds \cup {-1} /\ handed = {}
    BY <1>1 DEF IInv, TypeOK, PcInv, ServerInv
  <1>3. ASSUME options < MaxOptions
        PROVE  options + 1 \in 0..MaxOptions /\ logs <= options + 1 /\ logs + 1 <= options + 1
               /\ logs + 1 \in 0..MaxOptions
    BY <1>2, <1>3
  <1>4. CASE options < MaxOptions /\ OptionSet
    <2>1. options' = options + 1 /\ UNCHANGED <<pc, fds, logs>>
      BY <1>4 DEF OptionSet
    <2>2. Goto(Parent, "options")
      BY <1>1, <2>1 DEF Goto, IInv, TypeOK
    <2> QED
      BY <1>1, <1>2, <1>3, <1>4, <2>1, <2>2, MoveStep
  <1>5. CASE options < MaxOptions /\ Ends(Parent) /\ options' = options + 1 /\ UNCHANGED logs
    BY <1>1, <1>2, <1>3, <1>5, EndStep
  <1>6. CASE Goto(Parent, "create") /\ UNCHANGED <<options, fds, logs>>
    BY <1>1, <1>2, <1>6, MoveStep
  <1>7. CASE options < MaxOptions /\ OptionLog /\ FreeFds(Parent) # {} /\ logs' = logs + 1
             /\ fds' = [fds EXCEPT ![Parent] = Opened(Parent, "log")] /\ UNCHANGED pc
    <2>1. "log" \in Objects /\ Own("log")
      BY ObjectsDiffer DEF Objects, Own
    <2>2. PICK m \in Fds :
            /\ \A c \in Conns : fds'[c] = fds[c]
            /\ fds' \in [Procs -> [Fds -> Objects \cup {Free}]]
            /\ Held(Parent, "log")' = Held(Parent, "log") \cup {m} /\ m \notin Held(Parent, "log")
            /\ \A x : x # "log" /\ x # Free => Held(Parent, x)' = Held(Parent, x)
            /\ \A f, g \in Fds : fds'[Parent][f] = Free /\ Own(fds'[Parent][g]) => g < f
      <3>1. pc[Parent] # "ended"
        BY <1>1
      <3> QED
        BY <1>7, <2>1, <3>1, OpenLow
    <2>3. IsFiniteSet(Held(Parent, "log"))
      <3>1. IsFiniteSet(Fds)
        BY FS_Interval DEF Fds
      <3> QED
        BY <3>1, FS_Subset DEF Held
    <2>4. Cardinality(Held(Parent, "log")') = Cardinality(Held(Parent, "log")) + 1
      BY <2>2, <2>3, FS_AddElement
    <2>5. Cardinality(Held(Parent, "log")) = logs
      BY <1>1 DEF IInv, ParentInv
    <2>6. options' = options + 1
      BY <1>7 DEF OptionLog
    <2>7. TypeOK'
      BY <1>1, <1>3, <1>7, <2>2, <2>6 DEF IInv, TypeOK
    <2>8. \A c : ~InFlight(c) /\ ~InFlight(c)'
      BY <1>1, <1>7 DEF InFlight
    <2>9. \A c \in Conns : Held(Parent, c)' = Held(Parent, c)
      BY <2>2, ObjectsDiffer
    <2>10. Held(Parent, "listener")' = Held(Parent, "listener")
      BY <2>2, ObjectsDiffer
    <2>11. ParentInv'
      BY <1>1, <1>7, <2>2, <2>4, <2>5, <2>8, <2>9, <2>10 DEF IInv, ParentInv
    <2>12. ServerInv'
      BY <1>1, <1>7 DEF IInv, ServerInv
    <2>13. BacklogInv'
      BY <1>1, <2>8, BacklogKept
    <2>14. pc' = [pc EXCEPT ![Parent] = "options"]
      BY <1>1, <1>7 DEF IInv, TypeOK
    <2> QED
      BY <1>1, <1>2, <1>3, <1>7, <2>2, <2>6, <2>7, <2>11, <2>12, <2>13, <2>14, ParentOnly
  <1> QED
    BY <1>4, <1>5, <1>6, <1>7 DEF cc_set_init_config, OptionLog, OptionExit

\* The listening socket: opened and kept, or closed again, or not opened.
LEMMA CreateStep ==
  ASSUME IInv, cc_server_conn_create
  PROVE  IInv'
  <1> USE StartupAssumption
  <1>1. pc[Parent] = "create" /\ server = "none" /\ handed = {} /\ backlog = <<>>
        /\ UNCHANGED <<polling, options, logs, backlog, accept_fd, sw_fd, handed, client>>
    BY DEF cc_server_conn_create, IInv, ServerInv
  <1>2. PICK l \in {"select", "accept"} : Goto(Parent, l)
    BY DEF cc_server_conn_create, Accepting
  <1>3. options' \in 0..MaxOptions /\ logs' <= options' /\ logs <= options'
    BY <1>1 DEF IInv, TypeOK, PcInv
  <1>4. CASE FreeFds(Parent) = {}
    <2>1. server_fd' = -1 /\ UNCHANGED <<fds, server>>
      BY <1>4 DEF cc_server_conn_create
    <2> QED
      BY <1>1, <1>2, <1>3, <2>1, MoveStep
  <1>5. CASE FreeFds(Parent) # {}
    <2>1. PICK n : n = Min(FreeFds(Parent))
      OBVIOUS
    <2>2. n \in Fds /\ fds[Parent][n] = Free
      <3>1. FreeFds(Parent) \in SUBSET Nat
        BY DEF Fds, FreeFds, Held
      <3> QED
        BY <1>5, <2>1, <3>1, LowestNumber DEF FreeFds, Held
    <2>3. /\ server_fd' = n
          /\ \/ server' \in {"listening", "unset"}
                /\ fds' = [fds EXCEPT ![Parent] = Opened(Parent, "listener")]
             \/ server' = "closed"
                /\ fds' = [fds EXCEPT ![Parent] = CreateClosed(Opened(Parent, "listener"), n)]
      BY <1>5, <2>1 DEF cc_server_conn_create
    <2>4. CASE server' = "closed"
               /\ fds' = [fds EXCEPT ![Parent] = CreateClosed(Opened(Parent, "listener"), n)]
      <3>1. fds \in [Procs -> [Fds -> Objects \cup {Free}]] /\ Parent \in Procs
        BY DEF IInv, TypeOK, Procs
      <3>2. CreateClosed(Opened(Parent, "listener"), n) = fds[Parent]
        BY <2>1, <2>2, <3>1 DEF CreateClosed, Opened
      <3>3. UNCHANGED fds
        BY <2>4, <3>1, <3>2
      <3> QED
        BY <1>1, <1>2, <1>3, <2>2, <2>3, <2>4, <3>3, MoveStep
    <2>5. CASE server' \in {"listening", "unset"}
               /\ fds' = [fds EXCEPT ![Parent] = Opened(Parent, "listener")]
      <3>1. "listener" \in Objects /\ Own("listener") /\ pc[Parent] # "ended"
        BY <1>1, ObjectsDiffer DEF Objects, Own
      <3>2. /\ \A c \in Conns : fds'[c] = fds[c]
            /\ fds' \in [Procs -> [Fds -> Objects \cup {Free}]]
            /\ Held(Parent, "listener")' = Held(Parent, "listener") \cup {n}
            /\ \A x : x # "listener" /\ x # Free => Held(Parent, x)' = Held(Parent, x)
            /\ \A f, g \in Fds : fds'[Parent][f] = Free /\ Own(fds'[Parent][g]) => g < f
        BY <1>5, <2>1, <2>5, <3>1, OpenLow
      <3>3. pc' = [pc EXCEPT ![Parent] = l] /\ pc'[Parent] = l
        BY <1>2 DEF Goto, IInv, TypeOK, Procs
      <3>4. TypeOK'
        BY <1>1, <2>2, <2>3, <2>5, <3>2, <3>3 DEF IInv, TypeOK
      <3>5. \A c : ~InFlight(c) /\ ~InFlight(c)'
        BY <1>1, <3>3 DEF InFlight
      <3>6. \A c \in Conns : Held(Parent, c)' = Held(Parent, c)
        BY <3>2, ObjectsDiffer
      <3>7. Held(Parent, "log")' = Held(Parent, "log")
        BY <3>2, ObjectsDiffer
      <3>8. Held(Parent, "listener")' = {n}
        BY <1>1, <3>2 DEF IInv, ParentInv
      <3>9. ParentInv'
        BY <1>1, <2>3, <2>5, <3>2, <3>3, <3>5, <3>6, <3>7, <3>8 DEF IInv, ParentInv
      <3>10. ServerInv'
        BY <1>1, <2>2, <2>3, <2>5, <3>3 DEF IInv, ServerInv
      <3>11. BacklogInv'
        BY <1>1, <3>5, BacklogKept
      <3> QED
        BY <1>1, <1>3, <3>2, <3>3, <3>4, <3>9, <3>10, <3>11, ParentOnly
    <2> QED
      BY <2>3, <2>4, <2>5
  <1> QED
    BY <1>4, <1>5

\* Every failure of select, accept and fork ends the parent.
LEMMA FailStep ==
  ASSUME IInv, Ends(Parent),
         UNCHANGED <<parentv, backlog, accept_fd, sw_fd, handed, client>>
  PROVE  IInv'
  <1>1. options' \in 0..MaxOptions /\ logs <= options'
    BY DEF parentv, IInv, TypeOK, PcInv
  <1> QED
    BY <1>1, EndStep DEF parentv

\* cc_polling goes on to accept, or ends.
LEMMA PollingStep ==
  ASSUME IInv, cc_polling
  PROVE  IInv'
  <1>1. pc[Parent] = "select" /\ UNCHANGED <<parentv, backlog, accept_fd, sw_fd, handed, client>>
    BY DEF cc_polling
  <1>2. CASE Ends(Parent)
    BY <1>1, <1>2, FailStep
  <1>3. CASE Goto(Parent, "accept") /\ UNCHANGED fds
    <2>1. options' \in 0..MaxOptions /\ logs <= options' /\ server_fd' \in Fds \cup {-1}
      BY <1>1 DEF parentv, IInv, TypeOK, PcInv
    <2> QED
      BY <1>1, <1>3, <2>1, MoveStep DEF parentv
  <1> QED
    BY <1>2, <1>3 DEF cc_polling

\* The oldest pending connection gets the lowest free number.
LEMMA AcceptStep ==
  ASSUME IInv, Accept
  PROVE  IInv'
  <1> USE StartupAssumption DEF parentv
  <1>1. /\ pc[Parent] = "accept" /\ server = "listening" /\ backlog # <<>> /\ FreeFds(Parent) # {}
        /\ pc' = [pc EXCEPT ![Parent] = "accepted"] /\ backlog' = Tail(backlog)
        /\ fds' = [fds EXCEPT ![Parent] = Opened(Parent, Head(backlog))]
        /\ accept_fd' = [accept_fd EXCEPT ![Parent] = Min(FreeFds(Parent))]
        /\ UNCHANGED <<parentv, sw_fd, handed, client>>
    BY DEF Accept, Goto
  <1>2. PICK c : c = backlog[1]
    OBVIOUS
  <1>3. /\ Len(backlog) \in Nat /\ Len(backlog) >= 1 /\ c \in Conns /\ c = Head(backlog)
        /\ backlog' \in Seq(Conns) /\ Len(backlog') = Len(backlog) - 1
        /\ \A i \in 1..Len(backlog') : i + 1 \in 1..Len(backlog) /\ backlog'[i] = backlog[i + 1]
    <2>1. backlog \in Seq(Conns)
      BY DEF IInv, BacklogInv
    <2> QED
      BY <1>1, <1>2, <2>1, HeadTailProperties
  <1>4. /\ c \notin handed /\ client[c] # "none"
        /\ \A i \in 1..Len(backlog') : backlog'[i] # c
    <2>1. 1 \in 1..Len(backlog) /\ \A i \in 1..Len(backlog') : i + 1 # 1
      BY <1>3
    <2> QED
      BY <1>2, <1>3, <2>1 DEF IInv, BacklogInv
  <1>5. c \in Objects /\ Own(c) /\ pc[Parent] # "ended"
    BY <1>1, <1>3, ObjectsDiffer DEF Objects, Own
  <1>6. PICK m \in Fds :
          /\ m = Min(FreeFds(Parent))
          /\ fds'[Parent] = [fds[Parent] EXCEPT ![m] = c]
          /\ \A b \in Conns : fds'[b] = fds[b]
          /\ fds' \in [Procs -> [Fds -> Objects \cup {Free}]]
          /\ Held(Parent, c)' = Held(Parent, c) \cup {m}
          /\ \A x : x # c /\ x # Free => Held(Parent, x)' = Held(Parent, x)
          /\ \A f, g \in Fds : fds'[Parent][f] = Free /\ Own(fds'[Parent][g]) => g < f
          /\ \A g \in Fds : Own(fds'[Parent][g]) /\ g # m => g < m
    BY <1>1, <1>3, <1>5, OpenLow
  <1>7. /\ pc'[Parent] = "accepted" /\ accept_fd'[Parent] = m
        /\ \A b \in Conns : accept_fd'[b] = accept_fd[b]
        /\ fds'[Parent][m] = c
    BY <1>1, <1>6 DEF IInv, TypeOK, Procs
  <1>8. /\ \A b : InFlight(b)' <=> b = c
        /\ \A b : ~InFlight(b)
    BY <1>1, <1>7 DEF InFlight
  <1>9. TypeOK'
    <2>1. accept_fd' \in [Procs -> Fds \cup {-1}]
      BY <1>1, <1>6 DEF IInv, TypeOK
    <2> QED
      BY <1>1, <1>6, <2>1 DEF IInv, TypeOK
  <1>10. ServerInv'
    BY <1>1, <1>7 DEF IInv, ServerInv
  <1>11. BacklogInv'
    <2>1. \A i, j \in 1..Len(backlog') : backlog'[i] = backlog'[j] => i = j
      <3>1. \A i, j \in 1..Len(backlog') : backlog'[i] = backlog'[j] => i + 1 = j + 1
        BY <1>3 DEF IInv, BacklogInv
      <3>2. \A i, j \in 1..Len(backlog') : i + 1 = j + 1 => i = j
        BY <1>3
      <3> QED
        BY <3>1, <3>2
    <2>2. \A i \in 1..Len(backlog') : backlog'[i] \notin handed' /\ backlog'[i] # c
      BY <1>1, <1>3, <1>4 DEF IInv, BacklogInv
    <2>3. \A b \in Conns : client'[b] = "none" =>
             b \notin handed' /\ b # c /\ \A i \in 1..Len(backlog') : backlog'[i] # b
      BY <1>1, <1>3, <1>4 DEF IInv, BacklogInv
    <2> QED
      BY <1>3, <1>8, <2>1, <2>2, <2>3 DEF BacklogInv
  <1>12. ParentInv'
    <2>1. /\ Held(Parent, "log")' = Held(Parent, "log")
          /\ Held(Parent, "listener")' = Held(Parent, "listener")
          /\ \A b \in Conns : b # c => Held(Parent, b)' = Held(Parent, b)
      BY <1>3, <1>6, ObjectsDiffer
    <2>2. Held(Parent, c)' = {m}
      BY <1>3, <1>4, <1>5, <1>6, <1>8 DEF IInv, ParentInv
    <2>3. \A b \in Conns :
             /\ b \in handed' => \E f \in Fds : Held(Parent, b)' = {f}
             /\ InFlight(b)' => b \notin handed' /\ Held(Parent, b)' = {accept_fd'[Parent]}
             /\ b \notin handed' /\ ~InFlight(b)' => Held(Parent, b)' = {}
      BY <1>1, <1>4, <1>5, <1>7, <1>8, <2>1, <2>2 DEF IInv, ParentInv
    <2>4. Cardinality(Held(Parent, "log")') = logs'
          /\ Held(Parent, "listener")' = IF server' \in {"unset", "listening"}
                                         THEN {server_fd'} ELSE {}
      BY <1>1, <2>1 DEF IInv, ParentInv
    <2> QED
      BY <1>3, <1>6, <1>7, <2>3, <2>4 DEF ParentInv
  <1>13. logs' <= options'
    BY <1>1 DEF IInv, PcInv
  <1> QED
    BY <1>1, <1>6, <1>7, <1>9, <1>10, <1>11, <1>12, <1>13, ParentOnly

\* A connection that is turned away leaves the table as it was before accept.
LEMMA TurnAwayStep ==
  ASSUME IInv, TurnAway
  PROVE  IInv'
  <1> USE StartupAssumption DEF parentv
  <1>1. pc[Parent] = "accepted" /\ UNCHANGED <<parentv, backlog, accept_fd, sw_fd, handed, client>>
    BY DEF TurnAway
  <1>2. CASE Ends(Parent)
    BY <1>1, <1>2, FailStep
  <1>3. CASE pc' = [pc EXCEPT ![Parent] = "select"]
             /\ fds' = [fds EXCEPT ![Parent] = CloseAccepted(@)]
    <2>1. PICK a : a = accept_fd[Parent]
      OBVIOUS
    <2>2. PICK c : c = fds[Parent][a]
      OBVIOUS
    <2>3. /\ a \in Fds /\ c \in Conns /\ InFlight(c)
          /\ \A g \in Fds : Own(fds[Parent][g]) /\ g # a => g < a
      BY <1>1, <2>1, <2>2 DEF IInv, ParentInv, InFlight
    <2>4. fds \in [Procs -> [Fds -> Objects \cup {Free}]] /\ Parent \in Procs
          /\ \A b \in Conns : b \in Procs /\ b # Parent
      BY DEF IInv, TypeOK, Procs
    <2>5. /\ fds'[Parent] = [fds[Parent] EXCEPT ![a] = Free]
          /\ \A b \in Conns : fds'[b] = fds[b]
          /\ fds' \in [Procs -> [Fds -> Objects \cup {Free}]]
      BY <1>3, <2>1, <2>3, <2>4 DEF CloseAccepted
    <2>6. fds'[Parent][a] = Free /\ \A f \in Fds : f # a => fds'[Parent][f] = fds[Parent][f]
      BY <2>3, <2>4, <2>5
    <2>7. pc'[Parent] = "select"
      BY <1>3 DEF IInv, TypeOK, Procs
    <2>8. \A b : ~InFlight(b)' /\ (InFlight(b) <=> b = c)
      BY <1>1, <2>1, <2>2, <2>7 DEF InFlight
    <2>9. TypeOK'
      BY <1>1, <1>3, <2>5 DEF IInv, TypeOK
    <2>10. ServerInv'
      BY <1>1, <2>7 DEF IInv, ServerInv
    <2>11. BacklogInv'
      BY <1>1, <2>8, BacklogKept
    <2>12. ParentInv'
      <3>1. /\ Held(Parent, "log")' = Held(Parent, "log")
            /\ Held(Parent, "listener")' = Held(Parent, "listener")
            /\ \A b \in Conns : b # c => Held(Parent, b)' = Held(Parent, b)
        BY <2>2, <2>3, <2>6, ObjectsDiffer DEF Held
      <3>2. c \notin handed /\ Held(Parent, c) = {a}
        BY <1>1, <2>1, <2>3 DEF IInv, ParentInv
      <3>3. Held(Parent, c)' = {}
        <4>1. \A f \in Fds : fds[Parent][f] = c => f = a
          BY <3>2 DEF Held
        <4> QED
          BY <2>3, <2>6, <4>1, ObjectsDiffer DEF Held
      <3>4. \A b \in Conns :
               /\ b \in handed' => \E f \in Fds : Held(Parent, b)' = {f}
               /\ b \notin handed' => Held(Parent, b)' = {}
        BY <1>1, <2>8, <3>1, <3>2, <3>3 DEF IInv, ParentInv
      <3>5. \A f, g \in Fds : fds'[Parent][f] = Free /\ Own(fds'[Parent][g]) => g < f
        <4>1. \A f, g \in Fds : fds[Parent][f] = Free /\ Own(fds[Parent][g]) => g < f
          BY <1>1 DEF IInv, ParentInv
        <4>2. ~Own(Free)
          BY DEF Own
        <4> QED
          BY <2>3, <2>6, <4>1, <4>2
      <3>6. Cardinality(Held(Parent, "log")') = logs'
            /\ Held(Parent, "listener")' = IF server' \in {"unset", "listening"}
                                           THEN {server_fd'} ELSE {}
        BY <1>1, <3>1 DEF IInv, ParentInv
      <3> QED
        BY <2>7, <2>8, <3>4, <3>5, <3>6 DEF ParentInv
    <2>13. logs' <= options'
      BY <1>1 DEF IInv, PcInv
    <2> QED
      BY <1>1, <1>3, <2>5, <2>9, <2>10, <2>11, <2>12, <2>13, ParentOnly
  <1> QED
    BY <1>2, <1>3 DEF TurnAway, Goto

\* The child starts with a copy of the table in which its connection is the
\* last descriptor that the program opened.
LEMMA ForkStep ==
  ASSUME IInv, Fork
  PROVE  IInv'
  <1> USE StartupAssumption DEF parentv
  <1>1. PICK a : a = accept_fd[Parent]
    OBVIOUS
  <1>2. PICK c : c = fds[Parent][a]
    OBVIOUS
  <1>3. PICK l \in {"select", "ended"} : l = IF polling THEN "select" ELSE "ended"
    OBVIOUS
  <1>4. PICK t : t = IF polling THEN fds[Parent] ELSE Closed
    OBVIOUS
  <1>5. /\ pc[Parent] = "accepted" /\ ~(a > FD_SETSIZE)
        /\ pc' = [pc EXCEPT ![Parent] = l, ![c] = "record"]
        /\ fds' = [fds EXCEPT ![c] = fds[Parent], ![Parent] = IF polling THEN @ ELSE Closed]
        /\ accept_fd' = [accept_fd EXCEPT ![c] = a]
        /\ handed' = handed \cup {c}
        /\ UNCHANGED <<parentv, backlog, sw_fd, client>>
    BY <1>1, <1>2, <1>3, <1>4 DEF Fork, TooLarge
  <1>6. /\ a \in Fds /\ c \in Conns /\ InFlight(c) /\ c \notin handed /\ Held(Parent, c) = {a}
        /\ \A g \in Fds : Own(fds[Parent][g]) /\ g # a => g < a
    BY <1>1, <1>2, <1>5 DEF IInv, ParentInv, InFlight
  <1>7. fds \in [Procs -> [Fds -> Objects \cup {Free}]] /\ Parent \in Procs
        /\ c \in Procs /\ c # Parent /\ \A b \in Conns : b \in Procs /\ b # Parent
    BY <1>6 DEF IInv, TypeOK, Procs
  <1>8. fds'[c] = fds[Parent] /\ fds'[Parent] = t /\ \A b \in Conns : b # c => fds'[b] = fds[b]
    BY <1>4, <1>5, <1>7
  <1>9. pc'[c] = "record" /\ pc'[Parent] = l /\ \A b \in Conns : b # c => pc'[b] = pc[b]
    BY <1>5, <1>7 DEF IInv, TypeOK
  <1>10. accept_fd'[c] = a /\ accept_fd'[Parent] = a
         /\ \A b \in Conns : b # c => accept_fd'[b] = accept_fd[b]
    BY <1>1, <1>5, <1>7 DEF IInv, TypeOK
  <1>11. server = "listening"
    BY <1>5 DEF IInv, ServerInv
  <1>12. \A b : ~InFlight(b)' /\ (InFlight(b) <=> b = c)
    BY <1>1, <1>2, <1>3, <1>5, <1>9 DEF InFlight
  <1>13. TypeOK'
    <2>1. Closed \in [Fds -> Objects \cup {Free}]
      BY DEF Closed
    <2>2. fds' \in [Procs -> [Fds -> Objects \cup {Free}]]
      BY <1>5, <1>7, <2>1
    <2>3. accept_fd' \in [Procs -> Fds \cup {-1}]
      BY <1>5, <1>6 DEF IInv, TypeOK
    <2>4. pc' \in [Procs -> {"options", "create", "select", "accept", "accepted", "none",
                             "record", "loop", "ended"}]
      BY <1>3, <1>5 DEF IInv, TypeOK
    <2> QED
      BY <1>5, <1>6, <2>2, <2>3, <2>4 DEF IInv, TypeOK
  <1>14. PcInv'
    <2>1. \A b \in Conns : /\ pc'[b] \in {"none", "record", "loop", "ended"}
                           /\ pc'[b] # "none" => b \in handed'
      BY <1>5, <1>9 DEF IInv, PcInv
    <2> QED
      BY <1>3, <1>5, <1>9, <2>1 DEF IInv, PcInv
  <1>15. ServerInv'
    BY <1>3, <1>5, <1>9, <1>11 DEF IInv, ServerInv
  <1>16. BacklogInv'
    <2>1. \A i \in 1..Len(backlog) : backlog[i] # c
      BY <1>6 DEF IInv, BacklogInv
    <2>2. client[c] # "none"
      BY <1>6 DEF IInv, BacklogInv
    <2> QED
      BY <1>5, <1>12, <2>1, <2>2 DEF IInv, BacklogInv
  <1>17. ParentInv'
    <2>1. CASE ~polling
      BY <1>3, <1>9, <2>1 DEF ParentInv
    <2>2. CASE polling
      <3>1. fds'[Parent] = fds[Parent] /\ pc'[Parent] = "select"
        BY <1>3, <1>4, <1>8, <1>9, <2>2
      <3>2. \A o : Held(Parent, o)' = Held(Parent, o)
        BY <3>1 DEF Held
      <3>3. \A b \in Conns :
               /\ b \in handed' => \E f \in Fds : Held(Parent, b)' = {f}
               /\ b \notin handed' => Held(Parent, b)' = {}
        BY <1>5, <1>6, <1>12, <3>2 DEF IInv, ParentInv
      <3>4. /\ Cardinality(Held(Parent, "log")') = logs'
            /\ Held(Parent, "listener")' = IF server' \in {"unset", "listening"}
                                           THEN {server_fd'} ELSE {}
            /\ \A f, g \in Fds : fds'[Parent][f] = Free /\ Own(fds'[Parent][g]) => g < f
        BY <1>5, <3>1, <3>2 DEF IInv, ParentInv
      <3> QED
        BY <1>12, <3>1, <3>3, <3>4 DEF ParentInv
    <2> QED
      BY <2>1, <2>2
  <1>18. ChildInv'
    <2>1. \A o : Held(c, o)' = Held(Parent, o)
      BY <1>8 DEF Held
    <2>2. Copied(c)'
      <3>1. Held(Parent, "listener") = {server_fd} /\ Cardinality(Held(Parent, "log")) = logs
        BY <1>5, <1>11 DEF IInv, ParentInv
      <3>2. a <= FD_SETSIZE
        BY <1>5, <1>6 DEF Fds
      <3> QED
        BY <1>5, <1>6, <1>8, <1>10, <2>1, <3>1, <3>2 DEF Copied
    <2>3. \A b \in Conns : b # c => /\ pc'[b] = "record" => Copied(b)'
                                    /\ pc'[b] = "loop" => Settled(b)'
      BY <1>5, <1>8, <1>9, <1>10, ChildKept
    <2> QED
      BY <1>9, <2>2, <2>3 DEF ChildInv
  <1> QED
    BY <1>13, <1>14, <1>15, <1>16, <1>17, <1>18 DEF IInv

-----------------------------------------------------------------------------
\* Every step of the parent, a child and a switch keeps the invariant.
LEMMA Inductive == IInv /\ [Next]_vars => IInv'
  <1> SUFFICES ASSUME IInv, [Next]_vars PROVE IInv'
      OBVIOUS
  <1>1. CASE AcceptFail
    <2>1. Ends(Parent) /\ UNCHANGED <<parentv, backlog, accept_fd, sw_fd, handed, client>>
      BY <1>1 DEF AcceptFail, Returned
    <2> QED
      BY <2>1, FailStep
  <1>2. CASE ForkFails
    BY <1>2, FailStep DEF ForkFails
  <1>3. CASE SelectFails
    BY <1>3, FailStep DEF SelectFails
  <1>4. CASE UNCHANGED vars
    <2>1. /\ PcInv' /\ ParentInv' /\ ChildInv' /\ \A c : InFlight(c)' = InFlight(c)
      BY <1>4, ClientKept DEF vars
    <2>2. TypeOK' /\ ServerInv'
      BY <1>4 DEF IInv, vars, parentv, TypeOK, ServerInv
    <2>3. BacklogInv'
      BY <1>4, <2>1, BacklogKept DEF vars
    <2> QED
      BY <2>1, <2>2, <2>3 DEF IInv
  <1> QED
    BY <1>1, <1>2, <1>3, <1>4, OptionsStep, CreateStep, PollingStep, AcceptStep, TurnAwayStep,
       ForkStep, ChildRecordStep, ChildFailsStep, ConnectStep, ResetStep DEF Next, ParentStep

\* While the parent runs, its table holds exactly the log files it opened, its
\* socket, and one descriptor for every connection handed to a child.
THEOREM ParentTableExact == Spec => []DescriptorsExact
  <1>1. IInv => DescriptorsExact
    <2> SUFFICES ASSUME IInv, pc[Parent] # "ended", NEW c \in Conns
                 PROVE  Cardinality(Held(Parent, c)) = IF c \in handed \/ InFlight(c) THEN 1 ELSE 0
      BY DEF IInv, ParentInv, DescriptorsExact
    <2>1. CASE c \in handed
      <3>1. PICK f \in Fds : Held(Parent, c) = {f}
        BY <2>1 DEF IInv, ParentInv
      <3> QED
        BY <2>1, <3>1, FS_Singleton
    <2>2. CASE InFlight(c)
      <3>1. Held(Parent, c) = {accept_fd[Parent]}
        BY <2>2 DEF IInv, ParentInv
      <3> QED
        BY <2>2, <3>1, FS_Singleton
    <2>3. CASE c \notin handed /\ ~InFlight(c)
      <3>1. Held(Parent, c) = {}
        BY <2>3 DEF IInv, ParentInv
      <3> QED
        BY <2>3, <3>1, FS_EmptySet
    <2> QED
      BY <2>1, <2>2, <2>3
  <1> QED
    BY <1>1, InitInv, Inductive, PTL DEF Spec

\* A child in its loop selects on its own connection under a usable number, and
\* has lost neither the listening socket nor a log file by moving it.
THEOREM ChildOwnsItsSwitch == Spec => []ChildHasItsSwitch
  <1>1. IInv => ChildHasItsSwitch
    BY DEF IInv, ChildInv, Settled, ChildHasItsSwitch
  <1> QED
    BY <1>1, InitInv, Inductive, PTL DEF Spec
=============================================================================
