------------------------------ MODULE Startup -------------------------------
(***************************************************************************)
(* Start-up of the controller (lib/cc_init.c, src/cc_main.c): options, the *)
(* listening socket, and a process for every switch that connects.  What   *)
(* the properties are about is the table of descriptors of each process: a *)
(* new descriptor is the lowest free number, fork copies the table, exit   *)
(* closes it.                                                              *)
(*                                                                         *)
(* main calls cc_conn_accept once; cc_polling, which nothing calls in the  *)
(* repository, calls it whenever the listening socket is readable.  Both   *)
(* are modelled; polling tells which one runs.                             *)
(*                                                                         *)
(* The loop of a child only waits: the calls that would receive and send   *)
(* are commented out.  The thread pool of the child is module ThreadPool.  *)
(***************************************************************************)
EXTENDS Integers, Sequences, FiniteSets, SequencesExt

CONSTANTS
    Conns,        \* connections that switches open; each has a child at most
    MaxFd,        \* descriptors 0 .. MaxFd-1 (RLIMIT_NOFILE, scaled)
    FD_SETSIZE,   \* scaled
    MaxOptions,   \* options on the command line
    Parent, Free

CC_ACCEPT_FD == 3
Fds == 0..(MaxFd - 1)
Procs == Conns \cup {Parent}
\* what a descriptor can refer to
Objects == Conns \cup {"inherited", "log", "listener"}

ASSUME StartupAssumption ==
    /\ MaxFd \in Nat /\ FD_SETSIZE \in Nat /\ FD_SETSIZE > CC_ACCEPT_FD /\ MaxFd > CC_ACCEPT_FD
    /\ MaxOptions \in Nat
    /\ Parent \notin Conns /\ Free \notin Objects
    /\ Conns \cap {"inherited", "log", "listener"} = {}

VARIABLES
    polling,    \* cc_polling runs, not main's single call
    pc,         \* per process; a child is named by its connection
    fds,        \* per process: the descriptor table
    options,    \* options read so far
    logs,       \* log files opened so far
    server_fd,  \* main_server.fd
    server,     \* the listening socket: "none", "unset" (an option failed), "closed", "listening"
    backlog,    \* connections the kernel completed, oldest first
    accept_fd,  \* per process: the local of cc_conn_accept
    sw_fd,      \* per child: sw_info->fd
    handed,     \* connections that were given to a child
    client      \* per connection: "none", "open", "reset"

parentv == <<polling, options, logs, server_fd, server>>
vars == <<parentv, pc, fds, backlog, accept_fd, sw_fd, handed, client>>

Held(p, o) == {f \in Fds : fds[p][f] = o}
Closed == [f \in Fds |-> Free]

\* Started with any of the descriptors 0 to 3 open.
Init ==
    /\ polling \in BOOLEAN
    /\ pc = [p \in Procs |-> IF p = Parent THEN "options" ELSE "none"]
    /\ \E S \in SUBSET (0..3) :
          fds = [p \in Procs |-> IF p = Parent
                                 THEN [f \in Fds |-> IF f \in S THEN "inherited" ELSE Free]
                                 ELSE Closed]
    /\ options = 0 /\ logs = 0 /\ server_fd = 0 /\ server = "none"
    /\ backlog = <<>> /\ handed = {}
    /\ accept_fd = [p \in Procs |-> -1] /\ sw_fd = [c \in Conns |-> -1]
    /\ client = [c \in Conns |-> "none"]

-----------------------------------------------------------------------------
(* Descriptors.                                                              *)

FreeFds(p) == Held(p, Free)
Opened(p, o) == [fds[p] EXCEPT ![Min(FreeFds(p))] = o]

Goto(p, l) == pc' = [pc EXCEPT ![p] = l]

\* exit, or the return from main
Ends(p) == Goto(p, "ended") /\ fds' = [fds EXCEPT ![p] = Closed]

-----------------------------------------------------------------------------
(* cc_set_init_config.                                                       *)

\* -i, -p, -f and -m only set variables that nothing reads afterwards
OptionSet ==
    /\ options' = options + 1
    /\ UNCHANGED <<pc, fds, logs>>

\* -l: without the right to, or if the file does not open, the program ends
OptionLog ==
    /\ options' = options + 1
    /\ \/ /\ FreeFds(Parent) # {}
          /\ fds' = [fds EXCEPT ![Parent] = Opened(Parent, "log")]
          /\ logs' = logs + 1
          /\ UNCHANGED pc
       \/ Ends(Parent) /\ UNCHANGED logs

\* -h, -v, and an option that is not known (-r is not)
OptionExit == Ends(Parent) /\ options' = options + 1 /\ UNCHANGED logs

cc_set_init_config ==
    /\ pc[Parent] = "options"
    /\ \/ options < MaxOptions /\ (OptionSet \/ OptionLog \/ OptionExit)
       \/ Goto(Parent, "create") /\ UNCHANGED <<options, fds, logs>>
    /\ UNCHANGED <<polling, server_fd, server, backlog, accept_fd, sw_fd, handed, client>>

-----------------------------------------------------------------------------
(* cc_server_conn_create, whose result nobody looks at.                      *)

Accepting == IF polling THEN "select" ELSE "accept"

\* Mutant: the socket stays open when bind or listen fails.
CreateClosedNot(t, f) == t
\* close(si->fd)
CreateClosed(t, f) == [t EXCEPT ![f] = Free]

cc_server_conn_create ==
    /\ pc[Parent] = "create"
    /\ Goto(Parent, Accepting)
    /\ IF FreeFds(Parent) = {}
       THEN server_fd' = -1 /\ UNCHANGED <<fds, server>>
       ELSE LET f == Min(FreeFds(Parent))
                t == Opened(Parent, "listener")
            IN  /\ server_fd' = f
                /\ \/ server' = "listening" /\ fds' = [fds EXCEPT ![Parent] = t]
                   \* an option cannot be set: the socket stays open
                   \/ server' = "unset" /\ fds' = [fds EXCEPT ![Parent] = t]
                   \* bind or listen fails
                   \/ server' = "closed" /\ fds' = [fds EXCEPT ![Parent] = CreateClosed(t, f)]
    /\ UNCHANGED <<polling, options, logs, backlog, accept_fd, sw_fd, handed, client>>

-----------------------------------------------------------------------------
(* cc_polling.                                                               *)

\* Mutant: one pending connection is not enough.
ReadableLate == Len(backlog) > 1
\* the listening socket has a connection; a socket that does not listen is
\* reported too
Readable == server # "listening" \/ backlog # <<>>

\* select on a number that is no descriptor fails; it may also fail otherwise.
\* EINTR goes round the loop.
cc_polling ==
    /\ pc[Parent] = "select"
    /\ \/ /\ server_fd # -1 /\ fds[Parent][server_fd] = "listener" /\ Readable
          /\ Goto(Parent, "accept") /\ UNCHANGED fds
       \/ /\ server_fd = -1 \/ fds[Parent][server_fd] # "listener"
          /\ Ends(Parent)
    /\ UNCHANGED <<parentv, backlog, accept_fd, sw_fd, handed, client>>

SelectFails ==
    /\ pc[Parent] = "select" /\ Ends(Parent)
    /\ UNCHANGED <<parentv, backlog, accept_fd, sw_fd, handed, client>>

-----------------------------------------------------------------------------
(* cc_conn_accept, in the parent.                                            *)

\* A negative result ends cc_polling; main returns in any case.
Returned(negative) == IF polling /\ ~negative THEN Goto(Parent, "select") /\ UNCHANGED fds
                                              ELSE Ends(Parent)

\* no socket, no connection (the socket is nonblocking; a client that reset
\* its connection after select is gone), or no descriptor left
AcceptFail ==
    /\ pc[Parent] = "accept"
    /\ server # "listening" \/ backlog = <<>> \/ FreeFds(Parent) = {}
    /\ Returned(TRUE)
    /\ UNCHANGED <<parentv, backlog, accept_fd, sw_fd, handed, client>>

Accept ==
    /\ pc[Parent] = "accept"
    /\ server = "listening" /\ backlog # <<>> /\ FreeFds(Parent) # {}
    /\ accept_fd' = [accept_fd EXCEPT ![Parent] = Min(FreeFds(Parent))]
    /\ fds' = [fds EXCEPT ![Parent] = Opened(Parent, Head(backlog))]
    /\ backlog' = Tail(backlog)
    /\ Goto(Parent, "accepted")
    /\ UNCHANGED <<parentv, sw_fd, handed, client>>

\* Mutant: numbers beyond the set pass.
TooLargeNever(f) == FALSE
\* accept_fd > FD_SETSIZE
TooLarge(f) == f > FD_SETSIZE

\* Mutant: the connection that is turned away stays open.
CloseAcceptedNot(t) == t
\* close(accept_fd)
CloseAccepted(t) == [t EXCEPT ![accept_fd[Parent]] = Free]

\* The function ends without a value: what the caller reads may be negative.
TurnAway ==
    /\ pc[Parent] = "accepted" /\ TooLarge(accept_fd[Parent])
    /\ \/ polling /\ Goto(Parent, "select")
          /\ fds' = [fds EXCEPT ![Parent] = CloseAccepted(@)]
       \/ Ends(Parent)
    /\ UNCHANGED <<parentv, backlog, accept_fd, sw_fd, handed, client>>

\* The fork fails; the descriptor is closed and the error ends cc_polling.
ForkFails ==
    /\ pc[Parent] = "accepted" /\ ~TooLarge(accept_fd[Parent])
    /\ Ends(Parent)
    /\ UNCHANGED <<parentv, backlog, accept_fd, sw_fd, handed, client>>

\* The parent returns without closing accept_fd.
Fork ==
    /\ pc[Parent] = "accepted" /\ ~TooLarge(accept_fd[Parent])
    /\ LET c == fds[Parent][accept_fd[Parent]] IN
          /\ pc' = [pc EXCEPT ![Parent] = IF polling THEN "select" ELSE "ended", ![c] = "record"]
          /\ fds' = [fds EXCEPT ![c] = fds[Parent],
                                ![Parent] = IF polling THEN @ ELSE Closed]
          /\ accept_fd' = [accept_fd EXCEPT ![c] = accept_fd[Parent]]
          /\ handed' = handed \cup {c}
    /\ UNCHANGED <<parentv, backlog, sw_fd, client>>

-----------------------------------------------------------------------------
(* cc_conn_accept, in the child.                                             *)

\* Mutant: the small number stays in use.
MovesNot(f) == FALSE
\* accept_fd < CC_ACCEPT_FD
Moves(f) == f < CC_ACCEPT_FD

\* sw_info->fd is set before the descriptor is moved; then dup2, close
ChildRecord(c) ==
    /\ pc[c] = "record" /\ Goto(c, "loop")
    /\ sw_fd' = [sw_fd EXCEPT ![c] = accept_fd[c]]
    /\ IF Moves(accept_fd[c])
       THEN /\ fds' = [fds EXCEPT ![c][CC_ACCEPT_FD] = fds[c][accept_fd[c]],
                                  ![c][accept_fd[c]] = Free]
            /\ accept_fd' = [accept_fd EXCEPT ![c] = CC_ACCEPT_FD]
       ELSE UNCHANGED <<fds, accept_fd>>
    /\ UNCHANGED <<parentv, backlog, handed, client>>

\* select returns at once (both timeouts are zero) and nothing is received; an
\* error other than EINTR is returned to cc_polling or main and ends the child
ChildFails(c) ==
    /\ pc[c] = "loop" /\ Ends(c)
    /\ UNCHANGED <<parentv, backlog, accept_fd, sw_fd, handed, client>>

-----------------------------------------------------------------------------
(* The switches.                                                             *)

Connect(c) ==
    /\ client[c] = "none" /\ server = "listening"
    /\ \E p \in Procs : Held(p, "listener") # {}
    /\ client' = [client EXCEPT ![c] = "open"]
    /\ backlog' = Append(backlog, c)
    /\ UNCHANGED <<parentv, pc, fds, accept_fd, sw_fd, handed>>

\* a pending connection that is reset may be taken off the backlog
Reset(c) ==
    /\ client[c] = "open" /\ c \notin handed
    /\ client' = [client EXCEPT ![c] = "reset"]
    /\ \/ \E i \in DOMAIN backlog : backlog[i] = c /\ backlog' = RemoveAt(backlog, i)
       \/ (\A i \in DOMAIN backlog : backlog[i] # c) /\ UNCHANGED backlog
    /\ UNCHANGED <<parentv, pc, fds, accept_fd, sw_fd, handed>>

ParentStep == cc_set_init_config \/ cc_server_conn_create \/ cc_polling
              \/ AcceptFail \/ Accept \/ TurnAway \/ ForkFails \/ Fork

Next ==
    \/ ParentStep \/ SelectFails
    \/ \E c \in Conns : ChildRecord(c) \/ ChildFails(c) \/ Connect(c) \/ Reset(c)

\* The kernel schedules the parent.  That options end, calls fail or switches
\* connect is not assumed.
Spec == Init /\ [][Next]_vars /\ WF_vars(ParentStep)

-----------------------------------------------------------------------------
(* Properties.                                                               *)

\* Every variable has its type.
TypeOK ==
    /\ polling \in BOOLEAN /\ server \in {"none", "unset", "closed", "listening"}
    /\ pc \in [Procs -> {"options", "create", "select", "accept", "accepted", "none",
                         "record", "loop", "ended"}]
    /\ fds \in [Procs -> [Fds -> Objects \cup {Free}]]
    /\ options \in 0..MaxOptions /\ logs \in 0..MaxOptions
    /\ server_fd \in Fds \cup {-1} /\ accept_fd \in [Procs -> Fds \cup {-1}]
    /\ sw_fd \in [Conns -> Fds \cup {-1}]
    /\ handed \subseteq Conns /\ client \in [Conns -> {"none", "open", "reset"}]

InFlight(c) == pc[Parent] = "accepted" /\ fds[Parent][accept_fd[Parent]] = c

\* While the parent runs, its table holds a log file for every -l, the
\* server's socket once (also if an option could not be set), and a descriptor for every
\* connection that was ever given to a child, even when that child has ended;
\* every other path through accept and start-up closes what it opened.
DescriptorsExact ==
    /\ TypeOK
    /\ pc[Parent] # "ended" =>
          /\ Cardinality(Held(Parent, "log")) = logs
          /\ Held(Parent, "listener") = IF server \in {"unset", "listening"} THEN {server_fd} ELSE {}
          /\ \A c \in Conns : Cardinality(Held(Parent, c)) =
                                 IF c \in handed \/ InFlight(c) THEN 1 ELSE 0

\* A child that reached its loop selects on its own connection: the number is
\* clear of the standard streams and at most FD_SETSIZE, it is the only one the
\* child has for it, and moving it closed neither the listening socket, nor a
\* log file, nor another connection.
ChildHasItsSwitch ==
    \A c \in Conns : pc[c] = "loop" =>
        /\ accept_fd[c] \in CC_ACCEPT_FD..FD_SETSIZE
        /\ Held(c, c) = {accept_fd[c]}
        /\ Held(c, "listener") = {server_fd}
        /\ Cardinality(Held(c, "log")) = logs
        /\ sw_fd[c] # accept_fd[c] => fds[c][sw_fd[c]] = Free

\* As long as cc_polling runs, a connection in the backlog is taken from it,
\* by accept or because the switch gave it up.
BacklogServed ==
    \A c \in Conns :
        (polling /\ \E i \in DOMAIN backlog : backlog[i] = c)
            ~> (~\E i \in DOMAIN backlog : backlog[i] = c) \/ pc[Parent] = "ended"
=============================================================================
