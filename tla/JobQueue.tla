------------------------------ MODULE JobQueue ------------------------------
(***************************************************************************)
(* What the thread pool promises while it is in use: every job submitted   *)
(* is performed once, and jobs are started in the order of submission.     *)
(***************************************************************************)
EXTENDS Sequences

CONSTANT Jobs

VARIABLES pending,  \* jobs waiting to be started, oldest first
          running,  \* jobs handed to a worker
          done      \* jobs performed

jqVars == <<pending, running, done>>

JQInit == pending = <<>> /\ running = {} /\ done = {}

Submit(j) ==
    /\ j \notin running \cup done /\ \A i \in DOMAIN pending : pending[i] # j
    /\ pending' = Append(pending, j)
    /\ UNCHANGED <<running, done>>

Start ==
    /\ pending # <<>>
    /\ running' = running \cup {Head(pending)}
    /\ pending' = Tail(pending)
    /\ UNCHANGED done

Finish(j) ==
    /\ j \in running
    /\ running' = running \ {j}
    /\ done' = done \cup {j}
    /\ UNCHANGED pending

JQNext == Start \/ \E j \in Jobs : Submit(j) \/ Finish(j)

JQSpec == JQInit /\ [][JQNext]_jqVars
=============================================================================
