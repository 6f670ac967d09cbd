------------------------------ MODULE MemPool -------------------------------
(***************************************************************************)
(* The fixed-size buffer lists of lib/cc_mem_pool.c.  A list of a type is  *)
(* a doubly linked row of nodes; the nodes after head up to tail carry the *)
(* free buffers, the nodes after tail are empty.  new_mem_node takes the   *)
(* buffer of tail and moves tail back, free_mem_node moves tail forward    *)
(* and stores the buffer there, so a buffer need not return to its node.   *)
(*                                                                         *)
(* Users: lists are created before they are used, a thread frees what it   *)
(* holds, and clean_mem_list, which takes no lock, runs while no other     *)
(* call is in progress.  init_mem_list that fails (bad arguments, malloc)  *)
(* leaves the list as it was.                                              *)
(***************************************************************************)
EXTENDS Integers, FiniteSets

CONSTANTS Users, Types, MaxLength, None

ASSUME MemPoolAssumption == MaxLength \in Nat /\ 0 \notin Types /\ None \notin Types

\* A buffer is named by its type, the byte in front of it, and the node whose
\* raw_data it is.
Buffers == Types \X (0..MaxLength)
ASSUME NoneIsNoBuffer == None \notin Buffers

VARIABLES
    valid,    \* types whose list exists (head # NULL)
    length,   \* per type: nodes after head
    tail,     \* per type: position of tail; 0 is head
    data,     \* per type and position: the node's buffer, or None
    held,     \* per user: the buffers it was given
    want      \* per user: the type it is allocating (past the unlocked test), or None

vars == <<valid, length, tail, data, held, want>>

\* Mutant: the count starts at the node after tail.
UsedOffByOne(k) == length[k] - tail[k] - 1
\* left-1, printed by clean_mem_list: nodes from tail to the end, without tail
Used(k) == length[k] - tail[k]

InUse(k) == {b \in UNION {held[u] : u \in Users} : b[1] = k}

Init ==
    /\ valid = {}
    /\ length = [k \in Types |-> 0] /\ tail = [k \in Types |-> 0]
    /\ data = [k \in Types |-> [i \in 0..MaxLength |-> None]]
    /\ held = [u \in Users |-> {}] /\ want = [u \in Users |-> None]

\* Nobody is inside the pool.
Quiet == \A u \in Users : want[u] = None

\* head is node 0; each further node is linked in right after head
init_mem_list(k, n) ==
    /\ Quiet /\ k \notin valid /\ n > 0
    /\ valid' = valid \cup {k}
    /\ length' = [length EXCEPT ![k] = n]
    /\ data' = [data EXCEPT ![k] = [i \in 0..MaxLength |->
                                       IF i <= n THEN <<k, i>> ELSE None]]
    /\ tail' = [tail EXCEPT ![k] = n]
    /\ UNCHANGED <<held, want>>

\* the test of head, before the lock
new_mem_node(u, k) ==
    /\ want[u] = None /\ k \in valid
    /\ want' = [want EXCEPT ![u] = k]
    /\ UNCHANGED <<valid, length, tail, data, held>>

\* Mutant: head's own buffer is handed out too.
HasFreeHead(k) == data[k][tail[k]] # None
\* tail != head
HasFree(k) == tail[k] # 0

\* Mutant: the node keeps its pointer to the buffer it gave away.
EmptiedNot(k) == data[k][tail[k]]
\* tail->data = NULL
Emptied(k) == None

new_mem_node_locked(u) ==
    /\ want[u] # None
    /\ LET k == want[u] IN
          IF HasFree(k)
          THEN /\ held' = [held EXCEPT ![u] = @ \cup {data[k][tail[k]]}]
               /\ data' = [data EXCEPT ![k][tail[k]] = Emptied(k)]
               /\ tail' = [tail EXCEPT ![k] = @ - 1]
          ELSE UNCHANGED <<held, data, tail>>
    /\ want' = [want EXCEPT ![u] = None]
    /\ UNCHANGED <<valid, length>>

\* Mutant: tail moves on only after the buffer is stored.
ForwardLate(k) == tail[k]
\* tail->next
Forward(k) == tail[k] + 1

\* Mutant: the type byte is ignored.
ListOfAny(b) == CHOOSE k \in valid : TRUE
\* *(addr - 1)
ListOf(b) == b[1]

\* The buffer is dropped ("free node error") if tail has no next node.  Line 59
\* calls pthread_spinlock, which does not exist; what is modelled is
\* pthread_spin_lock, which the unlock at line 72 and the other functions ask for.
free_mem_node(u, b) ==
    /\ want[u] = None /\ b \in held[u]
    /\ LET k == ListOf(b) IN
          IF tail[k] < length[k]
          THEN /\ tail' = [tail EXCEPT ![k] = Forward(k)]
               /\ data' = [data EXCEPT ![k][Forward(k)] = b]
          ELSE UNCHANGED <<tail, data>>
    /\ held' = [held EXCEPT ![u] = @ \ {b}]
    /\ UNCHANGED <<valid, length, want>>

\* Every list is released, raw_data and all; users lose what they hold.  tail
\* keeps its (now dangling) value.
clean_mem_list ==
    /\ Quiet /\ valid # {}
    /\ valid' = {}
    /\ held' = [u \in Users |-> {}]
    /\ data' = [k \in Types |-> [i \in 0..MaxLength |-> None]]
    /\ UNCHANGED <<length, tail, want>>

Next ==
    \/ \E k \in Types, n \in 0..MaxLength : init_mem_list(k, n)
    \/ \E u \in Users : \/ \E k \in Types : new_mem_node(u, k)
                        \/ new_mem_node_locked(u)
                        \/ \E b \in held[u] : free_mem_node(u, b)
    \/ clean_mem_list

Spec == Init /\ [][Next]_vars

-----------------------------------------------------------------------------
(* Properties.                                                               *)

\* Every variable has its type.
TypeOK ==
    /\ valid \subseteq Types
    /\ length \in [Types -> 0..MaxLength] /\ tail \in [Types -> 0..MaxLength]
    /\ data \in [Types -> [0..MaxLength -> Buffers \cup {None}]]
    /\ held \in [Users -> SUBSET Buffers] /\ want \in [Users -> Types \cup {None}]

\* A buffer has one owner: no two users hold it, no user holds one that is in
\* a free list, and no two nodes carry the same one, whatever the order in
\* which buffers are given back.
OneOwner ==
    /\ TypeOK
    /\ \A u, v \in Users : u # v => held[u] \cap held[v] = {}
    /\ \A k \in valid, i \in 0..MaxLength : data[k][i] # None =>
          /\ \A u \in Users : data[k][i] \notin held[u]
          /\ \A m \in valid, j \in 0..MaxLength : data[m][j] = data[k][i] => m = k /\ j = i

\* The nodes up to tail, and only those, carry a buffer, of the list's own
\* type: the type byte brings each buffer back to the list it came from.
RowFilled ==
    \A k \in valid, i \in 0..MaxLength :
        IF i <= tail[k] THEN data[k][i] # None /\ data[k][i][1] = k ELSE data[k][i] = None

\* No buffer is lost: the row of free buffers has no hole, and as many are in
\* use as tail is short of the end, so a user that frees what it holds never
\* meets "free node error" and clean_mem_list prints how many are in use.
Conservation == RowFilled /\ \A k \in valid : Cardinality(InUse(k)) = Used(k)
=============================================================================
