----------------------------- MODULE LinkedList -----------------------------
(***************************************************************************)
(* The singly linked list of lib/cc_link.c: nodes from malloc, a head      *)
(* pointer kept by the caller, and iterate_list, which calls the caller    *)
(* back between two elements; the callback may call any other operation on *)
(* the same list.  malloc may give a node again as soon as it was freed.   *)
(*                                                                         *)
(* A step of undefined behaviour ends the behaviour with fault set:        *)
(*   "null"      the head of an empty list was followed;                   *)
(*   "argument"  NULL was passed for the address of the head;              *)
(*   "memory"    malloc returned NULL, which nobody tests;                 *)
(*   "freed"     iterate_list followed a node that its callback freed.     *)
(***************************************************************************)
EXTENDS Integers, Sequences, FiniteSets, SequencesExt

CONSTANTS Nodes, Data, NULL, UnsignedBits

ASSUME LinkedListAssumption ==
    /\ IsFiniteSet(Nodes) /\ NULL \notin Nodes \cup Data
    /\ UnsignedBits \in Nat \ {0} /\ 2^UnsignedBits \in Nat \ {0}

CC_ERROR == -1
CC_NO_ERROR == 0
Unsigned(n) == n % 2^UnsignedBits

VARIABLES
    head,     \* the caller's pointer
    next,     \* list_element_t.next
    data,     \* list_element_t.data
    mem,      \* nodes malloc gave out and free has not taken back
    result,   \* what the last call returned
    cursor,   \* iterate_list's e while its callback runs, else NULL
    called,   \* in this iteration: nodes the callback was called for,
    since,    \*   nodes that were in the list all along,
    twice,    \*   the callback was called twice for one of them,
    torn,     \*   a node was freed while it was the cursor
    fault     \* undefined behaviour met, or "none"

listv == <<head, next, data, mem>>
iterv == <<cursor, called, since, twice, torn>>
vars == <<listv, result, iterv, fault>>

\* The nodes from n on, in order (at most all of them).
ChainFrom(n) ==
    LET walk[k \in 0..Cardinality(Nodes)] ==
            IF k = 0 THEN <<n>>
            ELSE LET s == walk[k - 1] IN
                 IF Last(s) = NULL THEN s ELSE Append(s, next[Last(s)])
    IN Front(walk[Cardinality(Nodes)])

\* delete_list leaves the caller's pointer as it was.
Dangling == head \notin mem \cup {NULL}
Chain == IF Dangling THEN <<>> ELSE ChainFrom(head)
Contents == LET c == Chain IN [i \in DOMAIN c |-> data[c[i]]]

\* The places from k on whose data is in D.
PlacesOf(D, k) == LET c == Chain IN {i \in k..Len(c) : data[c[i]] \in D}

Init ==
    /\ head = NULL /\ mem = {} /\ result = NULL
    /\ next = [n \in Nodes |-> NULL] /\ data = [n \in Nodes |-> NULL]
    /\ cursor = NULL /\ called = {} /\ since = {} /\ twice = FALSE /\ torn = FALSE
    /\ fault = "none"

-----------------------------------------------------------------------------
(* malloc, free and the ends of a call.                                      *)

malloc == (Nodes \ mem) \cup {NULL}

Fault(f) == fault' = f /\ UNCHANGED <<listv, result, iterv>>

Return(r) == result' = r /\ UNCHANGED fault

\* Mutant: the node is unlinked and not freed.
free_none(F) == UNCHANGED <<mem, iterv>>
\* What is known of the freed nodes is forgotten.
free(F) ==
    /\ mem' = mem \ F
    /\ called' = called \ F /\ since' = since \ F
    /\ torn' = (torn \/ cursor \in F)
    /\ UNCHANGED <<cursor, twice>>

Blank(f, F) == [n \in Nodes |-> IF n \in F THEN NULL ELSE f[n]]

\* a new node; its next is set by the caller
Link(n, d) ==
    /\ mem' = mem \cup {n}
    /\ data' = [data EXCEPT ![n] = d]
    /\ UNCHANGED iterv

-----------------------------------------------------------------------------
(* The operations.                                                           *)

\* the test is the wrong way round: with the address of a pointer it returns
\* an error, with NULL it writes through NULL
create_list(l) ==
    IF l THEN Return(CC_ERROR) /\ UNCHANGED <<listv, iterv>> ELSE Fault("argument")

\* insert_in_front reports a NULL address and goes on
without_head ==
    \/ Return(CC_ERROR) /\ UNCHANGED <<listv, iterv>>
    \/ Fault("argument")

insert_in_front(d) ==
    \E n \in malloc :
        IF n = NULL THEN Fault("memory")
        ELSE /\ Link(n, d)
             /\ next' = [next EXCEPT ![n] = head] /\ head' = n
             /\ Return(CC_NO_ERROR)

\* the loop looks at e->next, so never at the first element
Siblings(s) == PlacesOf({s}, 2)

insert_before(s, d) ==
    IF head = NULL THEN Fault("null")
    ELSE IF Siblings(s) = {} THEN Return(CC_ERROR) /\ UNCHANGED <<listv, iterv>>
    ELSE LET i == Min(Siblings(s)) IN
         \E n \in malloc :
            IF n = NULL THEN Fault("memory")
            ELSE /\ Link(n, d)
                 /\ next' = [next EXCEPT ![n] = Chain[i], ![Chain[i - 1]] = n]
                 /\ UNCHANGED head
                 /\ Return(CC_NO_ERROR)

\* Mutant: the new element is hung on the first one.
LastNodeFirst == head
\* for ( e = *head; e->next != NULL; e = e->next )
LastNode == Last(Chain)

insert_tail(d) ==
    \E n \in malloc :
        IF n = NULL THEN Fault("memory")
        ELSE /\ Link(n, d)
             /\ IF head = NULL THEN head' = n /\ next' = [next EXCEPT ![n] = NULL]
                ELSE next' = [next EXCEPT ![n] = NULL, ![LastNode] = n] /\ UNCHANGED head
             /\ Return(CC_NO_ERROR)

list_length_of ==
    /\ Return(IF head = NULL THEN Unsigned(CC_ERROR) ELSE Unsigned(Len(Chain)))
    /\ UNCHANGED <<listv, iterv>>

\* D: the data the caller's function returns true for
find_list_custom(D) ==
    /\ LET found == PlacesOf(D, 1) IN
          Return(IF found = {} THEN NULL ELSE data[Chain[Min(found)]])
    /\ UNCHANGED <<listv, iterv>>

\* Mutant: an element in first place is passed over.
MatchesLater(d) == PlacesOf({d}, 2)
\* the head, then e->next
Matches(d) == PlacesOf({d}, 1)

delete_element(d) ==
    IF head = NULL THEN Fault("null")
    ELSE IF Matches(d) = {} THEN Return(CC_ERROR) /\ UNCHANGED <<listv, iterv>>
    ELSE LET i == Min(Matches(d))
             n == Chain[i]
         IN  /\ IF i = 1 THEN head' = next[n] /\ next' = Blank(next, {n})
                ELSE /\ next' = Blank([next EXCEPT ![Chain[i - 1]] = next[n]], {n})
                     /\ UNCHANGED head
             /\ data' = Blank(data, {n})
             /\ free({n})
             /\ Return(CC_NO_ERROR)

delete_list ==
    /\ LET F == ToSet(Chain) IN
          free(F) /\ next' = Blank(next, F) /\ data' = Blank(data, F)
    /\ Return(CC_NO_ERROR) /\ UNCHANGED head

\* the caller, after delete_list
forget == head' = NULL /\ UNCHANGED <<next, data, mem, result, iterv, fault>>

-----------------------------------------------------------------------------
(* iterate_list(head, function, user_data).                                  *)

\* Mutant: the loop starts at the second element.
FirstVisitedSecond == next[head]
\* e = head
FirstVisited == head

iterate_list ==
    /\ cursor = NULL /\ head # NULL
    /\ since' = ToSet(Chain)
    /\ cursor' = FirstVisited
    /\ called' = {FirstVisited}
    /\ UNCHANGED <<listv, result, twice, torn, fault>>

\* e = e->next, after the callback returned
iterate_next ==
    /\ cursor # NULL
    /\ IF cursor \notin mem THEN Fault("freed")
       ELSE /\ cursor' = next[cursor]
            /\ IF next[cursor] = NULL
               THEN called' = {} /\ since' = {} /\ twice' = FALSE /\ torn' = FALSE
               ELSE /\ called' = called \cup {next[cursor]}
                    /\ twice' = (twice \/ next[cursor] \in called \cap since)
                    /\ UNCHANGED <<since, torn>>
            /\ UNCHANGED <<listv, result, fault>>

-----------------------------------------------------------------------------
Operation ==
    /\ ~Dangling
    /\ \/ \E l \in BOOLEAN : create_list(l)
       \/ without_head
       \/ \E d \in Data : insert_in_front(d) \/ insert_tail(d) \/ delete_element(d)
       \/ \E s, d \in Data : insert_before(s, d)
       \/ list_length_of
       \/ \E D \in SUBSET Data : find_list_custom(D)
       \/ delete_list
       \/ iterate_list

Next == fault = "none" /\ (Operation \/ (Dangling /\ forget) \/ iterate_next)

Spec == Init /\ [][Next]_vars

-----------------------------------------------------------------------------
(* Properties.                                                               *)

\* Every variable has its type.
TypeOK ==
    /\ head \in Nodes \cup {NULL} /\ cursor \in Nodes \cup {NULL}
    /\ next \in [Nodes -> Nodes \cup {NULL}] /\ data \in [Nodes -> Data \cup {NULL}]
    /\ mem \subseteq Nodes /\ called \subseteq Nodes /\ since \subseteq mem
    /\ fault \in {"none", "null", "argument", "memory", "freed"}
    /\ result \in Data \cup {NULL, CC_ERROR} \cup 0..(2^UnsignedBits - 1)

\* Between two calls every allocated node is in the list and in it once: no
\* sequence of insertions and removals, from inside a callback or not, loses a
\* node, closes a cycle or leaves a link to a freed node.
NodesOwned ==
    /\ TypeOK
    /\ LET c == Chain IN
          /\ ToSet(c) = mem /\ Len(c) = Cardinality(mem)
          /\ c # <<>> => next[Last(c)] = NULL

\* iterate_list meets a freed node only if the callback deleted the very
\* element it was called for; otherwise, when it ends, it has called the
\* function exactly once for every element that was in the list throughout,
\* whatever the callback inserted and deleted meanwhile.
IterationSound ==
    [][/\ fault' = "freed" => torn
       /\ (cursor # NULL /\ cursor' = NULL /\ ~torn) => since \subseteq called /\ ~twice]_vars

ListSpecOf == INSTANCE ListSpec WITH list <- Contents, None <- NULL

\* A call of op on the list that returns.
Called(op) == ~Dangling /\ fault' = "none" /\ op

\* s is the datum of the first element, which insert_before does not look at.
IsFirst(s) == Contents # <<>> /\ Contents[1] = s

\* Pointers, nodes and iteration implement the abstract list: each operation,
\* when it returns, has changed the sequence of data and returned the value as
\* its comment says, and the steps of iterate_list change neither.  Three cases
\* are left out, in which the code does not do so: insert_before does not find a
\* sibling in the first element, since its loop starts behind it (line 84); the
\* length of an empty list is CC_ERROR, the largest unsigned int (line 141); and
\* create_list refuses every address of a head (line 31) instead of ListSpec's
\* Create.
ImplementsList ==
    /\ ListSpecOf!LSInit
    /\ [][/\ \A d \in Data :
                /\ Called(insert_in_front(d)) => ListSpecOf!AtFront(d)
                /\ Called(insert_tail(d)) => ListSpecOf!AtEnd(d)
                /\ Called(delete_element(d)) => ListSpecOf!Delete(d)
                /\ \A s \in Data :
                      Called(insert_before(s, d)) /\ ~IsFirst(s) => ListSpecOf!Before(s, d)
          /\ \A D \in SUBSET Data : Called(find_list_custom(D)) => ListSpecOf!Find(D)
          /\ Called(list_length_of) /\ Contents # <<>> => ListSpecOf!Length
          /\ Called(delete_list) => ListSpecOf!Clear
          /\ Called(without_head) => ListSpecOf!Refuse
          /\ (Dangling /\ forget) \/ iterate_list \/ iterate_next =>
                UNCHANGED <<Contents, result>>]_vars
=============================================================================
