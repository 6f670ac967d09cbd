--------------------------- MODULE MemPoolProofs ----------------------------
(***************************************************************************)
(* Proofs about MemPool for any number of users, types and buffers.        *)
(***************************************************************************)
EXTENDS MemPool, FiniteSetTheorems, TLAPS

\* tail stays inside its row, only lists that exist are used, and what a user
\* holds came from one of them.
UseInv ==
    /\ \A k \in valid : tail[k] <= length[k]
    /\ \A u \in Users : want[u] # None => want[u] \in valid
    /\ \A u \in Users : \A b \in held[u] : b[1] \in valid

\* No two users hold the same buffer.
HeldOnce == \A u, v \in Users : u # v => held[u] \cap held[v] = {}

\* A free buffer is in no user's hands and in no other node.
FreeOnce ==
    \A k \in valid, i \in 0..MaxLength : data[k][i] # None =>
        /\ \A u \in Users : data[k][i] \notin held[u]
        /\ \A m \in valid, j \in 0..MaxLength : data[m][j] = data[k][i] => m = k /\ j = i

\* As many buffers are in use as tail is short of the end.
CountInv == \A k \in valid : Cardinality(InUse(k)) = Used(k)

IInv == TypeOK /\ UseInv /\ HeldOnce /\ FreeOnce /\ RowFilled /\ CountInv

-----------------------------------------------------------------------------
\* The invariant holds once the pool has been filled.
LEMMA InitInv == Init => IInv
  <1> SUFFICES ASSUME Init PROVE IInv
      OBVIOUS
  <1>1. TypeOK
    BY MemPoolAssumption DEF Init, TypeOK
  <1> QED
    BY <1>1 DEF Init, IInv, UseInv, HeldOnce, FreeOnce, RowFilled, CountInv

\* Buffers of one type are finitely many.
LEMMA InUseFinite ==
  ASSUME TypeOK, NEW k \in Types
  PROVE  IsFiniteSet(InUse(k)) /\ Cardinality(InUse(k)) \in Nat
  <1>1. InUse(k) \in SUBSET ({k} \X (0..MaxLength))
    BY DEF InUse, TypeOK, Buffers
  <1>2. IsFiniteSet({k}) /\ IsFiniteSet(0..MaxLength)
    <2>1. 0 \in Int /\ MaxLength \in Int
      BY MemPoolAssumption
    <2> QED
      BY <2>1, FS_Singleton, FS_Interval
  <1>3. IsFiniteSet({k} \X (0..MaxLength))
    BY <1>2, FS_Product
  <1> QED
    BY <1>1, <1>3, FS_Subset, FS_CardinalityType

\* init_mem_list fills a row with buffers nobody has.
LEMMA InitListStep ==
  ASSUME IInv, NEW k \in Types, NEW n \in 0..MaxLength, init_mem_list(k, n)
  PROVE  IInv'
  <1> USE MemPoolAssumption, NoneIsNoBuffer DEF IInv
  <1>1. /\ k \notin valid /\ n > 0 /\ valid' = valid \cup {k}
        /\ length' = [length EXCEPT ![k] = n] /\ tail' = [tail EXCEPT ![k] = n]
        /\ UNCHANGED <<held, want>>
        /\ data' = [data EXCEPT ![k] = [i \in 0..MaxLength |->
                                           IF i <= n THEN <<k, i>> ELSE None]]
    BY DEF init_mem_list
  <1>2. \A i \in 0..MaxLength : <<k, i>> \in Buffers /\ <<k, i>> # None
    BY DEF Buffers
  <1>3. /\ \A i \in 0..MaxLength : data'[k][i] = IF i <= n THEN <<k, i>> ELSE None
        /\ \A m \in valid : m # k /\ data'[m] = data[m] /\ tail'[m] = tail[m] /\ length'[m] = length[m]
        /\ tail'[k] = n /\ length'[k] = n
    BY <1>1 DEF TypeOK
  <1>4. TypeOK'
    <2>1. [i \in 0..MaxLength |-> IF i <= n THEN <<k, i>> ELSE None]
             \in [0..MaxLength -> Buffers \cup {None}]
      BY <1>2
    <2> QED
      BY <1>1, <2>1 DEF TypeOK
  <1>5. UseInv' /\ HeldOnce'
    BY <1>1, <1>3 DEF UseInv, HeldOnce, TypeOK
  <1>6. RowFilled'
    BY <1>1, <1>2, <1>3 DEF RowFilled, TypeOK
  <1>7. FreeOnce'
    <2> SUFFICES ASSUME NEW p \in valid', NEW i \in 0..MaxLength, data'[p][i] # None
                 PROVE  /\ \A u \in Users : data'[p][i] \notin held[u]
                        /\ \A m \in valid', j \in 0..MaxLength :
                              data'[m][j] = data'[p][i] => m = p /\ j = i
      BY <1>1 DEF FreeOnce
    <2>1. \A m \in valid, j \in 0..MaxLength : data[m][j] # None => data[m][j][1] = m
      BY DEF RowFilled
    <2>2. \A u \in Users : \A b \in held[u] : b[1] # k
      BY <1>1 DEF UseInv
    <2>3. CASE p = k
      <3>1. data'[p][i] = <<k, i>>
        BY <1>3, <2>3
      <3> QED
        BY <1>1, <1>2, <1>3, <2>1, <2>2, <2>3, <3>1
    <2>4. CASE p \in valid
      <3>1. data'[p][i] = data[p][i] /\ data[p][i][1] = p /\ p # k
        BY <1>3, <2>1, <2>4
      <3> QED
        BY <1>1, <1>2, <1>3, <2>4, <3>1 DEF FreeOnce
    <2> QED
      BY <1>1, <2>3, <2>4
  <1>8. CountInv'
    <2>1. InUse(k) = {}
      BY <1>1 DEF InUse, UseInv
    <2>2. Cardinality(InUse(k)) = 0
      BY <2>1, FS_EmptySet
    <2>3. \A m : InUse(m)' = InUse(m)
      BY <1>1 DEF InUse
    <2> QED
      BY <1>1, <1>3, <2>2, <2>3 DEF CountInv, Used
  <1> QED
    BY <1>4, <1>5, <1>6, <1>7, <1>8

\* The test before the lock changes no list.
LEMMA WantStep ==
  ASSUME IInv, NEW u \in Users, NEW k \in Types, new_mem_node(u, k)
  PROVE  IInv'
  <1>1. /\ k \in valid /\ want' = [want EXCEPT ![u] = k]
        /\ UNCHANGED <<valid, length, tail, data, held>>
    BY DEF new_mem_node
  <1>2. TypeOK' /\ UseInv'
    BY <1>1 DEF IInv, TypeOK, UseInv
  <1>3. HeldOnce' /\ FreeOnce' /\ RowFilled'
    BY <1>1 DEF IInv, HeldOnce, FreeOnce, RowFilled
  <1>4. CountInv'
    BY <1>1 DEF IInv, CountInv, InUse, Used
  <1> QED
    BY <1>2, <1>3, <1>4 DEF IInv

\* new_mem_node hands out the buffer of tail and moves tail back.
LEMMA NewStep ==
  ASSUME IInv, NEW u \in Users, new_mem_node_locked(u)
  PROVE  IInv'
  <1> USE MemPoolAssumption, NoneIsNoBuffer DEF IInv
  <1>0. PICK k \in valid : k = want[u] /\ k \in Types
    BY DEF new_mem_node_locked, UseInv, TypeOK
  <1>a. valid' = valid /\ length' = length /\ want' = [want EXCEPT ![u] = None]
    BY DEF new_mem_node_locked
  <1>1. CASE ~HasFree(k)
    <2>1. UNCHANGED <<held, data, tail>>
      BY <1>0, <1>1 DEF new_mem_node_locked
    <2>2. TypeOK' /\ UseInv'
      BY <1>0, <1>a, <2>1 DEF TypeOK, UseInv
    <2>3. HeldOnce' /\ FreeOnce' /\ RowFilled'
      BY <1>0, <1>a, <2>1 DEF HeldOnce, FreeOnce, RowFilled
    <2>4. CountInv'
      BY <1>0, <1>a, <2>1 DEF CountInv, InUse, Used
    <2> QED
      BY <2>2, <2>3, <2>4
  <1>2. CASE HasFree(k)
    <2>0. tail[k] \in 1..MaxLength /\ tail[k] <= length[k] /\ length[k] \in 0..MaxLength
      BY <1>0, <1>a, <1>2 DEF HasFree, TypeOK, UseInv
    <2>b. PICK b : b = data[k][tail[k]]
      OBVIOUS
    <2>1. /\ held' = [held EXCEPT ![u] = held[u] \cup {b}]
          /\ data' = [data EXCEPT ![k] = [data[k] EXCEPT ![tail[k]] = None]]
          /\ tail' = [tail EXCEPT ![k] = tail[k] - 1]
      BY <1>0, <1>2, <2>b DEF new_mem_node_locked, Emptied
    <2>2. b \in Buffers /\ b # None /\ b[1] = k
      BY <1>0, <2>0, <2>b DEF RowFilled, TypeOK
    <2>3. \A v \in Users : b \notin held[v]
      BY <1>0, <1>a, <2>0, <2>b, <2>2 DEF FreeOnce
    <2>4. /\ data' \in [Types -> [0..MaxLength -> Buffers \cup {None}]]
          /\ data'[k][tail[k]] = None
          /\ \A m \in Types, i \in 0..MaxLength : m # k \/ i # tail[k] => data'[m][i] = data[m][i]
      BY <1>0, <1>a, <2>0, <2>1 DEF TypeOK
    <2>5. /\ held'[u] = held[u] \cup {b} /\ \A v \in Users : v # u => held'[v] = held[v]
          /\ tail'[k] = tail[k] - 1 /\ \A m \in Types : m # k => tail'[m] = tail[m]
      BY <1>0, <1>a, <2>1 DEF TypeOK
    <2>6. TypeOK'
      BY <1>0, <1>a, <2>0, <2>1, <2>2, <2>4 DEF TypeOK
    <2>7. UseInv'
      <3>1. \A m \in valid : tail'[m] <= length[m]
        <4> SUFFICES ASSUME NEW m \in valid PROVE tail'[m] <= length[m]
          OBVIOUS
        <4>1. /\ m \in Types /\ length[m] \in Int /\ tail[m] \in Int /\ tail[m] <= length[m]
          BY DEF TypeOK, UseInv
        <4> QED
          BY <2>5, <4>1
      <3>2. \A v \in Users : want'[v] # None => want'[v] \in valid
        BY <1>a DEF UseInv, TypeOK
      <3>3. \A v \in Users : \A c \in held'[v] : c[1] \in valid
        BY <1>0, <2>2, <2>5 DEF UseInv
      <3> QED
        BY <1>a, <3>1, <3>2, <3>3 DEF UseInv
    <2>8. HeldOnce'
      BY <2>3, <2>5 DEF HeldOnce
    <2>9. FreeOnce'
      <3> SUFFICES ASSUME NEW p \in valid, NEW i \in 0..MaxLength, data'[p][i] # None
                   PROVE  /\ \A v \in Users : data'[p][i] \notin held'[v]
                          /\ \A m \in valid, j \in 0..MaxLength :
                                data'[m][j] = data'[p][i] => m = p /\ j = i
        BY <1>0, <1>a DEF FreeOnce
      <3>1. data'[p][i] = data[p][i] /\ (p # k \/ i # tail[k]) /\ p \in Types
        BY <2>4 DEF TypeOK
      <3>2. data[p][i] # b
        BY <1>0, <1>a, <2>0, <2>b, <2>2, <3>1 DEF FreeOnce
      <3>3. \A v \in Users : data'[p][i] \notin held'[v]
        BY <2>5, <3>1, <3>2 DEF FreeOnce
      <3>4. ASSUME NEW m \in valid, NEW j \in 0..MaxLength, data'[m][j] = data'[p][i]
            PROVE  m = p /\ j = i
        <4>1. data'[m][j] = data[m][j]
          BY <2>4, <3>4 DEF TypeOK
        <4>2. data[m][j] = data[p][i] /\ data[p][i] # None
          BY <3>1, <3>4, <4>1
        <4> QED
          BY <4>2 DEF FreeOnce
      <3> QED
        BY <3>3, <3>4
    <2>10. RowFilled'
      <3> SUFFICES ASSUME NEW p \in valid, NEW i \in 0..MaxLength
                   PROVE  IF i <= tail'[p] THEN data'[p][i] # None /\ data'[p][i][1] = p
                                           ELSE data'[p][i] = None
        BY <1>0, <1>a DEF RowFilled
      <3>1. CASE p # k
        BY <2>4, <2>5, <3>1 DEF RowFilled, TypeOK
      <3>2. CASE p = k /\ i = tail[k]
        BY <2>0, <2>4, <2>5, <3>2
      <3>3. CASE p = k /\ i # tail[k]
        <4>1. data'[p][i] = data[p][i] /\ (i <= tail'[p] <=> i <= tail[p])
          BY <1>0, <1>a, <2>0, <2>4, <2>5, <3>3
        <4> QED
          BY <4>1 DEF RowFilled
      <3> QED
        BY <3>1, <3>2, <3>3
    <2>11. CountInv'
      <3>1. InUse(k)' = InUse(k) \cup {b} /\ b \notin InUse(k)
        BY <2>2, <2>3, <2>5 DEF InUse
      <3>2. \A m \in valid : m # k => InUse(m)' = InUse(m)
        BY <2>2, <2>5 DEF InUse
      <3>3. Cardinality(InUse(k)') = Cardinality(InUse(k)) + 1
        BY <1>0, <3>1, InUseFinite, FS_AddElement
      <3> QED
        <4> SUFFICES ASSUME NEW m \in valid
                     PROVE  Cardinality(InUse(m)') = length[m] - tail'[m]
          BY <1>a DEF CountInv, Used
        <4>1. Cardinality(InUse(m)) = length[m] - tail[m]
          BY DEF CountInv, Used
        <4>2. m \in Types /\ length[m] \in Int /\ tail[m] \in Int
          BY DEF TypeOK
        <4>3. CASE m = k
          BY <2>5, <3>3, <4>1, <4>2, <4>3
        <4>4. CASE m # k
          BY <2>5, <3>2, <4>1, <4>2, <4>4
        <4> QED
          BY <4>3, <4>4
    <2> QED
      BY <2>6, <2>7, <2>8, <2>9, <2>10, <2>11
  <1> QED
    BY <1>1, <1>2

\* free_mem_node finds room, and stores the buffer in the list it came from.
LEMMA FreeStep ==
  ASSUME IInv, NEW u \in Users, NEW b \in held[u], free_mem_node(u, b)
  PROVE  IInv'
  <1> USE MemPoolAssumption, NoneIsNoBuffer DEF IInv
  <1>0. PICK k \in valid : k = b[1] /\ k \in Types
    BY DEF UseInv, TypeOK
  <1>1. b \in Buffers /\ b # None
    BY DEF TypeOK
  <1>2. /\ held' = [held EXCEPT ![u] = held[u] \ {b}]
        /\ UNCHANGED <<valid, length, want>>
    BY DEF free_mem_node
  <1>3. /\ held'[u] = held[u] \ {b} /\ \A v \in Users : v # u => held'[v] = held[v]
        /\ \A v \in Users : held'[v] \subseteq held[v] /\ b \notin held'[v]
    BY <1>2 DEF HeldOnce, TypeOK
  <1>4. /\ InUse(k)' = InUse(k) \ {b} /\ b \in InUse(k)
        /\ \A m \in valid : m # k => InUse(m)' = InUse(m)
    <2>1. \A c : (\E v \in Users : c \in held'[v]) <=> (c # b /\ \E v \in Users : c \in held[v])
      BY <1>3
    <2> QED
      BY <1>0, <2>1 DEF InUse
  <1>5. /\ IsFiniteSet(InUse(k)) /\ Cardinality(InUse(k)) \in Nat
        /\ Cardinality(InUse(k)') = Cardinality(InUse(k)) - 1
    BY <1>0, <1>4, InUseFinite, FS_RemoveElement
  <1>6. Cardinality(InUse(k)) # 0
    BY <1>4, <1>5, FS_EmptySet
  <1>7. /\ length[k] \in 0..MaxLength /\ tail[k] \in 0..MaxLength
        /\ Cardinality(InUse(k)) = length[k] - tail[k]
    BY <1>0 DEF CountInv, Used, TypeOK
  <1>8. tail[k] < length[k]
    BY <1>5, <1>6, <1>7
  <1>9. /\ tail' = [tail EXCEPT ![k] = tail[k] + 1]
        /\ data' = [data EXCEPT ![k] = [data[k] EXCEPT ![tail[k] + 1] = b]]
    BY <1>0, <1>8 DEF free_mem_node, ListOf, Forward
  <1>10. tail[k] + 1 \in 0..MaxLength
    BY <1>7, <1>8
  <1>11. /\ data' \in [Types -> [0..MaxLength -> Buffers \cup {None}]]
         /\ data'[k][tail[k] + 1] = b
         /\ \A m \in Types, i \in 0..MaxLength :
               m # k \/ i # tail[k] + 1 => data'[m][i] = data[m][i]
    BY <1>0, <1>1, <1>9, <1>10 DEF TypeOK
  <1>12. tail'[k] = tail[k] + 1 /\ \A m \in Types : m # k => tail'[m] = tail[m]
    BY <1>0, <1>9 DEF TypeOK
  <1>13. TypeOK'
    BY <1>2, <1>9, <1>10, <1>11 DEF TypeOK
  <1>14. UseInv'
    <2>1. \A m \in valid : tail'[m] <= length[m]
      <3> SUFFICES ASSUME NEW m \in valid PROVE tail'[m] <= length[m]
        OBVIOUS
      <3>1. m \in Types /\ length[m] \in Int /\ tail[m] \in Int /\ tail[m] <= length[m]
        BY DEF TypeOK, UseInv
      <3> QED
        BY <1>7, <1>8, <1>12, <3>1
    <2>2. \A v \in Users : \A c \in held'[v] : c[1] \in valid
      BY <1>3 DEF UseInv
    <2> QED
      BY <1>2, <2>1, <2>2 DEF UseInv
  <1>15. HeldOnce'
    BY <1>3 DEF HeldOnce
  <1>16. \A m \in valid, i \in 0..MaxLength : data[m][i] # b
    BY <1>1 DEF FreeOnce
  <1>17. FreeOnce'
    <2> SUFFICES ASSUME NEW p \in valid, NEW i \in 0..MaxLength, data'[p][i] # None
                 PROVE  /\ \A v \in Users : data'[p][i] \notin held'[v]
                        /\ \A m \in valid, j \in 0..MaxLength :
                              data'[m][j] = data'[p][i] => m = p /\ j = i
      BY <1>2 DEF FreeOnce
    <2>0. valid \subseteq Types
      BY DEF TypeOK
    <2>1. CASE p = k /\ i = tail[k] + 1
      <3>1. data'[p][i] = b
        BY <1>11, <2>1
      <3>2. \A m \in valid, j \in 0..MaxLength : data'[m][j] = b => m = p /\ j = i
        BY <1>11, <1>16, <2>0, <2>1
      <3> QED
        BY <1>3, <3>1, <3>2
    <2>2. CASE p # k \/ i # tail[k] + 1
      <3>1. data'[p][i] = data[p][i]
        BY <1>11, <2>0, <2>2
      <3>2. \A v \in Users : data'[p][i] \notin held'[v]
        BY <1>3, <3>1 DEF FreeOnce
      <3>3. ASSUME NEW m \in valid, NEW j \in 0..MaxLength, data'[m][j] = data'[p][i]
            PROVE  m = p /\ j = i
        <4>1. data'[m][j] = data[m][j]
          BY <1>11, <1>16, <2>0, <3>1, <3>3
        <4>2. data[m][j] = data[p][i] /\ data[p][i] # None
          BY <3>1, <3>3, <4>1
        <4> QED
          BY <4>2 DEF FreeOnce
      <3> QED
        BY <3>2, <3>3
    <2> QED
      BY <2>1, <2>2
  <1>18. RowFilled'
    <2> SUFFICES ASSUME NEW p \in valid, NEW i \in 0..MaxLength
                 PROVE  IF i <= tail'[p] THEN data'[p][i] # None /\ data'[p][i][1] = p
                                         ELSE data'[p][i] = None
      BY <1>2 DEF RowFilled
    <2>1. CASE p # k
      BY <1>11, <1>12, <2>1 DEF RowFilled, TypeOK
    <2>2. CASE p = k /\ i = tail[k] + 1
      BY <1>0, <1>1, <1>7, <1>11, <1>12, <2>2
    <2>3. CASE p = k /\ i # tail[k] + 1
      <3>1. data'[p][i] = data[p][i] /\ (i <= tail'[p] <=> i <= tail[p])
        BY <1>0, <1>7, <1>11, <1>12, <2>3
      <3> QED
        BY <3>1 DEF RowFilled
    <2> QED
      BY <2>1, <2>2, <2>3
  <1>19. CountInv'
    <2> SUFFICES ASSUME NEW m \in valid
                 PROVE  Cardinality(InUse(m)') = length[m] - tail'[m]
      BY <1>2 DEF CountInv, Used
    <2>1. /\ Cardinality(InUse(m)) = length[m] - tail[m]
          /\ m \in Types /\ length[m] \in Int /\ tail[m] \in Int
      BY DEF CountInv, Used, TypeOK
    <2>2. CASE m = k
      BY <1>5, <1>12, <2>1, <2>2
    <2>3. CASE m # k
      BY <1>4, <1>12, <2>1, <2>3
    <2> QED
      BY <2>2, <2>3
  <1> QED
    BY <1>13, <1>14, <1>15, <1>17, <1>18, <1>19

\* clean_mem_list leaves nothing behind.
LEMMA CleanStep ==
  ASSUME IInv, clean_mem_list
  PROVE  IInv'
  <1>1. /\ valid' = {} /\ held' = [u \in Users |-> {}] /\ UNCHANGED <<length, tail, want>>
        /\ data' = [k \in Types |-> [i \in 0..MaxLength |-> None]]
        /\ \A u \in Users : want[u] = None
    BY DEF clean_mem_list, Quiet
  <1>2. TypeOK'
    BY <1>1 DEF IInv, TypeOK
  <1> QED
    BY <1>1, <1>2 DEF IInv, UseInv, HeldOnce, FreeOnce, RowFilled, CountInv

\* Every state of the specification satisfies the invariant.
LEMMA Inductive == Spec => []IInv
  <1>1. IInv /\ [Next]_vars => IInv'
    <2> SUFFICES ASSUME IInv, [Next]_vars PROVE IInv'
        OBVIOUS
    <2>1. CASE Next
      BY <2>1, InitListStep, WantStep, NewStep, FreeStep, CleanStep DEF Next
    <2>2. CASE UNCHANGED vars
      <3>1. UNCHANGED <<valid, length, tail, data, held, want>>
        BY <2>2 DEF vars
      <3>2. TypeOK' /\ UseInv' /\ HeldOnce' /\ FreeOnce' /\ RowFilled'
        BY <3>1 DEF IInv, TypeOK, UseInv, HeldOnce, FreeOnce, RowFilled
      <3>3. CountInv'
        BY <3>1 DEF IInv, CountInv, InUse, Used
      <3> QED
        BY <3>2, <3>3 DEF IInv
    <2> QED
      BY <2>1, <2>2
  <1> QED
    BY InitInv, <1>1, PTL DEF Spec

-----------------------------------------------------------------------------
\* Whatever the order in which buffers are given back, and whichever user gives
\* them back, no buffer has two owners.
THEOREM BuffersHaveOneOwner == Spec => []OneOwner
  <1>1. IInv => OneOwner
    BY DEF IInv, OneOwner, HeldOnce, FreeOnce
  <1> QED
    BY Inductive, <1>1, PTL

\* new_mem_node and free_mem_node lose no buffer: the row of free ones has no
\* hole and tail tells how many are in use.
THEOREM BuffersConserved == Spec => []Conservation
  <1>1. IInv => Conservation
    BY DEF IInv, Conservation, CountInv
  <1> QED
    BY Inductive, <1>1, PTL

\* A user that frees a buffer it holds never meets "free node error": tail has
\* a next node to put the buffer into.
THEOREM FreeNeverRefused ==
  Spec => [](\A u \in Users : \A b \in held[u] : tail[b[1]] < length[b[1]])
  <1>1. IInv => \A u \in Users : \A b \in held[u] : tail[b[1]] < length[b[1]]
    <2> SUFFICES ASSUME IInv, NEW u \in Users, NEW b \in held[u]
                 PROVE  tail[b[1]] < length[b[1]]
        OBVIOUS
    <2>1. PICK k \in valid : k = b[1] /\ k \in Types
      BY DEF IInv, UseInv, TypeOK
    <2>2. b \in InUse(k)
      BY <2>1 DEF InUse
    <2>3. Cardinality(InUse(k)) \in Nat /\ Cardinality(InUse(k)) # 0
      BY <2>1, <2>2, InUseFinite, FS_EmptySet DEF IInv
    <2>4. /\ Cardinality(InUse(k)) = length[k] - tail[k]
          /\ length[k] \in Int /\ tail[k] \in Int
      BY <2>1, MemPoolAssumption DEF IInv, CountInv, Used, TypeOK
    <2> QED
      BY <2>1, <2>3, <2>4
  <1> QED
    BY Inductive, <1>1, PTL
=============================================================================
