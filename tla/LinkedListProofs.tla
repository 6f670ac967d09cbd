-------------------------- MODULE LinkedListProofs --------------------------
(***************************************************************************)
(* Proofs about LinkedList for any finite memory and any data.             *)
(***************************************************************************)
EXTENDS LinkedList, FiniteSetTheorems, SequenceTheorems, WellFoundedInduction, TLAPS

\* The i-th node of a sequence, or the NULL behind its end.
Entry(c, i) == IF i <= Len(c) THEN c[i] ELSE NULL

Distinct(c) == \A i, j \in 1..Len(c) : c[i] = c[j] => i = j

\* The pointers h and nx lead through the nodes of c, in order, to NULL.
IsList(h, nx, c) ==
    /\ c \in Seq(Nodes) /\ Distinct(c) /\ h = Entry(c, 1)
    /\ \A i \in 1..Len(c) : nx[c[i]] = Entry(c, i + 1)

\* ChainFrom with its pointers as parameters.
Walked(nx, h) ==
    LET walk[k \in 0..Cardinality(Nodes)] ==
            IF k = 0 THEN <<h>>
            ELSE LET s == walk[k - 1] IN
                 IF Last(s) = NULL THEN s ELSE Append(s, nx[Last(s)])
    IN Front(walk[Cardinality(Nodes)])

-----------------------------------------------------------------------------
(* Numbers and sequences.                                                    *)

\* A set of numbers has a least one.
LEMMA LowestPlace ==
  ASSUME NEW S \in SUBSET Nat, S # {}
  PROVE  Min(S) \in S /\ \A f \in S : Min(S) <= f
  <1> DEFINE Less == {ss \in Nat \X Nat : ss[1] < ss[2]}
  <1>1. IsWellFoundedOn(Less, Nat)
    BY NatLessThanWellFounded, Zenon DEF OpToRel
  <1>2. \E x \in S : \A y \in S : ~(<<y, x>> \in Less)
    <2> HIDE DEF Less
    <2> QED
      BY <1>1, WFMin
  <1>3. \A x, y \in Nat : ~(<<y, x>> \in Less) => x <= y
    OBVIOUS
  <1> HIDE DEF Less
  <1>4. \E x \in S : \A y \in S : x <= y
    BY <1>2, <1>3
  <1> QED
    BY <1>4 DEF Min

\* A sequence without repetition is as long as the set of its elements is
\* large, and no longer than the memory.
LEMMA DistinctLength ==
  ASSUME NEW c \in Seq(Nodes), Distinct(c)
  PROVE  /\ Len(c) = Cardinality(ToSet(c)) /\ Len(c) <= Cardinality(Nodes)
         /\ Len(c) \in Nat /\ Cardinality(Nodes) \in Nat
  <1> DEFINE D == 1..Len(c)
             T == ToSet(c)
  <1>1. c \in [D -> Nodes] /\ Len(c) \in Nat /\ DOMAIN c = D
    OBVIOUS
  <1>2. IsFiniteSet(Nodes) /\ Cardinality(Nodes) \in Nat
    BY LinkedListAssumption, FS_CardinalityType
  <1>3. T \in SUBSET Nodes /\ IsFiniteSet(T) /\ Cardinality(T) <= Cardinality(Nodes)
    <2>1. T \in SUBSET Nodes
      BY <1>1 DEF ToSet
    <2> QED
      BY <1>2, <2>1, FS_Subset
  <1>4. IsFiniteSet(D) /\ Cardinality(D) = Len(c)
    <2>1. 1 \in Int /\ Len(c) \in Int
      BY <1>1
    <2>2. /\ IsFiniteSet(1..Len(c))
          /\ Cardinality(1..Len(c)) = IF 1 > Len(c) THEN 0 ELSE Len(c) - 1 + 1
      BY <2>1, FS_Interval
    <2>3. Len(c) = IF 1 > Len(c) THEN 0 ELSE Len(c) - 1 + 1
      BY <1>1
    <2> QED
      BY <2>2, <2>3
  <1>5. c \in Bijection(D, T)
    <2>1. c \in [D -> T]
      BY <1>1 DEF ToSet
    <2>2. \A y \in T : \E x \in D : c[x] = y
      BY <1>1 DEF ToSet
    <2>3. \A x, y \in D : c[x] = c[y] => x = y
      BY DEF Distinct
    <2> QED
      BY <2>1, <2>2, <2>3 DEF Bijection, Injection, Surjection, IsInjective
  <1>6. ExistsBijection(D, T)
    BY <1>5 DEF ExistsBijection
  <1>7. Cardinality(T) = Cardinality(D)
    BY <1>4, <1>6, FS_Bijection
  <1> QED
    BY <1>1, <1>2, <1>3, <1>4, <1>7

\* The nodes that the walk has seen after k steps, and NULL if it got there.
SoFar(c, k) == [i \in 1..(IF k <= Len(c) THEN k + 1 ELSE Len(c) + 1) |-> Entry(c, i)]

\* It is a sequence.
LEMMA SoFarSeq ==
  ASSUME NEW c \in Seq(Nodes), NEW k \in Nat
  PROVE  /\ SoFar(c, k) \in Seq(Nodes \cup {NULL})
         /\ Len(SoFar(c, k)) = IF k <= Len(c) THEN k + 1 ELSE Len(c) + 1
         /\ \A i \in 1..(IF k <= Len(c) THEN k + 1 ELSE Len(c) + 1) : SoFar(c, k)[i] = Entry(c, i)
  <1>1. PICK m : m = IF k <= Len(c) THEN k + 1 ELSE Len(c) + 1
    OBVIOUS
  <1>2. m \in Nat /\ \A i \in 1..m : Entry(c, i) \in Nodes \cup {NULL}
    BY <1>1 DEF Entry
  <1>3. SoFar(c, k) = [i \in 1..m |-> Entry(c, i)]
    BY <1>1 DEF SoFar
  <1>4. SoFar(c, k) \in [1..m -> Nodes \cup {NULL}]
    BY <1>2, <1>3
  <1>5. SoFar(c, k) \in Seq(Nodes \cup {NULL}) /\ Len(SoFar(c, k)) = m
    BY <1>2, <1>4
  <1> QED
    BY <1>1, <1>3, <1>5

\* One step of the walk.
LEMMA SoFarStep ==
  ASSUME NEW h, NEW nx, NEW c, IsList(h, nx, c), NEW k \in Nat \ {0}
  PROVE  LET s == SoFar(c, k - 1)
         IN  SoFar(c, k) = IF Last(s) = NULL THEN s ELSE Append(s, nx[Last(s)])
  <1> DEFINE S == Nodes \cup {NULL}
             s == SoFar(c, k - 1)
             t == SoFar(c, k)
             m == Len(c)
  <1>1. c \in Seq(Nodes) /\ m \in Nat /\ k - 1 \in Nat /\ NULL \notin Nodes
    BY LinkedListAssumption DEF IsList
  <1>2. /\ s \in Seq(S) /\ Len(s) = IF k - 1 <= m THEN k ELSE m + 1
        /\ \A i \in 1..(IF k - 1 <= m THEN k ELSE m + 1) : s[i] = Entry(c, i)
    <2>1. PICK j \in Nat : j = k - 1
      BY <1>1
    <2>2. /\ SoFar(c, j) \in Seq(Nodes \cup {NULL})
          /\ Len(SoFar(c, j)) = IF j <= Len(c) THEN j + 1 ELSE Len(c) + 1
          /\ \A i \in 1..(IF j <= Len(c) THEN j + 1 ELSE Len(c) + 1) : SoFar(c, j)[i] = Entry(c, i)
      BY <1>1, SoFarSeq
    <2>3. j + 1 = k
      BY <2>1
    <2> QED
      BY <2>1, <2>2, <2>3
  <1>3. /\ t \in Seq(S) /\ Len(t) = IF k <= m THEN k + 1 ELSE m + 1
        /\ \A i \in 1..(IF k <= m THEN k + 1 ELSE m + 1) : t[i] = Entry(c, i)
    BY <1>1, SoFarSeq
  <1>4. CASE k <= m
    <2>1. Len(s) = k /\ Last(s) = c[k] /\ c[k] \in Nodes
      BY <1>1, <1>2, <1>4 DEF Last, Entry
    <2>2. nx[Last(s)] = Entry(c, k + 1) /\ Entry(c, k + 1) \in S
      BY <1>1, <1>4, <2>1 DEF IsList, Entry
    <2>3. PICK u : u = Append(s, Entry(c, k + 1))
      OBVIOUS
    <2> HIDE DEF s, t, S
    <2>4. u \in Seq(S) /\ Len(u) = k + 1
          /\ \A i \in 1..(k + 1) : u[i] = IF i <= k THEN s[i] ELSE Entry(c, k + 1)
      BY <1>1, <1>2, <2>1, <2>2, <2>3
    <2>5. \A i \in 1..(k + 1) : u[i] = t[i]
      BY <1>1, <1>2, <1>3, <1>4, <2>4
    <2>6. u = t
      BY <1>3, <1>4, <2>4, <2>5, SeqEqual
    <2> QED
      BY <1>1, <2>1, <2>2, <2>3, <2>6 DEF s, t
  <1>5. CASE ~(k <= m)
    <2>1. Len(s) = m + 1 /\ Last(s) = NULL
      BY <1>1, <1>2, <1>5 DEF Last, Entry
    <2> HIDE DEF s, t, S
    <2>2. Len(t) = m + 1 /\ \A i \in 1..(m + 1) : s[i] = t[i]
      BY <1>1, <1>2, <1>3, <1>5
    <2>3. s = t
      BY <1>2, <1>3, <2>1, <2>2, SeqEqual
    <2> QED
      BY <2>1, <2>3 DEF s, t
  <1> QED
    BY <1>1, <1>4, <1>5

\* The walk finds the nodes of the list, in order.
LEMMA WalkFindsList ==
  ASSUME NEW h, NEW nx, NEW c, IsList(h, nx, c)
  PROVE  Walked(nx, h) = c
  <1> DEFINE N == Cardinality(Nodes)
             Step(f) == [k \in 0..N |->
                            IF k = 0 THEN <<h>>
                            ELSE LET s == f[k - 1] IN
                                 IF Last(s) = NULL THEN s ELSE Append(s, nx[Last(s)])]
             walk == CHOOSE f : f = Step(f)
             g == [k \in 0..N |-> SoFar(c, k)]
  <1>1. Walked(nx, h) = Front(walk[N])
    BY DEF Walked
  <1>2. c \in Seq(Nodes) /\ Distinct(c) /\ Len(c) <= N /\ Len(c) \in Nat /\ N \in Nat
    BY DistinctLength DEF IsList
  <1>3. SoFar(c, 0) = <<h>>
    <2>1. SoFar(c, 0) \in Seq(Nodes \cup {NULL}) /\ Len(SoFar(c, 0)) = 1 /\ SoFar(c, 0)[1] = h
      <3>1. 0 \in Nat /\ (IF 0 <= Len(c) THEN 0 + 1 ELSE Len(c) + 1) = 1 /\ 1 \in 1..1
        BY <1>2
      <3>2. /\ SoFar(c, 0) \in Seq(Nodes \cup {NULL})
            /\ Len(SoFar(c, 0)) = IF 0 <= Len(c) THEN 0 + 1 ELSE Len(c) + 1
            /\ \A i \in 1..(IF 0 <= Len(c) THEN 0 + 1 ELSE Len(c) + 1) :
                  SoFar(c, 0)[i] = Entry(c, i)
        BY <1>2, <3>1, SoFarSeq
      <3>3. h = Entry(c, 1)
        BY DEF IsList
      <3> QED
        BY <3>1, <3>2, <3>3
    <2> QED
      BY <2>1
  <1>4. g = Step(g)
    <2>1. \A k \in 0..N : g[k] = SoFar(c, k)
      OBVIOUS
    <2>2. ASSUME NEW k \in 0..N, k # 0
          PROVE  SoFar(c, k) = LET s == g[k - 1] IN
                                 IF Last(s) = NULL THEN s ELSE Append(s, nx[Last(s)])
      <3>1. k \in Nat \ {0} /\ k - 1 \in 0..N
        BY <1>2, <2>2
      <3> HIDE DEF g
      <3> QED
        BY <2>1, <3>1, SoFarStep
    <2>3. \A k \in 0..N : SoFar(c, k) = Step(g)[k]
      BY <1>3, <2>2
    <2> QED
      BY <2>1, <2>3
  <1>5. walk = Step(walk)
    BY <1>4
  <1> HIDE DEF walk, g
  <1>6. /\ walk[0] = <<h>>
        /\ \A k \in 1..N : walk[k] = LET s == walk[k - 1] IN
                                 IF Last(s) = NULL THEN s ELSE Append(s, nx[Last(s)])
    <2>1. 0 \in 0..N /\ \A k \in 1..N : k \in 0..N /\ k # 0
      BY <1>2
    <2> QED
      BY <1>5, <2>1
  <1> HIDE DEF Step
  <1> DEFINE Bad == {k \in 0..N : walk[k] # SoFar(c, k)}
  <1>7. Bad = {}
    <2>1. SUFFICES ASSUME Bad # {} PROVE FALSE
      OBVIOUS
    <2>2. PICK k \in Bad : \A i \in Bad : k <= i
      <3>1. Bad \in SUBSET Nat
        BY <1>2
      <3> HIDE DEF Bad
      <3> QED
        BY <2>1, <3>1, LowestPlace
    <2>3. k # 0
      BY <1>3, <1>6
    <2>4. k \in 1..N /\ k - 1 \in 0..N /\ ~(k <= k - 1) /\ k \in Nat \ {0}
      BY <1>2, <2>3
    <2>5. walk[k - 1] = SoFar(c, k - 1)
      BY <2>2, <2>4
    <2>6. walk[k] = SoFar(c, k)
      <3>1. SoFar(c, k) = LET s == SoFar(c, k - 1)
                          IN  IF Last(s) = NULL THEN s ELSE Append(s, nx[Last(s)])
        BY <2>4, SoFarStep
      <3> QED
        BY <1>6, <2>4, <2>5, <3>1
    <2> QED
      BY <2>2, <2>6
  <1>8. walk[N] = SoFar(c, N)
    BY <1>2, <1>7
  <1>9. PICK t : t = SoFar(c, N)
    OBVIOUS
  <1>10. t \in Seq(Nodes \cup {NULL}) /\ Len(t) = Len(c) + 1
         /\ \A i \in 1..Len(c) : t[i] = c[i]
    <2>1. (IF N <= Len(c) THEN N + 1 ELSE Len(c) + 1) = Len(c) + 1
      BY <1>2
    <2>2. \A i \in 1..Len(c) : i \in 1..(Len(c) + 1) /\ Entry(c, i) = c[i]
      BY <1>2 DEF Entry
    <2> QED
      BY <1>2, <1>9, <2>1, <2>2, SoFarSeq
  <1>11. Front(t) = c
    <2>1. Front(t) = SubSeq(t, 1, Len(c))
      BY <1>2, <1>10 DEF Front
    <2>2. /\ SubSeq(t, 1, Len(c)) \in Seq(Nodes \cup {NULL})
          /\ Len(SubSeq(t, 1, Len(c))) = Len(c)
          /\ \A i \in 1..Len(c) : SubSeq(t, 1, Len(c))[i] = t[i]
      BY <1>2, <1>10
    <2>3. c \in Seq(Nodes \cup {NULL})
      BY <1>2
    <2> QED
      BY <1>10, <2>1, <2>2, <2>3, SeqEqual
  <1> QED
    BY <1>1, <1>8, <1>9, <1>11

-----------------------------------------------------------------------------
(* A node comes into the list and leaves it.                                 *)

\* t is s with x put in at place p.
Inserted(t, s, p, x) ==
    /\ Len(t) = Len(s) + 1
    /\ \A i \in 1..(Len(s) + 1) :
          t[i] = IF i < p THEN s[i] ELSE IF i = p THEN x ELSE s[i - 1]

\* t is s without its place p.
Deleted(t, s, p) ==
    /\ Len(t) = Len(s) - 1
    /\ \A i \in 1..(Len(s) - 1) : t[i] = IF i < p THEN s[i] ELSE s[i + 1]

\* There is such a sequence.
LEMMA InsertionExists ==
  ASSUME NEW S, NEW s \in Seq(S), NEW p \in 1..(Len(s) + 1), NEW x \in S
  PROVE  \E t \in Seq(S) : Inserted(t, s, p, x)
  <1>1. Len(s) \in Nat /\ Len(s) + 1 \in Nat
    OBVIOUS
  <1> DEFINE F(i) == IF i < p THEN s[i] ELSE IF i = p THEN x ELSE s[i - 1]
             t == [i \in 1..(Len(s) + 1) |-> F(i)]
  <1>2. \A i \in 1..(Len(s) + 1) : F(i) \in S
    <2>1. \A i \in 1..(Len(s) + 1) : /\ i < p => i \in 1..Len(s)
                                     /\ ~(i < p) /\ i # p => i - 1 \in 1..Len(s)
      BY <1>1
    <2> QED
      BY <2>1
  <1> HIDE DEF F
  <1>3. t \in [1..(Len(s) + 1) -> S] /\ \A i \in 1..(Len(s) + 1) : t[i] = F(i)
    BY <1>2
  <1> HIDE DEF t
  <1>4. t \in Seq(S) /\ Len(t) = Len(s) + 1
    BY <1>1, <1>3
  <1> QED
    BY <1>3, <1>4 DEF Inserted, F

\* There is such a sequence, too.
LEMMA DeletionExists ==
  ASSUME NEW S, NEW s \in Seq(S), NEW p \in 1..Len(s)
  PROVE  \E t \in Seq(S) : Deleted(t, s, p)
  <1>1. Len(s) \in Nat /\ Len(s) - 1 \in Nat
    OBVIOUS
  <1> DEFINE F(i) == IF i < p THEN s[i] ELSE s[i + 1]
             t == [i \in 1..(Len(s) - 1) |-> F(i)]
  <1>2. \A i \in 1..(Len(s) - 1) : F(i) \in S
    <2>1. \A i \in 1..(Len(s) - 1) : i \in 1..Len(s) /\ i + 1 \in 1..Len(s)
      BY <1>1
    <2> QED
      BY <2>1
  <1> HIDE DEF F
  <1>3. t \in [1..(Len(s) - 1) -> S] /\ \A i \in 1..(Len(s) - 1) : t[i] = F(i)
    BY <1>2
  <1> HIDE DEF t
  <1>4. t \in Seq(S) /\ Len(t) = Len(s) - 1
    BY <1>1, <1>3
  <1> QED
    BY <1>3, <1>4 DEF Deleted, F

\* The elements of a sequence are those it has at its places.
LEMMA ElementsAre ==
  ASSUME NEW S, NEW s \in Seq(S)
  PROVE  /\ Len(s) \in Nat /\ ToSet(s) = {s[i] : i \in 1..Len(s)}
         /\ \A i \in 1..Len(s) : s[i] \in ToSet(s) /\ s[i] \in S
         /\ \A x \in ToSet(s) : \E i \in 1..Len(s) : s[i] = x
         /\ ToSet(s) \subseteq S
  BY DEF ToSet

\* From the pointers h and nx to h2 and nx2, a node n that is not in the list
\* comes in at place p: it points to the node that was there, and the node
\* before it, or the head, points to it.
LinkedIn(h2, nx2, h, nx, c, p, n) ==
    /\ n \in Nodes /\ n \notin ToSet(c) /\ p \in 1..(Len(c) + 1)
    /\ h2 = (IF p = 1 THEN n ELSE h)
    /\ nx2[n] = Entry(c, p)
    /\ p # 1 => nx2[c[p - 1]] = n
    /\ \A m \in Nodes : (m # n /\ (p # 1 => m # c[p - 1])) => nx2[m] = nx[m]

\* The node at place p leaves the list: what pointed to it points to the one
\* behind it.
LinkedOut(h2, nx2, h, nx, c, p) ==
    /\ p \in 1..Len(c)
    /\ h2 = (IF p = 1 THEN nx[c[1]] ELSE h)
    /\ p # 1 => nx2[c[p - 1]] = nx[c[p]]
    /\ \A m \in Nodes : (m # c[p] /\ (p # 1 => m # c[p - 1])) => nx2[m] = nx[m]

Gains(c2, c, n) == ToSet(c2) = ToSet(c) \cup {n}
Loses(c2, c, n) == ToSet(c2) = ToSet(c) \ {n}

\* The new pointers lead through the old nodes and the new one.
LEMMA InsertedIsList ==
  ASSUME NEW h, NEW nx, NEW c, IsList(h, nx, c), NEW n, NEW p,
         NEW h2, NEW nx2, NEW c2 \in Seq(Nodes), Inserted(c2, c, p, n),
         LinkedIn(h2, nx2, h, nx, c, p, n)
  PROVE  IsList(h2, nx2, c2) /\ Gains(c2, c, n)
  <1> DEFINE m == Len(c)
  <1> USE DEF LinkedIn
  <1>1. c \in Seq(Nodes) /\ m \in Nat /\ Distinct(c)
        /\ h = Entry(c, 1) /\ \A i \in 1..m : nx[c[i]] = Entry(c, i + 1)
    BY DEF IsList
  <1>2. /\ \A i \in 1..m : c[i] # n /\ c[i] \in Nodes
        /\ \A i, j \in 1..m : c[i] = c[j] => i = j
    BY <1>1, ElementsAre DEF Distinct
  <1>3. /\ Len(c2) = m + 1 /\ p \in 1..(m + 1)
        /\ \A i \in 1..(m + 1) : /\ i < p => i \in 1..m /\ c2[i] = c[i]
                                 /\ i = p => c2[i] = n
                                 /\ i > p => i - 1 \in 1..m /\ c2[i] = c[i - 1]
    BY <1>1 DEF Inserted
  <1>4. Distinct(c2)
    <2>1. SUFFICES ASSUME NEW i \in 1..(m + 1), NEW j \in 1..(m + 1), c2[i] = c2[j], i < j
                   PROVE  FALSE
      BY <1>1, <1>3 DEF Distinct
    <2>2. CASE j < p
      BY <1>2, <1>3, <2>1, <2>2
    <2>3. CASE j = p \/ i = p
      BY <1>2, <1>3, <2>1, <2>3
    <2>4. CASE i > p
      BY <1>2, <1>3, <2>1, <2>4
    <2>5. CASE i < p /\ j > p
      BY <1>2, <1>3, <2>1, <2>5
    <2> QED
      BY <1>1, <1>3, <2>1, <2>2, <2>3, <2>4, <2>5
  <1>5. h2 = Entry(c2, 1)
    BY <1>1, <1>3 DEF Entry
  <1>6. ASSUME NEW i \in 1..(m + 1) PROVE nx2[c2[i]] = Entry(c2, i + 1)
    <2>1. CASE i = p
      <3>1. nx2[c2[i]] = Entry(c, p)
        BY <1>3, <2>1
      <3>2. CASE p = m + 1
        BY <1>1, <1>3, <2>1, <3>1, <3>2 DEF Entry
      <3>3. CASE p # m + 1
        <4>1. i + 1 \in 1..(m + 1) /\ i + 1 > p /\ (i + 1) - 1 = p /\ p <= m
          BY <1>1, <1>3, <2>1, <3>3
        <4>2. c2[i + 1] = c[p]
          BY <1>3, <4>1
        <4> QED
          BY <1>3, <3>1, <4>1, <4>2 DEF Entry
      <3> QED
        BY <3>2, <3>3
    <2>2. CASE i = p - 1
      <3>1. p # 1 /\ c2[i] = c[p - 1]
        BY <1>1, <1>3, <2>2
      <3>2. Entry(c2, i + 1) = n
        BY <1>1, <1>3, <2>2 DEF Entry
      <3> QED
        BY <3>1, <3>2
    <2>3. CASE i < p /\ i # p - 1
      <3>1. i \in 1..m /\ c2[i] = c[i] /\ i + 1 \in 1..m /\ i + 1 < p /\ i + 1 \in 1..(m + 1)
        BY <1>1, <1>3, <2>3
      <3>2. c[i] # n /\ c[i] \in Nodes /\ (p # 1 => c[i] # c[p - 1])
        <4>1. p # 1 => p - 1 \in 1..m
          BY <1>1, <1>3
        <4> QED
          BY <1>2, <2>3, <3>1, <4>1
      <3>3. nx2[c2[i]] = Entry(c, i + 1)
        BY <1>1, <3>1, <3>2
      <3>4. c2[i + 1] = c[i + 1]
        BY <1>3, <3>1
      <3> QED
        BY <1>1, <1>3, <3>1, <3>3, <3>4 DEF Entry
    <2>4. CASE i > p
      <3>1. i - 1 \in 1..m /\ c2[i] = c[i - 1] /\ (i - 1) + 1 = i
        BY <1>1, <1>3, <2>4
      <3>2. c[i - 1] # n /\ c[i - 1] \in Nodes /\ (p # 1 => c[i - 1] # c[p - 1])
        <4>1. (p # 1 => p - 1 \in 1..m) /\ i - 1 # p - 1
          BY <1>1, <1>3, <2>4
        <4> QED
          BY <1>2, <3>1, <4>1
      <3>3. nx2[c2[i]] = Entry(c, i)
        BY <1>1, <3>1, <3>2
      <3>4. CASE i = m + 1
        BY <1>1, <1>3, <3>3, <3>4 DEF Entry
      <3>5. CASE i # m + 1
        <4>1. i + 1 \in 1..(m + 1) /\ i + 1 > p /\ (i + 1) - 1 = i /\ i <= m
          <5>1. m \in Nat /\ p \in 1..(m + 1)
            BY <1>1, <1>3
          <5> HIDE DEF m, LinkedIn
          <5> QED
            BY <2>4, <3>5, <5>1
        <4>2. c2[i + 1] = c[i]
          BY <1>3, <4>1
        <4> QED
          BY <1>3, <3>3, <4>1, <4>2 DEF Entry
      <3> QED
        BY <3>4, <3>5
    <2> QED
      BY <1>1, <1>3, <2>1, <2>2, <2>3, <2>4
  <1>7. ToSet(c2) = ToSet(c) \cup {n}
    <2>1. ToSet(c2) \subseteq ToSet(c) \cup {n}
      <3>1. SUFFICES ASSUME NEW i \in 1..(m + 1) PROVE c2[i] \in ToSet(c) \cup {n}
        BY <1>3, ElementsAre
      <3>2. i < p \/ i = p \/ i > p
        BY <1>1, <1>3
      <3> QED
        BY <1>1, <1>3, <3>2, ElementsAre
    <2>2. n \in ToSet(c2)
      BY <1>3, ElementsAre
    <2>3. ASSUME NEW i \in 1..m PROVE c[i] \in ToSet(c2)
      <3>1. CASE i < p
        <4>1. i \in 1..(m + 1)
          BY <1>1
        <4> QED
          BY <1>3, <3>1, <4>1, ElementsAre
      <3>2. CASE ~(i < p)
        <4>1. i + 1 \in 1..(m + 1) /\ i + 1 > p /\ (i + 1) - 1 = i
          BY <1>1, <1>3, <3>2
        <4>2. c2[i + 1] = c[i]
          BY <1>3, <4>1
        <4>3. c2[i + 1] \in ToSet(c2)
          BY <1>3, <4>1, ElementsAre
        <4> QED
          BY <4>2, <4>3
      <3> QED
        BY <3>1, <3>2
    <2>4. ToSet(c) \subseteq ToSet(c2)
      <3>1. \A x \in ToSet(c) : \E i \in 1..m : c[i] = x
        BY <1>1, ElementsAre
      <3> QED
        BY <2>3, <3>1
    <2> QED
      BY <2>1, <2>2, <2>4
  <1> QED
    BY <1>3, <1>4, <1>5, <1>6, <1>7 DEF IsList, Gains, Loses

\* The new pointers lead through the old nodes without the one at place p.
LEMMA DeletedIsList ==
  ASSUME NEW h, NEW nx, NEW c, IsList(h, nx, c), NEW p,
         NEW h2, NEW nx2, NEW c2 \in Seq(Nodes), Deleted(c2, c, p),
         LinkedOut(h2, nx2, h, nx, c, p)
  PROVE  IsList(h2, nx2, c2) /\ Loses(c2, c, c[p])
  <1> DEFINE m == Len(c)
  <1> USE DEF LinkedOut
  <1>1. c \in Seq(Nodes) /\ m \in Nat /\ Distinct(c)
        /\ h = Entry(c, 1) /\ \A i \in 1..m : nx[c[i]] = Entry(c, i + 1)
    BY DEF IsList
  <1>2. /\ \A i \in 1..m : c[i] \in Nodes
        /\ \A i, j \in 1..m : c[i] = c[j] => i = j
    BY <1>1, ElementsAre DEF Distinct
  <1>3. /\ Len(c2) = m - 1 /\ p \in 1..m
        /\ \A i \in 1..(m - 1) : /\ i < p => i \in 1..m /\ c2[i] = c[i]
                                 /\ ~(i < p) => i + 1 \in 1..m /\ c2[i] = c[i + 1]
    BY <1>1 DEF Deleted
  <1>4. Distinct(c2)
    <2>1. SUFFICES ASSUME NEW i \in 1..(m - 1), NEW j \in 1..(m - 1), c2[i] = c2[j], i < j
                   PROVE  FALSE
      BY <1>1, <1>3 DEF Distinct
    <2>2. CASE j < p
      BY <1>2, <1>3, <2>1, <2>2
    <2>3. CASE ~(i < p)
      BY <1>2, <1>3, <2>1, <2>3
    <2>4. CASE i < p /\ ~(j < p)
      BY <1>2, <1>3, <2>1, <2>4
    <2> QED
      BY <1>1, <1>3, <2>1, <2>2, <2>3, <2>4
  <1>5. h2 = Entry(c2, 1)
    <2>1. CASE p = 1
      <3>1. h2 = Entry(c, 2)
        BY <1>1, <1>3, <2>1
      <3> QED
        BY <1>1, <1>3, <2>1, <3>1 DEF Entry
    <2>2. CASE p # 1
      BY <1>1, <1>3, <2>2 DEF Entry
    <2> QED
      BY <2>1, <2>2
  <1>6. ASSUME NEW i \in 1..(m - 1) PROVE nx2[c2[i]] = Entry(c2, i + 1)
    <2>1. CASE i = p - 1
      <3>1. p # 1 /\ c2[i] = c[p - 1] /\ i + 1 = p
        BY <1>1, <1>3, <2>1
      <3>2. nx2[c2[i]] = Entry(c, p + 1)
        BY <1>1, <1>3, <3>1
      <3>3. CASE p = m
        BY <1>1, <1>3, <3>1, <3>2, <3>3 DEF Entry
      <3>4. CASE p # m
        <4>1. p \in 1..(m - 1) /\ ~(p < p) /\ p + 1 <= m
          <5>1. m \in Nat /\ p \in 1..m
            BY <1>1, <1>3
          <5> HIDE DEF m
          <5> QED
            BY <3>4, <5>1
        <4>2. c2[p] = c[p + 1]
          BY <1>3, <4>1
        <4>3. Entry(c2, p) = c2[p] /\ Entry(c, p + 1) = c[p + 1]
          BY <1>1, <1>3, <4>1 DEF Entry
        <4> QED
          BY <3>1, <3>2, <4>2, <4>3
      <3> QED
        BY <3>3, <3>4
    <2>2. CASE i < p /\ i # p - 1
      <3>1. i \in 1..m /\ c2[i] = c[i] /\ i + 1 \in 1..m /\ i + 1 < p /\ i + 1 \in 1..(m - 1)
        BY <1>1, <1>3, <2>2
      <3>2. c[i] # c[p] /\ c[i] \in Nodes /\ (p # 1 => c[i] # c[p - 1])
        <4>1. (p # 1 => p - 1 \in 1..m) /\ i # p
          BY <1>1, <1>3, <2>2
        <4> QED
          BY <1>2, <1>3, <2>2, <3>1, <4>1
      <3>3. nx2[c2[i]] = Entry(c, i + 1)
        BY <1>1, <3>1, <3>2
      <3>4. c2[i + 1] = c[i + 1]
        BY <1>3, <3>1
      <3> QED
        BY <1>1, <1>3, <3>1, <3>3, <3>4 DEF Entry
    <2>3. CASE ~(i < p)
      <3>1. i + 1 \in 1..m /\ c2[i] = c[i + 1]
        BY <1>3, <2>3
      <3>2. c[i + 1] # c[p] /\ c[i + 1] \in Nodes /\ (p # 1 => c[i + 1] # c[p - 1])
        <4>1. (p # 1 => p - 1 \in 1..m) /\ i + 1 # p /\ i + 1 # p - 1
          BY <1>1, <1>3, <2>3
        <4> QED
          BY <1>2, <1>3, <3>1, <4>1
      <3>3. nx2[c2[i]] = Entry(c, (i + 1) + 1)
        BY <1>1, <3>1, <3>2
      <3>4. CASE i = m - 1
        BY <1>1, <1>3, <3>3, <3>4 DEF Entry
      <3>5. CASE i # m - 1
        <4>1. i + 1 \in 1..(m - 1) /\ ~(i + 1 < p) /\ (i + 1) + 1 <= m
          BY <1>1, <1>3, <2>3, <3>5
        <4>2. c2[i + 1] = c[(i + 1) + 1]
          BY <1>3, <4>1
        <4> QED
          BY <1>3, <3>3, <4>1, <4>2 DEF Entry
      <3> QED
        BY <3>4, <3>5
    <2> QED
      BY <1>1, <1>3, <2>1, <2>2, <2>3
  <1>7. ToSet(c2) = ToSet(c) \ {c[p]}
    <2>1. ASSUME NEW i \in 1..(m - 1) PROVE c2[i] \in ToSet(c) \ {c[p]}
      <3>1. CASE i < p
        <4>1. i \in 1..m /\ c2[i] = c[i] /\ i # p
          BY <1>1, <1>3, <3>1
        <4>2. c[i] \in ToSet(c) /\ c[i] # c[p]
          BY <1>1, <1>2, <1>3, <4>1, ElementsAre
        <4> QED
          BY <4>1, <4>2
      <3>2. CASE ~(i < p)
        <4>1. i + 1 \in 1..m /\ c2[i] = c[i + 1] /\ i + 1 # p
          BY <1>1, <1>3, <3>2
        <4>2. c[i + 1] \in ToSet(c) /\ c[i + 1] # c[p]
          BY <1>1, <1>2, <1>3, <4>1, ElementsAre
        <4> QED
          BY <4>1, <4>2
      <3> QED
        BY <3>1, <3>2
    <2>2. ToSet(c2) \subseteq ToSet(c) \ {c[p]}
      <3>1. \A x \in ToSet(c2) : \E i \in 1..(m - 1) : c2[i] = x
        BY <1>3, ElementsAre
      <3> QED
        BY <2>1, <3>1
    <2>3. ASSUME NEW i \in 1..m, i # p PROVE c[i] \in ToSet(c2)
      <3>1. CASE i < p
        <4>1. i \in 1..(m - 1)
          BY <1>1, <1>3, <3>1
        <4>2. c2[i] \in ToSet(c2)
          BY <1>3, <4>1, ElementsAre
        <4> QED
          BY <1>3, <3>1, <4>1, <4>2
      <3>2. CASE ~(i < p)
        <4>1. i - 1 \in 1..(m - 1) /\ ~(i - 1 < p) /\ (i - 1) + 1 = i
          BY <1>1, <1>3, <2>3, <3>2
        <4>2. c2[i - 1] = c[i]
          BY <1>3, <4>1
        <4>3. c2[i - 1] \in ToSet(c2)
          BY <1>3, <4>1, ElementsAre
        <4> QED
          BY <4>2, <4>3
      <3> QED
        BY <3>1, <3>2
    <2>4. ToSet(c) \ {c[p]} \subseteq ToSet(c2)
      <3>1. \A x \in ToSet(c) : \E i \in 1..m : c[i] = x
        BY <1>1, ElementsAre
      <3> QED
        BY <2>3, <3>1
    <2> QED
      BY <2>2, <2>4
  <1> QED
    BY <1>3, <1>4, <1>5, <1>6, <1>7 DEF IsList, Gains, Loses

-----------------------------------------------------------------------------
(* The invariant.                                                            *)

\* The allocated nodes are those of the list, linked in one chain; after
\* delete_list there are none.
ShapeInv == ToSet(Chain) = mem /\ (~Dangling => IsList(head, next, Chain))

\* The cursor stands at one place of the list, unless its node was freed: of
\* the nodes that were in the list all along, the function was called for those
\* up to that place and for no other.
Visited(c, j) ==
    /\ j \in 1..Len(c) /\ cursor = c[j]
    /\ \A i \in 1..Len(c) : c[i] \in since => (c[i] \in called <=> i <= j)

VisitInv ==
    /\ torn \in BOOLEAN /\ twice \in BOOLEAN
    /\ cursor = NULL => ~torn /\ ~twice
    /\ (cursor # NULL /\ ~torn) => ~twice /\ \E j : Visited(Chain, j)

IInv == TypeOK /\ ShapeInv /\ VisitInv

\* Chain is the list that the pointers lead through.
LEMMA ChainIs ==
  ASSUME NEW c, IsList(head, next, c), ToSet(c) = mem
  PROVE  Chain = c /\ ~Dangling /\ ShapeInv
  <1>1. ChainFrom(head) = Walked(next, head)
    BY DEF ChainFrom, Walked
  <1>2. c \in Seq(Nodes) /\ head = Entry(c, 1)
    BY DEF IsList
  <1>3. ~Dangling
    <2>1. Len(c) \in Nat /\ (1 <= Len(c) => c[1] \in mem)
      BY <1>2, ElementsAre
    <2> QED
      BY <1>2, <2>1 DEF Dangling, Entry
  <1>4. Chain = c
    BY <1>1, <1>3, WalkFindsList DEF Chain
  <1> QED
    BY <1>3, <1>4 DEF ShapeInv

\* The same of the next state.
LEMMA NewChainIs ==
  ASSUME NEW c, IsList(head', next', c), ToSet(c) = mem'
  PROVE  Chain' = c /\ ~Dangling' /\ ShapeInv'
  <1>1. ChainFrom(head)' = Walked(next', head')
    BY DEF ChainFrom, Walked
  <1>2. c \in Seq(Nodes) /\ head' = Entry(c, 1)
    BY DEF IsList
  <1>3. ~Dangling'
    <2>1. Len(c) \in Nat /\ (1 <= Len(c) => c[1] \in mem')
      BY <1>2, ElementsAre
    <2> QED
      BY <1>2, <2>1 DEF Dangling, Entry
  <1>4. Chain' = c
    BY <1>1, <1>3, WalkFindsList DEF Chain
  <1> QED
    BY <1>3, <1>4 DEF ShapeInv

\* What an operation finds.
LEMMA ChainFacts ==
  ASSUME ShapeInv, ~Dangling
  PROVE  /\ IsList(head, next, Chain) /\ ToSet(Chain) = mem
         /\ Chain \in Seq(Nodes) /\ Len(Chain) \in Nat /\ DOMAIN Chain = 1..Len(Chain)
         /\ \A i \in 1..Len(Chain) : Chain[i] \in Nodes /\ Chain[i] \in mem
         /\ head = NULL <=> Chain = <<>>
         /\ Len(Chain) = 0 <=> Chain = <<>>
         /\ head # NULL => 1 \in 1..Len(Chain) /\ head = Chain[1]
  <1>1. IsList(head, next, Chain) /\ ToSet(Chain) = mem /\ Chain \in Seq(Nodes)
        /\ head = Entry(Chain, 1) /\ NULL \notin Nodes
    BY LinkedListAssumption DEF ShapeInv, IsList
  <1>2. /\ Len(Chain) \in Nat /\ DOMAIN Chain = 1..Len(Chain)
        /\ \A i \in 1..Len(Chain) : Chain[i] \in Nodes /\ Chain[i] \in mem
        /\ Len(Chain) = 0 <=> Chain = <<>>
    BY <1>1, ElementsAre
  <1>3. 1 <= Len(Chain) => 1 \in 1..Len(Chain) /\ head = Chain[1] /\ head # NULL
    BY <1>1, <1>2 DEF Entry
  <1>4. ~(1 <= Len(Chain)) => Len(Chain) = 0 /\ head = NULL
    BY <1>1, <1>2 DEF Entry
  <1>5. 1 <= Len(Chain) => Len(Chain) # 0
    BY <1>2
  <1> QED
    BY <1>1, <1>2, <1>3, <1>4, <1>5

\* The places where a loop stops.
LEMMA PlacesFacts ==
  ASSUME ShapeInv, ~Dangling, NEW D, NEW k \in 1..2
  PROVE  /\ PlacesOf(D, k) \subseteq 1..Len(Chain)
         /\ PlacesOf(D, k) # {} =>
               /\ Min(PlacesOf(D, k)) \in k..Len(Chain)
               /\ Min(PlacesOf(D, k)) \in 1..Len(Chain)
               /\ data[Chain[Min(PlacesOf(D, k))]] \in D
  <1>1. Len(Chain) \in Nat
    BY ChainFacts
  <1>2. PlacesOf(D, k) = {i \in k..Len(Chain) : data[Chain[i]] \in D}
    BY DEF PlacesOf
  <1>3. \A i \in k..Len(Chain) : i \in 1..Len(Chain) /\ i \in Nat
    BY <1>1
  <1>4. PlacesOf(D, k) # {} => Min(PlacesOf(D, k)) \in PlacesOf(D, k)
    <2>1. PlacesOf(D, k) \in SUBSET Nat
      BY <1>2, <1>3
    <2> QED
      BY <2>1, LowestPlace
  <1> QED
    BY <1>2, <1>3, <1>4

-----------------------------------------------------------------------------
(* The steps.                                                                *)

\* A node that comes in during an iteration was not in the list all along.
LEMMA VisitInserted ==
  ASSUME IInv, ~Dangling, NEW n, n \notin mem, NEW p \in 1..(Len(Chain) + 1),
         Chain' \in Seq(Nodes), Inserted(Chain', Chain, p, n), UNCHANGED iterv
  PROVE  VisitInv'
  <1>1. Len(Chain) \in Nat /\ VisitInv /\ since \subseteq mem
    BY ChainFacts DEF IInv, TypeOK
  <1>2. SUFFICES ASSUME cursor # NULL, ~torn PROVE ~twice /\ \E j : Visited(Chain, j)'
    BY <1>1 DEF iterv, VisitInv
  <1>3. PICK j : Visited(Chain, j)
    BY <1>1, <1>2 DEF VisitInv
  <1>4. PICK c, c2 : c = Chain /\ c2 = Chain'
    OBVIOUS
  <1>5. PICK m \in Nat : m = Len(c)
    BY <1>1, <1>4
  <1>6. /\ j \in 1..m /\ cursor = c[j] /\ p \in 1..(m + 1)
        /\ \A i \in 1..m : c[i] \in since => (c[i] \in called <=> i <= j)
    BY <1>3, <1>4, <1>5 DEF Visited
  <1>7. /\ Len(c2) = m + 1
        /\ \A i \in 1..(m + 1) : /\ i < p => i \in 1..m /\ c2[i] = c[i]
                                 /\ i = p => c2[i] = n
                                 /\ i > p => i - 1 \in 1..m /\ c2[i] = c[i - 1]
    BY <1>4, <1>5, <1>6 DEF Inserted
  <1>8. PICK j2 : j2 = IF j < p THEN j ELSE j + 1
    OBVIOUS
  <1>9. j2 \in 1..(m + 1) /\ c2[j2] = cursor
    <2>1. CASE j < p
      BY <1>6, <1>7, <1>8, <2>1
    <2>2. CASE ~(j < p)
      <3>1. j2 = j + 1 /\ j2 \in 1..(m + 1) /\ j2 > p /\ j2 - 1 = j
        BY <1>6, <1>8, <2>2
      <3> QED
        BY <1>6, <1>7, <3>1
    <2> QED
      BY <2>1, <2>2
  <1>10. ASSUME NEW i \in 1..(m + 1), c2[i] \in since PROVE c2[i] \in called <=> i <= j2
    <2>1. i # p
      BY <1>1, <1>7, <1>10
    <2>2. CASE i < p
      <3>1. i \in 1..m /\ c2[i] = c[i]
        BY <1>7, <2>2
      <3>2. i <= j <=> i <= j2
        BY <1>6, <1>8, <2>2
      <3> QED
        BY <1>6, <1>10, <3>1, <3>2
    <2>3. CASE i > p
      <3>1. i - 1 \in 1..m /\ c2[i] = c[i - 1]
        BY <1>7, <2>3
      <3>2. i - 1 <= j <=> i <= j2
        BY <1>6, <1>8, <2>3
      <3> QED
        BY <1>6, <1>10, <3>1, <3>2
    <2> QED
      BY <1>6, <2>1, <2>2, <2>3
  <1>11. Visited(Chain, j2)'
    BY <1>4, <1>7, <1>9, <1>10 DEF Visited, iterv
  <1> QED
    BY <1>1, <1>2, <1>11 DEF VisitInv

\* Unless the node that leaves is the cursor, the cursor keeps its place among
\* the others.
LEMMA VisitDeleted ==
  ASSUME IInv, ~Dangling, NEW p \in 1..Len(Chain),
         Chain' \in Seq(Nodes), Deleted(Chain', Chain, p), free({Chain[p]})
  PROVE  VisitInv'
  <1>1. Len(Chain) \in Nat /\ VisitInv /\ IsList(head, next, Chain) /\ Chain[p] # NULL
    BY ChainFacts, LinkedListAssumption DEF IInv
  <1>2. /\ called' = called \ {Chain[p]} /\ since' = since \ {Chain[p]}
        /\ torn' = (torn \/ cursor \in {Chain[p]}) /\ cursor' = cursor /\ twice' = twice
    BY DEF free
  <1>3. torn' \in BOOLEAN /\ twice' \in BOOLEAN /\ (cursor = NULL => ~torn' /\ ~twice')
    BY <1>1, <1>2 DEF VisitInv
  <1>4. SUFFICES ASSUME cursor # NULL, ~torn' PROVE ~twice /\ \E j : Visited(Chain, j)'
    BY <1>2, <1>3 DEF VisitInv
  <1>5. ~torn /\ cursor # Chain[p]
    BY <1>1, <1>2, <1>4 DEF VisitInv
  <1>6. PICK j : Visited(Chain, j)
    BY <1>1, <1>4, <1>5 DEF VisitInv
  <1>7. PICK c, c2 : c = Chain /\ c2 = Chain'
    OBVIOUS
  <1>8. PICK m \in Nat : m = Len(c)
    BY <1>1, <1>7
  <1>9. /\ j \in 1..m /\ cursor = c[j] /\ p \in 1..m /\ j # p
        /\ \A i \in 1..m : c[i] \in since => (c[i] \in called <=> i <= j)
    BY <1>5, <1>6, <1>7, <1>8 DEF Visited
  <1>10. /\ Len(c2) = m - 1
         /\ \A i \in 1..(m - 1) : /\ i < p => i \in 1..m /\ c2[i] = c[i]
                                  /\ ~(i < p) => i + 1 \in 1..m /\ c2[i] = c[i + 1]
    BY <1>7, <1>8, <1>9 DEF Deleted
  <1>11. PICK j2 : j2 = IF j < p THEN j ELSE j - 1
    OBVIOUS
  <1>12. j2 \in 1..(m - 1) /\ c2[j2] = cursor
    <2>1. CASE j < p
      <3>1. j2 = j /\ j2 \in 1..(m - 1)
        BY <1>9, <1>11, <2>1
      <3> QED
        BY <1>9, <1>10, <2>1, <3>1
    <2>2. CASE ~(j < p)
      <3>1. j2 \in 1..(m - 1) /\ ~(j2 < p) /\ j2 + 1 = j
        BY <1>9, <1>11, <2>2
      <3> QED
        BY <1>9, <1>10, <3>1
    <2> QED
      BY <2>1, <2>2
  <1>13. ASSUME NEW i \in 1..(m - 1), c2[i] \in since' PROVE c2[i] \in called' <=> i <= j2
    <2>1. c2[i] \in since /\ (c2[i] \in called' <=> c2[i] \in called)
      BY <1>2, <1>13
    <2>2. CASE i < p
      <3>1. i \in 1..m /\ c2[i] = c[i]
        BY <1>10, <2>2
      <3>2. i <= j <=> i <= j2
        BY <1>9, <1>11, <2>2
      <3> QED
        BY <1>9, <2>1, <3>1, <3>2
    <2>3. CASE ~(i < p)
      <3>1. i + 1 \in 1..m /\ c2[i] = c[i + 1]
        BY <1>10, <2>3
      <3>2. i + 1 <= j <=> i <= j2
        BY <1>9, <1>11, <2>3
      <3> QED
        BY <1>9, <2>1, <3>1, <3>2
    <2> QED
      BY <2>2, <2>3
  <1>14. Visited(Chain, j2)'
    BY <1>2, <1>7, <1>10, <1>12, <1>13 DEF Visited
  <1> QED
    BY <1>1, <1>4, <1>5, <1>14 DEF VisitInv

\* A step that leaves pointers and nodes alone leaves the list alone.
LEMMA ListKept ==
  ASSUME UNCHANGED listv
  PROVE  /\ Chain' = Chain /\ Dangling' = Dangling /\ Contents' = Contents
         /\ ShapeInv' = ShapeInv
  <1>1. head' = head /\ next' = next /\ mem' = mem /\ data' = data
    BY DEF listv
  <1>2. ChainFrom(head)' = ChainFrom(head)
    BY <1>1 DEF ChainFrom
  <1>3. Chain' = Chain /\ Dangling' = Dangling
    BY <1>1, <1>2 DEF Chain, Dangling
  <1> QED
    BY <1>1, <1>3 DEF Contents, ShapeInv

\* The insertions, at any place.
LEMMA Insertion ==
  ASSUME IInv, ~Dangling, NEW n, NEW d, NEW p, Link(n, d),
         LinkedIn(head', next', head, next, Chain, p, n)
  PROVE  /\ Inserted(Chain', Chain, p, n) /\ Chain' \in Seq(Nodes)
         /\ ShapeInv' /\ VisitInv' /\ ~Dangling'
  <1>1. IsList(head, next, Chain) /\ ToSet(Chain) = mem /\ Chain \in Seq(Nodes)
    BY ChainFacts DEF IInv
  <1>2. PICK c2 \in Seq(Nodes) : Inserted(c2, Chain, p, n)
    BY <1>1, InsertionExists DEF LinkedIn
  <1>3. IsList(head', next', c2) /\ ToSet(c2) = mem \cup {n}
    <2>1. IsList(head', next', c2) /\ Gains(c2, Chain, n)
      BY <1>1, <1>2, InsertedIsList
    <2> QED
      BY <1>1, <2>1 DEF Gains
  <1>4. Chain' = c2 /\ ShapeInv' /\ ~Dangling'
    BY <1>3, NewChainIs DEF Link
  <1>5. VisitInv'
    BY <1>1, <1>2, <1>4, VisitInserted DEF Link, LinkedIn
  <1> QED
    BY <1>2, <1>4, <1>5

\* The deletion, at any place.
LEMMA Deletion ==
  ASSUME IInv, ~Dangling, NEW p, free({Chain[p]}),
         LinkedOut(head', next', head, next, Chain, p)
  PROVE  /\ Deleted(Chain', Chain, p) /\ Chain' \in Seq(Nodes)
         /\ ShapeInv' /\ VisitInv' /\ ~Dangling'
  <1>1. IsList(head, next, Chain) /\ ToSet(Chain) = mem /\ Chain \in Seq(Nodes)
    BY ChainFacts DEF IInv
  <1>2. PICK c2 \in Seq(Nodes) : Deleted(c2, Chain, p)
    BY <1>1, DeletionExists DEF LinkedOut
  <1>3. IsList(head', next', c2) /\ ToSet(c2) = mem \ {Chain[p]}
    <2>1. IsList(head', next', c2) /\ Loses(c2, Chain, Chain[p])
      BY <1>1, <1>2, DeletedIsList
    <2> QED
      BY <1>1, <2>1 DEF Loses
  <1>4. Chain' = c2 /\ ShapeInv' /\ ~Dangling'
    BY <1>3, NewChainIs DEF free
  <1>5. VisitInv'
    BY <1>2, <1>4, VisitDeleted DEF LinkedOut
  <1> QED
    BY <1>2, <1>4, <1>5

\* What the operations return has its type.
LEMMA ResultTypes ==
  /\ CC_NO_ERROR \in 0..(2^UnsignedBits - 1)
  /\ \A x \in Int : Unsigned(x) \in 0..(2^UnsignedBits - 1)
  <1>1. PICK w \in Nat \ {0} : w = 2^UnsignedBits
    BY LinkedListAssumption
  <1>2. 0 \in 0..(w - 1) /\ \A x \in Int : x % w \in 0..(w - 1)
    BY <1>1
  <1> QED
    BY <1>1, <1>2 DEF CC_NO_ERROR, Unsigned

\* A call that only returns a value, and a fault.
LEMMA QuietStep ==
  ASSUME IInv, UNCHANGED <<listv, iterv>>,
         result' \in Data \cup {NULL, CC_ERROR} \cup 0..(2^UnsignedBits - 1),
         fault' \in {"none", "null", "argument", "memory", "freed"}
  PROVE  IInv'
  <1>1. Chain' = Chain /\ ShapeInv'
    BY ListKept DEF IInv
  <1>2. TypeOK'
    BY DEF IInv, TypeOK, listv, iterv
  <1>3. VisitInv'
    <2>1. \A j : Visited(Chain, j)' <=> Visited(Chain, j)
      BY <1>1 DEF Visited, iterv
    <2> QED
      BY <2>1 DEF IInv, VisitInv, iterv
  <1> QED
    BY <1>1, <1>2, <1>3 DEF IInv

\* Undefined behaviour ends the behaviour and leaves the list alone.
LEMMA FaultStep ==
  ASSUME IInv, NEW f \in {"null", "argument", "memory", "freed"}, Fault(f)
  PROVE  IInv'
  BY QuietStep DEF Fault, IInv, TypeOK

\* A node of malloc is none of the list's.
LEMMA InsertTypes ==
  ASSUME IInv, NEW n \in Nodes \ mem, NEW d \in Data, Link(n, d), Return(CC_NO_ERROR),
         head' \in Nodes \cup {NULL}, next' \in [Nodes -> Nodes \cup {NULL}]
  PROVE  TypeOK'
  <1>1. data' \in [Nodes -> Data \cup {NULL}]
    BY DEF IInv, TypeOK, Link
  <1>2. mem' \subseteq Nodes /\ called' \subseteq Nodes /\ since' \subseteq mem'
        /\ cursor' \in Nodes \cup {NULL}
    BY DEF IInv, TypeOK, Link, iterv
  <1>3. fault' \in {"none", "null", "argument", "memory", "freed"}
        /\ result' \in Data \cup {NULL, CC_ERROR} \cup 0..(2^UnsignedBits - 1)
    BY ResultTypes DEF IInv, TypeOK, Return
  <1> QED
    BY <1>1, <1>2, <1>3 DEF TypeOK

\* insert_in_front links the node in at place 1.
LEMMA InFront ==
  ASSUME IInv, ~Dangling, NEW d \in Data, NEW n \in Nodes \ mem, Link(n, d),
         next' = [next EXCEPT ![n] = head], head' = n
  PROVE  LinkedIn(head', next', head, next, Chain, 1, n)
  <1>1. /\ ToSet(Chain) = mem /\ Len(Chain) \in Nat /\ head = Entry(Chain, 1)
        /\ next \in [Nodes -> Nodes \cup {NULL}]
    BY ChainFacts DEF IInv, TypeOK, IsList
  <1>2. 1 \in 1..(Len(Chain) + 1)
    BY <1>1
  <1>3. next'[n] = head /\ \A m \in Nodes : m # n => next'[m] = next[m]
    BY <1>1
  <1> QED
    BY <1>1, <1>2, <1>3 DEF LinkedIn

\* insert_in_front.
LEMMA InsertInFrontStep ==
  ASSUME IInv, ~Dangling, NEW d \in Data, insert_in_front(d)
  PROVE  IInv'
  <1>1. PICK n \in malloc : IF n = NULL THEN Fault("memory")
                            ELSE /\ Link(n, d)
                                 /\ next' = [next EXCEPT ![n] = head] /\ head' = n
                                 /\ Return(CC_NO_ERROR)
    BY DEF insert_in_front
  <1>2. CASE n = NULL
    BY <1>1, <1>2, FaultStep
  <1>3. CASE n # NULL
    <2>1. n \in Nodes \ mem
      BY <1>3 DEF malloc
    <2>2. LinkedIn(head', next', head, next, Chain, 1, n)
      BY <1>1, <1>3, <2>1, InFront
    <2>3. ShapeInv' /\ VisitInv'
      BY <1>1, <1>3, <2>2, Insertion
    <2>4. head' \in Nodes \cup {NULL} /\ next' \in [Nodes -> Nodes \cup {NULL}]
      BY <1>1, <1>3, <2>1 DEF IInv, TypeOK
    <2> QED
      BY <1>1, <1>3, <2>1, <2>3, <2>4, InsertTypes DEF IInv
  <1> QED
    BY <1>2, <1>3

\* insert_tail links it in behind the last one.
LEMMA AtTail ==
  ASSUME IInv, ~Dangling, NEW d \in Data, NEW n \in Nodes \ mem, Link(n, d),
         IF head = NULL THEN head' = n /\ next' = [next EXCEPT ![n] = NULL]
         ELSE next' = [next EXCEPT ![n] = NULL, ![LastNode] = n] /\ UNCHANGED head
  PROVE  LinkedIn(head', next', head, next, Chain, Len(Chain) + 1, n)
  <1>1. /\ ToSet(Chain) = mem /\ Len(Chain) \in Nat /\ head = Entry(Chain, 1)
        /\ next \in [Nodes -> Nodes \cup {NULL}]
        /\ \A i \in 1..Len(Chain) : Chain[i] \in Nodes /\ Chain[i] \in mem
        /\ Len(Chain) + 1 \in 1..(Len(Chain) + 1) /\ (Len(Chain) + 1) - 1 = Len(Chain)
    BY ChainFacts DEF IInv, TypeOK, IsList
  <1>2. Entry(Chain, Len(Chain) + 1) = NULL
    BY <1>1 DEF Entry
  <1>3. CASE head = NULL
    <2>1. Len(Chain) = 0
      BY <1>3, ChainFacts DEF IInv
    <2>2. head' = n /\ next'[n] = NULL /\ \A m \in Nodes : m # n => next'[m] = next[m]
      BY <1>1, <1>3
    <2>3. Len(Chain) + 1 = 1
      BY <2>1
    <2> QED
      BY <1>1, <1>2, <2>2, <2>3 DEF LinkedIn
  <1>4. CASE head # NULL
    <2>1. Len(Chain) \in 1..Len(Chain) /\ Len(Chain) + 1 # 1
      BY <1>1, <1>4, ChainFacts DEF IInv
    <2>2. LastNode = Chain[Len(Chain)] /\ LastNode \in Nodes /\ LastNode # n
      BY <1>1, <2>1 DEF LastNode, Last
    <2>3. /\ next'[n] = NULL /\ next'[LastNode] = n /\ head' = head
          /\ \A m \in Nodes : m # n /\ m # LastNode => next'[m] = next[m]
      BY <1>1, <1>4, <2>2
    <2> QED
      BY <1>1, <1>2, <2>1, <2>2, <2>3 DEF LinkedIn
  <1> QED
    BY <1>3, <1>4

\* insert_tail.
LEMMA InsertTailStep ==
  ASSUME IInv, ~Dangling, NEW d \in Data, insert_tail(d)
  PROVE  IInv'
  <1>1. PICK n \in malloc :
            IF n = NULL THEN Fault("memory")
            ELSE /\ Link(n, d)
                 /\ IF head = NULL THEN head' = n /\ next' = [next EXCEPT ![n] = NULL]
                    ELSE next' = [next EXCEPT ![n] = NULL, ![LastNode] = n] /\ UNCHANGED head
                 /\ Return(CC_NO_ERROR)
    BY DEF insert_tail
  <1>2. CASE n = NULL
    BY <1>1, <1>2, FaultStep
  <1>3. CASE n # NULL
    <2>1. n \in Nodes \ mem
      BY <1>3 DEF malloc
    <2>2. LinkedIn(head', next', head, next, Chain, Len(Chain) + 1, n)
      BY <1>1, <1>3, <2>1, AtTail
    <2>3. ShapeInv' /\ VisitInv'
      BY <1>1, <1>3, <2>2, Insertion
    <2>4. head' \in Nodes \cup {NULL} /\ next' \in [Nodes -> Nodes \cup {NULL}]
      BY <1>1, <1>3, <2>1 DEF IInv, TypeOK
    <2> QED
      BY <1>1, <1>3, <2>1, <2>3, <2>4, InsertTypes DEF IInv
  <1> QED
    BY <1>2, <1>3

\* The sibling is never in first place.
LEMMA SiblingsFacts ==
  ASSUME IInv, ~Dangling, NEW s, Siblings(s) # {}
  PROVE  Min(Siblings(s)) \in 2..Len(Chain)
  <1>1. PICK k \in 1..2 : k = 2
    OBVIOUS
  <1>2. Siblings(s) = PlacesOf({s}, k)
    BY <1>1 DEF Siblings
  <1>3. Min(PlacesOf({s}, k)) \in k..Len(Chain)
    BY <1>2, PlacesFacts DEF IInv
  <1> QED
    BY <1>1, <1>2, <1>3

\* insert_before links it in at the sibling's place.
LEMMA AtSibling ==
  ASSUME IInv, ~Dangling, NEW d \in Data, NEW n \in Nodes \ mem, Link(n, d),
         NEW i \in 2..Len(Chain), UNCHANGED head,
         next' = [next EXCEPT ![n] = Chain[i], ![Chain[i - 1]] = n]
  PROVE  LinkedIn(head', next', head, next, Chain, i, n)
  <1>1. /\ ToSet(Chain) = mem /\ Len(Chain) \in Nat
        /\ next \in [Nodes -> Nodes \cup {NULL}]
        /\ \A k \in 1..Len(Chain) : Chain[k] \in Nodes /\ Chain[k] \in mem
    BY ChainFacts DEF IInv, TypeOK
  <1>2. /\ i \in 1..(Len(Chain) + 1) /\ i # 1 /\ i <= Len(Chain) /\ i - 1 \in 1..Len(Chain)
        /\ i \in 1..Len(Chain)
    BY <1>1
  <1>3. Chain[i - 1] \in Nodes /\ Chain[i - 1] # n /\ Chain[i] \in Nodes
    BY <1>1, <1>2
  <1>4. /\ next'[n] = Chain[i] /\ next'[Chain[i - 1]] = n
        /\ \A m \in Nodes : m # n /\ m # Chain[i - 1] => next'[m] = next[m]
    BY <1>1, <1>3
  <1> QED
    BY <1>1, <1>2, <1>4 DEF LinkedIn, Entry

\* insert_before.
LEMMA InsertBeforeStep ==
  ASSUME IInv, ~Dangling, NEW s \in Data, NEW d \in Data, insert_before(s, d)
  PROVE  IInv'
  <1>1. CASE head = NULL
    BY <1>1, FaultStep DEF insert_before
  <1>2. CASE head # NULL /\ Siblings(s) = {}
    BY <1>2, QuietStep DEF insert_before, Return, IInv, TypeOK
  <1>3. CASE head # NULL /\ Siblings(s) # {}
    <2>1. PICK i : i = Min(Siblings(s))
      OBVIOUS
    <2>2. i \in 2..Len(Chain)
      BY <1>3, <2>1, SiblingsFacts
    <2>3. PICK n \in malloc :
            IF n = NULL THEN Fault("memory")
            ELSE /\ Link(n, d)
                 /\ next' = [next EXCEPT ![n] = Chain[i], ![Chain[i - 1]] = n]
                 /\ UNCHANGED head
                 /\ Return(CC_NO_ERROR)
      BY <1>3, <2>1 DEF insert_before
    <2>4. CASE n = NULL
      BY <2>3, <2>4, FaultStep
    <2>5. CASE n # NULL
      <3>1. n \in Nodes \ mem
        BY <2>5 DEF malloc
      <3>2. LinkedIn(head', next', head, next, Chain, i, n)
        BY <2>2, <2>3, <2>5, <3>1, AtSibling
      <3>3. ShapeInv' /\ VisitInv'
        BY <2>3, <2>5, <3>2, Insertion
      <3>4. Chain[i] \in Nodes
        <4>1. i \in 1..Len(Chain)
          BY <2>2, ChainFacts DEF IInv
        <4> QED
          BY <4>1, ChainFacts DEF IInv
      <3>5. head' \in Nodes \cup {NULL} /\ next' \in [Nodes -> Nodes \cup {NULL}]
        BY <2>3, <2>5, <3>1, <3>4 DEF IInv, TypeOK
      <3> QED
        BY <2>3, <2>5, <3>1, <3>3, <3>5, InsertTypes DEF IInv
    <2> QED
      BY <2>4, <2>5
  <1> QED
    BY <1>1, <1>2, <1>3

\* The first match is a place of the list.
LEMMA MatchesFacts ==
  ASSUME IInv, ~Dangling, NEW D, PlacesOf(D, 1) # {}
  PROVE  Min(PlacesOf(D, 1)) \in 1..Len(Chain) /\ data[Chain[Min(PlacesOf(D, 1))]] \in D
  <1>1. PICK k \in 1..2 : k = 1
    OBVIOUS
  <1>2. PlacesOf(D, k) # {} =>
          /\ Min(PlacesOf(D, k)) \in 1..Len(Chain)
          /\ data[Chain[Min(PlacesOf(D, k))]] \in D
    BY PlacesFacts DEF IInv
  <1> QED
    BY <1>1, <1>2

\* delete_element takes the node at the first match out.
LEMMA TakenOut ==
  ASSUME IInv, ~Dangling, NEW i \in 1..Len(Chain), NEW n, n = Chain[i],
         IF i = 1 THEN head' = next[n] /\ next' = Blank(next, {n})
         ELSE /\ next' = Blank([next EXCEPT ![Chain[i - 1]] = next[n]], {n})
              /\ UNCHANGED head
  PROVE  /\ LinkedOut(head', next', head, next, Chain, i)
         /\ next' \in [Nodes -> Nodes \cup {NULL}] /\ head' \in Nodes \cup {NULL}
  <1>1. /\ Len(Chain) \in Nat /\ IsList(head, next, Chain) /\ head \in Nodes \cup {NULL}
        /\ next \in [Nodes -> Nodes \cup {NULL}]
        /\ \A k \in 1..Len(Chain) : Chain[k] \in Nodes
    BY ChainFacts DEF IInv, TypeOK
  <1>2. n \in Nodes /\ next[n] \in Nodes \cup {NULL}
    BY <1>1
  <1>3. CASE i = 1
    <2>1. head' = next[Chain[1]] /\ next' = [m \in Nodes |-> IF m \in {n} THEN NULL ELSE next[m]]
      BY <1>3 DEF Blank
    <2>2. \A m \in Nodes : m # n => next'[m] = next[m]
      BY <2>1
    <2>3. next' \in [Nodes -> Nodes \cup {NULL}]
      BY <1>1, <2>1
    <2> QED
      BY <1>2, <1>3, <2>1, <2>2, <2>3 DEF LinkedOut
  <1>4. CASE i # 1
    <2>1. i - 1 \in 1..Len(Chain) /\ i - 1 # i
      BY <1>1, <1>4
    <2>2. Chain[i - 1] \in Nodes /\ Chain[i - 1] # n
      BY <1>1, <2>1 DEF IsList, Distinct
    <2>3. /\ next' = [m \in Nodes |-> IF m \in {n} THEN NULL
                                      ELSE [next EXCEPT ![Chain[i - 1]] = next[n]][m]]
          /\ head' = head
      BY <1>4 DEF Blank
    <2>4. PICK f : f = [next EXCEPT ![Chain[i - 1]] = next[n]]
      OBVIOUS
    <2>5. /\ f \in [Nodes -> Nodes \cup {NULL}] /\ f[Chain[i - 1]] = next[n]
          /\ \A m \in Nodes : m # Chain[i - 1] => f[m] = next[m]
      BY <1>1, <1>2, <2>2, <2>4
    <2>6. next' = [m \in Nodes |-> IF m \in {n} THEN NULL ELSE f[m]]
      BY <2>3, <2>4
    <2>7. /\ next' \in [Nodes -> Nodes \cup {NULL}] /\ next'[Chain[i - 1]] = next[n]
          /\ \A m \in Nodes : m # n /\ m # Chain[i - 1] => next'[m] = next[m]
      BY <2>2, <2>5, <2>6
    <2> QED
      BY <1>1, <1>4, <2>3, <2>7 DEF LinkedOut
  <1> QED
    BY <1>3, <1>4

\* delete_element.
LEMMA DeleteElementStep ==
  ASSUME IInv, ~Dangling, NEW d \in Data, delete_element(d)
  PROVE  IInv'
  <1>1. CASE head = NULL
    BY <1>1, FaultStep DEF delete_element
  <1>2. CASE head # NULL /\ Matches(d) = {}
    BY <1>2, QuietStep DEF delete_element, Return, IInv, TypeOK
  <1>3. CASE head # NULL /\ Matches(d) # {}
    <2>1. PICK i, n : i = Min(Matches(d)) /\ n = Chain[i]
      OBVIOUS
    <2>2. i \in 1..Len(Chain)
      BY <1>3, <2>1, MatchesFacts DEF Matches
    <2>3. /\ IF i = 1 THEN head' = next[n] /\ next' = Blank(next, {n})
             ELSE /\ next' = Blank([next EXCEPT ![Chain[i - 1]] = next[n]], {n})
                  /\ UNCHANGED head
          /\ data' = Blank(data, {n}) /\ free({n}) /\ Return(CC_NO_ERROR)
      BY <1>3, <2>1 DEF delete_element
    <2>4. /\ LinkedOut(head', next', head, next, Chain, i)
          /\ next' \in [Nodes -> Nodes \cup {NULL}] /\ head' \in Nodes \cup {NULL}
      BY <2>1, <2>2, <2>3, TakenOut
    <2>5. ShapeInv' /\ VisitInv'
      BY <2>1, <2>3, <2>4, Deletion
    <2>6. data' \in [Nodes -> Data \cup {NULL}]
      BY <2>3 DEF IInv, TypeOK, Blank
    <2>7. /\ mem' \subseteq Nodes /\ called' \subseteq Nodes /\ since' \subseteq mem'
          /\ cursor' \in Nodes \cup {NULL}
      BY <2>3 DEF IInv, TypeOK, free
    <2>8. fault' \in {"none", "null", "argument", "memory", "freed"}
          /\ result' \in Data \cup {NULL, CC_ERROR} \cup 0..(2^UnsignedBits - 1)
      BY <2>3, ResultTypes DEF IInv, TypeOK, Return
    <2> QED
      BY <2>4, <2>5, <2>6, <2>7, <2>8 DEF IInv, TypeOK
  <1> QED
    BY <1>1, <1>2, <1>3

\* With no node allocated and no head there is no list.
LEMMA NoList ==
  ASSUME head' = NULL, mem' = {}
  PROVE  Chain' = <<>> /\ ~Dangling' /\ ShapeInv'
  <1>1. <<>> \in Seq(Nodes) /\ Len(<<>>) = 0 /\ 1..Len(<<>>) = {}
    OBVIOUS
  <1>2. ToSet(<<>>) = {}
    BY DEF ToSet
  <1>3. IsList(head', next', <<>>)
    <2>1. Entry(<<>>, 1) = NULL
      BY <1>1 DEF Entry
    <2>2. Distinct(<<>>) /\ \A i \in 1..Len(<<>>) : next'[<<>>[i]] = Entry(<<>>, i + 1)
      BY <1>1 DEF Distinct
    <2> QED
      BY <1>1, <2>1, <2>2 DEF IsList
  <1> QED
    BY <1>2, <1>3, NewChainIs

\* Nor is there one behind a pointer to a freed node.
LEMMA DanglingList ==
  ASSUME Dangling', mem' = {}
  PROVE  Chain' = <<>> /\ ShapeInv'
  <1>1. ToSet(<<>>) = {}
    BY DEF ToSet
  <1> QED
    BY <1>1 DEF Chain, ShapeInv

\* While a node is visited there is a list.
LEMMA VisitedNode ==
  ASSUME IInv, cursor # NULL, ~torn
  PROVE  ~Dangling /\ cursor \in mem
  <1>1. PICK j : Visited(Chain, j)
    BY DEF IInv, VisitInv
  <1>2. ~Dangling
    <2>1. SUFFICES ASSUME Dangling PROVE FALSE
      OBVIOUS
    <2>2. Chain = <<>>
      BY <2>1 DEF Chain
    <2> QED
      BY <1>1, <2>2 DEF Visited
  <1> QED
    BY <1>1, <1>2, ChainFacts DEF IInv, Visited

\* delete_list frees every node, the cursor among them.
LEMMA DeleteListStep ==
  ASSUME IInv, ~Dangling, delete_list
  PROVE  IInv' /\ Chain' = <<>>
  <1>1. ToSet(Chain) = mem
    BY ChainFacts DEF IInv
  <1>2. /\ free(mem) /\ next' = Blank(next, mem) /\ data' = Blank(data, mem)
        /\ Return(CC_NO_ERROR) /\ UNCHANGED head
    BY <1>1 DEF delete_list
  <1>3. mem' = {} /\ head' = head /\ head \in Nodes \cup {NULL}
    BY <1>2 DEF free, IInv, TypeOK
  <1>4. ShapeInv' /\ Chain' = <<>>
    <2>1. CASE head = NULL
      BY <1>3, <2>1, NoList
    <2>2. CASE head # NULL
      BY <1>3, <2>2, DanglingList DEF Dangling
    <2> QED
      BY <2>1, <2>2
  <1>5. VisitInv'
    <2>1. /\ torn' = (torn \/ cursor \in mem) /\ cursor' = cursor /\ twice' = twice
          /\ torn \in BOOLEAN /\ twice \in BOOLEAN
          /\ (cursor = NULL => ~torn /\ ~twice) /\ NULL \notin mem
      BY <1>2, LinkedListAssumption DEF free, IInv, VisitInv, TypeOK
    <2>2. cursor # NULL => torn'
      BY <2>1, VisitedNode
    <2> QED
      BY <2>1, <2>2 DEF VisitInv
  <1>6. next' \in [Nodes -> Nodes \cup {NULL}] /\ data' \in [Nodes -> Data \cup {NULL}]
    BY <1>2 DEF IInv, TypeOK, Blank
  <1>7. /\ mem' \subseteq Nodes /\ called' \subseteq Nodes /\ since' \subseteq mem'
        /\ cursor' \in Nodes \cup {NULL}
    BY <1>2 DEF IInv, TypeOK, free
  <1>8. fault' \in {"none", "null", "argument", "memory", "freed"}
        /\ result' \in Data \cup {NULL, CC_ERROR} \cup 0..(2^UnsignedBits - 1)
    BY <1>2, ResultTypes DEF IInv, TypeOK, Return
  <1> QED
    BY <1>3, <1>4, <1>5, <1>6, <1>7, <1>8 DEF IInv, TypeOK

\* The caller resets its pointer after delete_list.
LEMMA ForgetStep ==
  ASSUME IInv, Dangling, forget
  PROVE  IInv' /\ Chain = <<>> /\ Chain' = <<>>
  <1>1. Chain = <<>> /\ ToSet(<<>>) = {}
    BY DEF Chain, ToSet
  <1>2. /\ head' = NULL /\ mem' = {} /\ next' = next /\ data' = data /\ mem' = mem
        /\ result' = result /\ fault' = fault
        /\ cursor' = cursor /\ called' = called /\ since' = since /\ twice' = twice /\ torn' = torn
    BY <1>1 DEF forget, iterv, IInv, ShapeInv
  <1>3. Chain' = <<>> /\ ShapeInv'
    BY <1>2, NoList
  <1>4. VisitInv'
    BY <1>2, VisitedNode DEF IInv, VisitInv
  <1>5. TypeOK'
    BY <1>2 DEF IInv, TypeOK
  <1> QED
    BY <1>1, <1>3, <1>4, <1>5 DEF IInv

\* The iteration begins at place 1.
LEMMA IterateListStep ==
  ASSUME IInv, ~Dangling, iterate_list
  PROVE  IInv'
  <1>1. /\ cursor = NULL /\ head # NULL /\ since' = ToSet(Chain) /\ cursor' = head
        /\ called' = {head} /\ UNCHANGED listv /\ result' = result
        /\ twice' = twice /\ torn' = torn /\ fault' = fault
    BY DEF iterate_list, FirstVisited
  <1>2. /\ IsList(head, next, Chain) /\ ToSet(Chain) = mem /\ Len(Chain) \in Nat
        /\ 1 \in 1..Len(Chain) /\ head = Chain[1] /\ head \in Nodes
    BY <1>1, ChainFacts DEF IInv
  <1>3. Chain' = Chain /\ ShapeInv'
    BY <1>1, ListKept DEF IInv
  <1>4. TypeOK'
    BY <1>1, <1>2 DEF IInv, TypeOK, listv
  <1>5. Visited(Chain, 1)'
    <2>1. \A i \in 1..Len(Chain) : Chain[i] \in {head} <=> i <= 1
      BY <1>2 DEF IsList, Distinct
    <2> QED
      BY <1>1, <1>2, <1>3, <2>1 DEF Visited
  <1>6. VisitInv'
    <2>1. torn' = FALSE /\ twice' = FALSE /\ cursor' # NULL
      BY <1>1 DEF IInv, VisitInv
    <2> QED
      BY <1>5, <2>1 DEF VisitInv
  <1> QED
    BY <1>3, <1>4, <1>6 DEF IInv

\* It goes on to the next place, or ends behind the last one; what it meets
\* there is never freed memory unless the callback freed the cursor.
LEMMA IterateNextStep ==
  ASSUME IInv, iterate_next, fault = "none"
  PROVE  /\ IInv' /\ (fault' = "freed" => torn)
         /\ (cursor' = NULL /\ ~torn) => since \subseteq called /\ ~twice
         /\ UNCHANGED <<listv, result>>
         /\ fault' \in {"none", "freed"}
  <1>1. CASE cursor \notin mem
    <2>1. cursor # NULL /\ Fault("freed")
      BY <1>1 DEF iterate_next
    <2>2. torn
      BY <1>1, <2>1, VisitedNode
    <2> QED
      BY <2>1, <2>2, FaultStep DEF Fault, iterv
  <1>2. CASE cursor \in mem
    <2>1. /\ cursor # NULL /\ cursor' = next[cursor] /\ UNCHANGED listv
          /\ result' = result /\ fault' = fault
          /\ next[cursor] = NULL =>
                called' = {} /\ since' = {} /\ twice' = FALSE /\ torn' = FALSE
          /\ next[cursor] # NULL =>
                /\ called' = called \cup {next[cursor]}
                /\ twice' = (twice \/ next[cursor] \in called \cap since)
                /\ since' = since /\ torn' = torn
      BY <1>2 DEF iterate_next
    <2>2. Chain' = Chain /\ ShapeInv'
      BY <2>1, ListKept DEF IInv
    <2>3. cursor \in Nodes /\ next[cursor] \in Nodes \cup {NULL}
      BY <1>2 DEF IInv, TypeOK
    <2>4. TypeOK'
      <3>1. next[cursor] = NULL \/ next[cursor] \in Nodes
        BY <2>3
      <3>2. /\ cursor' \in Nodes \cup {NULL}
            /\ called' \subseteq Nodes /\ since' \subseteq mem'
        BY <2>1, <2>3, <3>1 DEF IInv, TypeOK, listv
      <3> QED
        BY <2>1, <3>2 DEF IInv, TypeOK, listv
    <2>5. ASSUME ~torn
          PROVE  /\ ~twice
                 /\ next[cursor] = NULL => since \subseteq called
                 /\ next[cursor] # NULL => ~twice' /\ \E j : Visited(Chain, j)'
      <3>1. ~Dangling /\ ~twice
        BY <2>1, <2>5, VisitedNode DEF IInv, VisitInv
      <3>2. PICK j : Visited(Chain, j)
        BY <2>1, <2>5 DEF IInv, VisitInv
      <3>3. /\ Len(Chain) \in Nat /\ ToSet(Chain) = mem /\ since \subseteq mem
            /\ IsList(head, next, Chain) /\ Chain \in Seq(Nodes)
            /\ \A i \in 1..Len(Chain) : Chain[i] \in Nodes
        BY <3>1, ChainFacts DEF IInv, TypeOK
      <3>4. /\ j \in 1..Len(Chain) /\ cursor = Chain[j] /\ next[cursor] = Entry(Chain, j + 1)
            /\ \A i \in 1..Len(Chain) : Chain[i] \in since => (Chain[i] \in called <=> i <= j)
        BY <3>2, <3>3 DEF Visited, IsList
      <3>5. CASE j = Len(Chain)
        <4>1. next[cursor] = NULL
          BY <3>3, <3>4, <3>5 DEF Entry
        <4>2. \A i \in 1..Len(Chain) : i <= j
          BY <3>3, <3>5
        <4>3. \A x \in since : \E i \in 1..Len(Chain) : Chain[i] = x
          BY <3>3, ElementsAre
        <4> QED
          BY <3>1, <3>4, <4>1, <4>2, <4>3
      <3>6. CASE j # Len(Chain)
        <4>1. j + 1 \in 1..Len(Chain) /\ j + 1 <= Len(Chain) /\ ~(j + 1 <= j)
          BY <3>3, <3>4, <3>6
        <4>2. next[cursor] = Chain[j + 1] /\ next[cursor] # NULL
          BY <3>3, <3>4, <4>1, LinkedListAssumption DEF Entry
        <4>3. next[cursor] \notin called \cap since
          BY <3>4, <4>1, <4>2
        <4>4. ASSUME NEW i \in 1..Len(Chain), Chain[i] \in since
              PROVE  Chain[i] \in called \cup {next[cursor]} <=> i <= j + 1
          <5>1. Chain[i] = Chain[j + 1] <=> i = j + 1
            BY <3>3, <4>1 DEF IsList, Distinct
          <5>2. i <= j + 1 <=> i <= j \/ i = j + 1
            BY <3>4
          <5> QED
            BY <3>4, <4>2, <4>4, <5>1, <5>2
        <4>5. Visited(Chain, j + 1)'
          BY <2>1, <2>2, <4>1, <4>2, <4>4 DEF Visited
        <4> QED
          BY <2>1, <3>1, <4>2, <4>3, <4>5
      <3> QED
        BY <3>5, <3>6
    <2>6. VisitInv'
      <3>1. torn \in BOOLEAN /\ twice \in BOOLEAN
        BY DEF IInv, VisitInv
      <3>2. CASE next[cursor] = NULL
        BY <2>1, <3>2 DEF VisitInv
      <3>3. CASE next[cursor] # NULL
        BY <2>1, <2>5, <3>1, <3>3 DEF VisitInv
      <3> QED
        BY <3>2, <3>3
    <2> QED
      BY <2>1, <2>2, <2>4, <2>5, <2>6 DEF IInv
  <1> QED
    BY <1>1, <1>2

\* list_length_of.
LEMMA LengthStep ==
  ASSUME IInv, ~Dangling, list_length_of
  PROVE  IInv'
  <1>1. -1 \in Int /\ Len(Chain) \in Int
    BY ChainFacts DEF IInv
  <1>2. result' \in 0..(2^UnsignedBits - 1)
    BY <1>1, ResultTypes DEF list_length_of, Return, CC_ERROR
  <1> QED
    BY <1>2, QuietStep DEF list_length_of, Return, IInv, TypeOK

\* find_list_custom.
LEMMA FindStep ==
  ASSUME IInv, ~Dangling, NEW D \in SUBSET Data, find_list_custom(D)
  PROVE  IInv'
  <1>1. result' = IF PlacesOf(D, 1) = {} THEN NULL ELSE data[Chain[Min(PlacesOf(D, 1))]]
    BY DEF find_list_custom, Return
  <1>2. result' \in Data \cup {NULL}
    BY <1>1, MatchesFacts
  <1> QED
    BY <1>2, QuietStep DEF find_list_custom, Return, IInv, TypeOK

\* Any call of the library.
LEMMA OperationStep ==
  ASSUME IInv, Operation, fault = "none"
  PROVE  IInv'
  <1>0. ~Dangling
    BY DEF Operation
  <1>1. ASSUME NEW l \in BOOLEAN, create_list(l) PROVE IInv'
    <2>1. CASE l
      BY <1>1, <2>1, QuietStep DEF create_list, Return, IInv, TypeOK
    <2>2. CASE ~l
      BY <1>1, <2>2, FaultStep DEF create_list
    <2> QED
      BY <2>1, <2>2
  <1>2. CASE without_head
    <2>1. CASE Return(CC_ERROR) /\ UNCHANGED <<listv, iterv>>
      BY <2>1, QuietStep DEF Return, IInv, TypeOK
    <2>2. CASE Fault("argument")
      BY <2>2, FaultStep
    <2> QED
      BY <1>2, <2>1, <2>2 DEF without_head
  <1> QED
    BY <1>0, <1>1, <1>2, InsertInFrontStep, InsertTailStep, DeleteElementStep, InsertBeforeStep,
       LengthStep, FindStep, DeleteListStep, IterateListStep DEF Operation

\* The invariant holds at the start.
LEMMA InitInv == Init => IInv
  <1>1. SUFFICES ASSUME Init PROVE IInv
    OBVIOUS
  <1>2. Chain = <<>> /\ ShapeInv
    <2>1. <<>> \in Seq(Nodes) /\ Len(<<>>) = 0 /\ 1..Len(<<>>) = {}
      OBVIOUS
    <2>2. ToSet(<<>>) = mem
      BY <1>1 DEF ToSet, Init
    <2>3. Entry(<<>>, 1) = NULL
      BY <2>1 DEF Entry
    <2>4. Distinct(<<>>) /\ \A i \in 1..Len(<<>>) : next[<<>>[i]] = Entry(<<>>, i + 1)
      BY <2>1 DEF Distinct
    <2>5. IsList(head, next, <<>>)
      BY <1>1, <2>1, <2>3, <2>4 DEF IsList, Init
    <2> QED
      BY <2>2, <2>5, ChainIs
  <1>3. TypeOK
    BY <1>1 DEF Init, TypeOK
  <1>4. VisitInv
    BY <1>1 DEF Init, VisitInv
  <1> QED
    BY <1>2, <1>3, <1>4 DEF IInv

\* Every step keeps the invariant.
LEMMA NextInv == IInv /\ [Next]_vars => IInv'
  <1>1. SUFFICES ASSUME IInv, [Next]_vars PROVE IInv'
    OBVIOUS
  <1>2. CASE UNCHANGED vars
    BY <1>1, <1>2, QuietStep DEF vars, IInv, TypeOK
  <1>3. CASE Next
    BY <1>1, <1>3, OperationStep, ForgetStep, IterateNextStep DEF Next
  <1> QED
    BY <1>1, <1>2, <1>3

\* iterate_next is the only step that can meet a freed node or end an iteration.
LEMMA IterationStep ==
  ASSUME IInv, [Next]_vars
  PROVE  /\ (fault' = "freed" /\ vars' # vars) => torn
         /\ (cursor # NULL /\ cursor' = NULL /\ ~torn) => since \subseteq called /\ ~twice
  <1>1. CASE UNCHANGED vars
    BY <1>1 DEF vars, iterv
  <1>2. CASE Next /\ iterate_next
    BY <1>2, IterateNextStep DEF Next
  <1>3. CASE Next /\ ~iterate_next
    <2>1. fault' # "freed" /\ (cursor # NULL => cursor' = cursor)
      BY <1>3 DEF Next, Operation, forget, create_list, without_head, insert_in_front, insert_tail,
                  insert_before, delete_element, list_length_of, find_list_custom, delete_list,
                  iterate_list, Return, Fault, Link, free, iterv
    <2> QED
      BY <2>1
  <1> QED
    BY <1>1, <1>2, <1>3
-----------------------------------------------------------------------------
(* The theorems.                                                             *)

\* The invariant of the list and its iteration.
LEMMA Invariant == Spec => []IInv
  BY InitInv, NextInv, PTL DEF Spec

\* For every number of nodes and every sequence of calls, from a callback or
\* not: the allocated nodes are the nodes of the list, each once, and the last
\* one points to nothing.
THEOREM ListOwnsItsNodes == Spec => []NodesOwned
  <1>1. IInv => NodesOwned
    <2>1. SUFFICES ASSUME IInv PROVE NodesOwned
      OBVIOUS
    <2>2. CASE Dangling
      <3>1. Chain = <<>> /\ ToSet(<<>>) = {}
        BY <2>2 DEF Chain, ToSet
      <3>2. mem = {} /\ Len(<<>>) = 0 /\ Cardinality({}) = 0
        BY <2>1, <3>1, FS_EmptySet DEF IInv, ShapeInv
      <3> QED
        BY <2>1, <3>1, <3>2 DEF NodesOwned, IInv
    <2>3. CASE ~Dangling
      <3>1. /\ IsList(head, next, Chain) /\ ToSet(Chain) = mem /\ Chain \in Seq(Nodes)
            /\ Len(Chain) \in Nat /\ (Len(Chain) = 0 <=> Chain = <<>>)
        BY <2>1, <2>3, ChainFacts DEF IInv
      <3>2. Len(Chain) = Cardinality(mem)
        BY <3>1, DistinctLength DEF IsList
      <3>3. ASSUME Chain # <<>> PROVE next[Last(Chain)] = NULL
        <4>1. Len(Chain) \in 1..Len(Chain) /\ ~(Len(Chain) + 1 <= Len(Chain))
          BY <3>1, <3>3
        <4> QED
          BY <3>1, <4>1 DEF IsList, Entry, Last
      <3> QED
        BY <2>1, <3>1, <3>2, <3>3 DEF NodesOwned, IInv
    <2> QED
      BY <2>2, <2>3
  <1> QED
    BY <1>1, Invariant, PTL

\* For every number of nodes and whatever the callback inserts and deletes:
\* iterate_list follows a freed node only if the callback freed the node it was
\* called for, and otherwise it ends with every node that was in the list
\* throughout visited exactly once.
THEOREM IterationIsSound == Spec => IterationSound
  <1>1. IInv /\ [Next]_vars =>
          [/\ fault' = "freed" => torn
           /\ (cursor # NULL /\ cursor' = NULL /\ ~torn) => since \subseteq called /\ ~twice]_vars
    BY IterationStep
  <1> QED
    BY <1>1, Invariant, PTL DEF Spec, IterationSound

-----------------------------------------------------------------------------
(* The refinement of ListSpec.                                               *)

\* A part of a sequence.
LEMMA PartOf ==
  ASSUME NEW S, NEW s \in Seq(S), NEW a \in 1..(Len(s) + 1), NEW b \in 0..Len(s), a <= b + 1
  PROVE  /\ SubSeq(s, a, b) \in Seq(S) /\ Len(SubSeq(s, a, b)) = b - a + 1
         /\ \A i \in 1..(b - a + 1) : SubSeq(s, a, b)[i] = s[a + i - 1]
  <1>1. \A i \in a..b : s[i] \in S
    OBVIOUS
  <1>2. a \in Int /\ b \in Int
    OBVIOUS
  <1>3. /\ SubSeq(s, a, b) \in Seq(S)
        /\ Len(SubSeq(s, a, b)) = IF a <= b THEN b - a + 1 ELSE 0
        /\ \A i \in 1..(b - a + 1) : SubSeq(s, a, b)[i] = s[a + i - 1]
    BY <1>1, <1>2, SubSeqProperties
  <1>4. b - a + 1 = IF a <= b THEN b - a + 1 ELSE 0
    OBVIOUS
  <1> QED
    BY <1>3, <1>4

\* InsertAt, and what insert_in_front and insert_tail make of it.
LEMMA InsertAtIs ==
  ASSUME NEW S, NEW s \in Seq(S), NEW t \in Seq(S), NEW x \in S, NEW p \in 1..(Len(s) + 1),
         Inserted(t, s, p, x)
  PROVE  /\ t = SubSeq(s, 1, p - 1) \o <<x>> \o SubSeq(s, p, Len(s))
         /\ p = 1 => t = <<x>> \o s
         /\ p = Len(s) + 1 => t = Append(s, x)
  <1>1. PICK m \in Nat : m = Len(s)
    OBVIOUS
  <1>2. /\ p \in 1..(m + 1) /\ Len(t) = m + 1
        /\ \A i \in 1..(m + 1) :
              t[i] = IF i < p THEN s[i] ELSE IF i = p THEN x ELSE s[i - 1]
    BY <1>1 DEF Inserted
  <1>3. t = SubSeq(s, 1, p - 1) \o <<x>> \o SubSeq(s, p, Len(s))
    <2>1. PICK a, b : a = SubSeq(s, 1, p - 1) /\ b = SubSeq(s, p, Len(s))
      OBVIOUS
    <2>2. a \in Seq(S) /\ Len(a) = p - 1 /\ \A i \in 1..(p - 1) : a[i] = s[i]
      <3>1. 1 \in 1..(Len(s) + 1) /\ p - 1 \in 0..Len(s) /\ 1 <= (p - 1) + 1
        BY <1>1, <1>2
      <3>2. /\ a \in Seq(S) /\ Len(a) = (p - 1) - 1 + 1
            /\ \A i \in 1..((p - 1) - 1 + 1) : a[i] = s[1 + i - 1]
        BY <2>1, <3>1, PartOf
      <3> QED
        BY <1>2, <3>2
    <2>3. b \in Seq(S) /\ Len(b) = m - p + 1 /\ \A i \in 1..(m - p + 1) : b[i] = s[p + i - 1]
      <3>1. p \in 1..(Len(s) + 1) /\ Len(s) \in 0..Len(s) /\ p <= Len(s) + 1
        BY <1>1, <1>2
      <3> QED
        BY <1>1, <2>1, <3>1, PartOf
    <2>4. PICK e : e = <<x>>
      OBVIOUS
    <2>5. e \in Seq(S) /\ Len(e) = 1 /\ e[1] = x
      BY <2>4
    <2>6. PICK f : f = a \o e
      OBVIOUS
    <2>7. f \in Seq(S) /\ Len(f) = p /\ \A i \in 1..p : f[i] = IF i <= p - 1 THEN s[i] ELSE x
      <3>1. /\ f \in Seq(S) /\ Len(f) = Len(a) + Len(e)
            /\ \A i \in 1..(Len(a) + Len(e)) : f[i] = IF i <= Len(a) THEN a[i] ELSE e[i - Len(a)]
        BY <2>2, <2>5, <2>6, ConcatProperties
      <3>2. Len(a) + Len(e) = p
        BY <1>2, <2>2, <2>5
      <3>3. \A i \in 1..p : /\ i <= p - 1 => i \in 1..(p - 1)
                            /\ ~(i <= p - 1) => i - Len(a) = 1
        BY <1>2, <2>2
      <3> QED
        BY <2>2, <2>5, <3>1, <3>2, <3>3
    <2>8. PICK g : g = f \o b
      OBVIOUS
    <2>9. g \in Seq(S) /\ Len(g) = m + 1 /\ \A i \in 1..(m + 1) : g[i] = t[i]
      <3>1. /\ g \in Seq(S) /\ Len(g) = Len(f) + Len(b)
            /\ \A i \in 1..(Len(f) + Len(b)) : g[i] = IF i <= Len(f) THEN f[i] ELSE b[i - Len(f)]
        BY <2>3, <2>7, <2>8, ConcatProperties
      <3>2. Len(f) + Len(b) = m + 1
        BY <1>2, <2>3, <2>7
      <3>3. ASSUME NEW i \in 1..(m + 1) PROVE g[i] = t[i]
        <4>1. CASE i <= p
          <5>1. i \in 1..p /\ g[i] = f[i] /\ (i <= p - 1 <=> i < p) /\ (~(i < p) => i = p)
            BY <1>2, <2>7, <3>1, <3>2, <4>1
          <5> QED
            BY <1>2, <2>7, <5>1
        <4>2. CASE ~(i <= p)
          <5>1. /\ g[i] = b[i - p] /\ i - p \in 1..(m - p + 1) /\ p + (i - p) - 1 = i - 1
                /\ ~(i < p) /\ i # p
            BY <1>2, <2>7, <3>1, <3>2, <4>2
          <5> QED
            BY <1>2, <2>3, <5>1
        <4> QED
          BY <4>1, <4>2
      <3> QED
        BY <3>1, <3>2, <3>3
    <2>10. g = t
      BY <1>2, <2>9, SeqEqual
    <2> QED
      BY <2>1, <2>4, <2>6, <2>8, <2>10
  <1>4. ASSUME p = 1 PROVE t = <<x>> \o s
    <2>1. PICK e, g : e = <<x>> /\ g = e \o s
      OBVIOUS
    <2>2. e \in Seq(S) /\ Len(e) = 1 /\ e[1] = x
      BY <2>1
    <2>3. /\ g \in Seq(S) /\ Len(g) = 1 + m
          /\ \A i \in 1..(1 + m) : g[i] = IF i <= 1 THEN e[i] ELSE s[i - 1]
      BY <1>1, <2>1, <2>2, ConcatProperties
    <2>4. 1 + m = m + 1 /\ \A i \in 1..(m + 1) : ~(i < 1) /\ (i <= 1 <=> i = 1)
      BY <1>1
    <2>5. Len(g) = m + 1 /\ \A i \in 1..(m + 1) : g[i] = t[i]
      BY <1>2, <1>4, <2>2, <2>3, <2>4
    <2> QED
      BY <1>2, <2>1, <2>3, <2>5, SeqEqual
  <1>5. ASSUME p = Len(s) + 1 PROVE t = Append(s, x)
    <2>1. PICK g : g = Append(s, x)
      OBVIOUS
    <2>2. /\ g \in Seq(S) /\ Len(g) = m + 1 /\ g[m + 1] = x
          /\ \A i \in 1..m : g[i] = s[i]
      BY <1>1, <2>1, AppendProperties
    <2>3. \A i \in 1..(m + 1) : (i < p => i \in 1..m) /\ (~(i < p) => i = p) /\ p = m + 1
      BY <1>1, <1>2, <1>5
    <2>4. \A i \in 1..(m + 1) : g[i] = t[i]
      BY <1>2, <2>2, <2>3
    <2> QED
      BY <1>2, <2>1, <2>2, <2>4, SeqEqual
  <1> QED
    BY <1>3, <1>4, <1>5

\* RemoveAt.
LEMMA RemoveAtIs ==
  ASSUME NEW S, NEW s \in Seq(S), NEW t \in Seq(S), NEW p \in 1..Len(s), Deleted(t, s, p)
  PROVE  t = SubSeq(s, 1, p - 1) \o SubSeq(s, p + 1, Len(s))
  <1>1. PICK m \in Nat : m = Len(s)
    OBVIOUS
  <1>2. /\ p \in 1..m /\ Len(t) = m - 1
        /\ \A i \in 1..(m - 1) : t[i] = IF i < p THEN s[i] ELSE s[i + 1]
    BY <1>1 DEF Deleted
  <1>3. PICK a, b : a = SubSeq(s, 1, p - 1) /\ b = SubSeq(s, p + 1, Len(s))
    OBVIOUS
  <1>4. a \in Seq(S) /\ Len(a) = p - 1 /\ \A i \in 1..(p - 1) : a[i] = s[i]
    <2>1. 1 \in 1..(Len(s) + 1) /\ p - 1 \in 0..Len(s) /\ 1 <= (p - 1) + 1
      BY <1>1, <1>2
    <2>2. /\ a \in Seq(S) /\ Len(a) = (p - 1) - 1 + 1
          /\ \A i \in 1..((p - 1) - 1 + 1) : a[i] = s[1 + i - 1]
      BY <1>3, <2>1, PartOf
    <2> QED
      BY <1>2, <2>2
  <1>5. b \in Seq(S) /\ Len(b) = m - p /\ \A i \in 1..(m - p) : b[i] = s[p + i]
    <2>1. p + 1 \in 1..(Len(s) + 1) /\ Len(s) \in 0..Len(s) /\ p + 1 <= Len(s) + 1
      BY <1>1, <1>2
    <2>2. /\ b \in Seq(S) /\ Len(b) = m - (p + 1) + 1
          /\ \A i \in 1..(m - (p + 1) + 1) : b[i] = s[(p + 1) + i - 1]
      BY <1>1, <1>3, <2>1, PartOf
    <2> QED
      BY <1>1, <1>2, <2>2
  <1>6. PICK g : g = a \o b
    OBVIOUS
  <1>7. /\ g \in Seq(S) /\ Len(g) = Len(a) + Len(b)
        /\ \A i \in 1..(Len(a) + Len(b)) : g[i] = IF i <= Len(a) THEN a[i] ELSE b[i - Len(a)]
    BY <1>4, <1>5, <1>6, ConcatProperties
  <1>8. Len(a) + Len(b) = m - 1
    BY <1>2, <1>4, <1>5
  <1>9. ASSUME NEW i \in 1..(m - 1) PROVE g[i] = t[i]
    <2>1. CASE i < p
      <3>1. i \in 1..(p - 1) /\ i <= Len(a)
        BY <1>2, <1>4, <2>1
      <3> QED
        BY <1>2, <1>4, <1>7, <1>8, <2>1, <3>1
    <2>2. CASE ~(i < p)
      <3>1. ~(i <= Len(a)) /\ i - Len(a) \in 1..(m - p) /\ p + (i - Len(a)) = i + 1
        BY <1>2, <1>4, <2>2
      <3> QED
        BY <1>2, <1>5, <1>7, <1>8, <2>2, <3>1
    <2> QED
      BY <2>1, <2>2
  <1>10. g = t
    BY <1>2, <1>7, <1>8, <1>9, SeqEqual
  <1> QED
    BY <1>3, <1>6, <1>10

Values == Data \cup {NULL}

\* The data of the list, in order.
LEMMA ContentsAre ==
  ASSUME TypeOK, Chain \in Seq(Nodes)
  PROVE  /\ Contents \in Seq(Values) /\ Len(Contents) = Len(Chain) /\ Len(Chain) \in Nat
         /\ \A i \in 1..Len(Chain) : Contents[i] = data[Chain[i]]
  <1>1. PICK c \in Seq(Nodes) : c = Chain
    OBVIOUS
  <1>2. PICK m \in Nat : m = Len(c) /\ DOMAIN c = 1..m
    OBVIOUS
  <1>3. Contents = [i \in 1..m |-> data[c[i]]]
    BY <1>1, <1>2 DEF Contents
  <1>4. \A i \in 1..m : c[i] \in Nodes /\ data[c[i]] \in Values
    BY <1>2 DEF TypeOK, Values
  <1>5. Contents \in [1..m -> Values] /\ \A i \in 1..m : Contents[i] = data[c[i]]
    BY <1>3, <1>4
  <1>6. Contents \in Seq(Values) /\ Len(Contents) = m
    BY <1>2, <1>5
  <1> QED
    BY <1>1, <1>2, <1>5, <1>6

\* The same of the next state.
LEMMA NewContentsAre ==
  ASSUME TypeOK', Chain' \in Seq(Nodes)
  PROVE  /\ Contents' \in Seq(Values) /\ Len(Contents') = Len(Chain') /\ Len(Chain') \in Nat
         /\ \A i \in 1..Len(Chain') : Contents'[i] = data'[Chain'[i]]
  <1>1. PICK c \in Seq(Nodes) : c = Chain'
    OBVIOUS
  <1>2. PICK m \in Nat : m = Len(c) /\ DOMAIN c = 1..m
    OBVIOUS
  <1>3. Contents' = [i \in 1..m |-> data'[c[i]]]
    BY <1>1, <1>2 DEF Contents
  <1>4. \A i \in 1..m : c[i] \in Nodes /\ data'[c[i]] \in Values
    BY <1>2 DEF TypeOK, Values
  <1>5. Contents' \in [1..m -> Values] /\ \A i \in 1..m : Contents'[i] = data'[c[i]]
    BY <1>3, <1>4
  <1>6. Contents' \in Seq(Values) /\ Len(Contents') = m
    BY <1>2, <1>5
  <1> QED
    BY <1>1, <1>2, <1>5, <1>6

\* An insertion inserts its datum.
LEMMA ContentsInserted ==
  ASSUME IInv, ~Dangling, TypeOK', NEW n \in Nodes \ mem, NEW d \in Data, Link(n, d),
         NEW p \in 1..(Len(Chain) + 1), Chain' \in Seq(Nodes), Inserted(Chain', Chain, p, n)
  PROVE  /\ Contents \in Seq(Values) /\ Contents' \in Seq(Values)
         /\ Len(Contents) = Len(Chain) /\ d \in Values
         /\ Inserted(Contents', Contents, p, d)
  <1>1. Chain \in Seq(Nodes) /\ \A i \in 1..Len(Chain) : Chain[i] \in Nodes /\ Chain[i] \in mem
    BY ChainFacts DEF IInv
  <1>2. /\ Contents \in Seq(Values) /\ Len(Contents) = Len(Chain) /\ Len(Chain) \in Nat
        /\ \A i \in 1..Len(Chain) : Contents[i] = data[Chain[i]]
    BY <1>1, ContentsAre DEF IInv
  <1>3. /\ Contents' \in Seq(Values) /\ Len(Contents') = Len(Chain')
        /\ \A i \in 1..Len(Chain') : Contents'[i] = data'[Chain'[i]]
    BY NewContentsAre
  <1>4. data'[n] = d /\ \A x \in Nodes : x # n => data'[x] = data[x]
    BY DEF Link, IInv, TypeOK
  <1>5. PICK m \in Nat : m = Len(Chain)
    BY <1>2
  <1>6. Len(Chain') = m + 1
    BY <1>5 DEF Inserted
  <1>7. ASSUME NEW i \in 1..(m + 1)
        PROVE  Contents'[i] = IF i < p THEN Contents[i] ELSE IF i = p THEN d ELSE Contents[i - 1]
    <2>1. Chain'[i] = IF i < p THEN Chain[i] ELSE IF i = p THEN n ELSE Chain[i - 1]
      BY <1>5 DEF Inserted
    <2>2. /\ i < p => i \in 1..m
          /\ ~(i < p) /\ i # p => i - 1 \in 1..m
      BY <1>5
    <2>3. CASE i < p
      <3>1. Contents'[i] = data'[Chain[i]] /\ Chain[i] \in Nodes /\ Chain[i] # n
        BY <1>1, <1>3, <1>5, <1>6, <2>1, <2>2, <2>3
      <3> QED
        BY <1>2, <1>4, <1>5, <2>2, <2>3, <3>1
    <2>4. CASE i = p
      BY <1>3, <1>4, <1>5, <1>6, <2>1, <2>4
    <2>5. CASE ~(i < p) /\ i # p
      <3>1. Contents'[i] = data'[Chain[i - 1]] /\ Chain[i - 1] \in Nodes /\ Chain[i - 1] # n
        BY <1>1, <1>3, <1>5, <1>6, <2>1, <2>2, <2>5
      <3> QED
        BY <1>2, <1>4, <1>5, <2>2, <2>5, <3>1
    <2> QED
      BY <2>3, <2>4, <2>5
  <1> QED
    BY <1>2, <1>3, <1>5, <1>6, <1>7 DEF Inserted, Values

\* The deletion deletes one.
LEMMA ContentsDeleted ==
  ASSUME IInv, ~Dangling, TypeOK', NEW p \in 1..Len(Chain), data' = Blank(data, {Chain[p]}),
         Chain' \in Seq(Nodes), Deleted(Chain', Chain, p)
  PROVE  /\ Contents \in Seq(Values) /\ Contents' \in Seq(Values)
         /\ Len(Contents) = Len(Chain)
         /\ Deleted(Contents', Contents, p)
  <1>1. /\ Chain \in Seq(Nodes) /\ \A i \in 1..Len(Chain) : Chain[i] \in Nodes
        /\ IsList(head, next, Chain)
    BY ChainFacts DEF IInv
  <1>2. /\ Contents \in Seq(Values) /\ Len(Contents) = Len(Chain) /\ Len(Chain) \in Nat
        /\ \A i \in 1..Len(Chain) : Contents[i] = data[Chain[i]]
    BY <1>1, ContentsAre DEF IInv
  <1>3. /\ Contents' \in Seq(Values) /\ Len(Contents') = Len(Chain')
        /\ \A i \in 1..Len(Chain') : Contents'[i] = data'[Chain'[i]]
    BY NewContentsAre
  <1>4. \A x \in Nodes : x # Chain[p] => data'[x] = data[x]
    BY DEF Blank
  <1>5. PICK m \in Nat : m = Len(Chain)
    BY <1>2
  <1>6. Len(Chain') = m - 1
    BY <1>5 DEF Deleted
  <1>7. ASSUME NEW i \in 1..m, i # p PROVE data'[Chain[i]] = Contents[i]
    BY <1>1, <1>2, <1>4, <1>5, <1>7 DEF IsList, Distinct
  <1>8. ASSUME NEW i \in 1..(m - 1)
        PROVE  Contents'[i] = IF i < p THEN Contents[i] ELSE Contents[i + 1]
    <2>1. Chain'[i] = IF i < p THEN Chain[i] ELSE Chain[i + 1]
      BY <1>5 DEF Deleted
    <2>2. /\ i \in 1..m /\ i + 1 \in 1..m
          /\ i < p => i # p
          /\ ~(i < p) => i + 1 # p
      BY <1>5
    <2> QED
      BY <1>3, <1>6, <1>7, <2>1, <2>2
  <1> QED
    BY <1>2, <1>3, <1>5, <1>6, <1>8 DEF Deleted

\* The place ListSpec speaks of is the one where the code's loop stops.
LEMMA PlaceIs ==
  ASSUME IInv, ~Dangling, NEW D
  PROVE  ListSpecOf!Place(D) = IF PlacesOf(D, 1) = {} THEN 0 ELSE Min(PlacesOf(D, 1))
  <1>1. Chain \in Seq(Nodes)
    BY ChainFacts DEF IInv
  <1>2. /\ Len(Contents) = Len(Chain) /\ Len(Chain) \in Nat
        /\ \A i \in 1..Len(Chain) : Contents[i] = data[Chain[i]]
    BY <1>1, ContentsAre DEF IInv
  <1>3. PICK I : I = {i \in 1..Len(Contents) : Contents[i] \in D}
    OBVIOUS
  <1>4. I = PlacesOf(D, 1)
    BY <1>2, <1>3 DEF PlacesOf
  <1>5. ListSpecOf!Place(D) = IF I # {} THEN Min(I) ELSE 0
    BY <1>3 DEF ListSpecOf!Place, ListSpecOf!SelectInSubSeq, SelectInSubSeq, Min, ListSpecOf!Min
  <1> QED
    BY <1>4, <1>5

\* The operations of ListSpec that insert.
LEMMA AbstractInsertions ==
  ASSUME NEW p \in 1..(Len(Contents) + 1), NEW d \in Values,
         Contents \in Seq(Values), Contents' \in Seq(Values), Inserted(Contents', Contents, p, d),
         Return(CC_NO_ERROR)
  PROVE  /\ p = 1 => ListSpecOf!AtFront(d)
         /\ p = Len(Contents) + 1 => ListSpecOf!AtEnd(d)
         /\ \A s : ListSpecOf!Place({s}) = p => ListSpecOf!Before(s, d)
  <1>1. /\ Contents' = SubSeq(Contents, 1, p - 1) \o <<d>> \o SubSeq(Contents, p, Len(Contents))
        /\ p = 1 => Contents' = <<d>> \o Contents
        /\ p = Len(Contents) + 1 => Contents' = Append(Contents, d)
    BY InsertAtIs
  <1>2. result' = CC_NO_ERROR
    BY DEF Return
  <1>3. p # 0
    OBVIOUS
  <1>4. ASSUME NEW s, ListSpecOf!Place({s}) = p
        PROVE  ListSpecOf!Before(s, d)
    BY <1>1, <1>2, <1>3, <1>4
       DEF ListSpecOf!Before, ListSpecOf!Returns, ListSpecOf!InsertAt, InsertAt
  <1> QED
    BY <1>1, <1>2, <1>4 DEF ListSpecOf!AtFront, ListSpecOf!AtEnd, ListSpecOf!Returns

\* The deletion of ListSpec.
LEMMA AbstractDeletion ==
  ASSUME NEW p \in 1..Len(Contents), NEW d,
         Contents \in Seq(Values), Contents' \in Seq(Values), Deleted(Contents', Contents, p),
         Return(CC_NO_ERROR), ListSpecOf!Place({d}) = p
  PROVE  ListSpecOf!Delete(d)
  <1>1. Contents' = SubSeq(Contents, 1, p - 1) \o SubSeq(Contents, p + 1, Len(Contents))
    BY RemoveAtIs
  <1>2. result' = CC_NO_ERROR
    BY DEF Return
  <1>3. p # 0
    OBVIOUS
  <1> QED
    BY <1>1, <1>2, <1>3 DEF ListSpecOf!Delete, ListSpecOf!Returns, ListSpecOf!RemoveAt, RemoveAt

\* The list is empty when its head is NULL.
LEMMA EmptyContents ==
  ASSUME IInv, ~Dangling
  PROVE  /\ head = NULL <=> Contents = <<>>
         /\ Len(Contents) = Len(Chain) /\ Contents \in Seq(Values)
         /\ Len(Chain) \in Nat /\ Len(Chain) <= Cardinality(Nodes)
         /\ \A i \in 1..Len(Chain) : Contents[i] = data[Chain[i]]
  <1>1. /\ Chain \in Seq(Nodes) /\ (head = NULL <=> Chain = <<>>)
        /\ (Len(Chain) = 0 <=> Chain = <<>>) /\ IsList(head, next, Chain)
    BY ChainFacts DEF IInv
  <1>2. /\ Contents \in Seq(Values) /\ Len(Contents) = Len(Chain) /\ Len(Chain) \in Nat
        /\ \A i \in 1..Len(Chain) : Contents[i] = data[Chain[i]]
    BY <1>1, ContentsAre DEF IInv
  <1>3. Len(Chain) <= Cardinality(Nodes)
    BY <1>1, DistinctLength DEF IsList
  <1>4. Len(Contents) = 0 <=> Contents = <<>>
    BY <1>2
  <1> QED
    BY <1>1, <1>2, <1>3, <1>4

-----------------------------------------------------------------------------
(* The operations, one by one.                                               *)

LEMMA FrontImplements ==
  ASSUME IInv, IInv', NEW d \in Data, Called(insert_in_front(d))
  PROVE  ListSpecOf!AtFront(d)
  <1>0. ~Dangling /\ fault' = "none" /\ insert_in_front(d)
    BY DEF Called
  <1>1. PICK n \in malloc : IF n = NULL THEN Fault("memory")
                            ELSE /\ Link(n, d)
                                 /\ next' = [next EXCEPT ![n] = head] /\ head' = n
                                 /\ Return(CC_NO_ERROR)
    BY <1>0 DEF insert_in_front
  <1>2. n # NULL
    BY <1>0, <1>1 DEF Fault
  <1>3. n \in Nodes \ mem
    BY <1>2 DEF malloc
  <1>4. LinkedIn(head', next', head, next, Chain, 1, n)
    BY <1>0, <1>1, <1>2, <1>3, InFront
  <1>5. Inserted(Chain', Chain, 1, n) /\ Chain' \in Seq(Nodes)
    BY <1>0, <1>1, <1>2, <1>4, Insertion
  <1>6. 1 \in 1..(Len(Chain) + 1)
    BY <1>4 DEF LinkedIn
  <1>7. /\ Contents \in Seq(Values) /\ Contents' \in Seq(Values) /\ d \in Values
        /\ Len(Contents) = Len(Chain) /\ Inserted(Contents', Contents, 1, d)
    BY <1>0, <1>1, <1>2, <1>3, <1>5, <1>6, ContentsInserted DEF IInv
  <1> QED
    BY <1>1, <1>2, <1>6, <1>7, AbstractInsertions

LEMMA TailImplements ==
  ASSUME IInv, IInv', NEW d \in Data, Called(insert_tail(d))
  PROVE  ListSpecOf!AtEnd(d)
  <1>0. ~Dangling /\ fault' = "none" /\ insert_tail(d)
    BY DEF Called
  <1>1. PICK n \in malloc :
          IF n = NULL THEN Fault("memory")
          ELSE /\ Link(n, d)
               /\ IF head = NULL THEN head' = n /\ next' = [next EXCEPT ![n] = NULL]
                  ELSE next' = [next EXCEPT ![n] = NULL, ![LastNode] = n] /\ UNCHANGED head
               /\ Return(CC_NO_ERROR)
    BY <1>0 DEF insert_tail
  <1>2. n # NULL
    BY <1>0, <1>1 DEF Fault
  <1>3. n \in Nodes \ mem
    BY <1>2 DEF malloc
  <1>4. PICK p : p = Len(Chain) + 1
    OBVIOUS
  <1>5. LinkedIn(head', next', head, next, Chain, p, n)
    BY <1>0, <1>1, <1>2, <1>3, <1>4, AtTail
  <1>6. Inserted(Chain', Chain, p, n) /\ Chain' \in Seq(Nodes)
    BY <1>0, <1>1, <1>2, <1>5, Insertion
  <1>7. p \in 1..(Len(Chain) + 1)
    BY <1>5 DEF LinkedIn
  <1>8. /\ Contents \in Seq(Values) /\ Contents' \in Seq(Values) /\ d \in Values
        /\ Len(Contents) = Len(Chain) /\ Inserted(Contents', Contents, p, d)
    BY <1>0, <1>1, <1>2, <1>3, <1>6, <1>7, ContentsInserted DEF IInv
  <1> QED
    BY <1>1, <1>2, <1>4, <1>7, <1>8, AbstractInsertions

LEMMA DeleteImplements ==
  ASSUME IInv, IInv', NEW d \in Data, Called(delete_element(d))
  PROVE  ListSpecOf!Delete(d)
  <1>0. ~Dangling /\ fault' = "none" /\ delete_element(d)
    BY DEF Called
  <1>1. head # NULL
    BY <1>0 DEF delete_element, Fault
  <1>2. ListSpecOf!Place({d}) = IF Matches(d) = {} THEN 0 ELSE Min(Matches(d))
    BY <1>0, PlaceIs DEF Matches
  <1>3. CASE Matches(d) = {}
    <2>1. Return(CC_ERROR) /\ Contents' = Contents
      BY <1>0, <1>1, <1>3, ListKept DEF delete_element
    <2> QED
      BY <1>2, <1>3, <2>1 DEF ListSpecOf!Delete, ListSpecOf!Returns, Return
  <1>4. CASE Matches(d) # {}
    <2>1. PICK i, n : i = Min(Matches(d)) /\ n = Chain[i]
      OBVIOUS
    <2>2. i \in 1..Len(Chain)
      BY <1>0, <1>4, <2>1, MatchesFacts DEF Matches
    <2>3. /\ IF i = 1 THEN head' = next[n] /\ next' = Blank(next, {n})
             ELSE /\ next' = Blank([next EXCEPT ![Chain[i - 1]] = next[n]], {n})
                  /\ UNCHANGED head
          /\ data' = Blank(data, {n}) /\ free({n}) /\ Return(CC_NO_ERROR)
      BY <1>0, <1>1, <1>4, <2>1 DEF delete_element
    <2>4. LinkedOut(head', next', head, next, Chain, i)
      BY <1>0, <2>1, <2>2, <2>3, TakenOut
    <2>5. Deleted(Chain', Chain, i) /\ Chain' \in Seq(Nodes)
      BY <1>0, <2>1, <2>3, <2>4, Deletion
    <2>6. /\ Contents \in Seq(Values) /\ Contents' \in Seq(Values)
          /\ Len(Contents) = Len(Chain) /\ Deleted(Contents', Contents, i)
      BY <1>0, <2>1, <2>2, <2>3, <2>5, ContentsDeleted DEF IInv
    <2> QED
      BY <1>2, <1>4, <2>1, <2>2, <2>3, <2>6, AbstractDeletion
  <1> QED
    BY <1>3, <1>4

LEMMA BeforeImplements ==
  ASSUME IInv, IInv', NEW s \in Data, NEW d \in Data, Called(insert_before(s, d)), ~IsFirst(s)
  PROVE  ListSpecOf!Before(s, d)
  <1>0. ~Dangling /\ fault' = "none" /\ insert_before(s, d)
    BY DEF Called
  <1>1. head # NULL /\ Contents # <<>>
    BY <1>0, EmptyContents DEF insert_before, Fault
  <1>2. Siblings(s) = PlacesOf({s}, 1)
    <2>1. PICK m \in Nat : m = Len(Chain) /\ \A i \in 1..m : Contents[i] = data[Chain[i]]
      BY <1>0, EmptyContents
    <2>2. \A i \in 1..m : data[Chain[i]] \in {s} => i \in 2..m
      BY <1>1, <2>1 DEF IsFirst
    <2>3. \A i \in 2..m : i \in 1..m
      BY <2>1
    <2> QED
      BY <2>1, <2>2, <2>3 DEF Siblings, PlacesOf
  <1>3. ListSpecOf!Place({s}) = IF Siblings(s) = {} THEN 0 ELSE Min(Siblings(s))
    BY <1>0, <1>2, PlaceIs
  <1>4. CASE Siblings(s) = {}
    <2>1. Return(CC_ERROR) /\ Contents' = Contents
      BY <1>0, <1>1, <1>4, ListKept DEF insert_before
    <2> QED
      BY <1>3, <1>4, <2>1 DEF ListSpecOf!Before, ListSpecOf!Returns, Return
  <1>5. CASE Siblings(s) # {}
    <2>1. PICK i : i = Min(Siblings(s))
      OBVIOUS
    <2>2. i \in 2..Len(Chain)
      BY <1>0, <1>5, <2>1, SiblingsFacts
    <2>3. PICK n \in malloc :
            IF n = NULL THEN Fault("memory")
            ELSE /\ Link(n, d)
                 /\ next' = [next EXCEPT ![n] = Chain[i], ![Chain[i - 1]] = n]
                 /\ UNCHANGED head
                 /\ Return(CC_NO_ERROR)
      BY <1>0, <1>1, <1>5, <2>1 DEF insert_before
    <2>4. n # NULL
      BY <1>0, <2>3 DEF Fault
    <2>5. n \in Nodes \ mem
      BY <2>4 DEF malloc
    <2>6. LinkedIn(head', next', head, next, Chain, i, n)
      BY <1>0, <2>2, <2>3, <2>4, <2>5, AtSibling
    <2>7. Inserted(Chain', Chain, i, n) /\ Chain' \in Seq(Nodes)
      BY <1>0, <2>3, <2>4, <2>6, Insertion
    <2>8. i \in 1..(Len(Chain) + 1)
      BY <2>6 DEF LinkedIn
    <2>9. /\ Contents \in Seq(Values) /\ Contents' \in Seq(Values) /\ d \in Values
          /\ Len(Contents) = Len(Chain) /\ Inserted(Contents', Contents, i, d)
      BY <1>0, <2>3, <2>4, <2>5, <2>7, <2>8, ContentsInserted DEF IInv
    <2>10. ListSpecOf!Place({s}) = i
      BY <1>3, <1>5, <2>1
    <2> QED
      BY <2>3, <2>4, <2>8, <2>9, <2>10, AbstractInsertions
  <1> QED
    BY <1>4, <1>5

LEMMA LengthImplements ==
  ASSUME IInv, Called(list_length_of), Contents # <<>>, Cardinality(Nodes) < 2^UnsignedBits
  PROVE  ListSpecOf!Length
  <1>0. ~Dangling /\ list_length_of
    BY DEF Called
  <1>1. Contents' = Contents
    BY <1>0, ListKept DEF list_length_of
  <1>2. result' = Unsigned(Len(Chain))
    BY <1>0, EmptyContents DEF list_length_of, Return
  <1>3. Unsigned(Len(Chain)) = Len(Contents)
    <2>1. PICK w \in Nat \ {0} : w = 2^UnsignedBits
      BY LinkedListAssumption
    <2>2. PICK m \in Nat : m = Len(Chain) /\ m = Len(Contents) /\ m <= Cardinality(Nodes)
      BY <1>0, EmptyContents
    <2>3. Cardinality(Nodes) \in Nat
      BY LinkedListAssumption, FS_CardinalityType
    <2>4. m < w
      BY <2>1, <2>2, <2>3
    <2>5. m % w = m
      BY <2>4
    <2> QED
      BY <2>1, <2>2, <2>5 DEF Unsigned
  <1> QED
    BY <1>1, <1>2, <1>3 DEF ListSpecOf!Length, ListSpecOf!Returns

LEMMA FindImplements ==
  ASSUME IInv, NEW D \in SUBSET Data, Called(find_list_custom(D))
  PROVE  ListSpecOf!Find(D)
  <1>0. ~Dangling /\ find_list_custom(D)
    BY DEF Called
  <1>1. Contents' = Contents
    BY <1>0, ListKept DEF find_list_custom
  <1>2. result' = IF PlacesOf(D, 1) = {} THEN NULL ELSE data[Chain[Min(PlacesOf(D, 1))]]
    BY <1>0 DEF find_list_custom, Return
  <1>3. ListSpecOf!Place(D) = IF PlacesOf(D, 1) = {} THEN 0 ELSE Min(PlacesOf(D, 1))
    BY <1>0, PlaceIs
  <1>4. ASSUME PlacesOf(D, 1) # {}
        PROVE  /\ Min(PlacesOf(D, 1)) # 0
               /\ data[Chain[Min(PlacesOf(D, 1))]] = Contents[Min(PlacesOf(D, 1))]
    <2>1. Min(PlacesOf(D, 1)) \in 1..Len(Chain)
      BY <1>0, <1>4, MatchesFacts
    <2> QED
      BY <1>0, <2>1, EmptyContents
  <1>5. result' = IF ListSpecOf!Place(D) = 0 THEN NULL ELSE Contents[ListSpecOf!Place(D)]
    BY <1>2, <1>3, <1>4
  <1> QED
    BY <1>1, <1>5 DEF ListSpecOf!Find, ListSpecOf!Returns

LEMMA ClearImplements ==
  ASSUME IInv, Called(delete_list)
  PROVE  ListSpecOf!Clear
  <1>0. ~Dangling /\ delete_list
    BY DEF Called
  <1>1. Chain' = <<>>
    BY <1>0, DeleteListStep
  <1>2. Contents' = <<>>
    BY <1>1 DEF Contents
  <1> QED
    BY <1>0, <1>2 DEF delete_list, Return, ListSpecOf!Clear, ListSpecOf!Returns

LEMMA RefusalImplements ==
  ASSUME Called(without_head)
  PROVE  ListSpecOf!Refuse
  <1>1. Return(CC_ERROR) /\ UNCHANGED listv
    BY DEF Called, without_head, Fault
  <1> QED
    BY <1>1, ListKept DEF ListSpecOf!Refuse, ListSpecOf!Returns, Return

\* The steps of iterate_list, and the caller's that forgets a deleted list.
LEMMA OthersImplement ==
  ASSUME IInv, (Dangling /\ forget) \/ iterate_list \/ iterate_next
  PROVE  UNCHANGED <<Contents, result>>
  <1>1. CASE Dangling /\ forget
    <2>1. Chain = <<>> /\ Chain' = <<>>
      BY <1>1, ForgetStep
    <2>2. Contents = <<>> /\ Contents' = <<>>
      BY <2>1 DEF Contents
    <2> QED
      BY <1>1, <2>2 DEF forget
  <1>2. CASE iterate_list
    BY <1>2, ListKept DEF iterate_list
  <1>3. CASE iterate_next
    <2>1. UNCHANGED <<listv, result>>
      BY <1>3 DEF iterate_next, Fault
    <2> QED
      BY <2>1, ListKept
  <1> QED
    BY <1>1, <1>2, <1>3

\* Pointers, nodes and iteration implement the abstract list, operation by
\* operation and with their return values, for every memory smaller than the
\* range of the unsigned int that list_length_of returns.
THEOREM ListImplementsListSpec ==
  ASSUME Cardinality(Nodes) < 2^UnsignedBits
  PROVE  Spec => ImplementsList
  <1> DEFINE Ops ==
          /\ \A d \in Data :
                /\ Called(insert_in_front(d)) => ListSpecOf!AtFront(d)
                /\ Called(insert_tail(d)) => ListSpecOf!AtEnd(d)
                /\ Called(delete_element(d)) => ListSpecOf!Delete(d)
                /\ \A s \in Data :
                      Called(insert_before(s, d)) /\ ~IsFirst(s) => ListSpecOf!Before(s, d)
          /\ \A D \in SUBSET Data : Called(find_list_custom(D)) => ListSpecOf!Find(D)
          /\ Called(list_length_of) /\ Contents # <<>> => ListSpecOf!Length
          /\ Called(delete_list) => ListSpecOf!Clear
          /\ Called(without_head) => ListSpecOf!Refuse
          /\ (Dangling /\ forget) \/ iterate_list \/ iterate_next =>
                UNCHANGED <<Contents, result>>
  <1>1. Init => ListSpecOf!LSInit
    <2>1. SUFFICES ASSUME Init PROVE ListSpecOf!LSInit
      OBVIOUS
    <2>2. IInv /\ ~Dangling /\ head = NULL
      BY <2>1, InitInv DEF Init, Dangling
    <2>3. Contents = <<>>
      BY <2>2, EmptyContents
    <2> QED
      BY <2>1, <2>3 DEF Init, ListSpecOf!LSInit
  <1>2. IInv /\ IInv' => Ops
    <2> SUFFICES ASSUME IInv, IInv' PROVE Ops
      OBVIOUS
    <2>1. ASSUME NEW d \in Data
          PROVE  /\ Called(insert_in_front(d)) => ListSpecOf!AtFront(d)
                 /\ Called(insert_tail(d)) => ListSpecOf!AtEnd(d)
                 /\ Called(delete_element(d)) => ListSpecOf!Delete(d)
                 /\ \A s \in Data :
                       Called(insert_before(s, d)) /\ ~IsFirst(s) => ListSpecOf!Before(s, d)
      BY FrontImplements, TailImplements, DeleteImplements, BeforeImplements
    <2>2. ASSUME NEW D \in SUBSET Data
          PROVE  Called(find_list_custom(D)) => ListSpecOf!Find(D)
      BY FindImplements
    <2>3. /\ Called(list_length_of) /\ Contents # <<>> => ListSpecOf!Length
          /\ Called(delete_list) => ListSpecOf!Clear
          /\ Called(without_head) => ListSpecOf!Refuse
      BY LengthImplements, ClearImplements, RefusalImplements
    <2>4. (Dangling /\ forget) \/ iterate_list \/ iterate_next => UNCHANGED <<Contents, result>>
      BY OthersImplement
    <2> QED
      BY <2>1, <2>2, <2>3, <2>4
  <1>3. IInv /\ IInv' => [Ops]_vars
    BY <1>2
  <1> HIDE DEF Ops
  <1>4. ImplementsList <=> ListSpecOf!LSInit /\ [][Ops]_vars
    BY DEF ImplementsList, Ops
  <1> QED
    BY <1>1, <1>3, <1>4, Invariant, PTL DEF Spec
=============================================================================
