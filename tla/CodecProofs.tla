----------------------------- MODULE CodecProofs -----------------------------
(***************************************************************************)
(* Proofs about Codec for messages of every length: the packed message     *)
(* fits into its buffer, and what the decoders do when they refuse one.    *)
(***************************************************************************)
EXTENDS Codec, SequenceTheorems, WellFoundedInduction, TLAPS

-----------------------------------------------------------------------------
(* Numbers.                                                                  *)

\* A set of numbers has a least one.
LEMMA LeastNumber ==
  ASSUME NEW S \in SUBSET Nat, S # {}
  PROVE  \E x \in S : \A y \in S : x <= y
  <1> DEFINE Less == {ss \in Nat \X Nat : ss[1] < ss[2]}
  <1>1. IsWellFoundedOn(Less, Nat)
    BY NatLessThanWellFounded, Zenon DEF OpToRel
  <1>2. \E x \in S : \A y \in S : ~(<<y, x>> \in Less)
    <2> HIDE DEF Less
    <2> QED
      BY <1>1, WFMin
  <1>3. \A x, y \in Nat : ~(<<y, x>> \in Less) => x <= y
    OBVIOUS
  <1> HIDE DEF Less
  <1> QED
    BY <1>2, <1>3

\* A set of numbers with a bound has a largest one.
LEMMA LargestNumber ==
  ASSUME NEW b \in Nat, NEW S \in SUBSET (0..b), S # {}
  PROVE  Max(S) \in S
  <1> DEFINE D == {b - x : x \in S}
  <1>1. D \in SUBSET Nat /\ D # {}
    <2>1. \A x \in S : b - x \in Nat
      OBVIOUS
    <2>2. PICK x : x \in S
      OBVIOUS
    <2>3. b - x \in D
      BY <2>2
    <2> QED
      BY <2>1, <2>3
  <1>2. PICK d \in D : \A e \in D : d <= e
    <2> HIDE DEF D
    <2> QED
      BY <1>1, LeastNumber
  <1>3. PICK x \in S : d = b - x
    BY <1>2
  <1>4. \A y \in S : x >= y
    <2> TAKE y \in S
    <2>1. b - x <= b - y /\ x \in Int /\ y \in Int
      BY <1>2, <1>3
    <2> QED
      BY <2>1
  <1> QED
    BY <1>4 DEF Max

\* Rounding up to a multiple of eight.
LEMMA RoundUp ==
  ASSUME NEW x \in Int, x > -8
  PROVE  /\ ROUND_UP(x, 8) \in Nat /\ x <= ROUND_UP(x, 8) /\ ROUND_UP(x, 8) < x + 8
         /\ \A k \in Nat : ROUND_UP(x + 8 * k, 8) = ROUND_UP(x, 8) + 8 * k
  BY DEF ROUND_UP

-----------------------------------------------------------------------------
(* Buffers.                                                                  *)

\* b is a buffer of size bytes, and nothing was written behind them.
Buffer(b, size) ==
    /\ size \in Nat /\ b.n = size /\ b.end \in 0..size /\ DOMAIN b.at = 0..(size - 1)

\* v is a sequence of k bytes.
Sized(v, k) == k \in Nat /\ DOMAIN v = 1..k /\ Len(v) = k /\ (v = <<>> => k = 0)

\* A function on 1..k is a sequence of k bytes.
LEMMA FunctionSized ==
  ASSUME NEW k \in Nat, NEW v, v = [i \in 1..k |-> v[i]]
  PROVE  Sized(v, k)
  <1>1. PICK S : S = {v[i] : i \in 1..k}
    OBVIOUS
  <1>2. v \in [1..k -> S]
    BY <1>1
  <1>3. v \in Seq(S) /\ Len(v) = k
    BY <1>2
  <1>4. v = <<>> => k = 0
    BY <1>3
  <1> QED
    BY <1>2, <1>3, <1>4 DEF Sized

\* Memory that was just allocated.
LEMMA AllocBuffer ==
  ASSUME NEW size \in Nat
  PROVE  Buffer(Alloc(size), size)
  BY DEF Buffer, Alloc

\* What is written within the buffer leaves it a buffer.
LEMMA PutBuffer ==
  ASSUME NEW b, NEW size, Buffer(b, size), NEW offset \in Nat, NEW v, NEW k, Sized(v, k),
         offset + k <= size
  PROVE  Buffer(Put(b, offset, v), size)
  <1>1. /\ Put(b, offset, v).n = b.n /\ DOMAIN Put(b, offset, v).at = DOMAIN b.at
        /\ Put(b, offset, v).end = IF v = <<>> THEN b.end ELSE Max({b.end, offset + Len(v)})
    BY DEF Put
  <1>2. Max({b.end, offset + k}) \in 0..size
    <2>1. {b.end, offset + k} \in SUBSET (0..size) /\ {b.end, offset + k} # {} /\ size \in Nat
      BY DEF Buffer, Sized
    <2>2. Max({b.end, offset + k}) \in {b.end, offset + k}
      BY <2>1, LargestNumber
    <2> QED
      BY <2>1, <2>2
  <1> QED
    BY <1>1, <1>2 DEF Buffer, Sized

\* i is not one of the k places from offset on.
Outside(i, offset, k) == i \in Nat /\ (i < offset \/ i >= offset + k)

\* Bytes outside of what is written stay as they are.
LEMMA PutElse ==
  ASSUME NEW b, NEW offset \in Nat, NEW v, NEW k, Sized(v, k), NEW i \in DOMAIN b.at,
         Outside(i, offset, k)
  PROVE  Put(b, offset, v).at[i] = b.at[i]
  <1>1. (i - offset + 1) \notin DOMAIN v
    BY DEF Sized, Outside
  <1> QED
    BY <1>1 DEF Put

\* The members of structure s lie within its first size bytes.
Within(s, size) ==
    \A f \in DOMAIN s : s[f][1] \in Nat /\ s[f][2] \in Nat /\ s[f][1] + s[f][2] <= size

\* So does the assignment of the members of a structure.
LEMMA PutAllBuffer ==
  ASSUME NEW b, NEW size, Buffer(b, size), NEW m, NEW base \in Nat, NEW s, NEW odd,
         NEW k \in Nat, Within(s, k), base + k <= size
  PROVE  Buffer(PutAll(b, m, base, s, odd), size)
  <1> DEFINE E == {b.end} \cup {base + s[f][1] + s[f][2] : f \in DOMAIN s}
  <1>1. /\ PutAll(b, m, base, s, odd).n = b.n
        /\ DOMAIN PutAll(b, m, base, s, odd).at = DOMAIN b.at
        /\ PutAll(b, m, base, s, odd).end = Max(E)
    BY DEF PutAll
  <1>2. E \in SUBSET (0..size) /\ E # {} /\ size \in Nat
    <2>1. \A f \in DOMAIN s : base + s[f][1] + s[f][2] \in 0..size
      <3> TAKE f \in DOMAIN s
      <3>1. PICK x \in Nat, y \in Nat : x = s[f][1] /\ y = s[f][2] /\ x + y <= k
        BY DEF Within
      <3>2. size \in Nat
        BY DEF Buffer
      <3> QED
        BY <3>1, <3>2
    <2> QED
      BY <2>1 DEF Buffer
  <1> HIDE DEF E
  <1>3. Max(E) \in 0..size
    BY <1>2, LargestNumber
  <1> QED
    BY <1>1, <1>3 DEF Buffer

-----------------------------------------------------------------------------
(* Sums of lengths.                                                          *)

\* f[i] is the sum of the first i of the lengths l, up to k.
SumsTo(l, k, f) ==
    f \in [0..k -> Nat] /\ f[0] = 0 /\ \A i \in 1..k : f[i] = f[i-1] + l[i]

\* There are sums up to every length.
LEMMA SumsExist ==
  ASSUME NEW l \in Seq(Nat), NEW k \in 0..Len(l)
  PROVE  \E f : SumsTo(l, k, f)
  <1> DEFINE Bad == {i \in 0..Len(l) : ~\E f : SumsTo(l, i, f)}
  <1>1. SUFFICES ASSUME Bad # {} PROVE FALSE
    OBVIOUS
  <1>2. PICK i \in Bad : \A j \in Bad : i <= j
    <2>1. Bad \in SUBSET Nat
      OBVIOUS
    <2> HIDE DEF Bad
    <2> QED
      BY <1>1, <2>1, LeastNumber
  <1>3. i # 0
    <2>1. SumsTo(l, 0, [j \in 0..0 |-> 0])
      BY DEF SumsTo
    <2> QED
      BY <2>1
  <1>4. i \in 1..Len(l) /\ i \in Nat /\ i - 1 \in 0..Len(l) /\ i - 1 \notin Bad
    BY <1>2, <1>3
  <1>5. PICK f : SumsTo(l, i - 1, f)
    BY <1>4
  <1>6. PICK x \in Nat : x = f[i - 1] + l[i]
    <2>1. f[i - 1] \in Nat /\ l[i] \in Nat
      BY <1>4, <1>5 DEF SumsTo
    <2> QED
      BY <2>1
  <1>7. PICK g : g = [j \in 0..i |-> IF j = i THEN x ELSE f[j]]
    OBVIOUS
  <1>8. \A j \in 0..i : j = i \/ j \in 0..(i - 1)
    BY <1>4
  <1>9. g \in [0..i -> Nat] /\ g[0] = 0
    BY <1>4, <1>5, <1>7, <1>8 DEF SumsTo
  <1>10. ASSUME NEW j \in 1..i PROVE g[j] = g[j-1] + l[j]
    <2>1. j - 1 \in 0..(i - 1) /\ j \in 0..i /\ j - 1 \in 0..i /\ j - 1 # i
      BY <1>4
    <2>2. g[j-1] = f[j-1]
      BY <1>7, <2>1
    <2>3. CASE j = i
      BY <1>6, <1>7, <2>1, <2>2, <2>3
    <2>4. CASE j # i
      <3>1. j \in 1..(i - 1)
        BY <1>4, <2>4
      <3> QED
        BY <1>5, <1>7, <2>1, <2>2, <2>4, <3>1 DEF SumsTo
    <2> QED
      BY <2>3, <2>4
  <1>11. SumsTo(l, i, g)
    BY <1>9, <1>10 DEF SumsTo
  <1> QED
    BY <1>2, <1>11

\* Sums computes them.
LEMMA SumsAre ==
  ASSUME NEW l \in Seq(Nat)
  PROVE  SumsTo(l, Len(l), Sums(l)) /\ Total(l) \in Nat
  <1> DEFINE Iterate(f) == [k \in 0..Len(l) |-> IF k = 0 THEN 0 ELSE f[k-1] + l[k]]
             sum == CHOOSE f : f = Iterate(f)
  <1>1. Sums(l) = sum
    BY DEF Sums
  <1>2. Len(l) \in Nat /\ Len(l) \in 0..Len(l)
    OBVIOUS
  <1>3. PICK f : SumsTo(l, Len(l), f)
    BY <1>2, SumsExist
  <1>4. f = Iterate(f)
    <2>1. DOMAIN f = 0..Len(l) /\ f = [k \in 0..Len(l) |-> f[k]] /\ f[0] = 0
      BY <1>3 DEF SumsTo
    <2>2. \A k \in 0..Len(l) : f[k] = IF k = 0 THEN 0 ELSE f[k-1] + l[k]
      <3>1. \A k \in 0..Len(l) : k # 0 => k \in 1..Len(l)
        BY <1>2
      <3> QED
        BY <1>3, <2>1, <3>1 DEF SumsTo
    <2> QED
      BY <2>1, <2>2
  <1>5. sum = Iterate(sum)
    BY <1>4
  <1> HIDE DEF sum
  <1>6. /\ sum[0] = 0 /\ sum = [k \in 0..Len(l) |-> sum[k]]
        /\ \A k \in 1..Len(l) : sum[k] = sum[k-1] + l[k]
    <2>1. 0 \in 0..Len(l) /\ \A k \in 1..Len(l) : k \in 0..Len(l) /\ k # 0
      BY <1>2
    <2>2. sum = [k \in 0..Len(l) |-> sum[k]]
      BY <1>5
    <2> QED
      BY <1>5, <2>1, <2>2
  <1> HIDE DEF Iterate
  <1> DEFINE Bad == {k \in 0..Len(l) : sum[k] \notin Nat}
  <1>7. Bad = {}
    <2>1. SUFFICES ASSUME Bad # {} PROVE FALSE
      OBVIOUS
    <2>2. PICK k \in Bad : \A i \in Bad : k <= i
      <3>1. Bad \in SUBSET Nat
        BY <1>2
      <3> HIDE DEF Bad
      <3> QED
        BY <2>1, <3>1, LeastNumber
    <2>3. k # 0
      BY <1>2, <1>6
    <2>4. k \in 1..Len(l) /\ k - 1 \in 0..Len(l) /\ ~(k <= k - 1) /\ l[k] \in Nat
      BY <1>2, <2>3
    <2>5. sum[k-1] \in Nat
      BY <2>2, <2>4
    <2>6. sum[k] \in Nat
      BY <1>6, <2>4, <2>5
    <2> QED
      BY <2>2, <2>6
  <1>8. SumsTo(l, Len(l), sum)
    BY <1>6, <1>7 DEF SumsTo
  <1>9. sum[Len(l)] \in Nat
    BY <1>2, <1>7
  <1> QED
    BY <1>1, <1>8, <1>9 DEF Total

\* The parts lie one behind the other.
LEMMA SumsGrow ==
  ASSUME NEW l \in Seq(Nat), NEW i \in 1..Len(l)
  PROVE  Sums(l)[i-1] \in Nat /\ l[i] \in Nat /\ Sums(l)[i-1] + l[i] <= Total(l)
  <1>1. PICK f : f = Sums(l)
    OBVIOUS
  <1>2. f \in [0..Len(l) -> Nat] /\ (\A k \in 1..Len(l) : f[k] = f[k-1] + l[k])
        /\ Total(l) = f[Len(l)]
    BY <1>1, SumsAre DEF SumsTo, Total
  <1>3. Len(l) \in Nat /\ i \in Nat /\ i - 1 \in 0..Len(l) /\ i \in 0..Len(l) /\ l[i] \in Nat
    OBVIOUS
  <1> DEFINE Bad == {k \in i..Len(l) : ~(f[i] <= f[k])}
  <1>4. Bad = {}
    <2>1. SUFFICES ASSUME Bad # {} PROVE FALSE
      OBVIOUS
    <2>2. PICK k \in Bad : \A j \in Bad : k <= j
      <3>1. Bad \in SUBSET Nat
        BY <1>3
      <3> HIDE DEF Bad
      <3> QED
        BY <2>1, <3>1, LeastNumber
    <2>3. k # i /\ k \in i..Len(l) /\ ~(f[i] <= f[k])
      <3>1. PICK x \in Nat : x = f[i]
        BY <1>2, <1>3
      <3>2. f[i] <= f[i]
        BY <3>1
      <3> QED
        BY <2>2, <3>2
    <2>4. k \in 1..Len(l) /\ k - 1 \in i..Len(l) /\ ~(k <= k - 1) /\ k - 1 \in 0..Len(l)
      BY <1>3, <2>3
    <2>5. f[i] <= f[k-1]
      BY <2>2, <2>4
    <2>6. PICK x \in Nat, y \in Nat, z \in Nat : x = f[i] /\ y = f[k-1] /\ z = l[k]
      <3>1. f[i] \in Nat /\ f[k-1] \in Nat
        BY <1>2, <1>3, <2>4
      <3>2. l[k] \in Nat
        BY <2>4
      <3> QED
        BY <3>1, <3>2
    <2>7. f[k] = y + z
      BY <1>2, <2>4, <2>6
    <2> QED
      BY <2>3, <2>5, <2>6, <2>7
  <1>5. f[i] <= f[Len(l)]
    BY <1>3, <1>4
  <1> QED
    BY <1>1, <1>2, <1>3, <1>5

\* The sum of equal lengths.
LEMMA EqualSums ==
  ASSUME NEW c \in Nat, NEW l \in Seq(Nat), \A i \in 1..Len(l) : l[i] = c
  PROVE  Total(l) = Len(l) * c
  <1>1. PICK f : f = Sums(l)
    OBVIOUS
  <1>2. f \in [0..Len(l) -> Nat] /\ f[0] = 0 /\ (\A k \in 1..Len(l) : f[k] = f[k-1] + l[k])
        /\ Total(l) = f[Len(l)]
    BY <1>1, SumsAre DEF SumsTo, Total
  <1>3. Len(l) \in Nat
    OBVIOUS
  <1> DEFINE Bad == {k \in 0..Len(l) : f[k] # k * c}
  <1>4. Bad = {}
    <2>1. SUFFICES ASSUME Bad # {} PROVE FALSE
      OBVIOUS
    <2>2. PICK k \in Bad : \A j \in Bad : k <= j
      <3>1. Bad \in SUBSET Nat
        BY <1>3
      <3> HIDE DEF Bad
      <3> QED
        BY <2>1, <3>1, LeastNumber
    <2>3. k # 0 /\ k \in 0..Len(l) /\ f[k] # k * c
      <3>1. 0 * c = 0
        OBVIOUS
      <3> QED
        BY <1>2, <2>2, <3>1
    <2>4. k \in 1..Len(l) /\ k - 1 \in 0..Len(l) /\ ~(k <= k - 1) /\ k \in Nat
      BY <1>3, <2>3
    <2>5. f[k-1] = (k - 1) * c
      BY <2>2, <2>4
    <2>6. f[k] = f[k-1] + c
      BY <1>2, <2>4
    <2>7. (k - 1) * c + c = k * c
      BY <2>4
    <2> QED
      BY <2>3, <2>5, <2>6, <2>7
  <1> QED
    BY <1>2, <1>3, <1>4

-----------------------------------------------------------------------------
(* The loops over entries and actions.                                       *)

\* f[i] is b after the bytes v[1] to v[i] were put at o[1] to o[i].
Writes(b, o, v, k, f) ==
    /\ f = [i \in 0..k |-> f[i]] /\ f[0] = b
    /\ \A i \in 1..k : f[i] = Put(f[i-1], o[i], v[i])

\* The loop has a result after any number of rounds.
LEMMA WritesExist ==
  ASSUME NEW b, NEW o, NEW v, NEW k \in Nat
  PROVE  \E f : Writes(b, o, v, k, f)
  <1> DEFINE Bad == {i \in Nat : ~\E f : Writes(b, o, v, i, f)}
  <1>1. SUFFICES ASSUME Bad # {} PROVE FALSE
    OBVIOUS
  <1>2. PICK i \in Bad : \A j \in Bad : i <= j
    <2>1. Bad \in SUBSET Nat
      OBVIOUS
    <2> HIDE DEF Bad
    <2> QED
      BY <1>1, <2>1, LeastNumber
  <1>3. i # 0
    <2>1. PICK f : f = [j \in 0..0 |-> b]
      OBVIOUS
    <2>2. Writes(b, o, v, 0, f)
      BY <2>1 DEF Writes
    <2> QED
      BY <2>2
  <1>4. i \in Nat /\ i - 1 \in Nat /\ i - 1 \notin Bad
    BY <1>2, <1>3
  <1>5. PICK f : Writes(b, o, v, i - 1, f)
    BY <1>4
  <1>6. PICK x : x = Put(f[i-1], o[i], v[i])
    OBVIOUS
  <1>7. PICK g : g = [j \in 0..i |-> IF j = i THEN x ELSE f[j]]
    OBVIOUS
  <1>8. g = [j \in 0..i |-> g[j]] /\ g[0] = b
    BY <1>4, <1>5, <1>7 DEF Writes
  <1>9. ASSUME NEW j \in 1..i PROVE g[j] = Put(g[j-1], o[j], v[j])
    <2>1. j \in 0..i /\ j - 1 \in 0..i /\ j - 1 # i
      BY <1>4
    <2>2. g[j-1] = f[j-1]
      BY <1>7, <2>1
    <2>3. CASE j = i
      BY <1>6, <1>7, <2>1, <2>2, <2>3
    <2>4. CASE j # i
      <3>1. j \in 1..(i - 1)
        BY <1>4, <2>4
      <3>2. f[j] = Put(f[j-1], o[j], v[j])
        BY <1>5, <3>1 DEF Writes
      <3> QED
        BY <1>7, <2>1, <2>2, <2>4, <3>2
    <2> QED
      BY <2>3, <2>4
  <1>10. Writes(b, o, v, i, g)
    BY <1>8, <1>9 DEF Writes
  <1> QED
    BY <1>2, <1>10

\* c is a buffer of size bytes with the same bytes as b in front of offset.
Kept(b, c, size, offset) ==
    Buffer(c, size) /\ \A i \in 0..(size - 1) : i < offset => c.at[i] = b.at[i]

\* Something that is written behind offset leaves what is in front of it.
LEMMA PutKept ==
  ASSUME NEW b, NEW c, NEW size, NEW offset \in Nat, Kept(b, c, size, offset), NEW p \in Nat,
         p >= offset, NEW v, NEW k, Sized(v, k), p + k <= size
  PROVE  Kept(b, Put(c, p, v), size, offset)
  <1>1. Buffer(c, size) /\ size \in Nat /\ DOMAIN c.at = 0..(size - 1)
    BY DEF Kept, Buffer
  <1>2. Buffer(Put(c, p, v), size)
    BY <1>1, PutBuffer
  <1>3. ASSUME NEW i \in 0..(size - 1), i < offset PROVE Put(c, p, v).at[i] = b.at[i]
    <2>1. Outside(i, p, k) /\ i \in DOMAIN c.at
      BY <1>1, <1>3 DEF Outside, Sized
    <2>2. Put(c, p, v).at[i] = c.at[i]
      BY <2>1, PutElse
    <2> QED
      BY <1>3, <2>2 DEF Kept
  <1> QED
    BY <1>2, <1>3 DEF Kept

\* The entries fit where their lengths do, and leave what is in front of them.
LEMMA EntriesKept ==
  ASSUME NEW b, NEW size, Buffer(b, size), NEW m, m.items \in Seq(Nat), NEW offset \in Nat,
         offset + Total(m.items) <= size
  PROVE  Kept(b, PutEntries(b, m, offset), size, offset)
  <1>1. PICK l : l = m.items
    OBVIOUS
  <1>2. l \in Seq(Nat) /\ Len(l) \in Nat
    BY <1>1
  <1>3. PICK o : o = [k \in 1..Len(l) |-> offset + Sums(l)[k-1]]
    OBVIOUS
  <1>4. PICK v : v = [k \in 1..Len(l) |-> Entry(k, l[k])]
    OBVIOUS
  <1> DEFINE Iterate(f) == [k \in 0..Len(l) |->
                              IF k = 0 THEN b
                              ELSE Put(f[k-1], offset + Sums(l)[k-1], Entry(k, l[k]))]
             put == CHOOSE f : f = Iterate(f)
  <1>5. PutEntries(b, m, offset) = put[Len(l)]
    BY <1>1 DEF PutEntries
  <1>6. PICK f : Writes(b, o, v, Len(l), f)
    BY <1>2, WritesExist
  <1>7. \A k \in 0..Len(l) : k # 0 => k \in 1..Len(l)
    BY <1>2
  <1>8. f = Iterate(f)
    <2>1. f = [k \in 0..Len(l) |-> f[k]] /\ f[0] = b
      BY <1>6 DEF Writes
    <2>2. ASSUME NEW k \in 0..Len(l), k # 0
          PROVE  f[k] = Put(f[k-1], offset + Sums(l)[k-1], Entry(k, l[k]))
      BY <1>3, <1>4, <1>6, <1>7, <2>2 DEF Writes
    <2> HIDE DEF put
    <2> QED
      BY <2>1, <2>2
  <1>9. put = Iterate(put)
    BY <1>8
  <1> HIDE DEF put
  <1> DEFINE Bad == {k \in 0..Len(l) : ~Kept(b, put[k], size, offset)}
  <1>10. Bad = {}
    <2>1. SUFFICES ASSUME Bad # {} PROVE FALSE
      OBVIOUS
    <2>2. PICK k \in Bad : \A j \in Bad : k <= j
      <3>1. Bad \in SUBSET Nat
        BY <1>2
      <3> HIDE DEF Bad
      <3> QED
        BY <2>1, <3>1, LeastNumber
    <2>3. k \in 0..Len(l) /\ ~Kept(b, put[k], size, offset)
      BY <2>2
    <2>4. k # 0
      <3>1. put[0] = b
        BY <1>2, <1>9
      <3>2. Kept(b, b, size, offset)
        BY DEF Kept
      <3> QED
        BY <2>3, <3>1, <3>2
    <2>5. k \in 1..Len(l) /\ k - 1 \in 0..Len(l) /\ ~(k <= k - 1)
      BY <1>2, <1>7, <2>3, <2>4
    <2>6. Kept(b, put[k-1], size, offset)
      BY <2>2, <2>5
    <2>7. put[k] = Put(put[k-1], offset + Sums(l)[k-1], Entry(k, l[k]))
      BY <1>9, <2>3, <2>4
    <2>8. PICK x \in Nat, y \in Nat, z \in Nat : x = Sums(l)[k-1] /\ y = l[k] /\ z = Total(l)
      BY <1>2, <2>5, SumsGrow, SumsAre
    <2>9. x + y <= z
      BY <1>2, <2>5, <2>8, SumsGrow
    <2>10. size \in Nat /\ offset + z <= size
      BY <1>1, <2>8 DEF Buffer
    <2>11. PICK p \in Nat : p = offset + x /\ p + y <= size /\ p >= offset
      BY <2>9, <2>10
    <2>12. Sized(Entry(k, y), y)
      <3>1. PICK w : w = Entry(k, y)
        OBVIOUS
      <3>2. w = [i \in 1..y |-> w[i]]
        BY <3>1 DEF Entry
      <3> QED
        BY <2>8, <3>1, <3>2, FunctionSized
    <2>13. Kept(b, Put(put[k-1], p, Entry(k, y)), size, offset)
      BY <2>6, <2>11, <2>12, PutKept
    <2> QED
      BY <2>3, <2>7, <2>8, <2>11, <2>13
  <1> QED
    BY <1>2, <1>5, <1>10

\* In particular, the buffer stays one.
LEMMA EntriesBuffer ==
  ASSUME NEW b, NEW size, Buffer(b, size), NEW m, m.items \in Seq(Nat), NEW offset \in Nat,
         offset + Total(m.items) <= size
  PROVE  Buffer(PutEntries(b, m, offset), size)
  BY EntriesKept DEF Kept

-----------------------------------------------------------------------------
(* The lengths of values.                                                    *)

\* A value of the host.
LEMMA ValueSized ==
  ASSUME NEW name, NEW k \in Nat
  PROVE  Sized(Value(name, k), k)
  <1>1. PICK w : w = Value(name, k)
    OBVIOUS
  <1>2. w = [i \in 1..k |-> w[i]]
    BY <1>1 DEF Value
  <1> QED
    BY <1>1, <1>2, FunctionSized

\* A value that was made longer or shorter.
LEMMA ResizedSized ==
  ASSUME NEW v, NEW k \in Nat
  PROVE  Sized(Resized(v, k), k)
  <1>1. PICK w : w = Resized(v, k)
    OBVIOUS
  <1>2. w = [i \in 1..k |-> w[i]]
    BY <1>1 DEF Resized
  <1> QED
    BY <1>1, <1>2, FunctionSized

\* A value in the order of the network.
LEMMA HtonSized ==
  ASSUME NEW v, NEW k \in Nat, k # 0
  PROVE  Sized(hton(v, k), k)
  <1>1. PICK u : u = Resized(v, k)
    OBVIOUS
  <1>2. Len(u) = k
    BY <1>1, ResizedSized DEF Sized
  <1>3. PICK w : w = hton(v, k)
    OBVIOUS
  <1>4. w = [i \in 1..k |-> u[(k - i) + 1]]
    BY <1>1, <1>2, <1>3 DEF hton, Reverse
  <1>5. w = [i \in 1..k |-> w[i]]
    BY <1>4
  <1> QED
    BY <1>3, <1>5, FunctionSized

\* The value of a set-field action is never longer than its length says.
LEMMA SetFieldSized ==
  ASSUME NEW a, a.oxm \in Nat
  PROVE  \E k \in Nat : k <= a.oxm /\ Sized(SetFieldValue(a), k)
  <1>1. PICK x \in Nat : x = a.oxm
    OBVIOUS
  <1>2. PICK v : v = Value("value", x)
    OBVIOUS
  <1>3. Sized(v, x)
    BY <1>2, ValueSized
  <1>4. CASE x \in {1, 6, 16}
    <2>1. SetFieldValue(a) = v
      BY <1>1, <1>2, <1>4 DEF SetFieldValue
    <2> QED
      BY <1>1, <1>3, <2>1
  <1>5. CASE x = 2
    <2>1. SetFieldValue(a) = hton(v, 2)
      BY <1>1, <1>2, <1>5 DEF SetFieldValue
    <2> QED
      BY <1>1, <1>5, <2>1, HtonSized
  <1>6. CASE x = 4
    <2>1. SetFieldValue(a) = v \/ SetFieldValue(a) = hton(v, 4)
      BY <1>1, <1>2, <1>6 DEF SetFieldValue
    <2> QED
      BY <1>1, <1>3, <1>6, <2>1, HtonSized
  <1>7. CASE x = 8
    <2>1. SetFieldValue(a) = Resized(hton(v, 2), 8)
      BY <1>1, <1>2, <1>7 DEF SetFieldValue
    <2> QED
      BY <1>1, <1>7, <2>1, ResizedSized
  <1>8. CASE x \notin {1, 6, 16, 2, 4, 8}
    <2>1. SetFieldValue(a) = <<>>
      BY <1>1, <1>8 DEF SetFieldValue
    <2>2. Sized(<<>>, 0)
      BY DEF Sized
    <2> QED
      BY <1>1, <2>1, <2>2
  <1> QED
    BY <1>4, <1>5, <1>6, <1>7, <1>8

\* The length of an action.
LEMMA ActionLen ==
  ASSUME NEW a, a.kind \in ActionKinds, a.oxm \in Nat
  PROVE  /\ ofl_actions_ofp_len(a) \in Nat /\ ofl_actions_ofp_len(a) >= 8
         /\ a.kind = "SET_FIELD" => ofl_actions_ofp_len(a) = 8 + ROUND_UP(a.oxm, 8)
  <1>1. PICK r \in Nat : r = ROUND_UP(a.oxm, 8)
    <2>1. a.oxm \in Int /\ a.oxm > -8
      OBVIOUS
    <2> QED
      BY <2>1, RoundUp
  <1>2. sizeof.ofp_action_output = 16 /\ sizeof.ofp_action_set_field = 8
        /\ sizeof.ofp_action_header = 8
    BY DEF sizeof
  <1>3. CASE a.kind = "OUTPUT"
    BY <1>2, <1>3 DEF ofl_actions_ofp_len
  <1>4. CASE a.kind = "SET_FIELD"
    <2>1. "SET_FIELD" \notin HeaderSized /\ "SET_FIELD" # "OUTPUT"
      BY DEF HeaderSized
    <2>2. ofl_actions_ofp_len(a) = 8 + r
      BY <1>1, <1>2, <1>4, <2>1 DEF ofl_actions_ofp_len
    <2>3. 8 + r \in Nat /\ 8 + r >= 8
      OBVIOUS
    <2> QED
      BY <1>1, <2>2, <2>3
  <1>5. CASE a.kind \in HeaderSized
    <2>1. a.kind # "OUTPUT" /\ a.kind # "SET_FIELD"
      BY <1>5 DEF HeaderSized
    <2> QED
      BY <1>2, <1>5, <2>1 DEF ofl_actions_ofp_len
  <1> QED
    BY <1>3, <1>4, <1>5 DEF ActionKinds

\* An action stays within its length, and the value of a set-field action
\* within the same length behind the base.
LEMMA ActionBuffer ==
  ASSUME NEW b, NEW size, Buffer(b, size), NEW a, a.kind \in ActionKinds, a.oxm \in Nat,
         NEW ptr \in Nat, NEW k \in Nat, k = ofl_actions_ofp_len(a), ptr + k <= size, k <= size
  PROVE  Buffer(ofl_actions_pack(b, a, ptr, 0), size)
  <1>1. k >= 8 /\ size \in Nat
    BY ActionLen DEF Buffer
  <1>2. PICK c : c = Put(Put(b, ptr, Value(a.kind, 2)), ptr + 2, hton(Num(k), 2))
    OBVIOUS
  <1>3. Buffer(c, size)
    <2>1. Sized(Value(a.kind, 2), 2) /\ Sized(hton(Num(k), 2), 2)
      BY ValueSized, HtonSized
    <2>2. ptr + 2 <= size /\ ptr + 2 \in Nat /\ (ptr + 2) + 2 <= size
      BY <1>1
    <2>3. Buffer(Put(b, ptr, Value(a.kind, 2)), size)
      BY <2>1, <2>2, PutBuffer
    <2> QED
      BY <1>2, <2>1, <2>2, <2>3, PutBuffer
  <1>4. ptr + 4 \in Nat /\ (ptr + 4) + 4 <= size
    BY <1>1
  <1>5. CASE a.kind # "SET_FIELD"
    <2>1. PICK x \in Nat : x = k - 4 /\ (ptr + 4) + x <= size
      BY <1>1
    <2>2. ofl_actions_pack(b, a, ptr, 0) = Put(c, ptr + 4, Value("argument", x))
      BY <1>2, <1>5, <2>1 DEF ofl_actions_pack
    <2>3. Sized(Value("argument", x), x)
      BY ValueSized
    <2> QED
      BY <1>3, <1>4, <2>1, <2>2, <2>3, PutBuffer
  <1>6. CASE a.kind = "SET_FIELD"
    <2>1. PICK x \in Nat, r \in Nat : x = a.oxm /\ r = ROUND_UP(a.oxm, 8) /\ x <= r
      <3>1. a.oxm \in Int /\ a.oxm > -8
        OBVIOUS
      <3> QED
        BY <3>1, RoundUp
    <2>2. k = 8 + r
      BY <1>6, <2>1, ActionLen
    <2>3. PICK z : z = [i \in 1..(r - x) |-> Zero]
      OBVIOUS
    <2>4. PICK d : d = Put(c, ptr + 4, Value("field", 4))
      OBVIOUS
    <2>5. ofl_actions_pack(b, a, ptr, 0) = Put(Put(d, 8, SetFieldValue(a)), 8 + x, z)
      <3>1. sizeof.ofp_action_set_field = 8 /\ 0 + 8 = 8
        BY DEF sizeof
      <3> QED
        BY <1>2, <1>6, <2>1, <2>3, <2>4, <3>1 DEF ofl_actions_pack
    <2>6. Buffer(d, size)
      <3>1. Sized(Value("field", 4), 4)
        BY ValueSized
      <3> QED
        BY <1>3, <1>4, <2>4, <3>1, PutBuffer
    <2>7. PICK y \in Nat : y <= x /\ Sized(SetFieldValue(a), y)
      BY <2>1, SetFieldSized
    <2>8. PICK e : e = Put(d, 8, SetFieldValue(a))
      OBVIOUS
    <2>9. Buffer(e, size)
      <3>1. 8 + y <= size
        BY <1>1, <2>1, <2>2, <2>7
      <3> QED
        BY <2>6, <2>7, <2>8, <3>1, PutBuffer
    <2>10. PICK w \in Nat : w = r - x /\ 8 + x \in Nat /\ (8 + x) + w <= size
      BY <1>1, <2>1, <2>2
    <2>11. Sized(z, w)
      <3>1. z = [i \in 1..w |-> z[i]]
        BY <2>3, <2>10
      <3> QED
        BY <3>1, FunctionSized
    <2> QED
      BY <2>5, <2>8, <2>9, <2>10, <2>11, PutBuffer
  <1> QED
    BY <1>5, <1>6

\* f[i] is b after the actions acts[1] to acts[i] were put at o[1] to o[i].
Acts(b, acts, o, data, k, f) ==
    /\ f = [i \in 0..k |-> f[i]] /\ f[0] = b
    /\ \A i \in 1..k : f[i] = ofl_actions_pack(f[i-1], acts[i], o[i], data)

\* This loop has a result, too.
LEMMA ActsExist ==
  ASSUME NEW b, NEW acts, NEW o, NEW data, NEW k \in Nat
  PROVE  \E f : Acts(b, acts, o, data, k, f)
  <1> DEFINE Bad == {i \in Nat : ~\E f : Acts(b, acts, o, data, i, f)}
  <1>1. SUFFICES ASSUME Bad # {} PROVE FALSE
    OBVIOUS
  <1>2. PICK i \in Bad : \A j \in Bad : i <= j
    <2>1. Bad \in SUBSET Nat
      OBVIOUS
    <2> HIDE DEF Bad
    <2> QED
      BY <1>1, <2>1, LeastNumber
  <1>3. i # 0
    <2>1. PICK f : f = [j \in 0..0 |-> b]
      OBVIOUS
    <2>2. Acts(b, acts, o, data, 0, f)
      BY <2>1 DEF Acts
    <2> QED
      BY <2>2
  <1>4. i \in Nat /\ i - 1 \in Nat /\ i - 1 \notin Bad
    BY <1>2, <1>3
  <1>5. PICK f : Acts(b, acts, o, data, i - 1, f)
    BY <1>4
  <1>6. PICK x : x = ofl_actions_pack(f[i-1], acts[i], o[i], data)
    OBVIOUS
  <1>7. PICK g : g = [j \in 0..i |-> IF j = i THEN x ELSE f[j]]
    OBVIOUS
  <1>8. g = [j \in 0..i |-> g[j]] /\ g[0] = b
    BY <1>4, <1>5, <1>7 DEF Acts
  <1>9. ASSUME NEW j \in 1..i PROVE g[j] = ofl_actions_pack(g[j-1], acts[j], o[j], data)
    <2>1. j \in 0..i /\ j - 1 \in 0..i /\ j - 1 # i
      BY <1>4
    <2>2. g[j-1] = f[j-1]
      BY <1>7, <2>1
    <2>3. CASE j = i
      BY <1>6, <1>7, <2>1, <2>2, <2>3
    <2>4. CASE j # i
      <3>1. j \in 1..(i - 1)
        BY <1>4, <2>4
      <3>2. f[j] = ofl_actions_pack(f[j-1], acts[j], o[j], data)
        BY <1>5, <3>1 DEF Acts
      <3> QED
        BY <1>7, <2>1, <2>2, <2>4, <3>2
    <2> QED
      BY <2>3, <2>4
  <1>10. Acts(b, acts, o, data, i, g)
    BY <1>8, <1>9 DEF Acts
  <1> QED
    BY <1>2, <1>10

\* The length of all actions.
LEMMA ActionsLen ==
  ASSUME NEW acts \in Seq(Actions)
  PROVE  ofl_actions_ofp_total_len(acts) \in Nat
  <1>1. PICK l : l = ActionLens(acts)
    OBVIOUS
  <1>2. Len(acts) \in Nat /\ DOMAIN acts = 1..Len(acts)
    OBVIOUS
  <1>3. l \in [1..Len(acts) -> Nat]
    <2>1. l = [i \in 1..Len(acts) |-> ofl_actions_ofp_len(acts[i])]
      BY <1>1, <1>2 DEF ActionLens
    <2>2. \A i \in 1..Len(acts) : acts[i].kind \in ActionKinds /\ acts[i].oxm \in Nat
      BY CodecAssumption
    <2>3. \A i \in 1..Len(acts) : ofl_actions_ofp_len(acts[i]) \in Nat
      BY <2>2, ActionLen
    <2> QED
      BY <2>1, <2>3
  <1>4. l \in Seq(Nat)
    BY <1>2, <1>3
  <1> QED
    BY <1>1, <1>4, SumsAre DEF ofl_actions_ofp_total_len

\* The actions fit into the memory for their lengths behind a structure of
\* offset bytes, the values of set-field actions into the front of it.
LEMMA ActionsBuffer ==
  ASSUME NEW b, NEW size, Buffer(b, size), NEW acts \in Seq(Actions), NEW offset \in Nat,
         offset + ofl_actions_ofp_total_len(acts) <= size
  PROVE  Buffer(PutActions(b, acts, offset, 0), size)
  <1>1. PICK l : l = ActionLens(acts)
    OBVIOUS
  <1>2. Len(acts) \in Nat /\ DOMAIN acts = 1..Len(acts)
    OBVIOUS
  <1>3. \A i \in 1..Len(acts) : acts[i].kind \in ActionKinds /\ acts[i].oxm \in Nat
    BY CodecAssumption
  <1>4. l \in [1..Len(acts) -> Nat] /\ \A i \in 1..Len(acts) : l[i] = ofl_actions_ofp_len(acts[i])
    <2>1. l = [i \in 1..Len(acts) |-> ofl_actions_ofp_len(acts[i])]
      BY <1>1, <1>2 DEF ActionLens
    <2>2. \A i \in 1..Len(acts) : ofl_actions_ofp_len(acts[i]) \in Nat
      BY <1>3, ActionLen
    <2> QED
      BY <2>1, <2>2
  <1>5. l \in Seq(Nat) /\ Len(l) = Len(acts)
    BY <1>2, <1>4
  <1>6. ofl_actions_ofp_total_len(acts) = Total(l)
    BY <1>1 DEF ofl_actions_ofp_total_len
  <1>7. Total(l) \in Nat
    BY <1>5, SumsAre
  <1>8. PICK o : o = [k \in 1..Len(acts) |-> offset + Sums(l)[k-1]]
    OBVIOUS
  <1> DEFINE Iterate(f) == [k \in 0..Len(acts) |->
                              IF k = 0 THEN b
                              ELSE ofl_actions_pack(f[k-1], acts[k], offset + Sums(l)[k-1], 0)]
             put == CHOOSE f : f = Iterate(f)
  <1>9. PutActions(b, acts, offset, 0) = put[Len(acts)]
    BY <1>1 DEF PutActions
  <1>10. PICK f : Acts(b, acts, o, 0, Len(acts), f)
    BY <1>2, ActsExist
  <1>11. \A k \in 0..Len(acts) : k # 0 => k \in 1..Len(acts)
    BY <1>2
  <1>12. f = Iterate(f)
    <2>1. f = [k \in 0..Len(acts) |-> f[k]] /\ f[0] = b
      BY <1>10 DEF Acts
    <2>2. ASSUME NEW k \in 0..Len(acts), k # 0
          PROVE  f[k] = ofl_actions_pack(f[k-1], acts[k], offset + Sums(l)[k-1], 0)
      BY <1>8, <1>10, <1>11, <2>2 DEF Acts
    <2> HIDE DEF put
    <2> QED
      BY <2>1, <2>2
  <1>13. put = Iterate(put)
    BY <1>12
  <1> HIDE DEF put
  <1> DEFINE Bad == {k \in 0..Len(acts) : ~Buffer(put[k], size)}
  <1>14. Bad = {}
    <2>1. SUFFICES ASSUME Bad # {} PROVE FALSE
      OBVIOUS
    <2>2. PICK k \in Bad : \A j \in Bad : k <= j
      <3>1. Bad \in SUBSET Nat
        BY <1>2
      <3> HIDE DEF Bad
      <3> QED
        BY <2>1, <3>1, LeastNumber
    <2>3. k \in 0..Len(acts) /\ ~Buffer(put[k], size)
      BY <2>2
    <2>4. k # 0
      <3>1. put[0] = b
        BY <1>2, <1>13
      <3> QED
        BY <2>3, <3>1
    <2>5. k \in 1..Len(acts) /\ k - 1 \in 0..Len(acts) /\ ~(k <= k - 1) /\ k \in 1..Len(l)
      BY <1>2, <1>5, <1>11, <2>3, <2>4
    <2>6. Buffer(put[k-1], size)
      BY <2>2, <2>5
    <2>7. put[k] = ofl_actions_pack(put[k-1], acts[k], offset + Sums(l)[k-1], 0)
      BY <1>13, <2>3, <2>4
    <2>8. PICK x \in Nat, y \in Nat, z \in Nat : x = Sums(l)[k-1] /\ y = l[k] /\ z = Total(l)
      BY <1>5, <1>7, <2>5, SumsGrow
    <2>9. x + y <= z
      BY <1>5, <2>5, <2>8, SumsGrow
    <2>10. size \in Nat /\ offset + z <= size
      BY <1>6, <2>8 DEF Buffer
    <2>11. PICK p \in Nat : p = offset + x /\ p + y <= size /\ y <= size
      BY <2>9, <2>10
    <2>12. PICK a : a = acts[k]
      OBVIOUS
    <2>13. a.kind \in ActionKinds /\ a.oxm \in Nat /\ y = ofl_actions_ofp_len(a)
      BY <1>3, <1>4, <2>5, <2>8, <2>12
    <2>14. Buffer(ofl_actions_pack(put[k-1], a, p, 0), size)
      BY <2>6, <2>11, <2>13, ActionBuffer
    <2> QED
      BY <2>3, <2>7, <2>8, <2>11, <2>12, <2>14
  <1> QED
    BY <1>2, <1>6, <1>7, <1>9, <1>14

-----------------------------------------------------------------------------
(* The structures.                                                           *)

\* The members of every structure lie within it (cc_openflow_13.c).
LEMMA Structures ==
  /\ Within(ofp_header, 8) /\ Within(ofp_error_msg, 12) /\ Within(ofp_switch_features, 32)
  /\ Within(ofp_switch_config, 12) /\ Within(ofp_table_mod, 16) /\ Within(ofp_flow_mod, 48)
  /\ Within(ofp_group_mod, 16) /\ Within(ofp_port_mod, 40) /\ Within(ofp_meter_mod, 16)
  /\ Within(ofp_packet_out, 24) /\ Within(ofp_role_request, 24)
  /\ Within(ofp_async_config, 32) /\ Within(ofp_packet_in, 24)
  /\ Within(ofp_flow_removed, 48) /\ Within(ofp_port_status, 16)
  /\ Within(ofp_queue_get_config, 16) /\ Within(ofp_multipart, 16) /\ Within(ofp_desc, 1056)
  /\ Within(ofp_flow_stats_request, 32) /\ Within(ofp_aggregate_stats_reply, 24)
  /\ Within(ofp_port_stats_request, 8) /\ Within(ofp_queue_stats_request, 8)
  /\ Within(ofp_group_stats_request, 8) /\ Within(ofp_group_features_stats, 40)
  /\ Within(ofp_meter_multipart_request, 8) /\ Within(ofp_meter_features, 16)
  <1>1. Within(ofp_header, 8)
    BY DEF Within, ofp_header
  <1>2. Within(ofp_error_msg, 12)
    BY DEF Within, ofp_error_msg
  <1>3. Within(ofp_switch_features, 32)
    BY DEF Within, ofp_switch_features
  <1>4. Within(ofp_switch_config, 12)
    BY DEF Within, ofp_switch_config
  <1>5. Within(ofp_table_mod, 16)
    BY DEF Within, ofp_table_mod
  <1>6. Within(ofp_flow_mod, 48)
    BY DEF Within, ofp_flow_mod
  <1>7. Within(ofp_group_mod, 16)
    BY DEF Within, ofp_group_mod
  <1>8. Within(ofp_port_mod, 40)
    BY DEF Within, ofp_port_mod
  <1>9. Within(ofp_meter_mod, 16)
    BY DEF Within, ofp_meter_mod
  <1>10. Within(ofp_packet_out, 24)
    BY DEF Within, ofp_packet_out
  <1>11. Within(ofp_role_request, 24)
    BY DEF Within, ofp_role_request
  <1>12. Within(ofp_async_config, 32)
    BY DEF Within, ofp_async_config
  <1>13. Within(ofp_packet_in, 24)
    BY DEF Within, ofp_packet_in
  <1>14. Within(ofp_flow_removed, 48)
    BY DEF Within, ofp_flow_removed
  <1>15. Within(ofp_port_status, 16)
    BY DEF Within, ofp_port_status
  <1>16. Within(ofp_queue_get_config, 16)
    BY DEF Within, ofp_queue_get_config
  <1>17. Within(ofp_multipart, 16)
    BY DEF Within, ofp_multipart
  <1>18. Within(ofp_desc, 1056)
    BY DEF Within, ofp_desc
  <1>19. Within(ofp_flow_stats_request, 32)
    BY DEF Within, ofp_flow_stats_request
  <1>20. Within(ofp_aggregate_stats_reply, 24)
    BY DEF Within, ofp_aggregate_stats_reply
  <1>21. Within(ofp_port_stats_request, 8)
    BY DEF Within, ofp_port_stats_request
  <1>22. Within(ofp_queue_stats_request, 8)
    BY DEF Within, ofp_queue_stats_request
  <1>23. Within(ofp_group_stats_request, 8)
    BY DEF Within, ofp_group_stats_request
  <1>24. Within(ofp_group_features_stats, 40)
    BY DEF Within, ofp_group_features_stats
  <1>25. Within(ofp_meter_multipart_request, 8)
    BY DEF Within, ofp_meter_multipart_request
  <1>26. Within(ofp_meter_features, 16)
    BY DEF Within, ofp_meter_features
  <1> QED
    BY <1>1, <1>2, <1>3, <1>4, <1>5, <1>6, <1>7, <1>8, <1>9, <1>10,
       <1>11, <1>12, <1>13, <1>14, <1>15, <1>16, <1>17, <1>18, <1>19, <1>20,
       <1>21, <1>22, <1>23, <1>24, <1>25, <1>26

\* So do some of the members.
LEMMA WithoutWithin ==
  ASSUME NEW s, NEW k \in Nat, Within(s, k), NEW F
  PROVE  Within(Without(s, F), k)
  BY DEF Within, Without

\* The sizes of the structures.
LEMMA Sizes ==
  /\ sizeof.ofp_header = 8 /\ sizeof.ofp_match = 8 /\ sizeof.ofp_error_msg = 12
  /\ sizeof.ofp_switch_features = 32 /\ sizeof.ofp_switch_config = 12
  /\ sizeof.ofp_table_mod = 16 /\ sizeof.ofp_flow_mod = 56 /\ sizeof.ofp_group_mod = 16
  /\ sizeof.ofp_port_mod = 40 /\ sizeof.ofp_meter_mod = 16 /\ sizeof.ofp_packet_out = 24
  /\ sizeof.ofp_role_request = 24 /\ sizeof.ofp_async_config = 32
  /\ sizeof.ofp_packet_in = 32 /\ sizeof.ofp_flow_removed = 56
  /\ sizeof.ofp_port_status = 80 /\ sizeof.ofp_queue_get_config = 16
  /\ sizeof.ofp_multipart = 16 /\ sizeof.ofp_desc = 1056
  /\ sizeof.ofp_flow_stats_request = 40 /\ sizeof.ofp_aggregate_stats_reply = 24
  /\ sizeof.ofp_port_stats_request = 8 /\ sizeof.ofp_queue_stats_request = 8
  /\ sizeof.ofp_group_stats_request = 8 /\ sizeof.ofp_group_features_stats = 40
  /\ sizeof.ofp_meter_multipart_request = 8 /\ sizeof.ofp_meter_features = 16
  /\ sizeof.ofp_instruction = 8 /\ sizeof.ofp_bucket = 16 /\ sizeof.ofp_meter_band = 16
  /\ sizeof.ofp_packet_queue = 16 /\ sizeof.ofp_port = 64 /\ sizeof.ofp_flow_stats = 56
  /\ sizeof.ofp_table_stats = 24 /\ sizeof.ofp_port_stats = 112
  /\ sizeof.ofp_queue_stats = 40 /\ sizeof.ofp_group_stats = 40
  /\ sizeof.ofp_group_desc_stats = 8 /\ sizeof.ofp_table_features = 64
  /\ sizeof.ofp_meter_stats = 40 /\ sizeof.ofp_meter_config = 8
  /\ sizeof.ofp_action_header = 8 /\ sizeof.ofp_action_output = 16
  /\ sizeof.ofp_action_set_field = 8
  BY DEF sizeof

\* A match is written as a header of four bytes in its place in the structure
\* and its fields at the given place.
LEMMA MatchBuffer ==
  ASSUME NEW b, NEW size, Buffer(b, size), NEW match \in Nat, NEW n \in Nat, NEW ptr \in Nat,
         match + 4 <= size, ptr + n <= size
  PROVE  Buffer(ofl_structs_match_pack(b, match, n, ptr), size)
  <1>1. PICK u, w, c : /\ u = hton(Num(n + 4), 2) /\ w = Oxm(n)
                       /\ c = Put(b, match + 2, u)
    OBVIOUS
  <1>2. Sized(u, 2) /\ Sized(w, n)
    BY <1>1, HtonSized, ValueSized DEF Oxm
  <1>3. match + 2 \in Nat /\ (match + 2) + 2 <= size
    BY DEF Buffer
  <1>4. Buffer(c, size)
    BY <1>1, <1>2, <1>3, PutBuffer
  <1>5. Buffer(Put(c, ptr, w), size)
    BY <1>2, <1>4, PutBuffer
  <1> QED
    BY <1>1, <1>5 DEF ofl_structs_match_pack

\* Data at the end.
LEMMA DataBuffer ==
  ASSUME NEW b, NEW size, Buffer(b, size), NEW offset \in Nat, NEW n \in Nat,
         offset + n <= size
  PROVE  Buffer(Put(b, offset, Data(n)), size)
  <1>1. Sized(Data(n), n)
    BY ValueSized DEF Data
  <1> QED
    BY <1>1, PutBuffer

-----------------------------------------------------------------------------
(* Lengths in the buffer.                                                    *)

\* The length x stands at offset o, in the order of the network.
Numbered(b, o, x) ==
    o \in DOMAIN b.at /\ o + 1 \in DOMAIN b.at /\ b.at[o] = <<"hi", x>> /\ b.at[o + 1] = <<"lo", x>>

\* Two bytes in the order of the network.
LEMMA TwoBytes ==
  ASSUME NEW v, Sized(v, 2)
  PROVE  hton(v, 2)[1] = v[2] /\ hton(v, 2)[2] = v[1]
  <1>1. PICK u : u = Resized(v, 2)
    OBVIOUS
  <1>2. Len(u) = 2 /\ u[1] = v[1] /\ u[2] = v[2]
    <2>1. Len(u) = 2
      BY <1>1, ResizedSized DEF Sized
    <2> QED
      BY <1>1, <2>1 DEF Resized, Sized
  <1>3. hton(v, 2) = [i \in 1..2 |-> u[(2 - i) + 1]]
    BY <1>1, <1>2 DEF hton, Reverse
  <1> QED
    BY <1>2, <1>3

\* What htons of a length writes.
LEMMA NumberPut ==
  ASSUME NEW b, NEW size, Buffer(b, size), NEW o \in Nat, o + 2 <= size, NEW x
  PROVE  Numbered(Put(b, o, hton(Num(x), 2)), o, x)
  <1>1. PICK v : v = Num(x)
    OBVIOUS
  <1>2. v = << <<"lo", x>>, <<"hi", x>> >>
    BY <1>1 DEF Num
  <1>3. v = [i \in 1..2 |-> v[i]]
    BY <1>2
  <1>4. Sized(v, 2)
    BY <1>3, FunctionSized
  <1>5. PICK w : w = hton(v, 2)
    OBVIOUS
  <1>6. DOMAIN w = 1..2 /\ w[1] = <<"hi", x>> /\ w[2] = <<"lo", x>>
    BY <1>2, <1>4, <1>5, TwoBytes, HtonSized DEF Sized
  <1>7. o \in DOMAIN b.at /\ o + 1 \in DOMAIN b.at
    BY DEF Buffer
  <1>8. o - o + 1 = 1 /\ (o + 1) - o + 1 = 2
    OBVIOUS
  <1>9. Numbered(Put(b, o, w), o, x)
    BY <1>6, <1>7, <1>8 DEF Put, Numbered
  <1> QED
    BY <1>1, <1>5, <1>9

\* What ntohs reads.
LEMMA NumberRead ==
  ASSUME NEW b, NEW o \in Nat, NEW x, Numbered(b, o, x)
  PROVE  NumAt(b, o) = x
  <1>1. PICK v : v = Bytes(b, o, 2)
    OBVIOUS
  <1>2. v = [k \in 1..2 |-> IF o + k - 1 \in DOMAIN b.at THEN b.at[o + k - 1] ELSE Junk]
    BY <1>1 DEF Bytes
  <1>3. v = [k \in 1..2 |-> v[k]]
    BY <1>2
  <1>4. Sized(v, 2)
    BY <1>3, FunctionSized
  <1>5. o + 2 - 1 = o + 1
    OBVIOUS
  <1>6. v[2] = <<"lo", x>>
    BY <1>2, <1>5 DEF Numbered
  <1>7. PICK w : w = hton(v, 2)
    OBVIOUS
  <1>8. w[1] = <<"lo", x>>
    BY <1>4, <1>6, <1>7, TwoBytes
  <1>9. w[1][1] = "lo" /\ w[1][2] = x
    BY <1>8
  <1> QED
    BY <1>1, <1>7, <1>9 DEF NumAt

\* The length of a match stands in its header.
LEMMA MatchNumbered ==
  ASSUME NEW b, NEW size, Buffer(b, size), NEW match \in Nat, NEW n \in Nat, NEW ptr \in Nat,
         match + 4 <= ptr, ptr + n <= size
  PROVE  Numbered(ofl_structs_match_pack(b, match, n, ptr), match + 2, n + 4)
  <1>1. PICK o \in Nat, x \in Nat : o = match + 2 /\ x = n + 4
    OBVIOUS
  <1>2. PICK c, w : c = Put(b, o, hton(Num(x), 2)) /\ w = Oxm(n)
    OBVIOUS
  <1>3. o + 2 <= size /\ o + 2 <= ptr
    BY <1>1 DEF Buffer
  <1>4. Numbered(c, o, x)
    BY <1>2, <1>3, NumberPut
  <1>5. Sized(w, n)
    BY <1>2, ValueSized DEF Oxm
  <1>6. Outside(o, ptr, n) /\ Outside(o + 1, ptr, n)
    BY <1>3 DEF Outside
  <1>7. o \in DOMAIN c.at /\ o + 1 \in DOMAIN c.at
    BY <1>4 DEF Numbered
  <1>8. Put(c, ptr, w).at[o] = c.at[o] /\ Put(c, ptr, w).at[o + 1] = c.at[o + 1]
    <2>1. ASSUME NEW i \in DOMAIN c.at, Outside(i, ptr, n) PROVE Put(c, ptr, w).at[i] = c.at[i]
      BY <1>5, <2>1, PutElse
    <2> QED
      BY <1>6, <1>7, <2>1
  <1>9. DOMAIN Put(c, ptr, w).at = DOMAIN c.at
    BY DEF Put
  <1>10. Numbered(Put(c, ptr, w), o, x)
    BY <1>4, <1>8, <1>9 DEF Numbered
  <1> QED
    BY <1>1, <1>2, <1>10 DEF ofl_structs_match_pack

-----------------------------------------------------------------------------
(* The messages.                                                             *)

MessageMembers == {"type", "mp", "match", "items", "acts", "data", "val"}

\* A multipart reply has one of the types that the switch knows, and a list of
\* structures of one size has entries of that size.
GoodReply(mp, items) ==
    /\ mp \in {"DESC", "FLOW", "AGGREGATE", "TABLE", "TABLE_FEATURES", "PORT_STATS", "QUEUE",
              "GROUP", "GROUP_DESC", "GROUP_FEATURES", "METER", "METER_CONFIG",
              "METER_FEATURES", "PORT_DESC"}
    /\ mp = "TABLE" => \A i \in 1..Len(items) : items[i] = sizeof.ofp_table_stats
    /\ mp = "PORT_STATS" => \A i \in 1..Len(items) : items[i] = sizeof.ofp_port_stats
    /\ mp = "QUEUE" => \A i \in 1..Len(items) : items[i] = sizeof.ofp_queue_stats
    /\ mp = "PORT_DESC" => \A i \in 1..Len(items) : items[i] = sizeof.ofp_port

\* What packing relies on.
Parts(m) ==
    /\ DOMAIN m = MessageMembers
    /\ m.match \in Nat /\ m.data \in Nat /\ m.items \in Seq(Nat) /\ m.acts \in Seq(Actions)
GoodMsg(m) == Parts(m) /\ (m.type = "MULTIPART_REPLY" => GoodReply(m.mp, m.items))

\* The lists of entries.
LEMMA ListItems ==
  ASSUME NEW c \in Nat
  PROVE  /\ Varying(c) \subseteq Seq(Nat) /\ Constant(c) \subseteq Seq(Nat)
         /\ \A l \in Constant(c) : \A i \in 1..Len(l) : l[i] = c
  <1>1. ASSUME NEW l \in Varying(c) PROVE l \in Seq(Nat)
    <2>1. PICK k \in 0..MaxEntries : l \in [1..k -> {c, c + 8}]
      BY DEF Varying
    <2>2. k \in Nat /\ l \in [1..k -> Nat]
      BY <2>1, CodecAssumption
    <2> QED
      BY <2>2
  <1>2. ASSUME NEW l \in Constant(c) PROVE l \in Seq(Nat) /\ \A i \in 1..Len(l) : l[i] = c
    <2>1. PICK k \in 0..MaxEntries : l = [i \in 1..k |-> c]
      BY DEF Constant
    <2>2. k \in Nat /\ l \in [1..k -> Nat]
      BY <2>1, CodecAssumption
    <2>3. l \in Seq(Nat) /\ Len(l) = k
      BY <2>2
    <2> QED
      BY <2>1, <2>3
  <1> QED
    BY <1>1, <1>2

\* A message without match, entries, actions and data.
LEMMA MsgParts ==
  ASSUME NEW t
  PROVE  Parts(Msg(t)) /\ Msg(t).type = t /\ Msg(t).items = <<>>
  <1>1. <<>> \in Seq(Nat) /\ <<>> \in Seq(Actions)
    OBVIOUS
  <1> QED
    BY <1>1 DEF Msg, Parts, MessageMembers

\* The same with OXM fields,
LEMMA MatchSetParts ==
  ASSUME NEW m, Parts(m), NEW x \in Nat
  PROVE  LET r == [m EXCEPT !.match = x]
         IN  Parts(r) /\ r.type = m.type /\ r.mp = m.mp /\ r.items = m.items
  BY DEF Parts, MessageMembers

\* with data,
LEMMA DataSetParts ==
  ASSUME NEW m, Parts(m), NEW x \in Nat
  PROVE  LET r == [m EXCEPT !.data = x]
         IN  Parts(r) /\ r.type = m.type /\ r.mp = m.mp /\ r.items = m.items
  BY DEF Parts, MessageMembers

\* with entries,
LEMMA ItemsSetParts ==
  ASSUME NEW m, Parts(m), NEW x \in Seq(Nat)
  PROVE  LET r == [m EXCEPT !.items = x]
         IN  Parts(r) /\ r.type = m.type /\ r.mp = m.mp /\ r.items = x
  BY DEF Parts, MessageMembers

\* with actions,
LEMMA ActsSetParts ==
  ASSUME NEW m, Parts(m), NEW x \in Seq(Actions)
  PROVE  LET r == [m EXCEPT !.acts = x]
         IN  Parts(r) /\ r.type = m.type /\ r.mp = m.mp /\ r.items = m.items
  BY DEF Parts, MessageMembers

\* with other values,
LEMMA ValSetParts ==
  ASSUME NEW m, Parts(m), NEW x
  PROVE  LET r == [m EXCEPT !.val = x]
         IN  Parts(r) /\ r.type = m.type /\ r.mp = m.mp /\ r.items = m.items
  BY DEF Parts, MessageMembers

\* and with a multipart type.
LEMMA MpSetParts ==
  ASSUME NEW m, Parts(m), NEW x
  PROVE  LET r == [m EXCEPT !.mp = x]
         IN  Parts(r) /\ r.type = m.type /\ r.items = m.items /\ r.mp = x
  BY DEF Parts, MessageMembers

\* Every message that is packed is one of these.
LEMMA GoodMessages ==
  ASSUME NEW m \in Messages
  PROVE  GoodMsg(m)
  <1>1. MatchLens \subseteq Nat /\ DataLens \subseteq Nat
    BY CodecAssumption
  <1>2. \A r, t : Parts(r) /\ r.type = t /\ t # "MULTIPART_REPLY" => GoodMsg(r)
    BY DEF GoodMsg
  <1>3. CASE m \in Bare
    <2>1. CASE \E t \in Empty \cup {"FEATURES_REPLY", "GET_CONFIG_REPLY", "SET_CONFIG",
                                   "PORT_STATUS", "GET_ASYNC_REPLY", "SET_ASYNC", "PORT_MOD",
                                   "TABLE_MOD", "ROLE_REQUEST", "ROLE_REPLY"} : m = Msg(t)
      <3>1. PICK t : m = Msg(t) /\ t # "MULTIPART_REPLY"
        BY <2>1 DEF Empty
      <3> QED
        BY <1>2, <3>1, MsgParts
    <2>2. CASE m = [Msg("HELLO") EXCEPT !.val = [version |-> "other"]]
      <3>1. PICK r, x : r = Msg("HELLO") /\ x = [version |-> "other"]
        OBVIOUS
      <3>2. Parts(r) /\ r.type = "HELLO" /\ m = [r EXCEPT !.val = x]
        BY <2>2, <3>1, MsgParts
      <3>3. Parts(m) /\ m.type = "HELLO"
        BY <3>2, ValSetParts
      <3> QED
        BY <1>2, <3>3
    <2> QED
      BY <1>3, <2>1, <2>2 DEF Bare
  <1>4. CASE m \in WithData
    <2>1. PICK t \in {"ERROR", "ECHO_REQUEST", "ECHO_REPLY"}, d \in DataLens :
            m = [Msg(t) EXCEPT !.data = d]
      BY <1>4 DEF WithData
    <2>2. PICK r : r = Msg(t)
      OBVIOUS
    <2>3. Parts(r) /\ r.type = t /\ d \in Nat /\ t # "MULTIPART_REPLY" /\ m = [r EXCEPT !.data = d]
      BY <1>1, <2>1, <2>2, MsgParts
    <2>4. Parts(m) /\ m.type = t
      BY <2>3, DataSetParts
    <2> QED
      BY <1>2, <2>3, <2>4
  <1>5. CASE m \in PacketIns
    <2>1. PICK l \in MatchLens, d \in DataLens, v \in {Plain, [table_id |-> "0xff"]} :
            m = PacketIn(l, d, v)
      BY <1>5 DEF PacketIns
    <2>2. PICK r : r = Msg("PACKET_IN")
      OBVIOUS
    <2>3. PICK s : s = [r EXCEPT !.match = l]
      OBVIOUS
    <2>4. PICK u : u = [s EXCEPT !.data = d]
      OBVIOUS
    <2>5. m = [u EXCEPT !.val = v]
      BY <2>1, <2>2, <2>3, <2>4, Zenon DEF PacketIn
    <2>6. Parts(r) /\ r.type = "PACKET_IN" /\ l \in Nat /\ d \in Nat
      BY <1>1, <2>2, MsgParts
    <2>7. Parts(s) /\ s.type = "PACKET_IN"
      BY <2>3, <2>6, MatchSetParts
    <2>8. Parts(u) /\ u.type = "PACKET_IN"
      BY <2>4, <2>6, <2>7, DataSetParts
    <2>9. Parts(m) /\ m.type = "PACKET_IN"
      BY <2>5, <2>8, ValSetParts
    <2> QED
      BY <1>2, <2>9
  <1>6. CASE m \in FlowRemoveds
    <2>1. PICK l \in MatchLens, v \in {Plain, [table_id |-> "0xff"]} : m = FlowRemoved(l, v)
      BY <1>6 DEF FlowRemoveds
    <2>2. PICK r : r = Msg("FLOW_REMOVED")
      OBVIOUS
    <2>3. PICK s : s = [r EXCEPT !.match = l]
      OBVIOUS
    <2>4. m = [s EXCEPT !.val = v]
      BY <2>1, <2>2, <2>3, Zenon DEF FlowRemoved
    <2>5. Parts(r) /\ r.type = "FLOW_REMOVED" /\ l \in Nat
      BY <1>1, <2>2, MsgParts
    <2>6. Parts(s) /\ s.type = "FLOW_REMOVED"
      BY <2>3, <2>5, MatchSetParts
    <2>7. Parts(m) /\ m.type = "FLOW_REMOVED"
      BY <2>4, <2>6, ValSetParts
    <2> QED
      BY <1>2, <2>7
  <1>7. CASE m \in PacketOuts
    <2>1. PICK a \in UNION {[1..k -> Actions] : k \in 0..MaxEntries}, d \in DataLens,
               v \in {"buffer_id", "OFP_NO_BUFFER"} :
            m = PacketOut(a, d, v)
      BY <1>7 DEF PacketOuts
    <2>2. a \in Seq(Actions)
      <3>1. PICK k \in 0..MaxEntries : a \in [1..k -> Actions]
        OBVIOUS
      <3>2. k \in Nat
        BY CodecAssumption
      <3> QED
        BY <3>1, <3>2
    <2>3. PICK r : r = Msg("PACKET_OUT")
      OBVIOUS
    <2>4. PICK s : s = [r EXCEPT !.acts = a]
      OBVIOUS
    <2>5. PICK u : u = [s EXCEPT !.data = d]
      OBVIOUS
    <2>6. PICK x : x = [buffer_id |-> v]
      OBVIOUS
    <2>7. m = [u EXCEPT !.val = x]
      BY <2>1, <2>3, <2>4, <2>5, <2>6, Zenon DEF PacketOut
    <2>8. Parts(r) /\ r.type = "PACKET_OUT" /\ d \in Nat
      BY <1>1, <2>3, MsgParts
    <2>9. Parts(s) /\ s.type = "PACKET_OUT"
      BY <2>2, <2>4, <2>8, ActsSetParts
    <2>10. Parts(u) /\ u.type = "PACKET_OUT"
      BY <2>5, <2>8, <2>9, DataSetParts
    <2>11. Parts(m) /\ m.type = "PACKET_OUT"
      BY <2>7, <2>10, ValSetParts
    <2> QED
      BY <1>2, <2>11
  <1>8. CASE m \in FlowMods
    <2>1. PICK l \in MatchLens : m \in WithItems(FlowMod(l), Varying(sizeof.ofp_instruction))
      BY <1>8 DEF FlowMods
    <2>2. PICK s : s = FlowMod(l)
      OBVIOUS
    <2>3. PICK x : x \in Varying(sizeof.ofp_instruction) /\ m = [s EXCEPT !.items = x]
      BY <2>1, <2>2 DEF WithItems
    <2>4. x \in Seq(Nat)
      BY <2>3, Sizes, ListItems
    <2>5. PICK r : r = Msg("FLOW_MOD")
      OBVIOUS
    <2>6. Parts(r) /\ r.type = "FLOW_MOD" /\ l \in Nat
      BY <1>1, <2>1, <2>5, MsgParts
    <2>7. s = [r EXCEPT !.match = l]
      BY <2>2, <2>5, Zenon DEF FlowMod
    <2>8. Parts(s) /\ s.type = "FLOW_MOD"
      BY <2>6, <2>7, MatchSetParts
    <2>9. Parts(m) /\ m.type = "FLOW_MOD"
      BY <2>3, <2>4, <2>8, ItemsSetParts
    <2> QED
      BY <1>2, <2>9
  <1>9. CASE m \in GroupMods
    <2>1. PICK l : m \in WithItems(GroupMod(l), Varying(sizeof.ofp_bucket))
      BY <1>9 DEF GroupMods
    <2>2. PICK s : s = GroupMod(l)
      OBVIOUS
    <2>3. PICK x : x \in Varying(sizeof.ofp_bucket) /\ m = [s EXCEPT !.items = x]
      BY <2>1, <2>2 DEF WithItems
    <2>4. x \in Seq(Nat)
      BY <2>3, Sizes, ListItems
    <2>5. PICK r : r = Msg("GROUP_MOD")
      OBVIOUS
    <2>6. Parts(r) /\ r.type = "GROUP_MOD"
      BY <1>1, <2>1, <2>5, MsgParts
    <2>7. s = [r EXCEPT !.val = l]
      BY <2>2, <2>5, Zenon DEF GroupMod
    <2>8. Parts(s) /\ s.type = "GROUP_MOD"
      BY <2>6, <2>7, ValSetParts
    <2>9. Parts(m) /\ m.type = "GROUP_MOD"
      BY <2>3, <2>4, <2>8, ItemsSetParts
    <2> QED
      BY <1>2, <2>9
  <1>10. CASE m \in MeterMods
    <2>1. PICK l : m \in WithItems(MeterMod(l), Constant(sizeof.ofp_meter_band))
      BY <1>10 DEF MeterMods
    <2>2. PICK s : s = MeterMod(l)
      OBVIOUS
    <2>3. PICK x : x \in Constant(sizeof.ofp_meter_band) /\ m = [s EXCEPT !.items = x]
      BY <2>1, <2>2 DEF WithItems
    <2>4. x \in Seq(Nat)
      BY <2>3, Sizes, ListItems
    <2>5. PICK r : r = Msg("METER_MOD")
      OBVIOUS
    <2>6. Parts(r) /\ r.type = "METER_MOD"
      BY <1>1, <2>1, <2>5, MsgParts
    <2>7. s = [r EXCEPT !.val = l]
      BY <2>2, <2>5, Zenon DEF MeterMod
    <2>8. Parts(s) /\ s.type = "METER_MOD"
      BY <2>6, <2>7, ValSetParts
    <2>9. Parts(m) /\ m.type = "METER_MOD"
      BY <2>3, <2>4, <2>8, ItemsSetParts
    <2> QED
      BY <1>2, <2>9
  <1>11. CASE m \in QueueConfigs
    <2>1. CASE m \in WithVals(Msg("QUEUE_GET_CONFIG_REQUEST"), Ports("port"))
      <3>1. PICK x, r : r = Msg("QUEUE_GET_CONFIG_REQUEST") /\ m = [r EXCEPT !.val = x]
        BY <2>1 DEF WithVals
      <3>2. Parts(r) /\ r.type = "QUEUE_GET_CONFIG_REQUEST"
        BY <3>1, MsgParts
      <3>3. Parts(m) /\ m.type = "QUEUE_GET_CONFIG_REQUEST"
        BY <3>1, <3>2, ValSetParts
      <3> QED
        BY <1>2, <3>3
    <2>2. CASE m \in WithItems(Msg("QUEUE_GET_CONFIG_REPLY"), Varying(sizeof.ofp_packet_queue))
      <3>1. PICK x, r : /\ x \in Varying(sizeof.ofp_packet_queue)
                        /\ r = Msg("QUEUE_GET_CONFIG_REPLY") /\ m = [r EXCEPT !.items = x]
        BY <2>2 DEF WithItems
      <3>2. Parts(r) /\ r.type = "QUEUE_GET_CONFIG_REPLY"
        BY <3>1, MsgParts
      <3>3. x \in Seq(Nat)
        BY <3>1, Sizes, ListItems
      <3>4. Parts(m) /\ m.type = "QUEUE_GET_CONFIG_REPLY"
        BY <3>1, <3>2, <3>3, ItemsSetParts
      <3> QED
        BY <1>2, <3>4
    <2> QED
      BY <1>11, <2>1, <2>2 DEF QueueConfigs
  <1>12. CASE m \in Requests
    <2>1. \A mp : Parts(Request(mp)) /\ Request(mp).type = "MULTIPART_REQUEST"
      <3> TAKE mp
      <3>1. PICK r : r = Msg("MULTIPART_REQUEST")
        OBVIOUS
      <3>2. Parts(r) /\ r.type = "MULTIPART_REQUEST" /\ Request(mp) = [r EXCEPT !.mp = mp]
        BY <3>1, MsgParts DEF Request
      <3> QED
        BY <3>2, MpSetParts
    <2>2. CASE \E mp : m = Request(mp)
      BY <1>2, <2>1, <2>2
    <2>3. CASE \E mp : \E l \in MatchLens : m = [Request(mp) EXCEPT !.match = l]
      <3>1. PICK mp, l, r : l \in MatchLens /\ r = Request(mp) /\ m = [r EXCEPT !.match = l]
        BY <2>3
      <3>2. Parts(m) /\ m.type = "MULTIPART_REQUEST"
        BY <1>1, <2>1, <3>1, MatchSetParts
      <3> QED
        BY <1>2, <3>2
    <2>4. CASE \E mp, vals : m \in WithVals(Request(mp), vals)
      <3>1. PICK mp, x, r : r = Request(mp) /\ m = [r EXCEPT !.val = x]
        BY <2>4 DEF WithVals
      <3>2. Parts(m) /\ m.type = "MULTIPART_REQUEST"
        BY <2>1, <3>1, ValSetParts
      <3> QED
        BY <1>2, <3>2
    <2>5. CASE m \in WithItems(Request("TABLE_FEATURES"), Varying(sizeof.ofp_table_features))
      <3>1. PICK x, r : /\ x \in Varying(sizeof.ofp_table_features)
                        /\ r = Request("TABLE_FEATURES") /\ m = [r EXCEPT !.items = x]
        BY <2>5 DEF WithItems
      <3>2. x \in Seq(Nat)
        BY <3>1, Sizes, ListItems
      <3>3. Parts(m) /\ m.type = "MULTIPART_REQUEST"
        BY <2>1, <3>1, <3>2, ItemsSetParts
      <3> QED
        BY <1>2, <3>3
    <2> QED
      BY <1>12, <2>2, <2>3, <2>4, <2>5 DEF Requests
  <1>13. CASE m \in Replies
    <2>1. \A mp : /\ Parts(Reply(mp)) /\ Reply(mp).type = "MULTIPART_REPLY"
                 /\ Reply(mp).mp = mp /\ Reply(mp).items = <<>>
      <3> TAKE mp
      <3>1. PICK r : r = Msg("MULTIPART_REPLY")
        OBVIOUS
      <3>2. Parts(r) /\ r.type = "MULTIPART_REPLY" /\ r.items = <<>>
        BY <3>1, MsgParts
      <3>3. PICK w : w = Reply(mp)
        OBVIOUS
      <3>4. w = [r EXCEPT !.mp = mp]
        BY <3>1, <3>3, Zenon DEF Reply
      <3>5. Parts(w) /\ w.type = r.type /\ w.items = r.items /\ w.mp = mp
        BY <3>2, <3>4, MpSetParts
      <3> QED
        BY <3>2, <3>3, <3>5
    <2>2. CASE \E mp \in {"DESC", "AGGREGATE", "GROUP_FEATURES", "METER_FEATURES"} : m = Reply(mp)
      <3>1. PICK mp \in {"DESC", "AGGREGATE", "GROUP_FEATURES", "METER_FEATURES"} : m = Reply(mp)
        BY <2>2
      <3>2. Parts(m) /\ m.mp = mp
        BY <2>1, <3>1
      <3>3. GoodReply(mp, m.items)
        BY <3>1 DEF GoodReply
      <3> QED
        BY <3>2, <3>3 DEF GoodMsg
    <2>3. CASE \E s \in ListSizes : m \in ListReplies(s)
      <3>1. PICK s \in ListSizes : m \in ListReplies(s)
        BY <2>3
      <3>2. PICK x, r : x \in Varying(s[2]) /\ r = Reply(s[1]) /\ m = [r EXCEPT !.items = x]
        BY <3>1 DEF WithItems, ListReplies
      <3>3. /\ s[2] \in Nat
            /\ s[1] \in {"FLOW", "GROUP", "GROUP_DESC", "METER", "METER_CONFIG", "TABLE_FEATURES"}
        BY Sizes DEF ListSizes
      <3>4. x \in Seq(Nat)
        BY <3>2, <3>3, ListItems
      <3>5. Parts(m) /\ m.mp = s[1]
        BY <2>1, <3>2, <3>4, ItemsSetParts
      <3>6. GoodReply(s[1], m.items)
        BY <3>3 DEF GoodReply
      <3> QED
        BY <3>5, <3>6 DEF GoodMsg
    <2>4. CASE \E s \in FixedSizes : m \in FixedReplies(s)
      <3>1. PICK s \in FixedSizes : m \in FixedReplies(s)
        BY <2>4
      <3>2. PICK x, r : x \in Constant(s[2]) /\ r = Reply(s[1]) /\ m = [r EXCEPT !.items = x]
        BY <3>1 DEF WithItems, FixedReplies
      <3>3. s[2] \in Nat
        BY Sizes DEF FixedSizes
      <3>4. x \in Seq(Nat) /\ \A i \in 1..Len(x) : x[i] = s[2]
        BY <3>2, <3>3, ListItems
      <3>5. Parts(m) /\ m.mp = s[1] /\ m.items = x
        BY <2>1, <3>2, <3>4, ItemsSetParts
      <3>6. \/ s[1] = "TABLE" /\ s[2] = sizeof.ofp_table_stats
            \/ s[1] = "PORT_STATS" /\ s[2] = sizeof.ofp_port_stats
            \/ s[1] = "QUEUE" /\ s[2] = sizeof.ofp_queue_stats
            \/ s[1] = "PORT_DESC" /\ s[2] = sizeof.ofp_port
        BY DEF FixedSizes
      <3>7. GoodReply(s[1], x)
        BY <3>4, <3>6 DEF GoodReply
      <3> QED
        BY <3>5, <3>7 DEF GoodMsg
    <2>5. CASE \E x : m = [Reply("DESC") EXCEPT !.val = x]
      <3>1. PICK x, r : r = Reply("DESC") /\ m = [r EXCEPT !.val = x]
        BY <2>5
      <3>2. Parts(m) /\ m.mp = "DESC"
        BY <2>1, <3>1, ValSetParts
      <3>3. GoodReply("DESC", m.items)
        BY DEF GoodReply
      <3> QED
        BY <3>2, <3>3 DEF GoodMsg
    <2>6. \/ \E mp \in {"DESC", "AGGREGATE", "GROUP_FEATURES", "METER_FEATURES"} : m = Reply(mp)
          \/ \E x : m = [Reply("DESC") EXCEPT !.val = x]
          \/ \E s \in ListSizes : m \in ListReplies(s)
          \/ \E s \in FixedSizes : m \in FixedReplies(s)
      BY <1>13 DEF Replies, WithVals
    <2> QED
      BY <2>2, <2>3, <2>4, <2>5, <2>6
  <1> QED
    BY <1>3, <1>4, <1>5, <1>6, <1>7, <1>8, <1>9, <1>10, <1>11, <1>12, <1>13 DEF Messages

-----------------------------------------------------------------------------
(* Packing: each function, and what it allocates.                            *)

\* b is a buffer of at least k bytes.
Packs(b, k) == \E size \in Nat : size >= k /\ Buffer(b, size)

\* A structure in fresh memory.
LEMMA StructureBuffer ==
  ASSUME NEW size \in Nat, NEW m, NEW base \in Nat, NEW s, NEW odd, NEW k \in Nat, Within(s, k),
         base + k <= size
  PROVE  Buffer(PutAll(Alloc(size), m, base, s, odd), size)
  BY AllocBuffer, PutAllBuffer

\* The messages that are one structure.
LEMMA StructuresPack ==
  ASSUME NEW m
  PROVE  /\ Packs(ofl_msg_pack_role_request(m), 8)
         /\ Packs(ofl_msg_pack_features_reply(m), 8)
         /\ Packs(ofl_msg_pack_get_config_reply(m), 8)
         /\ Packs(ofl_msg_pack_set_config(m), 8)
         /\ Packs(ofl_msg_pack_port_mod(m), 8)
         /\ Packs(ofl_msg_pack_table_mod(m), 8)
         /\ Packs(ofl_msg_pack_async_config(m), 8)
         /\ Packs(ofl_msg_pack_queue_get_config_request(m), 8)
         /\ Packs(ofl_msg_pack_empty(m), 8)
  <1>1. Packs(ofl_msg_pack_role_request(m), 8)
    <2>1. PICK odd : ofl_msg_pack_role_request(m) = PutAll(Alloc(24), m, 0, ofp_role_request, odd)
      BY Sizes DEF ofl_msg_pack_role_request
    <2>2. Within(ofp_role_request, 24) /\ 0 + 24 <= 24
      BY Structures
    <2>3. Buffer(PutAll(Alloc(24), m, 0, ofp_role_request, odd), 24)
      BY <2>2, StructureBuffer
    <2> QED
      BY <2>1, <2>3 DEF Packs
  <1>2. Packs(ofl_msg_pack_features_reply(m), 8)
    <2>1. PICK odd : ofl_msg_pack_features_reply(m)
                       = PutAll(Alloc(32), m, 0, ofp_switch_features, odd)
      BY Sizes DEF ofl_msg_pack_features_reply
    <2>2. Within(ofp_switch_features, 32) /\ 0 + 32 <= 32
      BY Structures
    <2>3. Buffer(PutAll(Alloc(32), m, 0, ofp_switch_features, odd), 32)
      BY <2>2, StructureBuffer
    <2> QED
      BY <2>1, <2>3 DEF Packs
  <1>3. Packs(ofl_msg_pack_get_config_reply(m), 8)
    <2>1. PICK odd : ofl_msg_pack_get_config_reply(m)
                       = PutAll(Alloc(12), m, 0, ofp_switch_config, odd)
      BY Sizes DEF ofl_msg_pack_get_config_reply
    <2>2. Within(ofp_switch_config, 12) /\ 0 + 12 <= 12
      BY Structures
    <2>3. Buffer(PutAll(Alloc(12), m, 0, ofp_switch_config, odd), 12)
      BY <2>2, StructureBuffer
    <2> QED
      BY <2>1, <2>3 DEF Packs
  <1>4. Packs(ofl_msg_pack_set_config(m), 8)
    <2>1. PICK odd : ofl_msg_pack_set_config(m) = PutAll(Alloc(12), m, 0, ofp_switch_config, odd)
      BY Sizes DEF ofl_msg_pack_set_config
    <2>2. Within(ofp_switch_config, 12) /\ 0 + 12 <= 12
      BY Structures
    <2>3. Buffer(PutAll(Alloc(12), m, 0, ofp_switch_config, odd), 12)
      BY <2>2, StructureBuffer
    <2> QED
      BY <2>1, <2>3 DEF Packs
  <1>5. Packs(ofl_msg_pack_port_mod(m), 8)
    <2>1. PICK odd : ofl_msg_pack_port_mod(m) = PutAll(Alloc(40), m, 0, ofp_port_mod, odd)
      BY Sizes DEF ofl_msg_pack_port_mod
    <2>2. Within(ofp_port_mod, 40) /\ 0 + 40 <= 40
      BY Structures
    <2>3. Buffer(PutAll(Alloc(40), m, 0, ofp_port_mod, odd), 40)
      BY <2>2, StructureBuffer
    <2> QED
      BY <2>1, <2>3 DEF Packs
  <1>6. Packs(ofl_msg_pack_table_mod(m), 8)
    <2>1. PICK odd : ofl_msg_pack_table_mod(m) = PutAll(Alloc(16), m, 0, ofp_table_mod, odd)
      BY Sizes DEF ofl_msg_pack_table_mod
    <2>2. Within(ofp_table_mod, 16) /\ 0 + 16 <= 16
      BY Structures
    <2>3. Buffer(PutAll(Alloc(16), m, 0, ofp_table_mod, odd), 16)
      BY <2>2, StructureBuffer
    <2> QED
      BY <2>1, <2>3 DEF Packs
  <1>7. Packs(ofl_msg_pack_async_config(m), 8)
    <2>1. PICK odd : ofl_msg_pack_async_config(m) = PutAll(Alloc(32), m, 0, ofp_async_config, odd)
      BY Sizes DEF ofl_msg_pack_async_config
    <2>2. Within(ofp_async_config, 32) /\ 0 + 32 <= 32
      BY Structures
    <2>3. Buffer(PutAll(Alloc(32), m, 0, ofp_async_config, odd), 32)
      BY <2>2, StructureBuffer
    <2> QED
      BY <2>1, <2>3 DEF Packs
  <1>8. Packs(ofl_msg_pack_queue_get_config_request(m), 8)
    <2>1. PICK odd : ofl_msg_pack_queue_get_config_request(m)
                       = PutAll(Alloc(16), m, 0, ofp_queue_get_config, odd)
      BY Sizes DEF ofl_msg_pack_queue_get_config_request
    <2>2. Within(ofp_queue_get_config, 16) /\ 0 + 16 <= 16
      BY Structures
    <2>3. Buffer(PutAll(Alloc(16), m, 0, ofp_queue_get_config, odd), 16)
      BY <2>2, StructureBuffer
    <2> QED
      BY <2>1, <2>3 DEF Packs
  <1>9. Packs(ofl_msg_pack_empty(m), 8)
    <2>1. ofl_msg_pack_empty(m) = Alloc(8) /\ Buffer(Alloc(8), 8)
      BY Sizes, AllocBuffer DEF ofl_msg_pack_empty
    <2> QED
      BY <2>1 DEF Packs
  <1> QED
    BY <1>1, <1>2, <1>3, <1>4, <1>5, <1>6, <1>7, <1>8, <1>9

\* The multipart messages whose body is one structure.
LEMMA BodiesPack ==
  ASSUME NEW m
  PROVE  /\ Packs(ofl_msg_pack_multipart_request_port(m), 16)
         /\ Packs(ofl_msg_pack_multipart_request_queue(m), 16)
         /\ Packs(ofl_msg_pack_multipart_request_group(m), 16)
         /\ Packs(ofl_msg_pack_meter_multipart_request(m), 16)
         /\ Packs(ofl_msg_pack_multipart_reply_desc(m), 16)
         /\ Packs(ofl_msg_pack_multipart_reply_aggregate(m), 16)
         /\ Packs(ofl_msg_pack_multipart_reply_group_features(m), 16)
         /\ Packs(ofl_msg_pack_multipart_reply_meter_features(m), 16)
         /\ Packs(ofl_msg_pack_multipart_request_empty(m), 16)
  <1>1. Packs(ofl_msg_pack_multipart_request_port(m), 16)
    <2>1. PICK odd : ofl_msg_pack_multipart_request_port(m)
                       = PutAll(Alloc(24), m, 16, ofp_port_stats_request, odd)
      BY Sizes DEF ofl_msg_pack_multipart_request_port, PutBody, Body
    <2>2. Within(ofp_port_stats_request, 8) /\ 16 + 8 <= 24
      BY Structures
    <2>3. Buffer(PutAll(Alloc(24), m, 16, ofp_port_stats_request, odd), 24)
      BY <2>2, StructureBuffer
    <2> QED
      BY <2>1, <2>3 DEF Packs
  <1>2. Packs(ofl_msg_pack_multipart_request_queue(m), 16)
    <2>1. PICK odd : ofl_msg_pack_multipart_request_queue(m)
                       = PutAll(Alloc(24), m, 16, ofp_queue_stats_request, odd)
      BY Sizes DEF ofl_msg_pack_multipart_request_queue, PutBody, Body
    <2>2. Within(ofp_queue_stats_request, 8) /\ 16 + 8 <= 24
      BY Structures
    <2>3. Buffer(PutAll(Alloc(24), m, 16, ofp_queue_stats_request, odd), 24)
      BY <2>2, StructureBuffer
    <2> QED
      BY <2>1, <2>3 DEF Packs
  <1>3. Packs(ofl_msg_pack_multipart_request_group(m), 16)
    <2>1. PICK odd : ofl_msg_pack_multipart_request_group(m)
                       = PutAll(Alloc(24), m, 16, ofp_group_stats_request, odd)
      BY Sizes DEF ofl_msg_pack_multipart_request_group, PutBody, Body
    <2>2. Within(ofp_group_stats_request, 8) /\ 16 + 8 <= 24
      BY Structures
    <2>3. Buffer(PutAll(Alloc(24), m, 16, ofp_group_stats_request, odd), 24)
      BY <2>2, StructureBuffer
    <2> QED
      BY <2>1, <2>3 DEF Packs
  <1>4. Packs(ofl_msg_pack_meter_multipart_request(m), 16)
    <2>1. PICK odd : ofl_msg_pack_meter_multipart_request(m)
                       = PutAll(Alloc(24), m, 16, ofp_meter_multipart_request, odd)
      BY Sizes DEF ofl_msg_pack_meter_multipart_request, PutBody, Body
    <2>2. Within(ofp_meter_multipart_request, 8) /\ 16 + 8 <= 24
      BY Structures
    <2>3. Buffer(PutAll(Alloc(24), m, 16, ofp_meter_multipart_request, odd), 24)
      BY <2>2, StructureBuffer
    <2> QED
      BY <2>1, <2>3 DEF Packs
  <1>5. Packs(ofl_msg_pack_multipart_reply_desc(m), 16)
    <2>1. PICK odd : odd = [f \in DOMAIN ofp_desc |-> 0]
      OBVIOUS
    <2>2. PICK b : b = PutAll(Alloc(1072), m, 16, ofp_desc, odd)
      OBVIOUS
    <2>3. Within(ofp_desc, 1056) /\ 16 + 1056 <= 1072
      BY Structures
    <2>4. Buffer(b, 1072)
      BY <2>2, <2>3, StructureBuffer
    <2>5. /\ ofl_msg_pack_multipart_reply_desc(m).n = b.n
          /\ ofl_msg_pack_multipart_reply_desc(m).end = b.end
          /\ DOMAIN ofl_msg_pack_multipart_reply_desc(m).at = DOMAIN b.at
      BY <2>1, <2>2, Sizes DEF ofl_msg_pack_multipart_reply_desc, Body
    <2>6. Buffer(ofl_msg_pack_multipart_reply_desc(m), 1072)
      BY <2>4, <2>5 DEF Buffer
    <2> QED
      BY <2>6 DEF Packs
  <1>6. Packs(ofl_msg_pack_multipart_reply_aggregate(m), 16)
    <2>1. PICK odd : ofl_msg_pack_multipart_reply_aggregate(m)
                       = PutAll(Alloc(40), m, 16, ofp_aggregate_stats_reply, odd)
      BY Sizes DEF ofl_msg_pack_multipart_reply_aggregate, PutBody, Body
    <2>2. Within(ofp_aggregate_stats_reply, 24) /\ 16 + 24 <= 40
      BY Structures
    <2>3. Buffer(PutAll(Alloc(40), m, 16, ofp_aggregate_stats_reply, odd), 40)
      BY <2>2, StructureBuffer
    <2> QED
      BY <2>1, <2>3 DEF Packs
  <1>7. Packs(ofl_msg_pack_multipart_reply_group_features(m), 16)
    <2>1. PICK odd : ofl_msg_pack_multipart_reply_group_features(m)
                       = PutAll(Alloc(56), m, 16, ofp_group_features_stats, odd)
      BY Sizes DEF ofl_msg_pack_multipart_reply_group_features, PutBody, Body
    <2>2. Within(ofp_group_features_stats, 40) /\ 16 + 40 <= 56
      BY Structures
    <2>3. Buffer(PutAll(Alloc(56), m, 16, ofp_group_features_stats, odd), 56)
      BY <2>2, StructureBuffer
    <2> QED
      BY <2>1, <2>3 DEF Packs
  <1>8. Packs(ofl_msg_pack_multipart_reply_meter_features(m), 16)
    <2>1. PICK odd : ofl_msg_pack_multipart_reply_meter_features(m)
                       = PutAll(Alloc(32), m, 16, ofp_meter_features, odd)
      BY Sizes DEF ofl_msg_pack_multipart_reply_meter_features, PutBody, Body
    <2>2. Within(ofp_meter_features, 16) /\ 16 + 16 <= 32
      BY Structures
    <2>3. Buffer(PutAll(Alloc(32), m, 16, ofp_meter_features, odd), 32)
      BY <2>2, StructureBuffer
    <2> QED
      BY <2>1, <2>3 DEF Packs
  <1>9. Packs(ofl_msg_pack_multipart_request_empty(m), 16)
    <2>1. ofl_msg_pack_multipart_request_empty(m) = Alloc(16) /\ Buffer(Alloc(16), 16)
      BY Sizes, AllocBuffer DEF ofl_msg_pack_multipart_request_empty, Body
    <2> QED
      BY <2>1 DEF Packs
  <1> QED
    BY <1>1, <1>2, <1>3, <1>4, <1>5, <1>6, <1>7, <1>8, <1>9

\* A structure and a list behind it.
LEMMA ListsPack ==
  ASSUME NEW m, m.items \in Seq(Nat)
  PROVE  /\ Packs(ofl_msg_pack_group_mod(m), 8)
         /\ Packs(ofl_msg_pack_meter_mod(m), 8)
         /\ Packs(ofl_msg_pack_queue_get_config_reply(m), 8)
  <1>1. PICK t \in Nat : t = Total(m.items)
    BY SumsAre
  <1>2. Packs(ofl_msg_pack_group_mod(m), 8)
    <2>1. PICK b : b = PutAll(Alloc(16 + t), m, 0, ofp_group_mod, Plain)
      OBVIOUS
    <2>2. ofl_msg_pack_group_mod(m) = PutEntries(b, m, 16)
      BY <1>1, <2>1, Sizes DEF ofl_msg_pack_group_mod
    <2>3. Within(ofp_group_mod, 16) /\ 0 + 16 <= 16 + t /\ 16 + t \in Nat /\ 16 + t >= 8
      BY Structures
    <2>4. Buffer(b, 16 + t)
      BY <2>1, <2>3, StructureBuffer
    <2>5. Buffer(PutEntries(b, m, 16), 16 + t)
      BY <1>1, <2>4, EntriesBuffer
    <2> QED
      BY <2>2, <2>3, <2>5 DEF Packs
  <1>3. Packs(ofl_msg_pack_meter_mod(m), 8)
    <2>1. PICK b : b = PutAll(Alloc(16 + t), m, 0, ofp_meter_mod, Plain)
      OBVIOUS
    <2>2. ofl_msg_pack_meter_mod(m) = PutEntries(b, m, 16)
      BY <1>1, <2>1, Sizes DEF ofl_msg_pack_meter_mod
    <2>3. Within(ofp_meter_mod, 16) /\ 0 + 16 <= 16 + t /\ 16 + t \in Nat /\ 16 + t >= 8
      BY Structures
    <2>4. Buffer(b, 16 + t)
      BY <2>1, <2>3, StructureBuffer
    <2>5. Buffer(PutEntries(b, m, 16), 16 + t)
      BY <1>1, <2>4, EntriesBuffer
    <2> QED
      BY <2>2, <2>3, <2>5 DEF Packs
  <1>4. Packs(ofl_msg_pack_queue_get_config_reply(m), 8)
    <2>1. PICK b : b = PutAll(Alloc(16 + t), m, 0, ofp_queue_get_config, Plain)
      OBVIOUS
    <2>2. ofl_msg_pack_queue_get_config_reply(m) = PutEntries(b, m, 16)
      BY <1>1, <2>1, Sizes DEF ofl_msg_pack_queue_get_config_reply
    <2>3. Within(ofp_queue_get_config, 16) /\ 0 + 16 <= 16 + t /\ 16 + t \in Nat /\ 16 + t >= 8
      BY Structures
    <2>4. Buffer(b, 16 + t)
      BY <2>1, <2>3, StructureBuffer
    <2>5. Buffer(PutEntries(b, m, 16), 16 + t)
      BY <1>1, <2>4, EntriesBuffer
    <2> QED
      BY <2>2, <2>3, <2>5 DEF Packs
  <1> QED
    BY <1>2, <1>3, <1>4

\* A body that is a list.
LEMMA PutListPacks ==
  ASSUME NEW m, m.items \in Seq(Nat)
  PROVE  Packs(PutList(m), 16)
  <1>1. PICK t \in Nat : t = Total(m.items)
    BY SumsAre
  <1>2. 16 + t \in Nat /\ 16 + t >= 16
    OBVIOUS
  <1>3. PutList(m) = PutEntries(Alloc(16 + t), m, 16)
    BY <1>1, Sizes DEF PutList, Body
  <1>4. Buffer(PutEntries(Alloc(16 + t), m, 16), 16 + t)
    BY <1>1, <1>2, AllocBuffer, EntriesBuffer
  <1> QED
    BY <1>2, <1>3, <1>4 DEF Packs

\* A body that is a list of structures of one size.
LEMMA FixedPacks ==
  ASSUME NEW m, m.items \in Seq(Nat), NEW c \in Nat, \A i \in 1..Len(m.items) : m.items[i] = c
  PROVE  Packs(PutEntries(Fixed(m, c), m, Body), 16)
  <1>1. PICK t \in Nat : t = Total(m.items)
    BY SumsAre
  <1>2. t = Len(m.items) * c
    <2>1. PICK l : l = m.items
      OBVIOUS
    <2>2. Total(l) = Len(l) * c
      BY <2>1, EqualSums
    <2> QED
      BY <1>1, <2>1, <2>2
  <1>3. 16 + t \in Nat /\ 16 + t >= 16
    OBVIOUS
  <1>4. Body = 16 /\ Fixed(m, c) = Alloc(16 + t)
    BY <1>2, Sizes DEF Fixed, Body
  <1>5. Buffer(PutEntries(Alloc(16 + t), m, 16), 16 + t)
    BY <1>1, <1>3, AllocBuffer, EntriesBuffer
  <1> QED
    BY <1>3, <1>4, <1>5 DEF Packs

\* Error and echo: data behind the structure.
LEMMA DataPacks ==
  ASSUME NEW m, m.data \in Nat
  PROVE  Packs(ofl_msg_pack_error(m), 8) /\ Packs(ofl_msg_pack_echo(m), 8)
  <1>1. PICK d \in Nat : d = m.data
    OBVIOUS
  <1>2. Packs(ofl_msg_pack_error(m), 8)
    <2>1. PICK b : b = PutAll(Alloc(12 + d), m, 0, ofp_error_msg, Plain)
      OBVIOUS
    <2>2. ofl_msg_pack_error(m) = Put(b, 12, Data(d))
      BY <1>1, <2>1, Sizes DEF ofl_msg_pack_error
    <2>3. Within(ofp_error_msg, 12) /\ 0 + 12 <= 12 + d /\ 12 + d \in Nat /\ 12 + d >= 8
      BY Structures
    <2>4. Buffer(b, 12 + d)
      BY <2>1, <2>3, StructureBuffer
    <2>5. Buffer(Put(b, 12, Data(d)), 12 + d)
      BY <2>4, DataBuffer
    <2> QED
      BY <2>2, <2>3, <2>5 DEF Packs
  <1>3. Packs(ofl_msg_pack_echo(m), 8)
    <2>1. ofl_msg_pack_echo(m) = Put(Alloc(8 + d), 8, Data(d))
      BY <1>1, Sizes DEF ofl_msg_pack_echo
    <2>2. 8 + d \in Nat /\ 8 + d >= 8
      OBVIOUS
    <2>3. Buffer(Put(Alloc(8 + d), 8, Data(d)), 8 + d)
      BY <2>2, AllocBuffer, DataBuffer
    <2> QED
      BY <2>1, <2>2, <2>3 DEF Packs
  <1> QED
    BY <1>2, <1>3

\* Packet-in: the fields end where the rounded length does, whatever their
\* length, and the frame has two bytes of padding in front of it.
LEMMA PacketInPacks ==
  ASSUME NEW m, m.match \in Nat, m.data \in Nat
  PROVE  Packs(ofl_msg_pack_packet_in(m), 8)
  <1>1. PICK l \in Nat, d \in Nat : l = m.match /\ d = m.data
    OBVIOUS
  <1>2. PICK r \in Nat : r = ROUND_UP(l - 4, 8) /\ l - 4 <= r
    <2>1. l - 4 \in Int /\ l - 4 > -8
      OBVIOUS
    <2> QED
      BY <2>1, RoundUp
  <1>3. ROUND_UP(28 + l, 8) = 32 + r
    <2>1. l - 4 \in Int /\ l - 4 > -8 /\ 4 \in Nat
      OBVIOUS
    <2>2. ROUND_UP((l - 4) + 8 * 4, 8) = ROUND_UP(l - 4, 8) + 8 * 4
      BY <2>1, RoundUp
    <2>3. (l - 4) + 8 * 4 = 28 + l
      OBVIOUS
    <2>4. ROUND_UP(28 + l, 8) = r + 8 * 4
      BY <1>2, <2>2, <2>3
    <2> QED
      BY <2>4
  <1>4. PICK size \in Nat : size = 32 + r + d + 2
    OBVIOUS
  <1>5. PICK b : b = PutAll(Alloc(size), m, 0, ofp_packet_in, Plain)
    OBVIOUS
  <1>6. PICK c : c = ofl_structs_match_pack(b, 24, l, 28)
    OBVIOUS
  <1>7. PICK z : z = <<Zero, Zero>>
    OBVIOUS
  <1>8. PICK e : e = Put(c, 32 + r, z)
    OBVIOUS
  <1>9. PICK p \in Nat : p = 32 + r + 2
    OBVIOUS
  <1>10. ofl_msg_pack_packet_in(m) = Put(e, p, Data(d))
    <2>1. FrameAt(m) = 32 + r
      <3>1. FrameAt(m) = ROUND_UP((32 - 4) + l, 8) /\ 32 - 4 = 28
        BY <1>1, Sizes DEF FrameAt
      <3> QED
        BY <1>3, <3>1
    <2>2. PacketInLen(m) = size
      BY <1>1, <1>2, <1>4, Sizes DEF PacketInLen
    <2>3. 32 - 8 = 24 /\ 32 - 4 = 28
      OBVIOUS
    <2>4. ofl_msg_pack_packet_in(m)
            = Put(Put(ofl_structs_match_pack(PutAll(Alloc(size), m, 0, ofp_packet_in, Plain),
                                             32 - 8, l, 32 - 4), 32 + r, <<Zero, Zero>>),
                  32 + r + 2, Data(d))
      BY <1>1, <2>1, <2>2, Sizes, Zenon DEF ofl_msg_pack_packet_in
    <2> QED
      BY <1>5, <1>6, <1>7, <1>8, <1>9, <2>3, <2>4
  <1>11. /\ Within(ofp_packet_in, 24) /\ 0 + 24 <= size /\ size >= 8
         /\ 24 + 4 <= size /\ 28 + l <= size /\ 32 + r \in Nat /\ (32 + r) + 2 <= size /\ p + d <= size
    BY <1>2, <1>4, <1>9, Structures
  <1>12. Buffer(b, size)
    BY <1>5, <1>11, StructureBuffer
  <1>13. Buffer(c, size)
    BY <1>6, <1>11, <1>12, MatchBuffer
  <1>14. Buffer(e, size)
    <2>1. z = [i \in 1..2 |-> z[i]]
      BY <1>7
    <2>2. Sized(z, 2)
      BY <2>1, FunctionSized
    <2> QED
      BY <1>8, <1>11, <1>13, <2>2, PutBuffer
  <1>15. Buffer(Put(e, p, Data(d)), size)
    BY <1>9, <1>11, <1>14, DataBuffer
  <1> QED
    BY <1>10, <1>11, <1>15 DEF Packs

\* Flow-removed: the rounded length holds the fields, and their length is given.
LEMMA FlowRemovedPacks ==
  ASSUME NEW m, m.match \in Nat
  PROVE  /\ Packs(ofl_msg_pack_flow_removed(m), 8)
         /\ Numbered(ofl_msg_pack_flow_removed(m), 50, m.match + 4)
  <1>1. PICK l \in Nat : l = m.match
    OBVIOUS
  <1>2. PICK size \in Nat : size = ROUND_UP(52 + l, 8) /\ 52 + l <= size
    <2>1. 52 + l \in Int /\ 52 + l > -8
      OBVIOUS
    <2> QED
      BY <2>1, RoundUp
  <1>3. PICK s : s = Without(ofp_flow_removed, {"hard_timeout"})
    OBVIOUS
  <1>4. PICK odd : odd = [priority |-> 8]
    OBVIOUS
  <1>5. PICK b : b = PutAll(Alloc(size), m, 0, s, odd)
    OBVIOUS
  <1>6. ofl_msg_pack_flow_removed(m) = ofl_structs_match_pack(b, 48, l, 52)
    <2>1. 56 - 8 = 48 /\ 56 - 4 = 52
      OBVIOUS
    <2>2. ofl_msg_pack_flow_removed(m)
            = ofl_structs_match_pack(PutAll(Alloc(ROUND_UP((56 - 4) + l, 8)), m, 0, s, odd),
                                     56 - 8, l, 56 - 4)
      BY <1>1, <1>3, <1>4, Sizes, Zenon DEF ofl_msg_pack_flow_removed
    <2> QED
      BY <1>2, <1>5, <2>1, <2>2
  <1>7. Within(s, 48) /\ 0 + 48 <= size /\ size >= 8 /\ 48 + 4 <= size
    BY <1>2, <1>3, Structures, WithoutWithin
  <1>8. Buffer(b, size)
    BY <1>5, <1>7, StructureBuffer
  <1>9. Buffer(ofl_structs_match_pack(b, 48, l, 52), size)
    BY <1>2, <1>7, <1>8, MatchBuffer
  <1>10. Numbered(ofl_structs_match_pack(b, 48, l, 52), 48 + 2, l + 4)
    <2>1. 48 + 4 <= 52 /\ 52 + l <= size
      BY <1>2
    <2> QED
      BY <1>8, <2>1, MatchNumbered
  <1>11. 48 + 2 = 50
    OBVIOUS
  <1> QED
    BY <1>1, <1>6, <1>7, <1>9, <1>10, <1>11 DEF Packs

\* Port-status: one port behind the structure.
LEMMA PortStatusPacks ==
  ASSUME NEW m, DOMAIN m = MessageMembers
  PROVE  Buffer(ofl_msg_pack_port_status(m), 80)
  <1>1. PICK r : r = [m EXCEPT !.items = <<64>>]
    OBVIOUS
  <1>2. r.items = <<64>>
    BY <1>1 DEF MessageMembers
  <1>3. PICK l : l = r.items
    OBVIOUS
  <1>4. l \in Seq(Nat) /\ Len(l) = 1 /\ \A i \in 1..Len(l) : l[i] = 64
    BY <1>2, <1>3
  <1>5. Total(l) = 64
    <2>1. Total(l) = Len(l) * 64
      BY <1>4, EqualSums
    <2> QED
      BY <1>4, <2>1
  <1>6. PICK b : b = PutAll(Alloc(80), m, 0, ofp_port_status, Plain)
    OBVIOUS
  <1>7. ofl_msg_pack_port_status(m) = PutEntries(b, r, 16)
    BY <1>1, <1>6, Sizes, Zenon DEF ofl_msg_pack_port_status
  <1>8. Within(ofp_port_status, 16) /\ 0 + 16 <= 80 /\ 16 + 64 <= 80
    BY Structures
  <1>9. Buffer(b, 80)
    BY <1>6, <1>8, StructureBuffer
  <1>10. r.items \in Seq(Nat) /\ 16 + Total(r.items) <= 80
    BY <1>3, <1>4, <1>5
  <1>11. Buffer(PutEntries(b, r, 16), 80)
    BY <1>9, <1>10, EntriesBuffer
  <1> QED
    BY <1>7, <1>11

\* Packet-out: the actions lie behind the structure and the data behind them;
\* the value of a set-field action lands at the front and still fits.
LEMMA PacketOutPacks ==
  ASSUME NEW m, m.acts \in Seq(Actions), m.data \in Nat
  PROVE  Packs(ofl_msg_pack_packet_out(m), 8)
  <1>1. PICK acts \in Seq(Actions), d \in Nat : acts = m.acts /\ d = m.data
    OBVIOUS
  <1>2. PICK t \in Nat : t = ofl_actions_ofp_total_len(acts)
    BY ActionsLen
  <1>3. PICK size \in Nat : size = 24 + t + d
    OBVIOUS
  <1>4. PICK s : s = Without(ofp_packet_out, {"actions_len"})
    OBVIOUS
  <1>5. PICK b : b = PutAll(Alloc(size), m, 0, s, Plain)
    OBVIOUS
  <1>6. PICK v : v = hton(Num(t), 2)
    OBVIOUS
  <1>7. PICK c : c = Put(b, 16, v)
    OBVIOUS
  <1>8. PICK e : e = PutActions(c, acts, 24, 0)
    OBVIOUS
  <1>9. ofl_msg_pack_packet_out(m) = Put(e, 24 + t, Data(d))
    <2>1. ofp_packet_out.actions_len[1] = 16
      BY DEF ofp_packet_out
    <2>2. ofl_msg_pack_packet_out(m)
            = Put(PutActions(Put(PutAll(Alloc(24 + t + d), m, 0, s, Plain), 16, hton(Num(t), 2)),
                             acts, 24, 0), 24 + t, Data(d))
      BY <1>1, <1>2, <1>4, <2>1, Sizes, Zenon DEF ofl_msg_pack_packet_out
    <2> QED
      BY <1>3, <1>5, <1>6, <1>7, <1>8, <2>2
  <1>10. /\ Within(s, 24) /\ 0 + 24 <= size /\ size >= 8 /\ 16 + 2 <= size /\ 24 + t <= size
         /\ 24 + t \in Nat /\ (24 + t) + d <= size
    BY <1>3, <1>4, Structures, WithoutWithin
  <1>11. Buffer(b, size)
    BY <1>5, <1>10, StructureBuffer
  <1>12. Buffer(c, size)
    <2>1. Sized(v, 2)
      BY <1>6, HtonSized
    <2> QED
      BY <1>7, <1>10, <1>11, <2>1, PutBuffer
  <1>13. Buffer(e, size)
    BY <1>2, <1>8, <1>10, <1>12, ActionsBuffer
  <1>14. Buffer(Put(e, 24 + t, Data(d)), size)
    BY <1>10, <1>13, DataBuffer
  <1> QED
    BY <1>9, <1>10, <1>14 DEF Packs

\* Flow-mod: the match, and the instructions where its rounded length ends.
LEMMA FlowModPacks ==
  ASSUME NEW m, m.match \in Nat, m.items \in Seq(Nat)
  PROVE  /\ Packs(ofl_msg_pack_flow_mod(m), 8)
         /\ Numbered(ofl_msg_pack_flow_mod(m), 50, m.match + 4)
  <1>1. PICK l \in Nat, t \in Nat : l = m.match /\ t = Total(m.items)
    BY SumsAre
  <1>2. PICK r \in Nat : r = ROUND_UP(52 + l, 8) /\ 52 + l <= r
    <2>1. 52 + l \in Int /\ 52 + l > -8
      OBVIOUS
    <2> QED
      BY <2>1, RoundUp
  <1>3. PICK size \in Nat : size = r + t
    OBVIOUS
  <1>4. PICK b : b = PutAll(Alloc(size), m, 0, ofp_flow_mod, Plain)
    OBVIOUS
  <1>5. PICK c : c = ofl_structs_match_pack(b, 48, l, 52)
    OBVIOUS
  <1>6. ofl_msg_pack_flow_mod(m) = PutEntries(c, m, r)
    <2>1. 56 - 8 = 48 /\ 56 - 4 = 52
      OBVIOUS
    <2>2. InstructionsAt(m) = r
      BY <1>1, <1>2, <2>1, Sizes DEF InstructionsAt
    <2>3. ofl_msg_pack_flow_mod(m)
            = PutEntries(ofl_structs_match_pack(PutAll(Alloc(r + t), m, 0, ofp_flow_mod, Plain),
                                                56 - 8, l, 56 - 4), m, r)
      BY <1>1, <2>2, Sizes, Zenon DEF ofl_msg_pack_flow_mod
    <2> QED
      BY <1>3, <1>4, <1>5, <2>1, <2>3
  <1>7. /\ Within(ofp_flow_mod, 48) /\ 0 + 48 <= size /\ size >= 8 /\ 48 + 4 <= size
        /\ 52 + l <= size /\ r + t <= size
    BY <1>2, <1>3, Structures
  <1>8. Buffer(b, size)
    BY <1>4, <1>7, StructureBuffer
  <1>9. Buffer(c, size)
    BY <1>5, <1>7, <1>8, MatchBuffer
  <1>10. Kept(c, PutEntries(c, m, r), size, r)
    BY <1>1, <1>7, <1>9, EntriesKept
  <1>11. Numbered(c, 50, l + 4)
    <2>1. 48 + 4 <= 52 /\ 52 + l <= size /\ 48 + 2 = 50
      BY <1>7
    <2>2. Numbered(ofl_structs_match_pack(b, 48, l, 52), 48 + 2, l + 4)
      BY <1>8, <2>1, MatchNumbered
    <2> QED
      BY <1>5, <2>1, <2>2
  <1>12. PICK e : e = PutEntries(c, m, r)
    OBVIOUS
  <1>13. Buffer(e, size) /\ e.at[50] = c.at[50] /\ e.at[51] = c.at[51]
    <2>1. 50 \in 0..(size - 1) /\ 51 \in 0..(size - 1) /\ 50 < r /\ 51 < r
      BY <1>2, <1>7
    <2> QED
      BY <1>10, <1>12, <2>1 DEF Kept
  <1>14. Numbered(e, 50, l + 4)
    BY <1>9, <1>11, <1>13 DEF Numbered, Buffer
  <1> QED
    BY <1>1, <1>6, <1>7, <1>12, <1>13, <1>14 DEF Packs

\* A flow or aggregate request.
LEMMA FlowRequestPacks ==
  ASSUME NEW m, m.match \in Nat
  PROVE  /\ Packs(ofl_msg_pack_multipart_request_flow(m), 16)
         /\ Numbered(ofl_msg_pack_multipart_request_flow(m), 50, m.match + 4)
  <1>1. PICK l \in Nat : l = m.match
    OBVIOUS
  <1>2. PICK size \in Nat : size = 16 + 40 + l
    OBVIOUS
  <1>3. PICK b : b = PutAll(Alloc(size), m, 16, ofp_flow_stats_request, Plain)
    OBVIOUS
  <1>4. ofl_msg_pack_multipart_request_flow(m) = ofl_structs_match_pack(b, 48, l, 56)
    <2>1. 16 + 40 - 8 = 48 /\ 16 + 40 = 56
      OBVIOUS
    <2>2. ofl_msg_pack_multipart_request_flow(m)
            = ofl_structs_match_pack(PutAll(Alloc(16 + 40 + l), m, 16, ofp_flow_stats_request,
                                            Plain), 16 + 40 - 8, l, 16 + 40)
      BY <1>1, Sizes, Zenon DEF ofl_msg_pack_multipart_request_flow, Body
    <2> QED
      BY <1>2, <1>3, <2>1, <2>2
  <1>5. /\ Within(ofp_flow_stats_request, 32) /\ 16 + 32 <= size /\ size >= 16 /\ 48 + 4 <= size
        /\ 56 + l <= size
    BY <1>2, Structures
  <1>6. Buffer(b, size)
    BY <1>3, <1>5, StructureBuffer
  <1>7. Buffer(ofl_structs_match_pack(b, 48, l, 56), size)
    BY <1>5, <1>6, MatchBuffer
  <1>8. Numbered(ofl_structs_match_pack(b, 48, l, 56), 48 + 2, l + 4)
    <2>1. 48 + 4 <= 56
      OBVIOUS
    <2> QED
      BY <1>5, <1>6, <2>1, MatchNumbered
  <1>9. 48 + 2 = 50
    OBVIOUS
  <1> QED
    BY <1>1, <1>4, <1>5, <1>7, <1>8, <1>9 DEF Packs

\* The body of a multipart request.
LEMMA RequestBodyPacks ==
  ASSUME NEW m, Parts(m)
  PROVE  Packs(RequestBody(m), 16)
  <1>1. /\ Packs(ofl_msg_pack_multipart_request_flow(m), 16)
        /\ Packs(ofl_msg_pack_multipart_request_table_features(m), 16)
    BY FlowRequestPacks, PutListPacks DEF Parts, ofl_msg_pack_multipart_request_table_features
  <1>2. CASE m.mp \in {"FLOW", "AGGREGATE"}
    BY <1>2, <1>1, BodiesPack DEF RequestBody
  <1>3. CASE m.mp = "PORT_STATS"
    BY <1>3, <1>1, BodiesPack DEF RequestBody
  <1>4. CASE m.mp = "QUEUE"
    BY <1>4, <1>1, BodiesPack DEF RequestBody
  <1>5. CASE m.mp = "GROUP"
    BY <1>5, <1>1, BodiesPack DEF RequestBody
  <1>6. CASE m.mp \in {"METER", "METER_CONFIG"}
    BY <1>6, <1>1, BodiesPack DEF RequestBody
  <1>7. CASE m.mp = "TABLE_FEATURES"
    BY <1>7, <1>1, BodiesPack DEF RequestBody
  <1>8. CASE m.mp \notin {"FLOW", "AGGREGATE", "PORT_STATS", "QUEUE", "GROUP", "METER", "METER_CONFIG",
                        "TABLE_FEATURES"}
    BY <1>8, BodiesPack DEF RequestBody
  <1> QED
    BY <1>2, <1>3, <1>4, <1>5, <1>6, <1>7, <1>8

\* A multipart request.
LEMMA RequestPacks ==
  ASSUME NEW m, Parts(m)
  PROVE  Packs(ofl_msg_pack_multipart_request(m), 16)
  <1>1. Packs(RequestBody(m), 16)
    BY RequestBodyPacks
  <1>2. PICK b : b = RequestBody(m)
    OBVIOUS
  <1>3. PICK r : r = Given(m, "mp", m.mp)
    OBVIOUS
  <1>4. PICK size \in Nat : size >= 16 /\ Buffer(b, size)
    BY <1>1, <1>2 DEF Packs
  <1>5. Within(ofp_multipart, 16) /\ 0 + 16 <= size
    BY <1>4, Structures
  <1>6. Buffer(PutAll(b, r, 0, ofp_multipart, Plain), size)
    BY <1>4, <1>5, PutAllBuffer
  <1>7. ofl_msg_pack_multipart_request(m) = PutAll(b, r, 0, ofp_multipart, Plain)
    BY <1>2, <1>3, Zenon DEF ofl_msg_pack_multipart_request, PutMultipart
  <1> QED
    BY <1>4, <1>6, <1>7 DEF Packs

\* The body of a multipart reply.
LEMMA ReplyBodyPacks ==
  ASSUME NEW m, Parts(m), GoodReply(m.mp, m.items)
  PROVE  Packs(ReplyBody(m), 16)
  <1>1. PICK l : l = m.items
    OBVIOUS
  <1>2. l \in Seq(Nat) /\ Packs(PutList(m), 16)
    BY <1>1, PutListPacks DEF Parts
  <1>3. ASSUME NEW c \in Nat, \A i \in 1..Len(m.items) : m.items[i] = c
        PROVE  Packs(PutEntries(Fixed(m, c), m, Body), 16)
    BY <1>1, <1>2, <1>3, FixedPacks
  <1>4. CASE m.mp = "FLOW"
    BY <1>2, <1>4 DEF ReplyBody, ofl_msg_pack_multipart_reply_flow
  <1>5. CASE m.mp = "TABLE_FEATURES"
    BY <1>2, <1>5 DEF ReplyBody, ofl_msg_pack_multipart_reply_table_features
  <1>6. CASE m.mp = "GROUP"
    BY <1>2, <1>6 DEF ReplyBody, ofl_msg_pack_multipart_reply_group
  <1>7. CASE m.mp = "GROUP_DESC"
    BY <1>2, <1>7 DEF ReplyBody, ofl_msg_pack_multipart_reply_group_desc
  <1>8. CASE m.mp = "METER"
    BY <1>2, <1>8 DEF ReplyBody, ofl_msg_pack_multipart_reply_meter_stats
  <1>9. CASE m.mp = "METER_CONFIG"
    BY <1>2, <1>9 DEF ReplyBody, ofl_msg_pack_multipart_reply_meter_conf
  <1>10. CASE m.mp = "DESC"
    BY <1>10, BodiesPack DEF ReplyBody
  <1>11. CASE m.mp = "AGGREGATE"
    BY <1>11, BodiesPack DEF ReplyBody
  <1>12. CASE m.mp = "GROUP_FEATURES"
    BY <1>12, BodiesPack DEF ReplyBody
  <1>13. CASE m.mp = "METER_FEATURES"
    BY <1>13, BodiesPack DEF ReplyBody
  <1>14. CASE m.mp = "TABLE"
    <2>1. /\ sizeof.ofp_table_stats \in Nat
          /\ \A i \in 1..Len(m.items) : m.items[i] = sizeof.ofp_table_stats
      BY <1>14, Sizes DEF GoodReply
    <2>2. Packs(ofl_msg_pack_multipart_reply_table(m), 16)
      BY <1>3, <2>1 DEF ofl_msg_pack_multipart_reply_table
    <2> QED
      BY <1>14, <2>2 DEF ReplyBody
  <1>15. CASE m.mp = "PORT_STATS"
    <2>1. /\ sizeof.ofp_port_stats \in Nat
          /\ \A i \in 1..Len(m.items) : m.items[i] = sizeof.ofp_port_stats
      BY <1>15, Sizes DEF GoodReply
    <2>2. Packs(ofl_msg_pack_multipart_reply_port(m), 16)
      BY <1>3, <2>1 DEF ofl_msg_pack_multipart_reply_port
    <2> QED
      BY <1>15, <2>2 DEF ReplyBody
  <1>16. CASE m.mp = "QUEUE"
    <2>1. /\ sizeof.ofp_queue_stats \in Nat
          /\ \A i \in 1..Len(m.items) : m.items[i] = sizeof.ofp_queue_stats
      BY <1>16, Sizes DEF GoodReply
    <2>2. Packs(ofl_msg_pack_multipart_reply_queue(m), 16)
      BY <1>3, <2>1 DEF ofl_msg_pack_multipart_reply_queue
    <2> QED
      BY <1>16, <2>2 DEF ReplyBody
  <1>17. CASE m.mp = "PORT_DESC"
    <2>1. /\ sizeof.ofp_port \in Nat
          /\ \A i \in 1..Len(m.items) : m.items[i] = sizeof.ofp_port
      BY <1>17, Sizes DEF GoodReply
    <2>2. Packs(ofl_msg_pack_multipart_reply_port_status_desc(m), 16)
      BY <1>3, <2>1 DEF ofl_msg_pack_multipart_reply_port_status_desc
    <2> QED
      BY <1>17, <2>2 DEF ReplyBody
  <1> QED
    BY <1>4, <1>5, <1>6, <1>7, <1>8, <1>9, <1>10, <1>11, <1>12, <1>13, <1>14, <1>15, <1>16,
       <1>17 DEF GoodReply

\* A multipart reply.
LEMMA ReplyPacks ==
  ASSUME NEW m, Parts(m), GoodReply(m.mp, m.items)
  PROVE  Packs(ofl_msg_pack_multipart_reply(m), 16)
  <1>1. Packs(ReplyBody(m), 16)
    BY ReplyBodyPacks
  <1>2. PICK b : b = ReplyBody(m)
    OBVIOUS
  <1>3. PICK r : r = Given(m, "mp", m.mp)
    OBVIOUS
  <1>4. PICK size \in Nat : size >= 16 /\ Buffer(b, size)
    BY <1>1, <1>2 DEF Packs
  <1>5. Within(ofp_multipart, 16) /\ 0 + 16 <= size
    BY <1>4, Structures
  <1>6. Buffer(PutAll(b, r, 0, ofp_multipart, Plain), size)
    BY <1>4, <1>5, PutAllBuffer
  <1>7. ofl_msg_pack_multipart_reply(m) = PutAll(b, r, 0, ofp_multipart, Plain)
    BY <1>2, <1>3, Zenon DEF ofl_msg_pack_multipart_reply, PutMultipart
  <1> QED
    BY <1>4, <1>6, <1>7 DEF Packs

\* A multipart message has a second header.
IsMultipart(m) == m.type \in {"MULTIPART_REQUEST", "MULTIPART_REPLY"}
\* The length of the headers.
Least(m) == IF IsMultipart(m) THEN 16 ELSE 8

\* Every message, before its header is written.
LEMMA PackedPacks ==
  ASSUME NEW m, GoodMsg(m)
  PROVE  Packs(Packed(m), Least(m))
  <1>1. Parts(m) /\ m.match \in Nat /\ m.data \in Nat /\ m.items \in Seq(Nat) /\ m.acts \in Seq(Actions)
        /\ DOMAIN m = MessageMembers
    BY DEF GoodMsg, Parts
  <1>2. CASE m.type = "ERROR"
    <2>1. Packed(m) = ofl_msg_pack_error(m) /\ Least(m) = 8
      BY <1>2 DEF Packed, Least, IsMultipart
    <2>2. Packs(ofl_msg_pack_error(m), 8)
      BY <1>1, DataPacks
    <2> QED
      BY <2>1, <2>2
  <1>3. CASE m.type \in {"ECHO_REQUEST", "ECHO_REPLY"}
    <2>1. Packed(m) = ofl_msg_pack_echo(m) /\ Least(m) = 8
      BY <1>3 DEF Packed, Least, IsMultipart
    <2>2. Packs(ofl_msg_pack_echo(m), 8)
      BY <1>1, DataPacks
    <2> QED
      BY <2>1, <2>2
  <1>4. CASE m.type = "FEATURES_REPLY"
    <2>1. Packed(m) = ofl_msg_pack_features_reply(m) /\ Least(m) = 8
      BY <1>4 DEF Packed, Least, IsMultipart
    <2>2. Packs(ofl_msg_pack_features_reply(m), 8)
      BY <1>1, StructuresPack
    <2> QED
      BY <2>1, <2>2
  <1>5. CASE m.type = "GET_CONFIG_REPLY"
    <2>1. Packed(m) = ofl_msg_pack_get_config_reply(m) /\ Least(m) = 8
      BY <1>5 DEF Packed, Least, IsMultipart
    <2>2. Packs(ofl_msg_pack_get_config_reply(m), 8)
      BY <1>1, StructuresPack
    <2> QED
      BY <2>1, <2>2
  <1>6. CASE m.type = "SET_CONFIG"
    <2>1. Packed(m) = ofl_msg_pack_set_config(m) /\ Least(m) = 8
      BY <1>6 DEF Packed, Least, IsMultipart
    <2>2. Packs(ofl_msg_pack_set_config(m), 8)
      BY <1>1, StructuresPack
    <2> QED
      BY <2>1, <2>2
  <1>7. CASE m.type = "PACKET_IN"
    <2>1. Packed(m) = ofl_msg_pack_packet_in(m) /\ Least(m) = 8
      BY <1>7 DEF Packed, Least, IsMultipart
    <2>2. Packs(ofl_msg_pack_packet_in(m), 8)
      BY <1>1, PacketInPacks
    <2> QED
      BY <2>1, <2>2
  <1>8. CASE m.type = "FLOW_REMOVED"
    <2>1. Packed(m) = ofl_msg_pack_flow_removed(m) /\ Least(m) = 8
      BY <1>8 DEF Packed, Least, IsMultipart
    <2>2. Packs(ofl_msg_pack_flow_removed(m), 8)
      BY <1>1, FlowRemovedPacks
    <2> QED
      BY <2>1, <2>2
  <1>9. CASE m.type = "PORT_STATUS"
    <2>1. Packed(m) = ofl_msg_pack_port_status(m) /\ Least(m) = 8
      BY <1>9 DEF Packed, Least, IsMultipart
    <2>2. Packs(ofl_msg_pack_port_status(m), 8)
      BY <1>1, PortStatusPacks DEF Packs
    <2> QED
      BY <2>1, <2>2
  <1>10. CASE m.type \in {"GET_ASYNC_REPLY", "SET_ASYNC"}
    <2>1. Packed(m) = ofl_msg_pack_async_config(m) /\ Least(m) = 8
      BY <1>10 DEF Packed, Least, IsMultipart
    <2>2. Packs(ofl_msg_pack_async_config(m), 8)
      BY <1>1, StructuresPack
    <2> QED
      BY <2>1, <2>2
  <1>11. CASE m.type = "PACKET_OUT"
    <2>1. Packed(m) = ofl_msg_pack_packet_out(m) /\ Least(m) = 8
      BY <1>11 DEF Packed, Least, IsMultipart
    <2>2. Packs(ofl_msg_pack_packet_out(m), 8)
      BY <1>1, PacketOutPacks
    <2> QED
      BY <2>1, <2>2
  <1>12. CASE m.type = "FLOW_MOD"
    <2>1. Packed(m) = ofl_msg_pack_flow_mod(m) /\ Least(m) = 8
      BY <1>12 DEF Packed, Least, IsMultipart
    <2>2. Packs(ofl_msg_pack_flow_mod(m), 8)
      BY <1>1, FlowModPacks
    <2> QED
      BY <2>1, <2>2
  <1>13. CASE m.type = "GROUP_MOD"
    <2>1. Packed(m) = ofl_msg_pack_group_mod(m) /\ Least(m) = 8
      BY <1>13 DEF Packed, Least, IsMultipart
    <2>2. Packs(ofl_msg_pack_group_mod(m), 8)
      BY <1>1, ListsPack
    <2> QED
      BY <2>1, <2>2
  <1>14. CASE m.type = "PORT_MOD"
    <2>1. Packed(m) = ofl_msg_pack_port_mod(m) /\ Least(m) = 8
      BY <1>14 DEF Packed, Least, IsMultipart
    <2>2. Packs(ofl_msg_pack_port_mod(m), 8)
      BY <1>1, StructuresPack
    <2> QED
      BY <2>1, <2>2
  <1>15. CASE m.type = "TABLE_MOD"
    <2>1. Packed(m) = ofl_msg_pack_table_mod(m) /\ Least(m) = 8
      BY <1>15 DEF Packed, Least, IsMultipart
    <2>2. Packs(ofl_msg_pack_table_mod(m), 8)
      BY <1>1, StructuresPack
    <2> QED
      BY <2>1, <2>2
  <1>16. CASE m.type = "METER_MOD"
    <2>1. Packed(m) = ofl_msg_pack_meter_mod(m) /\ Least(m) = 8
      BY <1>16 DEF Packed, Least, IsMultipart
    <2>2. Packs(ofl_msg_pack_meter_mod(m), 8)
      BY <1>1, ListsPack
    <2> QED
      BY <2>1, <2>2
  <1>17. CASE m.type = "MULTIPART_REQUEST"
    <2>1. Packed(m) = ofl_msg_pack_multipart_request(m) /\ Least(m) = 16
      BY <1>17 DEF Packed, Least, IsMultipart
    <2>2. Packs(ofl_msg_pack_multipart_request(m), 16)
      BY <1>1, RequestPacks
    <2> QED
      BY <2>1, <2>2
  <1>18. CASE m.type = "MULTIPART_REPLY"
    <2>1. Packed(m) = ofl_msg_pack_multipart_reply(m) /\ Least(m) = 16
      BY <1>18 DEF Packed, Least, IsMultipart
    <2>2. Packs(ofl_msg_pack_multipart_reply(m), 16)
      BY <1>1, <1>18, ReplyPacks DEF GoodMsg
    <2> QED
      BY <2>1, <2>2
  <1>19. CASE m.type = "QUEUE_GET_CONFIG_REQUEST"
    <2>1. Packed(m) = ofl_msg_pack_queue_get_config_request(m) /\ Least(m) = 8
      BY <1>19 DEF Packed, Least, IsMultipart
    <2>2. Packs(ofl_msg_pack_queue_get_config_request(m), 8)
      BY <1>1, StructuresPack
    <2> QED
      BY <2>1, <2>2
  <1>20. CASE m.type = "QUEUE_GET_CONFIG_REPLY"
    <2>1. Packed(m) = ofl_msg_pack_queue_get_config_reply(m) /\ Least(m) = 8
      BY <1>20 DEF Packed, Least, IsMultipart
    <2>2. Packs(ofl_msg_pack_queue_get_config_reply(m), 8)
      BY <1>1, ListsPack
    <2> QED
      BY <2>1, <2>2
  <1>21. CASE m.type \in {"ROLE_REQUEST", "ROLE_REPLY"}
    <2>1. Packed(m) = ofl_msg_pack_role_request(m) /\ Least(m) = 8
      BY <1>21 DEF Packed, Least, IsMultipart
    <2>2. Packs(ofl_msg_pack_role_request(m), 8)
      BY <1>1, StructuresPack
    <2> QED
      BY <2>1, <2>2
  <1>22. CASE m.type \notin {"ERROR", "ECHO_REQUEST", "ECHO_REPLY", "FEATURES_REPLY",
                           "GET_CONFIG_REPLY", "SET_CONFIG", "PACKET_IN", "FLOW_REMOVED",
                           "PORT_STATUS", "GET_ASYNC_REPLY", "SET_ASYNC", "PACKET_OUT",
                           "FLOW_MOD", "GROUP_MOD", "PORT_MOD", "TABLE_MOD", "METER_MOD",
                           "MULTIPART_REQUEST", "MULTIPART_REPLY",
                           "QUEUE_GET_CONFIG_REQUEST", "QUEUE_GET_CONFIG_REPLY",
                           "ROLE_REQUEST", "ROLE_REPLY"}
    <2>1. Packed(m) = ofl_msg_pack_empty(m) /\ Least(m) = 8
      BY <1>22 DEF Packed, Least, IsMultipart
    <2> QED
      BY <2>1, StructuresPack
  <1> QED
    BY <1>2, <1>3, <1>4, <1>5, <1>6, <1>7, <1>8, <1>9, <1>10, <1>11, <1>12, <1>13, <1>14,
       <1>15, <1>16, <1>17, <1>18, <1>19, <1>20, <1>21, <1>22

-----------------------------------------------------------------------------
(* The bytes that say what a message is.                                     *)

\* A value in the order of the network ends with its first byte.
LEMMA NetworkOrder ==
  ASSUME NEW x, NEW k \in Nat, NEW j \in 1..k
  PROVE  Resized(hton(Value(x, k), k), k)[j] = <<x, k - j + 1>>
  <1>1. k # 0 /\ k - j + 1 \in 1..k
    OBVIOUS
  <1>2. PICK v : v = Value(x, k)
    OBVIOUS
  <1>3. PICK u : u = Resized(v, k)
    OBVIOUS
  <1>4. PICK w : w = hton(v, k)
    OBVIOUS
  <1>5. Len(v) = k /\ Len(u) = k /\ Len(w) = k
    BY <1>1, <1>2, <1>3, <1>4, ValueSized, ResizedSized, HtonSized DEF Sized
  <1>6. w[j] = u[(k - j) + 1]
    <2>1. w = [i \in 1..Len(u) |-> u[(Len(u) - i) + 1]]
      BY <1>1, <1>3, <1>4 DEF hton, Reverse
    <2> QED
      BY <1>5, <2>1
  <1>7. u[k - j + 1] = v[k - j + 1]
    BY <1>1, <1>3, <1>5 DEF Resized
  <1>8. v[k - j + 1] = <<x, k - j + 1>>
    BY <1>1, <1>2 DEF Value
  <1>9. Resized(w, k)[j] = w[j]
    BY <1>5 DEF Resized
  <1> QED
    BY <1>2, <1>4, <1>6, <1>7, <1>8, <1>9

\* Place i of buffer b is one of member f of structure s at base, and of no other.
Alone(b, base, s, i, f) ==
    /\ f \in DOMAIN s /\ i \in DOMAIN b.at /\ i \in Place(base, s, f)
    /\ \A g \in DOMAIN s : i \in Place(base, s, g) => g = f
\* What is written there.
Stored(m, base, s, odd, i, f) ==
    Resized(hton(Member(m, f, s[f][2]), Width(s, odd, f)), s[f][2])[i - base - s[f][1] + 1]

\* The byte of one member,
LEMMA PutAllAt ==
  ASSUME NEW b, NEW m, NEW base \in Nat, NEW s, NEW odd, NEW i, NEW f, Alone(b, base, s, i, f)
  PROVE  PutAll(b, m, base, s, odd).at[i] = Stored(m, base, s, odd, i, f)
  <1> DEFINE v == [h \in DOMAIN s |->
                     Resized(hton(Member(m, h, s[h][2]), Width(s, odd, h)), s[h][2])]
             Of == {h \in DOMAIN s : i \in Place(base, s, h)}
             First == CHOOSE h \in Of : TRUE
  <1>1. PutAll(b, m, base, s, odd).at[i]
          = IF Of = {} THEN b.at[i] ELSE v[First][i - base - s[First][1] + 1]
    BY DEF PutAll, Alone
  <1>2. Of = {f}
    BY DEF Alone
  <1>3. First = f
    BY <1>2
  <1>4. v[f] = Resized(hton(Member(m, f, s[f][2]), Width(s, odd, f)), s[f][2])
    BY DEF Alone
  <1> HIDE DEF v, Of, First
  <1> QED
    BY <1>1, <1>2, <1>3, <1>4 DEF Stored

\* and a byte of no member.
LEMMA PutAllElse ==
  ASSUME NEW b, NEW m, NEW base \in Nat, NEW s, NEW odd, NEW i \in DOMAIN b.at,
         \A g \in DOMAIN s : i \notin Place(base, s, g)
  PROVE  PutAll(b, m, base, s, odd).at[i] = b.at[i]
  BY DEF PutAll

\* What the header and the multipart header say of the message.
Named(b, m) ==
    /\ 1 \in DOMAIN b.at => b.at[1] = <<m.type, 1>>
    /\ IsMultipart(m) => /\ 8 \in DOMAIN b.at => b.at[8] = <<m.mp, 2>>
                         /\ 9 \in DOMAIN b.at => b.at[9] = <<m.mp, 1>>

\* A member that is given a value.
LEMMA GivenMember ==
  ASSUME NEW m, DOMAIN m = MessageMembers, NEW f, NEW x, NEW w
  PROVE  Member(Given(m, f, x), f, w) = Value(x, w)
  <1>1. PICK y : y = [g \in {f} \cup DOMAIN m.val |-> IF g = f THEN x ELSE m.val[g]]
    OBVIOUS
  <1>2. f \in DOMAIN y /\ y[f] = x
    BY <1>1
  <1>3. Given(m, f, x) = [m EXCEPT !.val = y]
    BY <1>1, Zenon DEF Given
  <1>4. [m EXCEPT !.val = y].val = y
    BY DEF MessageMembers
  <1> QED
    BY <1>2, <1>3, <1>4, Zenon DEF Member

\* The multipart header says which kind of body follows.
LEMMA MultipartNamed ==
  ASSUME NEW b, NEW size \in Nat, size >= 16, Buffer(b, size), NEW m, DOMAIN m = MessageMembers
  PROVE  PutMultipart(b, m).at[8] = <<m.mp, 2>> /\ PutMultipart(b, m).at[9] = <<m.mp, 1>>
  <1>1. PICK r : r = Given(m, "mp", m.mp)
    OBVIOUS
  <1>2. PutMultipart(b, m) = PutAll(b, r, 0, ofp_multipart, Plain)
    BY <1>1 DEF PutMultipart
  <1>3. Member(r, "mp", 2) = Value(m.mp, 2)
    BY <1>1, GivenMember
  <1>4. 8 \in DOMAIN b.at /\ 9 \in DOMAIN b.at
    BY DEF Buffer
  <1>5. PICK s : s = ofp_multipart
    OBVIOUS
  <1>6. DOMAIN s = {"mp", "flags"} /\ s["mp"] = <<8, 2>> /\ s["flags"] = <<10, 2>>
    BY <1>5 DEF ofp_multipart
  <1>7. s["mp"][1] = 8 /\ s["mp"][2] = 2 /\ s["flags"][1] = 10 /\ s["flags"][2] = 2
    BY <1>6
  <1>8. ASSUME NEW i \in {8, 9}
        PROVE  i \in Place(0, s, "mp") /\ \A g \in DOMAIN s : i \in Place(0, s, g) => g = "mp"
    BY <1>6, <1>7 DEF Place
  <1>9. Width(s, Plain, "mp") = 2
    BY <1>7 DEF Width, Plain
  <1>10. ASSUME NEW i \in {8, 9}
         PROVE  PutAll(b, r, 0, s, Plain).at[i] = Resized(hton(Value(m.mp, 2), 2), 2)[i - 0 - 8 + 1]
    <2>1. Alone(b, 0, s, i, "mp")
      BY <1>4, <1>6, <1>8 DEF Alone
    <2>2. PutAll(b, r, 0, s, Plain).at[i] = Stored(r, 0, s, Plain, i, "mp")
      BY <2>1, PutAllAt
    <2> QED
      BY <1>3, <1>7, <1>9, <2>2 DEF Stored
  <1>11. PICK v : v = Resized(hton(Value(m.mp, 2), 2), 2)
    OBVIOUS
  <1>12. v[1] = <<m.mp, 2>> /\ v[2] = <<m.mp, 1>>
    <2>1. v[1] = <<m.mp, 2 - 1 + 1>> /\ v[2] = <<m.mp, 2 - 2 + 1>>
      BY <1>11, NetworkOrder
    <2>2. 2 - 1 + 1 = 2 /\ 2 - 2 + 1 = 1
      OBVIOUS
    <2> QED
      BY <2>1, <2>2
  <1>13. 8 - 0 - 8 + 1 = 1 /\ 9 - 0 - 8 + 1 = 2
    OBVIOUS
  <1>14. PutAll(b, r, 0, s, Plain).at[8] = v[1] /\ PutAll(b, r, 0, s, Plain).at[9] = v[2]
    BY <1>10, <1>11, <1>13
  <1> QED
    BY <1>2, <1>5, <1>12, <1>14

\* Every message that is packed fits into its buffer, and says what it is.
LEMMA MessagePacks ==
  ASSUME NEW m, GoodMsg(m)
  PROVE  Packs(ofl_msg_pack(m), Least(m)) /\ Named(ofl_msg_pack(m), m)
  <1>1. PICK b : b = Packed(m)
    OBVIOUS
  <1>2. PICK size \in Nat : size >= Least(m) /\ Buffer(b, size)
    BY <1>1, PackedPacks DEF Packs
  <1>3. DOMAIN m = MessageMembers /\ size >= 8
    BY <1>2 DEF GoodMsg, Parts, Least
  <1>4. PICK s : s = Without(ofp_header, {"length"})
    OBVIOUS
  <1>5. PICK r : r = Given(m, "type", m.type)
    OBVIOUS
  <1>6. PICK c : c = PutAll(b, r, 0, s, Plain)
    OBVIOUS
  <1>7. PICK v : v = hton(Num(c.n), 2)
    OBVIOUS
  <1>8. ofl_msg_pack(m) = Put(c, 2, v)
    <2>1. ofp_header.length[1] = 2
      BY DEF ofp_header
    <2> QED
      BY <1>1, <1>4, <1>5, <1>6, <1>7, <2>1, Zenon DEF ofl_msg_pack
  <1>9. Buffer(c, size)
    <2>1. Within(s, 8) /\ 0 + 8 <= size
      BY <1>3, <1>4, Structures, WithoutWithin
    <2> QED
      BY <1>2, <1>6, <2>1, PutAllBuffer
  <1>10. Sized(v, 2)
    BY <1>7, HtonSized
  <1>11. Buffer(Put(c, 2, v), size)
    BY <1>3, <1>9, <1>10, PutBuffer
  <1>12. Packs(ofl_msg_pack(m), Least(m))
    BY <1>2, <1>8, <1>11 DEF Packs
  <1>13. DOMAIN s = {"version", "type", "xid"} /\ s["version"] = <<0, 1>> /\ s["type"] = <<1, 1>>
         /\ s["xid"] = <<4, 4>>
    BY <1>4 DEF Without, ofp_header
  <1>14. s["version"][1] = 0 /\ s["version"][2] = 1 /\ s["type"][1] = 1 /\ s["type"][2] = 1
         /\ s["xid"][1] = 4 /\ s["xid"][2] = 4
    BY <1>13
  <1>15. 1 \in DOMAIN b.at /\ 1 \in DOMAIN c.at /\ DOMAIN b.at = DOMAIN c.at
    BY <1>2, <1>3, <1>9 DEF Buffer
  <1>16. Put(c, 2, v).at[1] = <<m.type, 1>>
    <2>1. 1 \in Place(0, s, "type") /\ \A g \in DOMAIN s : 1 \in Place(0, s, g) => g = "type"
      BY <1>13, <1>14 DEF Place
    <2>2. Width(s, Plain, "type") = 1
      BY <1>14 DEF Width, Plain
    <2>3. Member(r, "type", 1) = Value(m.type, 1)
      BY <1>3, <1>5, GivenMember
    <2>4. Alone(b, 0, s, 1, "type")
      BY <1>13, <1>15, <2>1 DEF Alone
    <2>5. PutAll(b, r, 0, s, Plain).at[1] = Stored(r, 0, s, Plain, 1, "type")
      BY <2>4, PutAllAt
    <2>6. PICK u : u = Resized(hton(Value(m.type, 1), 1), 1)
      OBVIOUS
    <2>7. 1 - 0 - 1 + 1 = 1 /\ 1 - 1 + 1 = 1
      OBVIOUS
    <2>8. c.at[1] = u[1]
      BY <1>6, <1>14, <2>2, <2>3, <2>5, <2>6, <2>7 DEF Stored
    <2>9. u[1] = <<m.type, 1 - 1 + 1>>
      BY <2>6, NetworkOrder
    <2>10. Put(c, 2, v).at[1] = c.at[1]
      <3>1. Outside(1, 2, 2)
        BY DEF Outside
      <3> QED
        BY <1>10, <1>15, <3>1, PutElse
    <2> QED
      BY <2>7, <2>8, <2>9, <2>10
  <1>17. ASSUME IsMultipart(m)
         PROVE  Put(c, 2, v).at[8] = <<m.mp, 2>> /\ Put(c, 2, v).at[9] = <<m.mp, 1>>
    <2>1. PICK a : b = PutMultipart(a, m) /\ Packs(a, 16)
      <3>1. CASE m.type = "MULTIPART_REQUEST"
        <4>1. b = PutMultipart(RequestBody(m), m)
          BY <1>1, <3>1 DEF Packed, ofl_msg_pack_multipart_request
        <4> QED
          BY <4>1, RequestBodyPacks DEF GoodMsg
      <3>2. CASE m.type = "MULTIPART_REPLY"
        <4>1. b = PutMultipart(ReplyBody(m), m)
          BY <1>1, <3>2 DEF Packed, ofl_msg_pack_multipart_reply
        <4> QED
          BY <3>2, <4>1, ReplyBodyPacks DEF GoodMsg
      <3> QED
        BY <1>17, <3>1, <3>2 DEF IsMultipart
    <2>2. PICK k \in Nat : k >= 16 /\ Buffer(a, k)
      BY <2>1 DEF Packs
    <2>3. b.at[8] = <<m.mp, 2>> /\ b.at[9] = <<m.mp, 1>>
      BY <1>3, <2>1, <2>2, MultipartNamed
    <2>4. size >= 16
      BY <1>2, <1>17 DEF Least
    <2>5. 8 \in DOMAIN b.at /\ 9 \in DOMAIN b.at
      BY <1>2, <2>4 DEF Buffer
    <2>6. ASSUME NEW i \in {8, 9} PROVE Put(c, 2, v).at[i] = b.at[i]
      <3>1. \A g \in DOMAIN s : i \notin Place(0, s, g)
        BY <1>13, <1>14 DEF Place
      <3>2. c.at[i] = b.at[i]
        BY <1>6, <2>5, <3>1, PutAllElse
      <3>3. i \in DOMAIN c.at /\ Outside(i, 2, 2)
        BY <1>15, <2>5 DEF Outside
      <3>4. Put(c, 2, v).at[i] = c.at[i]
        BY <1>10, <3>3, PutElse
      <3> QED
        BY <3>2, <3>4
    <2> QED
      BY <2>3, <2>6
  <1> QED
    BY <1>8, <1>12, <1>16, <1>17 DEF Named

\* The lengths in the header and in the match.
Counted(b, m) == Numbered(b, 2, b.n) /\ (HasMatch(m) => Numbered(b, 50, m.match + 4))

\* The match of a message, before its header is written.
LEMMA MatchPacked ==
  ASSUME NEW m, GoodMsg(m), HasMatch(m)
  PROVE  Numbered(Packed(m), 50, m.match + 4)
  <1>1. Parts(m) /\ m.match \in Nat /\ m.items \in Seq(Nat) /\ DOMAIN m = MessageMembers
    BY DEF GoodMsg, Parts
  <1>2. CASE m.type = "FLOW_REMOVED"
    <2>1. Packed(m) = ofl_msg_pack_flow_removed(m)
      BY <1>2 DEF Packed
    <2> QED
      BY <1>1, <2>1, FlowRemovedPacks
  <1>3. CASE m.type = "FLOW_MOD"
    <2>1. Packed(m) = ofl_msg_pack_flow_mod(m)
      BY <1>3 DEF Packed
    <2> QED
      BY <1>1, <2>1, FlowModPacks
  <1>4. CASE m.type = "MULTIPART_REQUEST" /\ m.mp \in {"FLOW", "AGGREGATE"}
    <2>1. PICK b : b = ofl_msg_pack_multipart_request_flow(m)
      OBVIOUS
    <2>2. PICK r : r = Given(m, "mp", m.mp)
      OBVIOUS
    <2>3. PICK s : s = ofp_multipart
      OBVIOUS
    <2>4. PICK c : c = PutAll(b, r, 0, s, Plain)
      OBVIOUS
    <2>5. Packed(m) = c
      <3>1. Packed(m) = ofl_msg_pack_multipart_request(m)
        BY <1>4 DEF Packed
      <3>2. RequestBody(m) = b
        BY <1>4, <2>1 DEF RequestBody
      <3> QED
        BY <2>2, <2>3, <2>4, <3>1, <3>2, Zenon DEF ofl_msg_pack_multipart_request, PutMultipart
    <2>6. Numbered(b, 50, m.match + 4)
      BY <1>1, <2>1, FlowRequestPacks
    <2>7. DOMAIN s = {"mp", "flags"} /\ s["mp"] = <<8, 2>> /\ s["flags"] = <<10, 2>>
      BY <2>3 DEF ofp_multipart
    <2>8. s["mp"][1] = 8 /\ s["mp"][2] = 2 /\ s["flags"][1] = 10 /\ s["flags"][2] = 2
      BY <2>7
    <2>9. \A i \in {50, 51} : \A g \in DOMAIN s : i \notin Place(0, s, g)
      BY <2>7, <2>8 DEF Place
    <2>10. 50 \in DOMAIN b.at /\ 51 \in DOMAIN b.at /\ 50 + 1 = 51
      BY <2>6 DEF Numbered
    <2>11. c.at[50] = b.at[50] /\ c.at[51] = b.at[51]
      BY <2>4, <2>9, <2>10, PutAllElse
    <2>12. DOMAIN c.at = DOMAIN b.at
      BY <2>4 DEF PutAll
    <2>13. Numbered(c, 50, m.match + 4)
      BY <2>6, <2>10, <2>11, <2>12 DEF Numbered
    <2> QED
      BY <2>5, <2>13
  <1> QED
    BY <1>2, <1>3, <1>4 DEF HasMatch

\* Every message that is packed gives its length and that of its match.
LEMMA MessageCounted ==
  ASSUME NEW m, GoodMsg(m)
  PROVE  Counted(ofl_msg_pack(m), m)
  <1>1. PICK b : b = Packed(m)
    OBVIOUS
  <1>2. PICK size \in Nat : size >= Least(m) /\ Buffer(b, size)
    BY <1>1, PackedPacks DEF Packs
  <1>3. PICK s : s = Without(ofp_header, {"length"})
    OBVIOUS
  <1>4. PICK r : r = Given(m, "type", m.type)
    OBVIOUS
  <1>5. PICK c : c = PutAll(b, r, 0, s, Plain)
    OBVIOUS
  <1>6. PICK a : a = Put(c, 2, hton(Num(c.n), 2))
    OBVIOUS
  <1>7. ofl_msg_pack(m) = a
    <2>1. ofp_header.length[1] = 2
      BY DEF ofp_header
    <2> QED
      BY <1>1, <1>3, <1>4, <1>5, <1>6, <2>1, Zenon DEF ofl_msg_pack
  <1>8. size >= 8
    BY <1>2 DEF Least
  <1>9. Buffer(c, size)
    <2>1. Within(s, 8) /\ 0 + 8 <= size
      BY <1>3, <1>8, Structures, WithoutWithin
    <2> QED
      BY <1>2, <1>5, <2>1, PutAllBuffer
  <1>10. Numbered(a, 2, c.n) /\ a.n = c.n
    <2>1. 2 + 2 <= size
      BY <1>8
    <2>2. Numbered(Put(c, 2, hton(Num(c.n), 2)), 2, c.n)
      BY <1>9, <2>1, NumberPut
    <2>3. Put(c, 2, hton(Num(c.n), 2)).n = c.n
      BY DEF Put
    <2> QED
      BY <1>6, <2>2, <2>3
  <1>11. ASSUME HasMatch(m) PROVE Numbered(a, 50, m.match + 4)
    <2>1. Numbered(b, 50, m.match + 4)
      BY <1>1, <1>11, MatchPacked
    <2>2. DOMAIN s = {"version", "type", "xid"} /\ s["version"] = <<0, 1>>
          /\ s["type"] = <<1, 1>> /\ s["xid"] = <<4, 4>>
      BY <1>3 DEF Without, ofp_header
    <2>3. /\ s["version"][1] = 0 /\ s["version"][2] = 1 /\ s["type"][1] = 1 /\ s["type"][2] = 1
          /\ s["xid"][1] = 4 /\ s["xid"][2] = 4
      BY <2>2
    <2>4. \A i \in {50, 51} : \A g \in DOMAIN s : i \notin Place(0, s, g)
      BY <2>2, <2>3 DEF Place
    <2>5. 50 \in DOMAIN b.at /\ 51 \in DOMAIN b.at /\ 50 + 1 = 51
      BY <2>1 DEF Numbered
    <2>6. c.at[50] = b.at[50] /\ c.at[51] = b.at[51]
      BY <1>5, <2>4, <2>5, PutAllElse
    <2>7. DOMAIN c.at = DOMAIN b.at
      BY <1>2, <1>9 DEF Buffer
    <2>8. PICK v : v = hton(Num(c.n), 2)
      OBVIOUS
    <2>9. Sized(v, 2) /\ Outside(50, 2, 2) /\ Outside(51, 2, 2)
      BY <2>8, HtonSized DEF Outside
    <2>10. Put(c, 2, v).at[50] = c.at[50] /\ Put(c, 2, v).at[51] = c.at[51]
      BY <2>5, <2>7, <2>9, PutElse
    <2>11. DOMAIN Put(c, 2, v).at = DOMAIN c.at
      BY DEF Put
    <2> QED
      BY <1>6, <2>1, <2>5, <2>6, <2>7, <2>8, <2>10, <2>11 DEF Numbered
  <1> QED
    BY <1>7, <1>10, <1>11 DEF Counted

-----------------------------------------------------------------------------
(* Delivery, and the first theorem.                                          *)

\* What arrives of a message is a buffer, and says what the message is if it
\* is long enough to.
LEMMA DeliveredNamed ==
  ASSUME NEW m, NEW b, Packs(b, Least(m)), Named(b, m), NEW n \in Nat
  PROVE  Buffer(Delivered(b, n), n) /\ Named(Delivered(b, n), m)
  <1>1. PICK size \in Nat : size >= Least(m) /\ Buffer(b, size)
    BY DEF Packs
  <1>2. b.n = size /\ DOMAIN b.at = 0..(size - 1)
    BY <1>1 DEF Buffer
  <1>3. PICK c : c = Delivered(b, n)
    OBVIOUS
  <1>4. /\ c.n = n /\ c.end = n /\ DOMAIN c.at = 0..(n - 1)
        /\ \A i \in 0..(n - 1) : c.at[i] = IF i < b.n THEN b.at[i] ELSE Junk
    BY <1>3 DEF Delivered
  <1>5. Buffer(c, n)
    BY <1>4 DEF Buffer
  <1>6. ASSUME NEW i \in Nat, i < size, i \in DOMAIN c.at PROVE i \in DOMAIN b.at /\ c.at[i] = b.at[i]
    BY <1>2, <1>4, <1>6
  <1>7. 1 \in DOMAIN c.at => c.at[1] = <<m.type, 1>>
    <2>1. 1 < size
      BY <1>1 DEF Least
    <2> QED
      BY <1>6, <2>1 DEF Named
  <1>8. ASSUME IsMultipart(m)
        PROVE  /\ 8 \in DOMAIN c.at => c.at[8] = <<m.mp, 2>>
               /\ 9 \in DOMAIN c.at => c.at[9] = <<m.mp, 1>>
    <2>1. 8 < size /\ 9 < size
      BY <1>1, <1>8 DEF Least
    <2> QED
      BY <1>6, <1>8, <2>1 DEF Named
  <1> QED
    BY <1>3, <1>5, <1>7, <1>8 DEF Named

\* So is what arrives with another length in its header.
LEMMA AnnouncedNamed ==
  ASSUME NEW m, NEW b, Packs(b, Least(m)), Named(b, m), NEW n \in Nat, n >= 4
  PROVE  Buffer(Announced(b, n), n) /\ Named(Announced(b, n), m)
  <1>1. PICK c : c = Delivered(b, n)
    OBVIOUS
  <1>2. PICK v : v = hton(Num(n), 2)
    OBVIOUS
  <1>3. Announced(b, n) = Put(c, 2, v)
    <2>1. ofp_header.length[1] = 2
      BY DEF ofp_header
    <2> QED
      BY <1>1, <1>2, <2>1, Zenon DEF Announced
  <1>4. Buffer(c, n) /\ Named(c, m)
    BY <1>1, DeliveredNamed
  <1>5. Sized(v, 2)
    BY <1>2, HtonSized
  <1>6. PICK a : a = Put(c, 2, v)
    OBVIOUS
  <1>7. Buffer(a, n) /\ DOMAIN a.at = DOMAIN c.at
    <2>1. Buffer(a, n)
      BY <1>4, <1>5, <1>6, PutBuffer
    <2> QED
      BY <1>4, <2>1 DEF Buffer
  <1>8. Outside(1, 2, 2) /\ Outside(8, 2, 2) /\ Outside(9, 2, 2)
    BY DEF Outside
  <1>9. \A i \in {1, 8, 9} : i \in DOMAIN c.at => a.at[i] = c.at[i]
    <2> SUFFICES ASSUME NEW i, i \in DOMAIN c.at, Outside(i, 2, 2) PROVE a.at[i] = c.at[i]
      BY <1>8
    <2>1. Put(c, 2, v).at[i] = c.at[i]
      BY <1>5, PutElse
    <2> QED
      BY <1>6, <2>1
  <1>10. Named(a, m)
    BY <1>4, <1>7, <1>9 DEF Named
  <1> QED
    BY <1>3, <1>6, <1>7, <1>10

\* The buffer: nothing lies behind its end, and it says what was sent.
Wire ==
    /\ \E size \in Nat : Buffer(buf, size)
    /\ pc = "packed" => Packs(buf, Least(sent))
    /\ pc # "idle" => Named(buf, sent)
    /\ pc \in {"header", "fixed"} => len = buf.n

\* Wire holds of the state without a message,
LEMMA WireIdle ==
  ASSUME pc = "idle", buf = NoBuffer
  PROVE  Wire
  <1>1. Buffer(NoBuffer, 0)
    BY AllocBuffer DEF NoBuffer
  <1> QED
    BY <1>1 DEF Wire

\* and a message that arrives satisfies it.
LEMMA WireArrive ==
  ASSUME NEW kind, NEW b, NEW n \in Nat, Buffer(b, n), Named(b, sent), Arrive(kind, b)
  PROVE  Wire'
  <1>1. /\ buf' = b /\ sent' = sent /\ pc' = "header" /\ len' = b.n
    BY DEF Arrive
  <1> QED
    BY <1>1 DEF Wire

\* Every step keeps it.
LEMMA WireNext ==
  ASSUME Wire, [Next]_vars
  PROVE  Wire'
  <1>1. CASE Pack
    <2>1. PICK m \in Messages : sent' = m /\ buf' = ofl_msg_pack(m)
      BY <1>1 DEF Pack
    <2>2. pc' = "packed"
      BY <1>1 DEF Pack
    <2>3. GoodMsg(m)
      BY <2>1, GoodMessages
    <2>4. Packs(buf', Least(sent')) /\ Named(buf', sent')
      BY <2>1, <2>3, MessagePacks
    <2>5. \E size \in Nat : Buffer(buf', size)
      BY <2>4 DEF Packs
    <2> QED
      BY <2>2, <2>4, <2>5 DEF Wire
  <1>2. ASSUME pc = "packed"
        PROVE  Packs(buf, Least(sent)) /\ Named(buf, sent) /\ buf.n \in Nat
    <2>1. Packs(buf, Least(sent)) /\ Named(buf, sent)
      BY <1>2 DEF Wire
    <2> QED
      BY <2>1 DEF Packs, Buffer
  <1>3. CASE DeliverWhole
    <2>1. Arrive("whole", buf) /\ pc = "packed"
      BY <1>3 DEF DeliverWhole, Arrive
    <2>2. PICK n \in Nat : Buffer(buf, n)
      BY DEF Wire
    <2> QED
      BY <1>2, <2>1, <2>2, WireArrive
  <1>4. CASE DeliverPart
    <2>1. PICK n : n \in 0..(buf.n - 1) /\ Arrive("part", Delivered(buf, n))
      BY <1>4 DEF DeliverPart
    <2>2. pc = "packed" /\ n \in Nat
      BY <2>1 DEF Arrive
    <2>3. Buffer(Delivered(buf, n), n) /\ Named(Delivered(buf, n), sent)
      BY <1>2, <2>2, DeliveredNamed
    <2> QED
      BY <2>1, <2>2, <2>3, WireArrive
  <1>5. CASE DeliverShort
    <2>1. PICK n : n \in 9..(BareLength(sent) - 1) /\ Arrive("short", Announced(buf, n))
      BY <1>5 DEF DeliverShort
    <2>2. pc = "packed" /\ n \in Nat /\ n >= 4
      BY <2>1 DEF Arrive
    <2>3. Buffer(Announced(buf, n), n) /\ Named(Announced(buf, n), sent)
      BY <1>2, <2>2, AnnouncedNamed
    <2> QED
      BY <2>1, <2>2, <2>3, WireArrive
  <1>6. CASE DeliverMore
    <2>1. PICK d \in DataLens : Arrive("more", Announced(buf, buf.n + d))
      BY <1>6 DEF DeliverMore
    <2>2. pc = "packed" /\ d \in Nat
      BY <2>1, CodecAssumption DEF Arrive
    <2>3. PICK n \in Nat : n = buf.n + d /\ n >= 4
      <3>1. PICK size \in Nat : size >= Least(sent) /\ Buffer(buf, size)
        BY <1>2, <2>2 DEF Packs
      <3>2. buf.n = size /\ size >= 8
        BY <3>1 DEF Buffer, Least
      <3> QED
        BY <2>2, <3>2
    <2>4. Buffer(Announced(buf, n), n) /\ Named(Announced(buf, n), sent)
      BY <1>2, <2>2, <2>3, AnnouncedNamed
    <2> QED
      BY <2>1, <2>3, <2>4, WireArrive
  <1>7. CASE ofl_msg_unpack_header
    <2>1. pc = "header" /\ UNCHANGED <<sent, buf, len>>
      BY <1>7 DEF ofl_msg_unpack_header
    <2>2. pc' \in {"rejected", "fixed"}
      BY <1>7, Zenon DEF ofl_msg_unpack_header, Rejected
    <2> QED
      BY <2>1, <2>2 DEF Wire
  <1>8. ASSUME pc \notin {"idle", "packed", "header"}, UNCHANGED <<sent, buf>>,
               pc' \notin {"packed", "header", "fixed"}
        PROVE  Wire'
    BY <1>8 DEF Wire
  <1>9. CASE ReadFixed
    <2>1. pc = "fixed" /\ UNCHANGED <<sent, buf>>
      BY <1>9 DEF ReadFixed
    <2>2. pc' \in {"rejected", "match", "count", "entries"}
      BY <1>9, Zenon DEF ReadFixed, Rejected, Listed
    <2> QED
      BY <1>8, <2>1, <2>2
  <1>10. CASE ReadMatch
    <2>1. pc = "match" /\ UNCHANGED <<sent, buf>>
      BY <1>10 DEF ReadMatch
    <2>2. pc' \in {"count", "entries"}
      BY <1>10, Zenon DEF ReadMatch, Listed
    <2> QED
      BY <1>8, <2>1, <2>2
  <1>11. CASE RefuseMatch
    <2>1. pc = "match" /\ UNCHANGED <<sent, buf>>
      BY <1>11 DEF RefuseMatch
    <2>2. pc' \in {"rejected", "entries"}
      BY <1>11, Zenon DEF RefuseMatch, Rejected
    <2> QED
      BY <1>8, <2>1, <2>2
  <1>12. CASE ReadEntry
    BY <1>8, <1>12 DEF ReadEntry, MoreEntries
  <1>13. CASE RefuseEntry
    <2>1. pc = "entries" /\ UNCHANGED <<sent, buf>>
      BY <1>13 DEF RefuseEntry, MoreEntries
    <2>2. pc' = "rejected" \/ pc' = pc
      BY <1>13, Zenon DEF RefuseEntry, Rejected
    <2> QED
      BY <1>8, <2>1, <2>2
  <1>14. CASE ReadData
    BY <1>8, <1>14 DEF ReadData
  <1>15. CASE ofl_msg_unpack_finish
    BY <1>8, <1>15 DEF ofl_msg_unpack_finish, Accept
  <1>16. CASE NextMessage
    <2>1. pc' = "idle" /\ buf' = NoBuffer
      BY <1>16 DEF NextMessage
    <2>2. Buffer(NoBuffer, 0)
      BY AllocBuffer DEF NoBuffer
    <2> QED
      BY <2>1, <2>2 DEF Wire
  <1>17. CASE CountEntries
    BY <1>8, <1>17 DEF CountEntries
  <1>18. CASE RefuseCount
    BY <1>8, <1>18 DEF RefuseCount, Rejected
  <1>19. CASE UNCHANGED vars
    BY <1>19 DEF vars, Wire
  <1> QED
    BY <1>1, <1>3, <1>4, <1>5, <1>6, <1>7, <1>9, <1>10, <1>11, <1>12, <1>13, <1>14, <1>15, <1>16,
       <1>17, <1>18, <1>19 DEF Next

\* What the ofl_msg_pack functions write fits into what they allocated
\* (cc_create_msg.c), for messages with fields, entries, actions and data of
\* every length.
THEOREM EveryMessageFits == Spec => []PackFits
  <1>1. Init => Wire
    BY WireIdle DEF Init
  <1>2. Wire /\ [Next]_vars => Wire'
    BY WireNext
  <1>3. Wire => PackFits
    BY DEF Wire, Buffer, PackFits
  <1> QED
    BY <1>1, <1>2, <1>3, PTL DEF Spec

-----------------------------------------------------------------------------
(* What the decoders allocate and release.                                   *)

\* What a decoder for message m may do: only port and queue statistics
\* allocate a first block; one that looks at the result of an entry releases
\* everything; one that counts releases what it has by then.
PlanOK(p, m) ==
    /\ p.allocs \subseteq {"message", "first", "stats"}
    /\ "first" \in p.allocs => m.type = "MULTIPART_REPLY" /\ m.mp \in {"PORT_STATS", "QUEUE"}
    /\ p.entries # None /\ "entry" \notin p.ignores =>
         {"message", "match", "array", "entries"} \subseteq p.frees /\ "stats" \notin p.allocs
    /\ p.counts => "message" \in p.undoes /\ "stats" \notin p.allocs
    /\ p.counts /\ p.match # None => "match" \in p.undoes

\* The members of a plan.
PlanMembers == {"need", "take", "got", "invalid", "late", "allocs", "match", "entries", "limit",
                "stride", "counts", "undoes", "pad", "data", "ignores", "frees"}

\* The common part of a multipart message does not change that.
LEMMA WithMultipartOK ==
  ASSUME NEW b, NEW p, DOMAIN p = PlanMembers, NEW m, PlanOK(p, m)
  PROVE  PlanOK(WithMultipart(b, p), m) /\ WithMultipart(b, p).need = p.need
  <1>1. PICK x : WithMultipart(b, p) = [p EXCEPT !.got = x]
    BY DEF WithMultipart
  <1>2. PICK q : q = [p EXCEPT !.got = x]
    OBVIOUS
  <1>3. /\ q.allocs = p.allocs /\ q.ignores = p.ignores /\ q.frees = p.frees
        /\ q.entries = p.entries /\ q.need = p.need
        /\ q.counts = p.counts /\ q.undoes = p.undoes /\ q.match = p.match
    BY <1>2 DEF PlanMembers
  <1> QED
    BY <1>1, <1>2, <1>3 DEF PlanOK

\* A plan for the body of multipart message m.
Long(p) == p.need \in 16..2000
BodyOK(p, m) == DOMAIN p = PlanMembers /\ PlanOK(p, m) /\ Long(p)

\* The bodies of requests.
LEMMA RequestPlans ==
  ASSUME NEW b, NEW m
  PROVE  /\ BodyOK(ofl_msg_unpack_multipart_request_empty(b), m)
         /\ BodyOK(ofl_msg_unpack_multipart_request_flow(b), m)
         /\ BodyOK(ofl_msg_unpack_multipart_request_port(b), m)
         /\ BodyOK(ofl_msg_unpack_multipart_request_queue(b), m)
         /\ BodyOK(ofl_msg_unpack_multipart_request_group(b), m)
         /\ BodyOK(ofl_msg_unpack_meter_multipart_request(b), m)
  <1>1. BodyOK(ofl_msg_unpack_multipart_request_empty(b), m)
    BY Sizes DEF BodyOK, Long, PlanOK, ofl_msg_unpack_multipart_request_empty, Reads, PlanMembers,
       Body
  <1>2. BodyOK(ofl_msg_unpack_multipart_request_flow(b), m)
    BY Sizes DEF BodyOK, Long, PlanOK, ofl_msg_unpack_multipart_request_flow, Reads, PlanMembers,
       Body
  <1>3. BodyOK(ofl_msg_unpack_multipart_request_port(b), m)
    BY Sizes DEF BodyOK, Long, PlanOK, ofl_msg_unpack_multipart_request_port, GetBody, Reads,
       PlanMembers, Body
  <1>4. BodyOK(ofl_msg_unpack_multipart_request_queue(b), m)
    BY Sizes DEF BodyOK, Long, PlanOK, ofl_msg_unpack_multipart_request_queue, GetBody, Reads,
       PlanMembers, Body
  <1>5. BodyOK(ofl_msg_unpack_multipart_request_group(b), m)
    BY Sizes DEF BodyOK, Long, PlanOK, ofl_msg_unpack_multipart_request_group, GetBody, Reads,
       PlanMembers, Body
  <1>6. BodyOK(ofl_msg_unpack_meter_multipart_request(b), m)
    BY Sizes DEF BodyOK, Long, PlanOK, ofl_msg_unpack_meter_multipart_request, GetBody, Reads,
       PlanMembers, Body
  <1> QED
    BY <1>1, <1>2, <1>3, <1>4, <1>5, <1>6

\* The bodies of replies.
LEMMA ReplyPlans ==
  ASSUME NEW b, NEW m
  PROVE  /\ BodyOK(ofl_msg_unpack_reply_desc(b), m)
         /\ BodyOK(ofl_msg_unpack_multipart_reply_flow(b), m)
         /\ BodyOK(ofl_msg_unpack_multipart_reply_table(b), m)
         /\ BodyOK(ofl_msg_unpack_multipart_reply_group(b), m)
         /\ BodyOK(ofl_msg_unpack_multipart_reply_group_desc(b), m)
         /\ BodyOK(ofl_msg_unpack_multipart_reply_meter_stats(b), m)
         /\ BodyOK(ofl_msg_unpack_multipart_reply_meter_config(b), m)
         /\ BodyOK(ofl_msg_unpack_multipart_reply_port_desc(b), m)
         /\ BodyOK(ofl_msg_unpack_multipart_reply_aggregate(b), m)
         /\ BodyOK(ofl_msg_unpack_multipart_reply_group_features(b), m)
  <1>1. BodyOK(ofl_msg_unpack_reply_desc(b), m)
    BY Sizes DEF BodyOK, Long, PlanOK, ofl_msg_unpack_reply_desc, Reads, PlanMembers, Body
  <1>2. BodyOK(ofl_msg_unpack_multipart_reply_flow(b), m)
    BY Sizes DEF BodyOK, Long, PlanOK, ofl_msg_unpack_multipart_reply_flow, GetList, Reads,
       PlanMembers, Body
  <1>3. BodyOK(ofl_msg_unpack_multipart_reply_table(b), m)
    BY Sizes DEF BodyOK, Long, PlanOK, ofl_msg_unpack_multipart_reply_table, GetList, Reads,
       PlanMembers, Body
  <1>4. BodyOK(ofl_msg_unpack_multipart_reply_group(b), m)
    BY Sizes DEF BodyOK, Long, PlanOK, ofl_msg_unpack_multipart_reply_group, GetList, Reads,
       PlanMembers, Body
  <1>5. BodyOK(ofl_msg_unpack_multipart_reply_group_desc(b), m)
    BY Sizes DEF BodyOK, Long, PlanOK, ofl_msg_unpack_multipart_reply_group_desc, GetList, Reads,
       PlanMembers, Body
  <1>6. BodyOK(ofl_msg_unpack_multipart_reply_meter_stats(b), m)
    BY Sizes DEF BodyOK, Long, PlanOK, ofl_msg_unpack_multipart_reply_meter_stats, GetList, Reads,
       PlanMembers, Body
  <1>7. BodyOK(ofl_msg_unpack_multipart_reply_meter_config(b), m)
    BY Sizes DEF BodyOK, Long, PlanOK, ofl_msg_unpack_multipart_reply_meter_config, GetList,
       Reads, PlanMembers, Body
  <1>8. BodyOK(ofl_msg_unpack_multipart_reply_port_desc(b), m)
    BY Sizes DEF BodyOK, Long, PlanOK, ofl_msg_unpack_multipart_reply_port_desc, GetList, Reads,
       PlanMembers, Body
  <1>9. BodyOK(ofl_msg_unpack_multipart_reply_aggregate(b), m)
    BY Sizes DEF BodyOK, Long, PlanOK, ofl_msg_unpack_multipart_reply_aggregate, GetBody, Reads,
       PlanMembers, Body
  <1>10. BodyOK(ofl_msg_unpack_multipart_reply_group_features(b), m)
    BY Sizes DEF BodyOK, Long, PlanOK, ofl_msg_unpack_multipart_reply_group_features, GetBody,
       Reads, PlanMembers, Body
  <1> QED
    BY <1>1, <1>2, <1>3, <1>4, <1>5, <1>6, <1>7, <1>8, <1>9, <1>10

\* Table features ignore what the decoder of an entry says.
LEMMA FeaturesPlans ==
  ASSUME NEW b, NEW m, IsMultipart(m), m.mp = "TABLE_FEATURES"
  PROVE  /\ BodyOK(ofl_msg_unpack_multipart_request_table_features(b), m)
         /\ BodyOK(ofl_msg_unpack_multipart_reply_table_features(b), m)
  <1>1. BodyOK(ofl_msg_unpack_multipart_request_table_features(b), m)
    BY Sizes DEF BodyOK, Long, PlanOK, ofl_msg_unpack_multipart_request_table_features, GetList,
       Reads, PlanMembers, Body
  <1>2. BodyOK(ofl_msg_unpack_multipart_reply_table_features(b), m)
    BY Sizes DEF BodyOK, Long, PlanOK, ofl_msg_unpack_multipart_reply_table_features, GetList,
       Reads, PlanMembers, Body
  <1> QED
    BY <1>1, <1>2

\* Port and queue statistics allocate twice.
LEMMA StatsPlans ==
  ASSUME NEW b, NEW m, m.type = "MULTIPART_REPLY",
         m.mp \in {"PORT_STATS", "QUEUE"}
  PROVE  /\ BodyOK(ofl_msg_unpack_multipart_reply_port(b), m)
         /\ BodyOK(ofl_msg_unpack_multipart_reply_queue(b), m)
  <1>1. BodyOK(ofl_msg_unpack_multipart_reply_port(b), m)
    BY Sizes DEF BodyOK, Long, PlanOK, ofl_msg_unpack_multipart_reply_port, GetList, Reads,
       PlanMembers, Body,
           None
  <1>2. BodyOK(ofl_msg_unpack_multipart_reply_queue(b), m)
    BY Sizes DEF BodyOK, Long, PlanOK, ofl_msg_unpack_multipart_reply_queue, GetList, Reads,
       PlanMembers, Body,
           None
  <1> QED
    BY <1>1, <1>2

\* A body of an unknown kind.
LEMMA UnknownPlan ==
  ASSUME NEW m
  PROVE  BodyOK([Reads(Body, Body, Plain) EXCEPT !.invalid = TRUE], m)
  BY Sizes DEF BodyOK, Long, PlanOK, Reads, PlanMembers, Body

\* The plan for a multipart request of a given kind,
LEMMA RequestPlan ==
  ASSUME NEW b, NEW m, m.type = "MULTIPART_REQUEST", m.mp = MpOf(b)
  PROVE  /\ PlanOK(ofl_msg_unpack_multipart_request(b), m)
         /\ Long(ofl_msg_unpack_multipart_request(b))
  <1>1. PICK x : x = MpOf(b)
    OBVIOUS
  <1>2. IsMultipart(m)
    BY DEF IsMultipart
  <1>3. ASSUME NEW p, BodyOK(p, m), ofl_msg_unpack_multipart_request(b) = WithMultipart(b, p)
        PROVE  /\ PlanOK(ofl_msg_unpack_multipart_request(b), m)
               /\ Long(ofl_msg_unpack_multipart_request(b))
    BY <1>3, WithMultipartOK DEF BodyOK, Long
  <1>4. CASE x \in {"DESC", "TABLE", "GROUP_DESC", "GROUP_FEATURES", "PORT_DESC"}
    <2>1. ofl_msg_unpack_multipart_request(b)
            = WithMultipart(b, ofl_msg_unpack_multipart_request_empty(b))
      BY <1>1, <1>4 DEF ofl_msg_unpack_multipart_request
    <2>2. BodyOK(ofl_msg_unpack_multipart_request_empty(b), m)
      BY <1>1, <1>2, <1>4, RequestPlans
    <2> QED
      BY <1>3, <2>1, <2>2
  <1>5. CASE x \in {"FLOW", "AGGREGATE"}
    <2>1. ofl_msg_unpack_multipart_request(b)
            = WithMultipart(b, ofl_msg_unpack_multipart_request_flow(b))
      BY <1>1, <1>5 DEF ofl_msg_unpack_multipart_request
    <2>2. BodyOK(ofl_msg_unpack_multipart_request_flow(b), m)
      BY <1>1, <1>2, <1>5, RequestPlans
    <2> QED
      BY <1>3, <2>1, <2>2
  <1>6. CASE x = "TABLE_FEATURES"
    <2>1. ofl_msg_unpack_multipart_request(b)
            = WithMultipart(b, ofl_msg_unpack_multipart_request_table_features(b))
      BY <1>1, <1>6 DEF ofl_msg_unpack_multipart_request
    <2>2. BodyOK(ofl_msg_unpack_multipart_request_table_features(b), m)
      BY <1>1, <1>2, <1>6, FeaturesPlans
    <2> QED
      BY <1>3, <2>1, <2>2
  <1>7. CASE x = "PORT_STATS"
    <2>1. ofl_msg_unpack_multipart_request(b)
            = WithMultipart(b, ofl_msg_unpack_multipart_request_port(b))
      BY <1>1, <1>7 DEF ofl_msg_unpack_multipart_request
    <2>2. BodyOK(ofl_msg_unpack_multipart_request_port(b), m)
      BY <1>1, <1>2, <1>7, RequestPlans
    <2> QED
      BY <1>3, <2>1, <2>2
  <1>8. CASE x = "QUEUE"
    <2>1. ofl_msg_unpack_multipart_request(b)
            = WithMultipart(b, ofl_msg_unpack_multipart_request_queue(b))
      BY <1>1, <1>8 DEF ofl_msg_unpack_multipart_request
    <2>2. BodyOK(ofl_msg_unpack_multipart_request_queue(b), m)
      BY <1>1, <1>2, <1>8, RequestPlans
    <2> QED
      BY <1>3, <2>1, <2>2
  <1>9. CASE x = "GROUP"
    <2>1. ofl_msg_unpack_multipart_request(b)
            = WithMultipart(b, ofl_msg_unpack_multipart_request_group(b))
      BY <1>1, <1>9 DEF ofl_msg_unpack_multipart_request
    <2>2. BodyOK(ofl_msg_unpack_multipart_request_group(b), m)
      BY <1>1, <1>2, <1>9, RequestPlans
    <2> QED
      BY <1>3, <2>1, <2>2
  <1>10. CASE x \in {"METER", "METER_CONFIG"}
    <2>1. ofl_msg_unpack_multipart_request(b)
            = WithMultipart(b, ofl_msg_unpack_meter_multipart_request(b))
      BY <1>1, <1>10 DEF ofl_msg_unpack_multipart_request
    <2>2. BodyOK(ofl_msg_unpack_meter_multipart_request(b), m)
      BY <1>1, <1>2, <1>10, RequestPlans
    <2> QED
      BY <1>3, <2>1, <2>2
  <1>11. CASE x \notin {"DESC", "TABLE", "GROUP_DESC", "GROUP_FEATURES", "PORT_DESC", "FLOW",
                     "AGGREGATE", "TABLE_FEATURES", "PORT_STATS", "QUEUE", "GROUP",
                     "METER", "METER_CONFIG"}
    <2>1. PICK p : p = [Reads(Body, Body, Plain) EXCEPT !.invalid = TRUE]
      OBVIOUS
    <2>2. ofl_msg_unpack_multipart_request(b) = WithMultipart(b, p)
      BY <1>1, <1>11, <2>1 DEF ofl_msg_unpack_multipart_request
    <2>3. BodyOK(p, m)
      BY <2>1, UnknownPlan
    <2> QED
      BY <1>3, <2>2, <2>3
  <1> QED
    BY <1>4, <1>5, <1>6, <1>7, <1>8, <1>9, <1>10, <1>11

\* and for a multipart reply.
LEMMA ReplyPlan ==
  ASSUME NEW b, NEW m, m.type = "MULTIPART_REPLY", m.mp = MpOf(b)
  PROVE  /\ PlanOK(ofl_msg_unpack_multipart_reply(b), m)
         /\ Long(ofl_msg_unpack_multipart_reply(b))
  <1>1. PICK x : x = MpOf(b)
    OBVIOUS
  <1>2. IsMultipart(m) /\ m.type = "MULTIPART_REPLY"
    BY DEF IsMultipart
  <1>3. ASSUME NEW p, BodyOK(p, m), ofl_msg_unpack_multipart_reply(b) = WithMultipart(b, p)
        PROVE  /\ PlanOK(ofl_msg_unpack_multipart_reply(b), m)
               /\ Long(ofl_msg_unpack_multipart_reply(b))
    BY <1>3, WithMultipartOK DEF BodyOK, Long
  <1>4. CASE x = "DESC"
    <2>1. ofl_msg_unpack_multipart_reply(b) = WithMultipart(b, ofl_msg_unpack_reply_desc(b))
      BY <1>1, <1>4 DEF ofl_msg_unpack_multipart_reply
    <2>2. BodyOK(ofl_msg_unpack_reply_desc(b), m)
      BY <1>1, <1>2, <1>4, ReplyPlans
    <2> QED
      BY <1>3, <2>1, <2>2
  <1>5. CASE x = "FLOW"
    <2>1. ofl_msg_unpack_multipart_reply(b)
            = WithMultipart(b, ofl_msg_unpack_multipart_reply_flow(b))
      BY <1>1, <1>5 DEF ofl_msg_unpack_multipart_reply
    <2>2. BodyOK(ofl_msg_unpack_multipart_reply_flow(b), m)
      BY <1>1, <1>2, <1>5, ReplyPlans
    <2> QED
      BY <1>3, <2>1, <2>2
  <1>6. CASE x = "AGGREGATE"
    <2>1. ofl_msg_unpack_multipart_reply(b)
            = WithMultipart(b, ofl_msg_unpack_multipart_reply_aggregate(b))
      BY <1>1, <1>6 DEF ofl_msg_unpack_multipart_reply
    <2>2. BodyOK(ofl_msg_unpack_multipart_reply_aggregate(b), m)
      BY <1>1, <1>2, <1>6, ReplyPlans
    <2> QED
      BY <1>3, <2>1, <2>2
  <1>7. CASE x = "TABLE"
    <2>1. ofl_msg_unpack_multipart_reply(b)
            = WithMultipart(b, ofl_msg_unpack_multipart_reply_table(b))
      BY <1>1, <1>7 DEF ofl_msg_unpack_multipart_reply
    <2>2. BodyOK(ofl_msg_unpack_multipart_reply_table(b), m)
      BY <1>1, <1>2, <1>7, ReplyPlans
    <2> QED
      BY <1>3, <2>1, <2>2
  <1>8. CASE x = "TABLE_FEATURES"
    <2>1. ofl_msg_unpack_multipart_reply(b)
            = WithMultipart(b, ofl_msg_unpack_multipart_reply_table_features(b))
      BY <1>1, <1>8 DEF ofl_msg_unpack_multipart_reply
    <2>2. BodyOK(ofl_msg_unpack_multipart_reply_table_features(b), m)
      BY <1>1, <1>2, <1>8, FeaturesPlans
    <2> QED
      BY <1>3, <2>1, <2>2
  <1>9. CASE x = "PORT_STATS"
    <2>1. ofl_msg_unpack_multipart_reply(b)
            = WithMultipart(b, ofl_msg_unpack_multipart_reply_port(b))
      BY <1>1, <1>9 DEF ofl_msg_unpack_multipart_reply
    <2>2. BodyOK(ofl_msg_unpack_multipart_reply_port(b), m)
      BY <1>1, <1>2, <1>9, StatsPlans
    <2> QED
      BY <1>3, <2>1, <2>2
  <1>10. CASE x = "QUEUE"
    <2>1. ofl_msg_unpack_multipart_reply(b)
            = WithMultipart(b, ofl_msg_unpack_multipart_reply_queue(b))
      BY <1>1, <1>10 DEF ofl_msg_unpack_multipart_reply
    <2>2. BodyOK(ofl_msg_unpack_multipart_reply_queue(b), m)
      BY <1>1, <1>2, <1>10, StatsPlans
    <2> QED
      BY <1>3, <2>1, <2>2
  <1>11. CASE x = "GROUP"
    <2>1. ofl_msg_unpack_multipart_reply(b)
            = WithMultipart(b, ofl_msg_unpack_multipart_reply_group(b))
      BY <1>1, <1>11 DEF ofl_msg_unpack_multipart_reply
    <2>2. BodyOK(ofl_msg_unpack_multipart_reply_group(b), m)
      BY <1>1, <1>2, <1>11, ReplyPlans
    <2> QED
      BY <1>3, <2>1, <2>2
  <1>12. CASE x = "GROUP_DESC"
    <2>1. ofl_msg_unpack_multipart_reply(b)
            = WithMultipart(b, ofl_msg_unpack_multipart_reply_group_desc(b))
      BY <1>1, <1>12 DEF ofl_msg_unpack_multipart_reply
    <2>2. BodyOK(ofl_msg_unpack_multipart_reply_group_desc(b), m)
      BY <1>1, <1>2, <1>12, ReplyPlans
    <2> QED
      BY <1>3, <2>1, <2>2
  <1>13. CASE x = "GROUP_FEATURES"
    <2>1. ofl_msg_unpack_multipart_reply(b)
            = WithMultipart(b, ofl_msg_unpack_multipart_reply_group_features(b))
      BY <1>1, <1>13 DEF ofl_msg_unpack_multipart_reply
    <2>2. BodyOK(ofl_msg_unpack_multipart_reply_group_features(b), m)
      BY <1>1, <1>2, <1>13, ReplyPlans
    <2> QED
      BY <1>3, <2>1, <2>2
  <1>14. CASE x = "METER"
    <2>1. ofl_msg_unpack_multipart_reply(b)
            = WithMultipart(b, ofl_msg_unpack_multipart_reply_meter_stats(b))
      BY <1>1, <1>14 DEF ofl_msg_unpack_multipart_reply
    <2>2. BodyOK(ofl_msg_unpack_multipart_reply_meter_stats(b), m)
      BY <1>1, <1>2, <1>14, ReplyPlans
    <2> QED
      BY <1>3, <2>1, <2>2
  <1>15. CASE x = "METER_CONFIG"
    <2>1. ofl_msg_unpack_multipart_reply(b)
            = WithMultipart(b, ofl_msg_unpack_multipart_reply_meter_config(b))
      BY <1>1, <1>15 DEF ofl_msg_unpack_multipart_reply
    <2>2. BodyOK(ofl_msg_unpack_multipart_reply_meter_config(b), m)
      BY <1>1, <1>2, <1>15, ReplyPlans
    <2> QED
      BY <1>3, <2>1, <2>2
  <1>16. CASE x = "PORT_DESC"
    <2>1. ofl_msg_unpack_multipart_reply(b)
            = WithMultipart(b, ofl_msg_unpack_multipart_reply_port_desc(b))
      BY <1>1, <1>16 DEF ofl_msg_unpack_multipart_reply
    <2>2. BodyOK(ofl_msg_unpack_multipart_reply_port_desc(b), m)
      BY <1>1, <1>2, <1>16, ReplyPlans
    <2> QED
      BY <1>3, <2>1, <2>2
  <1>17. CASE x \notin {"DESC", "FLOW", "AGGREGATE", "TABLE", "TABLE_FEATURES", "PORT_STATS",
                     "QUEUE", "GROUP", "GROUP_DESC", "GROUP_FEATURES", "METER",
                     "METER_CONFIG", "PORT_DESC"}
    <2>1. PICK p : p = [Reads(Body, Body, Plain) EXCEPT !.invalid = TRUE]
      OBVIOUS
    <2>2. ofl_msg_unpack_multipart_reply(b) = WithMultipart(b, p)
      BY <1>1, <1>17, <2>1 DEF ofl_msg_unpack_multipart_reply
    <2>3. BodyOK(p, m)
      BY <2>1, UnknownPlan
    <2> QED
      BY <1>3, <2>2, <2>3
  <1> QED
    BY <1>4, <1>5, <1>6, <1>7, <1>8, <1>9, <1>10, <1>11, <1>12, <1>13, <1>14, <1>15, <1>16, <1>17

\* Requests ask for the common part, whatever they are.
LEMMA RequestNeeds ==
  ASSUME NEW b
  PROVE  Long(ofl_msg_unpack_multipart_request(b))
  <1>1. PICK x : x = MpOf(b)
    OBVIOUS
  <1>2. PICK k : k = [type |-> "MULTIPART_REQUEST", mp |-> x]
    OBVIOUS
  <1>3. k.type = "MULTIPART_REQUEST"
    BY <1>2
  <1>4. k.mp = MpOf(b)
    BY <1>1, <1>2
  <1> QED
    BY <1>3, <1>4, RequestPlan

\* Replies ask for the common part, whatever they are.
LEMMA ReplyNeeds ==
  ASSUME NEW b
  PROVE  Long(ofl_msg_unpack_multipart_reply(b))
  <1>1. PICK x : x = MpOf(b)
    OBVIOUS
  <1>2. PICK k : k = [type |-> "MULTIPART_REPLY", mp |-> x]
    OBVIOUS
  <1>3. k.type = "MULTIPART_REPLY"
    BY <1>2
  <1>4. k.mp = MpOf(b)
    BY <1>1, <1>2
  <1> QED
    BY <1>3, <1>4, ReplyPlan

\* A message that is long enough is taken for what it is,
LEMMA TypeRead ==
  ASSUME NEW b, NEW size \in Nat, size >= 8, Buffer(b, size), NEW m, Named(b, m)
  PROVE  NameOf(Bytes(b, ofp_header.type[1], 1)) = m.type
  <1>1. ofp_header.type[1] = 1
    BY DEF ofp_header
  <1>2. 1 \in DOMAIN b.at /\ b.at[1] = <<m.type, 1>>
    BY DEF Buffer, Named
  <1>3. PICK v : v = Bytes(b, 1, 1)
    OBVIOUS
  <1>4. v = [k \in 1..1 |-> <<m.type, k>>]
    <2>1. \A k \in 1..1 : k = 1 /\ 1 + k - 1 = 1
      OBVIOUS
    <2>2. v = [k \in 1..1 |-> IF 1 + k - 1 \in DOMAIN b.at THEN b.at[1 + k - 1] ELSE Junk]
      BY <1>3 DEF Bytes
    <2> QED
      BY <1>2, <2>1, <2>2
  <1>5. v = Value(m.type, 1) /\ v[1][1] = m.type
    BY <1>4 DEF Value
  <1>6. Len(v) = 1
    BY <1>5, ValueSized DEF Sized
  <1>7. NameOf(v) = m.type
    BY <1>5, <1>6 DEF NameOf
  <1> QED
    BY <1>1, <1>3, <1>7

\* and its body, too.
LEMMA MpRead ==
  ASSUME NEW b, NEW size \in Nat, size >= 16, Buffer(b, size), NEW m, Named(b, m), IsMultipart(m)
  PROVE  MpOf(b) = m.mp
  <1>1. 8 \in DOMAIN b.at /\ 9 \in DOMAIN b.at /\ b.at[8] = <<m.mp, 2>> /\ b.at[9] = <<m.mp, 1>>
    BY DEF Buffer, Named
  <1>2. PICK v : v = Bytes(b, 8, 2)
    OBVIOUS
  <1>3. v[1] = <<m.mp, 2>> /\ v[2] = <<m.mp, 1>> /\ Len(v) = 2
    <2>1. v = [k \in 1..2 |-> IF 8 + k - 1 \in DOMAIN b.at THEN b.at[8 + k - 1] ELSE Junk]
      BY <1>2 DEF Bytes
    <2>2. 8 + 1 - 1 = 8 /\ 8 + 2 - 1 = 9 /\ 1 \in 1..2 /\ 2 \in 1..2
      OBVIOUS
    <2>3. v[1] = b.at[8] /\ v[2] = b.at[9]
      BY <1>1, <2>1, <2>2
    <2>4. v = [k \in 1..2 |-> v[k]]
      BY <2>1
    <2>5. Sized(v, 2)
      BY <2>4, FunctionSized
    <2> QED
      BY <1>1, <2>3, <2>5 DEF Sized
  <1>4. PICK u : u = Resized(v, 2)
    OBVIOUS
  <1>5. u[1] = v[1] /\ u[2] = v[2] /\ Len(u) = 2
    BY <1>3, <1>4, ResizedSized DEF Resized, Sized
  <1>6. PICK w : w = hton(v, 2)
    OBVIOUS
  <1>7. w = [k \in 1..2 |-> u[(2 - k) + 1]]
    BY <1>4, <1>5, <1>6 DEF hton, Reverse
  <1>8. w[1] = <<m.mp, 1>> /\ w[2] = <<m.mp, 2>> /\ Len(w) = 2
    <2>1. (2 - 1) + 1 = 2 /\ (2 - 2) + 1 = 1 /\ 1 \in 1..2 /\ 2 \in 1..2
      OBVIOUS
    <2>2. w[1] = u[2] /\ w[2] = u[1]
      BY <1>7, <2>1
    <2>3. Sized(w, 2)
      BY <1>6, HtonSized
    <2> QED
      BY <1>3, <1>5, <2>2, <2>3 DEF Sized
  <1>9. PICK x : x = Resized(w, 2)
    OBVIOUS
  <1>10. x = Value(m.mp, 2) /\ x[1][1] = m.mp
    <2>1. x = [k \in 1..2 |-> IF k <= Len(w) THEN w[k] ELSE Zero]
      BY <1>9 DEF Resized
    <2>2. \A k \in 1..2 : (k = 1 \/ k = 2) /\ k <= 2
      OBVIOUS
    <2>3. x = [k \in 1..2 |-> <<m.mp, k>>]
      BY <1>8, <2>1, <2>2
    <2> QED
      BY <2>3 DEF Value
  <1>11. Len(x) = 2
    BY <1>10, ValueSized DEF Sized
  <1>12. NameOf(x) = m.mp
    BY <1>10, <1>11 DEF NameOf
  <1>13. GetAll(b, 0, ofp_multipart, Plain).mp = x
    <2>1. PICK s : s = ofp_multipart
      OBVIOUS
    <2>2. "mp" \in DOMAIN s /\ s["mp"][1] = 8 /\ s["mp"][2] = 2
      BY <2>1 DEF ofp_multipart
    <2>3. Width(s, Plain, "mp") = 2
      BY <2>2 DEF Width, Plain
    <2>4. GetAll(b, 0, s, Plain)["mp"]
            = Resized(hton(Bytes(b, 0 + s["mp"][1], s["mp"][2]), Width(s, Plain, "mp")), s["mp"][2])
      BY <2>2 DEF GetAll
    <2>5. 0 + 8 = 8
      OBVIOUS
    <2>6. GetAll(b, 0, s, Plain)["mp"] = Resized(hton(Bytes(b, 8, 2), 2), 2)
      BY <2>2, <2>3, <2>4, <2>5
    <2> QED
      BY <1>2, <1>6, <1>9, <2>1, <2>6
  <1> QED
    BY <1>12, <1>13 DEF MpOf

\* The plan for every message that was long enough for it.
LEMMA PlanFor ==
  ASSUME NEW b, NEW size \in Nat, size >= 8, Buffer(b, size), NEW m, Named(b, m),
         ~(size < Plan(b).need)
  PROVE  PlanOK(Plan(b), m)
  <1>1. PICK t : t = m.type
    OBVIOUS
  <1>2. NameOf(Bytes(b, ofp_header.type[1], 1)) = t
    BY <1>1, TypeRead
  <1>3. CASE t \in Empty
    <2>1. Plan(b) = ofl_msg_unpack_empty(b)
      BY <1>2, <1>3 DEF Plan, Empty
    <2>2. PlanOK(ofl_msg_unpack_empty(b), m)
      BY DEF PlanOK, ofl_msg_unpack_empty, Reads
    <2> QED
      BY <2>1, <2>2
  <1>4. CASE t = "ERROR"
    <2>1. Plan(b) = ofl_msg_unpack_error(b)
      BY <1>2, <1>4 DEF Plan, Empty
    <2>2. PlanOK(ofl_msg_unpack_error(b), m)
      BY DEF PlanOK, ofl_msg_unpack_error, Reads
    <2> QED
      BY <2>1, <2>2
  <1>5. CASE t \in {"ECHO_REQUEST", "ECHO_REPLY"}
    <2>1. Plan(b) = ofl_msg_unpack_echo(b)
      BY <1>2, <1>5 DEF Plan, Empty
    <2>2. PlanOK(ofl_msg_unpack_echo(b), m)
      BY DEF PlanOK, ofl_msg_unpack_echo, Reads
    <2> QED
      BY <2>1, <2>2
  <1>6. CASE t = "FEATURES_REPLY"
    <2>1. Plan(b) = ofl_msg_unpack_features_reply(b)
      BY <1>2, <1>6 DEF Plan, Empty
    <2>2. PlanOK(ofl_msg_unpack_features_reply(b), m)
      BY DEF PlanOK, ofl_msg_unpack_features_reply, Reads
    <2> QED
      BY <2>1, <2>2
  <1>7. CASE t = "GET_CONFIG_REPLY"
    <2>1. Plan(b) = ofl_msg_unpack_get_config_reply(b)
      BY <1>2, <1>7 DEF Plan, Empty
    <2>2. PlanOK(ofl_msg_unpack_get_config_reply(b), m)
      BY DEF PlanOK, ofl_msg_unpack_get_config_reply, Reads
    <2> QED
      BY <2>1, <2>2
  <1>8. CASE t = "SET_CONFIG"
    <2>1. Plan(b) = ofl_msg_unpack_set_config(b)
      BY <1>2, <1>8 DEF Plan, Empty
    <2>2. PlanOK(ofl_msg_unpack_set_config(b), m)
      BY DEF PlanOK, ofl_msg_unpack_set_config, Reads
    <2> QED
      BY <2>1, <2>2
  <1>9. CASE t = "PACKET_IN"
    <2>1. Plan(b) = ofl_msg_unpack_packet_in(b)
      BY <1>2, <1>9 DEF Plan, Empty
    <2>2. PlanOK(ofl_msg_unpack_packet_in(b), m)
      BY <1>1, <1>9 DEF PlanOK, ofl_msg_unpack_packet_in, Reads
    <2> QED
      BY <2>1, <2>2
  <1>10. CASE t = "FLOW_REMOVED"
    <2>1. Plan(b) = ofl_msg_unpack_flow_removed(b)
      BY <1>2, <1>10 DEF Plan, Empty
    <2>2. PlanOK(ofl_msg_unpack_flow_removed(b), m)
      BY DEF PlanOK, ofl_msg_unpack_flow_removed, Reads, None
    <2> QED
      BY <2>1, <2>2
  <1>11. CASE t = "PORT_STATUS"
    <2>1. Plan(b) = ofl_msg_unpack_port_status(b)
      BY <1>2, <1>11 DEF Plan, Empty
    <2>2. PlanOK(ofl_msg_unpack_port_status(b), m)
      BY DEF PlanOK, ofl_msg_unpack_port_status, Reads
    <2> QED
      BY <2>1, <2>2
  <1>12. CASE t \in {"GET_ASYNC_REPLY", "SET_ASYNC"}
    <2>1. Plan(b) = ofl_msg_unpack_async_config(b)
      BY <1>2, <1>12 DEF Plan, Empty
    <2>2. PlanOK(ofl_msg_unpack_async_config(b), m)
      BY DEF PlanOK, ofl_msg_unpack_async_config, Reads
    <2> QED
      BY <2>1, <2>2
  <1>13. CASE t = "PACKET_OUT"
    <2>1. Plan(b) = ofl_msg_unpack_packet_out(b)
      BY <1>2, <1>13 DEF Plan, Empty
    <2>2. PlanOK(ofl_msg_unpack_packet_out(b), m)
      BY <1>1, <1>13 DEF PlanOK, ofl_msg_unpack_packet_out, Reads
    <2> QED
      BY <2>1, <2>2
  <1>14. CASE t = "FLOW_MOD"
    <2>1. Plan(b) = ofl_msg_unpack_flow_mod(b)
      BY <1>2, <1>14 DEF Plan, Empty
    <2>2. PlanOK(ofl_msg_unpack_flow_mod(b), m)
      BY DEF PlanOK, ofl_msg_unpack_flow_mod, Reads, FlowModFrees, FlowModUndoes
    <2> QED
      BY <2>1, <2>2
  <1>15. CASE t = "GROUP_MOD"
    <2>1. Plan(b) = ofl_msg_unpack_group_mod(b)
      BY <1>2, <1>15 DEF Plan, Empty
    <2>2. PlanOK(ofl_msg_unpack_group_mod(b), m)
      BY DEF PlanOK, ofl_msg_unpack_group_mod, Reads
    <2> QED
      BY <2>1, <2>2
  <1>16. CASE t = "PORT_MOD"
    <2>1. Plan(b) = ofl_msg_unpack_port_mod(b)
      BY <1>2, <1>16 DEF Plan, Empty
    <2>2. PlanOK(ofl_msg_unpack_port_mod(b), m)
      BY DEF PlanOK, ofl_msg_unpack_port_mod, Reads
    <2> QED
      BY <2>1, <2>2
  <1>17. CASE t = "TABLE_MOD"
    <2>1. Plan(b) = ofl_msg_unpack_table_mod(b)
      BY <1>2, <1>17 DEF Plan, Empty
    <2>2. PlanOK(ofl_msg_unpack_table_mod(b), m)
      BY DEF PlanOK, ofl_msg_unpack_table_mod, Reads
    <2> QED
      BY <2>1, <2>2
  <1>18. CASE t = "METER_MOD"
    <2>1. Plan(b) = ofl_msg_unpack_meter_mod(b)
      BY <1>2, <1>18 DEF Plan, Empty
    <2>2. PlanOK(ofl_msg_unpack_meter_mod(b), m)
      BY DEF PlanOK, ofl_msg_unpack_meter_mod, Reads
    <2> QED
      BY <2>1, <2>2
  <1>19. CASE t \in {"ROLE_REQUEST", "ROLE_REPLY"}
    <2>1. Plan(b) = ofl_msg_unpack_role_request(b)
      BY <1>2, <1>19 DEF Plan, Empty
    <2>2. PlanOK(ofl_msg_unpack_role_request(b), m)
      BY DEF PlanOK, ofl_msg_unpack_role_request, Reads
    <2> QED
      BY <2>1, <2>2
  <1>20. CASE t = "QUEUE_GET_CONFIG_REQUEST"
    <2>1. Plan(b) = ofl_msg_unpack_queue_get_config_request(b)
      BY <1>2, <1>20 DEF Plan, Empty
    <2>2. PlanOK(ofl_msg_unpack_queue_get_config_request(b), m)
      BY DEF PlanOK, ofl_msg_unpack_queue_get_config_request, Reads
    <2> QED
      BY <2>1, <2>2
  <1>21. CASE t = "QUEUE_GET_CONFIG_REPLY"
    <2>1. Plan(b) = ofl_msg_unpack_queue_get_config_reply(b)
      BY <1>2, <1>21 DEF Plan, Empty
    <2>2. PlanOK(ofl_msg_unpack_queue_get_config_reply(b), m)
      BY DEF PlanOK, ofl_msg_unpack_queue_get_config_reply, Reads
    <2> QED
      BY <2>1, <2>2
  <1>22. CASE t = "MULTIPART_REQUEST"
    <2>1. Plan(b) = ofl_msg_unpack_multipart_request(b)
      BY <1>2, <1>22 DEF Plan, Empty
    <2>2. Long(ofl_msg_unpack_multipart_request(b))
      BY RequestNeeds
    <2>3. IsMultipart(m) /\ m.type = "MULTIPART_REQUEST"
      BY <1>1, <1>22 DEF IsMultipart
    <2>4. size >= 16
      <3>1. PICK p : p = Plan(b) /\ Long(p)
        BY <2>1, <2>2
      <3>2. ~(size < p.need)
        BY <3>1
      <3>3. PICK y : y = p.need
        OBVIOUS
      <3>4. y \in 16..2000
        BY <3>1, <3>3 DEF Long
      <3>5. ~(size < y)
        BY <3>2, <3>3
      <3> QED
        BY <3>4, <3>5
    <2>5. m.mp = MpOf(b)
      BY <2>3, <2>4, MpRead
    <2> QED
      BY <2>1, <2>3, <2>5, RequestPlan
  <1>23. CASE t = "MULTIPART_REPLY"
    <2>1. Plan(b) = ofl_msg_unpack_multipart_reply(b)
      BY <1>2, <1>23 DEF Plan, Empty
    <2>2. Long(ofl_msg_unpack_multipart_reply(b))
      BY ReplyNeeds
    <2>3. IsMultipart(m) /\ m.type = "MULTIPART_REPLY"
      BY <1>1, <1>23 DEF IsMultipart
    <2>4. size >= 16
      <3>1. PICK p : p = Plan(b) /\ Long(p)
        BY <2>1, <2>2
      <3>2. ~(size < p.need)
        BY <3>1
      <3>3. PICK y : y = p.need
        OBVIOUS
      <3>4. y \in 16..2000
        BY <3>1, <3>3 DEF Long
      <3>5. ~(size < y)
        BY <3>2, <3>3
      <3> QED
        BY <3>4, <3>5
    <2>5. m.mp = MpOf(b)
      BY <2>3, <2>4, MpRead
    <2> QED
      BY <2>1, <2>3, <2>5, ReplyPlan
  <1>24. CASE t \notin Empty \cup {"ERROR", "ECHO_REQUEST", "ECHO_REPLY", "FEATURES_REPLY",
                                "GET_CONFIG_REPLY", "SET_CONFIG", "PACKET_IN",
                                "FLOW_REMOVED", "PORT_STATUS", "GET_ASYNC_REPLY",
                                "SET_ASYNC", "PACKET_OUT", "FLOW_MOD", "GROUP_MOD",
                                "PORT_MOD", "TABLE_MOD", "METER_MOD", "ROLE_REQUEST",
                                "ROLE_REPLY", "QUEUE_GET_CONFIG_REQUEST",
                                "QUEUE_GET_CONFIG_REPLY", "MULTIPART_REQUEST",
                                "MULTIPART_REPLY"}
    <2>1. Plan(b) = [Reads(0, 0, Plain) EXCEPT !.invalid = TRUE]
      BY <1>2, <1>24 DEF Plan
    <2> QED
      BY <2>1 DEF PlanOK, Reads
  <1> QED
    BY <1>3, <1>4, <1>5, <1>6, <1>7, <1>8, <1>9, <1>10, <1>11, <1>12, <1>13,
       <1>14, <1>15, <1>16, <1>17, <1>18, <1>19, <1>20, <1>21, <1>22, <1>23, <1>24

\* What the decoder holds: nothing before the fixed part is read; then a plan
\* that fits the message, and only what the plan has allocated so far.
Held ==
    /\ pc \in {"idle", "packed", "header", "fixed"} => heap = {}
    /\ pc = "fixed" => len >= 8
    /\ pc \in {"match", "count", "entries"} => PlanOK(plan, sent)
    /\ pc = "match" => plan.match # None /\ heap \subseteq plan.allocs
    /\ pc = "count" => /\ plan.counts /\ heap \subseteq plan.allocs \cup {"match"}
                       /\ "match" \in heap => plan.match # None
    /\ pc = "entries" => heap \subseteq plan.allocs \cup {"match", "array", "entries"}
    /\ NoLeak

\* What may remain is what the plan allocates first.
LEMMA FirstRemains ==
  ASSUME PlanOK(plan, sent), NEW H, H \subseteq plan.allocs, H \subseteq {"first"}
  PROVE  H \subseteq IF IsReply({"PORT_STATS", "QUEUE"}) THEN {"first"} ELSE {}
  BY DEF PlanOK, IsReply

\* Every step keeps it.
LEMMA HeldNext ==
  ASSUME Wire, Held, [Next]_vars
  PROVE  Held'
  <1>1. ASSUME UNCHANGED heap, pc' \in {"packed", "header"}, pc \in {"idle", "packed"}
        PROVE  Held'
    BY <1>1 DEF Held, NoLeak
  <1>2. CASE Pack
    BY <1>1, <1>2 DEF Pack, work
  <1>3. ASSUME NEW kind, NEW b, Arrive(kind, b) PROVE Held'
    BY <1>1, <1>3 DEF Arrive
  <1>4. CASE DeliverWhole \/ DeliverPart \/ DeliverShort \/ DeliverMore
    <2>1. \E kind, b : Arrive(kind, b)
      BY <1>4, Zenon DEF DeliverWhole, DeliverPart, DeliverShort, DeliverMore
    <2> QED
      BY <1>3, <2>1
  <1>5. CASE ofl_msg_unpack_header
    <2>1. pc = "header" /\ UNCHANGED <<len, heap, buf>>
      BY <1>5 DEF ofl_msg_unpack_header
    <2>2. pc' = "rejected" \/ (pc' = "fixed" /\ ~(len < 8))
      BY <1>5, Sizes, Zenon DEF ofl_msg_unpack_header, Rejected
    <2>3. len \in Nat
      <3>1. len = buf.n
        BY <2>1 DEF Wire
      <3>2. buf.n \in Nat
        BY DEF Wire, Buffer
      <3> QED
        BY <3>1, <3>2
    <2>4. pc' = "fixed" => len' >= 8
      BY <2>1, <2>2, <2>3
    <2> QED
      BY <2>1, <2>2, <2>4 DEF Held, NoLeak
  <1>6. ASSUME UNCHANGED <<sent, buf>> PROVE plan' = plan
    BY <1>6 DEF plan
  <1>7. CASE ReadFixed
    <2>1. pc = "fixed" /\ UNCHANGED <<sent, buf>>
      BY <1>7 DEF ReadFixed
    <2>2. heap = {}
      BY <2>1 DEF Held
    <2>3. CASE TooShort \/ plan.invalid
      <3>1. pc' = "rejected" /\ heap' = heap
        BY <1>7, <2>3, Zenon DEF ReadFixed, Rejected, work
      <3> QED
        BY <2>1, <2>2, <3>1 DEF Held, NoLeak
    <2>4. CASE ~(TooShort \/ plan.invalid)
      <3>1. /\ heap' = heap \cup plan.allocs
            /\ \/ pc' = "match" /\ plan.match # None
               \/ pc' = "count" /\ plan.counts
               \/ pc' = "entries"
        BY <1>7, <2>4, Zenon DEF ReadFixed, Listed
      <3>2. PICK size \in Nat : Buffer(buf, size)
        BY DEF Wire
      <3>3. len = size /\ size >= 8 /\ Named(buf, sent)
        BY <2>1, <3>2 DEF Wire, Held, Buffer
      <3>4. ~(size < Plan(buf).need)
        BY <2>4, <3>3 DEF TooShort, plan
      <3>5. PlanOK(plan, sent)
        BY <3>2, <3>3, <3>4, PlanFor DEF plan
      <3>6. plan' = plan /\ sent' = sent
        BY <1>6, <2>1
      <3>7. heap' \subseteq plan.allocs /\ "match" \notin heap'
        BY <2>2, <3>1, <3>5 DEF PlanOK
      <3> HIDE DEF plan
      <3> QED
        BY <3>1, <3>5, <3>6, <3>7 DEF Held, NoLeak
    <2> QED
      BY <2>3, <2>4
  <1>8. CASE ReadMatch
    <2>1. /\ pc = "match" /\ heap' = heap \cup {"match"} /\ UNCHANGED <<sent, buf>>
          /\ (pc' = "count" /\ plan.counts) \/ pc' = "entries"
      BY <1>8, Zenon DEF ReadMatch, Listed
    <2>2. plan' = plan /\ PlanOK(plan, sent) /\ heap \subseteq plan.allocs /\ plan.match # None
      BY <1>6, <2>1 DEF Held
    <2> HIDE DEF plan
    <2> QED
      BY <2>1, <2>2 DEF Held, NoLeak
  <1>9. CASE RefuseMatch
    <2>1. pc = "match" /\ UNCHANGED <<sent, buf>>
      BY <1>9 DEF RefuseMatch
    <2>2. plan' = plan /\ PlanOK(plan, sent) /\ heap \subseteq plan.allocs
      BY <1>6, <2>1 DEF Held
    <2>3. CASE "match" \in plan.ignores
      <3>1. pc' = "entries" /\ heap' = heap
        BY <1>9, <2>3 DEF RefuseMatch
      <3> HIDE DEF plan
      <3> QED
        BY <2>1, <2>2, <3>1 DEF Held, NoLeak
    <2>4. CASE "match" \notin plan.ignores
      <3>1. pc' = "rejected" /\ heap' = heap \ {"message", "stats"}
        BY <1>9, <2>4 DEF RefuseMatch, Rejected
      <3>2. heap' \subseteq plan.allocs /\ heap' \subseteq {"first"}
        BY <2>2, <3>1 DEF PlanOK
      <3>3. NoLeak'
        <4>1. heap' \subseteq IF IsReply({"PORT_STATS", "QUEUE"}) THEN {"first"} ELSE {}
          BY <2>2, <3>2, FirstRemains
        <4> QED
          BY <2>1, <4>1 DEF NoLeak, IsReply
      <3> QED
        BY <3>1, <3>3 DEF Held
    <2> QED
      BY <2>3, <2>4
  <1>10. CASE CountEntries
    <2>1. /\ pc = "count" /\ pc' = "entries" /\ heap' = heap \cup {"array"}
          /\ UNCHANGED <<sent, buf>>
      BY <1>10 DEF CountEntries
    <2>2. plan' = plan /\ PlanOK(plan, sent) /\ heap \subseteq plan.allocs \cup {"match"}
      BY <1>6, <2>1 DEF Held
    <2> HIDE DEF plan
    <2> QED
      BY <2>1, <2>2 DEF Held, NoLeak
  <1>11. CASE RefuseCount
    <2>1. /\ pc = "count" /\ pc' = "rejected" /\ heap' = heap \ plan.undoes
          /\ UNCHANGED <<sent, buf>>
      BY <1>11 DEF RefuseCount, Rejected
    <2>2. /\ PlanOK(plan, sent) /\ plan.counts /\ heap \subseteq plan.allocs \cup {"match"}
          /\ "match" \in heap => plan.match # None
      BY <2>1 DEF Held
    <2> HIDE DEF plan
    <2>3. /\ plan.allocs \subseteq {"message", "first"} /\ "message" \in plan.undoes
          /\ "match" \in heap => "match" \in plan.undoes
      BY <2>2 DEF PlanOK
    <2>4. heap' \subseteq plan.allocs /\ heap' \subseteq {"first"}
      BY <2>1, <2>2, <2>3
    <2>5. NoLeak'
      <3>1. heap' \subseteq IF IsReply({"PORT_STATS", "QUEUE"}) THEN {"first"} ELSE {}
        BY <2>2, <2>4, FirstRemains
      <3> QED
        BY <2>1, <3>1 DEF NoLeak, IsReply
    <2> QED
      BY <2>1, <2>5 DEF Held
  <1>12. CASE ReadEntry
    <2>1. /\ pc = "entries" /\ pc' = pc /\ heap' = heap \cup {"entries"}
          /\ UNCHANGED <<sent, buf>>
      BY <1>12 DEF ReadEntry, MoreEntries
    <2>2. /\ plan' = plan /\ PlanOK(plan, sent)
          /\ heap \subseteq plan.allocs \cup {"match", "array", "entries"}
      BY <1>6, <2>1 DEF Held
    <2> HIDE DEF plan
    <2> QED
      BY <2>1, <2>2 DEF Held, NoLeak
  <1>13. CASE RefuseEntry
    <2>1. /\ pc = "entries" /\ plan.entries # None /\ heap' = heap \ plan.frees
          /\ UNCHANGED <<sent, buf>>
      BY <1>13 DEF RefuseEntry, MoreEntries
    <2>2. /\ plan' = plan /\ PlanOK(plan, sent)
          /\ heap \subseteq plan.allocs \cup {"match", "array", "entries"}
      BY <1>6, <2>1 DEF Held
    <2>3. CASE "entry" \in plan.ignores
      <3>1. pc' = pc
        BY <1>13, <2>3, Zenon DEF RefuseEntry
      <3> HIDE DEF plan
      <3> QED
        BY <2>1, <2>2, <3>1 DEF Held, NoLeak
    <2>4. CASE "entry" \notin plan.ignores
      <3>1. pc' = "rejected"
        BY <1>13, <2>4, Zenon DEF RefuseEntry, Rejected
      <3> HIDE DEF plan
      <3>2. /\ {"message", "match", "array", "entries"} \subseteq plan.frees /\ "stats" \notin plan.allocs
            /\ plan.allocs \subseteq {"message", "first", "stats"}
        BY <2>1, <2>2, <2>4 DEF PlanOK
      <3>3. heap' \subseteq plan.allocs /\ heap' \subseteq {"first"}
        BY <2>1, <2>2, <3>2
      <3>4. NoLeak'
        <4>1. heap' \subseteq IF IsReply({"PORT_STATS", "QUEUE"}) THEN {"first"} ELSE {}
          BY <2>2, <3>3, FirstRemains
        <4> QED
          BY <2>1, <4>1 DEF NoLeak, IsReply
      <3> QED
        BY <3>1, <3>4 DEF Held
    <2> QED
      BY <2>3, <2>4
  <1>14. CASE ReadData
    BY <1>14 DEF ReadData, Held, NoLeak
  <1>15. CASE ofl_msg_unpack_finish
    BY <1>15 DEF ofl_msg_unpack_finish, Accept, Held, NoLeak
  <1>16. CASE NextMessage
    BY <1>16 DEF NextMessage, Held, NoLeak
  <1>17. CASE UNCHANGED vars
    <2>1. plan' = plan /\ UNCHANGED <<pc, sent, len, heap>>
      BY <1>6, <1>17 DEF vars
    <2>2. NoLeak' = NoLeak
      BY <2>1 DEF NoLeak, IsReply
    <2> HIDE DEF plan
    <2> QED
      BY <2>1, <2>2 DEF Held
  <1> QED
    BY <1>2, <1>4, <1>5, <1>7, <1>8, <1>9, <1>10, <1>11, <1>12, <1>13, <1>14, <1>15, <1>16, <1>17
       DEF Next

\* Wire and Held hold always.
LEMMA HeldAlways == Spec => [](Wire /\ Held)
  <1>1. Init => Wire /\ Held
    <2>1. Init => Wire
      BY WireIdle DEF Init
    <2>2. Init => Held
      BY DEF Init, Held, NoLeak
    <2> QED
      BY <2>1, <2>2
  <1>2. Wire /\ Held /\ [Next]_vars => (Wire /\ Held)'
    BY WireNext, HeldNext
  <1> QED
    BY <1>1, <1>2, PTL DEF Spec

\* Whatever an ofl_msg_unpack function allocated is released at each of its
\* error exits, before the allocation, behind it, after the match, after the
\* count and inside the list, but for the first block of port and queue
\* statistics (cc_parse_msg.c:1072 and 1106), for every message and however it
\* arrives.
THEOREM NothingLeaks == Spec => []NoLeak
  <1>1. Wire /\ Held => NoLeak
    BY DEF Held
  <1> QED
    BY <1>1, HeldAlways, PTL

-----------------------------------------------------------------------------
(* What ends too early.                                                      *)

\* Nothing that is written changes the size of a buffer.
LEMMA SameSize ==
  /\ \A k : Alloc(k).n = k
  /\ \A b, o, v : Put(b, o, v).n = b.n
  /\ \A b, m, base, s, odd : PutAll(b, m, base, s, odd).n = b.n
  /\ \A b, o, n, ptr : ofl_structs_match_pack(b, o, n, ptr).n = b.n
  BY DEF Alloc, Put, PutAll, ofl_structs_match_pack

\* A list without entries writes nothing.
LEMMA NoEntries ==
  ASSUME NEW b, NEW m, m.items = <<>>, NEW offset
  PROVE  PutEntries(b, m, offset) = b
  <1> DEFINE Iterate(f) == [k \in 0..0 |->
                              IF k = 0 THEN b
                              ELSE Put(f[k-1], offset + Sums(m.items)[k-1], Entry(k, m.items[k]))]
             put == CHOOSE f : f = Iterate(f)
  <1>1. Len(m.items) = 0
    OBVIOUS
  <1>2. PutEntries(b, m, offset) = put[0]
    BY <1>1 DEF PutEntries
  <1>3. PICK f : f = [k \in 0..0 |-> b]
    OBVIOUS
  <1>4. f = Iterate(f)
    BY <1>3
  <1>5. put = Iterate(put)
    BY <1>4
  <1> HIDE DEF put
  <1>6. put[0] = b
    BY <1>5
  <1> QED
    BY <1>2, <1>6

\* Neither do no actions.
LEMMA NoActions ==
  ASSUME NEW b, NEW ptr, NEW data
  PROVE  PutActions(b, <<>>, ptr, data) = b
  <1> DEFINE Iterate(f) == [k \in 0..0 |->
                              IF k = 0 THEN b
                              ELSE ofl_actions_pack(f[k-1], <<>>[k],
                                                    ptr + Sums(ActionLens(<<>>))[k-1], data)]
             put == CHOOSE f : f = Iterate(f)
  <1>1. Len(<<>>) = 0
    OBVIOUS
  <1>2. PutActions(b, <<>>, ptr, data) = put[0]
    BY <1>1 DEF PutActions
  <1>3. PICK f : f = [k \in 0..0 |-> b]
    OBVIOUS
  <1>4. f = Iterate(f)
    BY <1>3
  <1>5. put = Iterate(put)
    BY <1>4
  <1> HIDE DEF put
  <1>6. put[0] = b
    BY <1>5
  <1> QED
    BY <1>2, <1>6

\* Their length.
LEMMA NoLength == Total(<<>>) = 0 /\ ofl_actions_ofp_total_len(<<>>) = 0
  <1>1. PICK l : l = <<>>
    OBVIOUS
  <1>2. l \in Seq(Nat) /\ Len(l) = 0
    BY <1>1
  <1>3. Total(l) = 0
    BY <1>2, SumsAre DEF SumsTo, Total
  <1>4. ActionLens(l) = l
    <2>1. DOMAIN l = {}
      BY <1>1
    <2>2. ActionLens(l) = [i \in {} |-> ofl_actions_ofp_len(l[i])]
      BY <2>1 DEF ActionLens
    <2> QED
      BY <1>1, <2>2
  <1> QED
    BY <1>1, <1>3, <1>4 DEF ofl_actions_ofp_total_len

\* A message without match, entries, actions and data.
Bared(m) == DOMAIN m = MessageMembers /\ m.match = 0 /\ m.items = <<>> /\ m.acts = <<>> /\ m.data = 0

\* Its length, by the type of the message.
ShortestRequest(mp) ==
    CASE mp \in {"FLOW", "AGGREGATE"} -> 56
      [] mp \in {"PORT_STATS", "QUEUE", "GROUP", "METER", "METER_CONFIG"} -> 24
      [] OTHER -> 16
ShortestReply(mp) ==
    CASE mp = "DESC" -> 1072
      [] mp = "AGGREGATE" -> 40
      [] mp = "GROUP_FEATURES" -> 56
      [] mp = "METER_FEATURES" -> 32
      [] OTHER -> 16
Shortest(m) ==
    CASE m.type \in {"ERROR", "GET_CONFIG_REPLY", "SET_CONFIG"} -> 12
      [] m.type \in {"FLOW_REMOVED", "FLOW_MOD"} -> 56
      [] m.type = "PORT_STATUS" -> 80
      [] m.type = "PACKET_IN" -> 34
      [] m.type \in {"GET_ASYNC_REPLY", "SET_ASYNC"} -> 32
      [] m.type \in {"PACKET_OUT", "ROLE_REQUEST", "ROLE_REPLY"} -> 24
      [] m.type \in {"GROUP_MOD", "TABLE_MOD", "METER_MOD", "QUEUE_GET_CONFIG_REPLY"} -> 16
      [] m.type = "PORT_MOD" -> 40
      [] m.type = "MULTIPART_REQUEST" -> ShortestRequest(m.mp)
      [] m.type = "MULTIPART_REPLY" -> ShortestReply(m.mp)
      [] OTHER -> 8

\* The body of a request,
LEMMA RequestSize ==
  ASSUME NEW m, Bared(m)
  PROVE  RequestBody(m).n = ShortestRequest(m.mp)
  <1>1. Body = 16
    BY Sizes DEF Body
  <1>2. CASE m.mp \in {"FLOW", "AGGREGATE"}
    <2>1. RequestBody(m) = ofl_msg_pack_multipart_request_flow(m)
      BY <1>2 DEF RequestBody
    <2>2. ofl_msg_pack_multipart_request_flow(m).n = 16 + 40 + 0
      BY <1>1, Sizes, SameSize DEF ofl_msg_pack_multipart_request_flow, Bared
    <2> QED
      BY <1>2, <2>1, <2>2 DEF ShortestRequest
  <1>3. CASE m.mp = "PORT_STATS"
    <2>1. RequestBody(m) = ofl_msg_pack_multipart_request_port(m)
      BY <1>3 DEF RequestBody
    <2>2. ofl_msg_pack_multipart_request_port(m).n = 16 + 8
      BY <1>1, Sizes, SameSize DEF ofl_msg_pack_multipart_request_port, PutBody
    <2> QED
      BY <1>3, <2>1, <2>2 DEF ShortestRequest
  <1>4. CASE m.mp = "QUEUE"
    <2>1. RequestBody(m) = ofl_msg_pack_multipart_request_queue(m)
      BY <1>4 DEF RequestBody
    <2>2. ofl_msg_pack_multipart_request_queue(m).n = 16 + 8
      BY <1>1, Sizes, SameSize DEF ofl_msg_pack_multipart_request_queue, PutBody
    <2> QED
      BY <1>4, <2>1, <2>2 DEF ShortestRequest
  <1>5. CASE m.mp = "GROUP"
    <2>1. RequestBody(m) = ofl_msg_pack_multipart_request_group(m)
      BY <1>5 DEF RequestBody
    <2>2. ofl_msg_pack_multipart_request_group(m).n = 16 + 8
      BY <1>1, Sizes, SameSize DEF ofl_msg_pack_multipart_request_group, PutBody
    <2> QED
      BY <1>5, <2>1, <2>2 DEF ShortestRequest
  <1>6. CASE m.mp \in {"METER", "METER_CONFIG"}
    <2>1. RequestBody(m) = ofl_msg_pack_meter_multipart_request(m)
      BY <1>6 DEF RequestBody
    <2>2. ofl_msg_pack_meter_multipart_request(m).n = 16 + 8
      BY <1>1, Sizes, SameSize DEF ofl_msg_pack_meter_multipart_request, PutBody
    <2> QED
      BY <1>6, <2>1, <2>2 DEF ShortestRequest
  <1>7. CASE m.mp = "TABLE_FEATURES"
    <2>1. RequestBody(m) = PutEntries(Alloc(16 + 0), m, 16)
      BY <1>1, <1>7, NoLength
         DEF RequestBody, ofl_msg_pack_multipart_request_table_features, PutList, Bared
    <2>2. PutEntries(Alloc(16 + 0), m, 16) = Alloc(16 + 0)
      BY NoEntries DEF Bared
    <2> QED
      BY <1>7, <2>1, <2>2, SameSize DEF ShortestRequest
  <1>8. CASE m.mp \notin {"FLOW", "AGGREGATE", "PORT_STATS", "QUEUE", "GROUP", "METER", "METER_CONFIG",
                        "TABLE_FEATURES"}
    <2>1. RequestBody(m) = Alloc(16)
      BY <1>1, <1>8 DEF RequestBody, ofl_msg_pack_multipart_request_empty
    <2> QED
      BY <1>8, <2>1, SameSize DEF ShortestRequest
  <1> QED
    BY <1>2, <1>3, <1>4, <1>5, <1>6, <1>7, <1>8

\* and of a reply.
LEMMA ReplySize ==
  ASSUME NEW m, Bared(m), GoodReply(m.mp, m.items)
  PROVE  ReplyBody(m).n = ShortestReply(m.mp)
  <1>1. Body = 16
    BY Sizes DEF Body
  <1>2. PutList(m).n = 16
    <2>1. PutList(m) = PutEntries(Alloc(16 + 0), m, 16)
      BY <1>1, NoLength DEF PutList, Bared
    <2>2. PutEntries(Alloc(16 + 0), m, 16) = Alloc(16 + 0)
      BY NoEntries DEF Bared
    <2> QED
      BY <2>1, <2>2, SameSize
  <1>3. ASSUME NEW c \in Nat PROVE PutEntries(Fixed(m, c), m, Body).n = 16
    <2>1. PutEntries(Fixed(m, c), m, Body) = Fixed(m, c)
      BY NoEntries DEF Bared
    <2>2. Len(m.items) = 0
      BY DEF Bared
    <2>3. 16 + 0 * c = 16
      OBVIOUS
    <2>4. Fixed(m, c) = Alloc(16)
      BY <1>1, <2>2, <2>3 DEF Fixed
    <2> QED
      BY <2>1, <2>4, SameSize
  <1>4. CASE m.mp = "FLOW"
    BY <1>2, <1>4 DEF ReplyBody, ofl_msg_pack_multipart_reply_flow, ShortestReply
  <1>5. CASE m.mp = "TABLE_FEATURES"
    BY <1>2, <1>5 DEF ReplyBody, ofl_msg_pack_multipart_reply_table_features, ShortestReply
  <1>6. CASE m.mp = "GROUP"
    BY <1>2, <1>6 DEF ReplyBody, ofl_msg_pack_multipart_reply_group, ShortestReply
  <1>7. CASE m.mp = "GROUP_DESC"
    BY <1>2, <1>7 DEF ReplyBody, ofl_msg_pack_multipart_reply_group_desc, ShortestReply
  <1>8. CASE m.mp = "METER"
    BY <1>2, <1>8 DEF ReplyBody, ofl_msg_pack_multipart_reply_meter_stats, ShortestReply
  <1>9. CASE m.mp = "METER_CONFIG"
    BY <1>2, <1>9 DEF ReplyBody, ofl_msg_pack_multipart_reply_meter_conf, ShortestReply
  <1>10. CASE m.mp = "TABLE"
    <2>1. /\ ReplyBody(m) = PutEntries(Fixed(m, sizeof.ofp_table_stats), m, Body)
          /\ sizeof.ofp_table_stats \in Nat
      BY <1>10, Sizes DEF ReplyBody, ofl_msg_pack_multipart_reply_table
    <2> QED
      BY <1>3, <1>10, <2>1 DEF ShortestReply
  <1>11. CASE m.mp = "PORT_STATS"
    <2>1. /\ ReplyBody(m) = PutEntries(Fixed(m, sizeof.ofp_port_stats), m, Body)
          /\ sizeof.ofp_port_stats \in Nat
      BY <1>11, Sizes DEF ReplyBody, ofl_msg_pack_multipart_reply_port
    <2> QED
      BY <1>3, <1>11, <2>1 DEF ShortestReply
  <1>12. CASE m.mp = "QUEUE"
    <2>1. /\ ReplyBody(m) = PutEntries(Fixed(m, sizeof.ofp_queue_stats), m, Body)
          /\ sizeof.ofp_queue_stats \in Nat
      BY <1>12, Sizes DEF ReplyBody, ofl_msg_pack_multipart_reply_queue
    <2> QED
      BY <1>3, <1>12, <2>1 DEF ShortestReply
  <1>13. CASE m.mp = "PORT_DESC"
    <2>1. /\ ReplyBody(m) = PutEntries(Fixed(m, sizeof.ofp_port), m, Body)
          /\ sizeof.ofp_port \in Nat
      BY <1>13, Sizes DEF ReplyBody, ofl_msg_pack_multipart_reply_port_status_desc
    <2> QED
      BY <1>3, <1>13, <2>1 DEF ShortestReply
  <1>14. CASE m.mp = "DESC"
    <2>1. ReplyBody(m) = ofl_msg_pack_multipart_reply_desc(m)
      BY <1>14 DEF ReplyBody
    <2>2. ofl_msg_pack_multipart_reply_desc(m).n = 16 + 1056
      BY <1>1, Sizes, SameSize DEF ofl_msg_pack_multipart_reply_desc, PutBody
    <2> QED
      BY <1>14, <2>1, <2>2 DEF ShortestReply
  <1>15. CASE m.mp = "AGGREGATE"
    <2>1. ReplyBody(m) = ofl_msg_pack_multipart_reply_aggregate(m)
      BY <1>15 DEF ReplyBody
    <2>2. ofl_msg_pack_multipart_reply_aggregate(m).n = 16 + 24
      BY <1>1, Sizes, SameSize DEF ofl_msg_pack_multipart_reply_aggregate, PutBody
    <2> QED
      BY <1>15, <2>1, <2>2 DEF ShortestReply
  <1>16. CASE m.mp = "GROUP_FEATURES"
    <2>1. ReplyBody(m) = ofl_msg_pack_multipart_reply_group_features(m)
      BY <1>16 DEF ReplyBody
    <2>2. ofl_msg_pack_multipart_reply_group_features(m).n = 16 + 40
      BY <1>1, Sizes, SameSize DEF ofl_msg_pack_multipart_reply_group_features, PutBody
    <2> QED
      BY <1>16, <2>1, <2>2 DEF ShortestReply
  <1>17. CASE m.mp = "METER_FEATURES"
    <2>1. ReplyBody(m) = ofl_msg_pack_multipart_reply_meter_features(m)
      BY <1>17 DEF ReplyBody
    <2>2. ofl_msg_pack_multipart_reply_meter_features(m).n = 16 + 16
      BY <1>1, Sizes, SameSize DEF ofl_msg_pack_multipart_reply_meter_features, PutBody
    <2> QED
      BY <1>17, <2>1, <2>2 DEF ShortestReply
  <1> QED
    BY <1>4, <1>5, <1>6, <1>7, <1>8, <1>9, <1>10, <1>11,
       <1>12, <1>13, <1>14, <1>15, <1>16, <1>17 DEF GoodReply

\* Every message but those that are not checked at all.
Never == {"FEATURES_REPLY", "QUEUE_GET_CONFIG_REQUEST"}
LEMMA BareSize ==
  ASSUME NEW m, Bared(m), m.type = "MULTIPART_REPLY" => GoodReply(m.mp, m.items),
         m.type \notin Never
  PROVE  Packed(m).n = Shortest(m)
  <1>1. /\ DOMAIN m = MessageMembers /\ m.match = 0 /\ m.items = <<>> /\ m.acts = <<>>
        /\ m.data = 0
    BY DEF Bared
  <1>2. CASE m.type = "ERROR"
    <2>1. Packed(m) = ofl_msg_pack_error(m) /\ Shortest(m) = 12
      BY <1>2 DEF Packed, Shortest
    <2>2. ofl_msg_pack_error(m).n = 12 + 0
      BY <1>1, Sizes, SameSize DEF ofl_msg_pack_error
    <2> QED
      BY <2>1, <2>2
  <1>3. CASE m.type \in {"ECHO_REQUEST", "ECHO_REPLY"}
    <2>1. Packed(m) = ofl_msg_pack_echo(m) /\ Shortest(m) = 8
      BY <1>3 DEF Packed, Shortest
    <2>2. ofl_msg_pack_echo(m).n = 8 + 0
      BY <1>1, Sizes, SameSize DEF ofl_msg_pack_echo
    <2> QED
      BY <2>1, <2>2
  <1>4. CASE m.type = "GET_CONFIG_REPLY"
    <2>1. Packed(m) = ofl_msg_pack_get_config_reply(m) /\ Shortest(m) = 12
      BY <1>4 DEF Packed, Shortest
    <2>2. ofl_msg_pack_get_config_reply(m).n = 12
      BY <1>1, Sizes, SameSize DEF ofl_msg_pack_get_config_reply
    <2> QED
      BY <2>1, <2>2
  <1>5. CASE m.type = "SET_CONFIG"
    <2>1. Packed(m) = ofl_msg_pack_set_config(m) /\ Shortest(m) = 12
      BY <1>5 DEF Packed, Shortest
    <2>2. ofl_msg_pack_set_config(m).n = 12
      BY <1>1, Sizes, SameSize DEF ofl_msg_pack_set_config
    <2> QED
      BY <2>1, <2>2
  <1>6. CASE m.type = "FLOW_REMOVED"
    <2>1. Packed(m) = ofl_msg_pack_flow_removed(m) /\ Shortest(m) = 56
      BY <1>6 DEF Packed, Shortest
    <2>2. ROUND_UP((56 - 4) + 0, 8) = 56
      BY DEF ROUND_UP
    <2>3. ofl_msg_pack_flow_removed(m).n = ROUND_UP((56 - 4) + 0, 8)
      BY <1>1, Sizes, SameSize DEF ofl_msg_pack_flow_removed
    <2> QED
      BY <2>1, <2>2, <2>3
  <1>7. CASE m.type = "PORT_STATUS"
    <2>1. Packed(m) = ofl_msg_pack_port_status(m) /\ Shortest(m) = 80
      BY <1>7 DEF Packed, Shortest
    <2>2. ofl_msg_pack_port_status(m).n = 80
      BY <1>1, PortStatusPacks DEF Buffer
    <2> QED
      BY <2>1, <2>2
  <1>8. CASE m.type \in {"GET_ASYNC_REPLY", "SET_ASYNC"}
    <2>1. Packed(m) = ofl_msg_pack_async_config(m) /\ Shortest(m) = 32
      BY <1>8 DEF Packed, Shortest
    <2>2. ofl_msg_pack_async_config(m).n = 32
      BY <1>1, Sizes, SameSize DEF ofl_msg_pack_async_config
    <2> QED
      BY <2>1, <2>2
  <1>9. CASE m.type = "PACKET_OUT"
    <2>1. Packed(m) = ofl_msg_pack_packet_out(m) /\ Shortest(m) = 24
      BY <1>9 DEF Packed, Shortest
    <2>2. PICK b : b.n = 24 + 0 + 0
                   /\ ofl_msg_pack_packet_out(m) = Put(PutActions(b, <<>>, 24, 0), 24 + 0, Data(0))
      BY <1>1, Sizes, SameSize, NoLength DEF ofl_msg_pack_packet_out
    <2>3. PutActions(b, <<>>, 24, 0) = b
      BY NoActions
    <2> QED
      BY <2>1, <2>2, <2>3, SameSize
  <1>10. CASE m.type = "FLOW_MOD"
    <2>1. Packed(m) = ofl_msg_pack_flow_mod(m) /\ Shortest(m) = 56
      BY <1>10 DEF Packed, Shortest
    <2>2. InstructionsAt(m) = 56
      BY <1>1, Sizes DEF InstructionsAt, ROUND_UP
    <2>3. PICK b : b.n = 56 + 0 /\ ofl_msg_pack_flow_mod(m) = PutEntries(b, m, 56)
      BY <1>1, <2>2, Sizes, SameSize, NoLength DEF ofl_msg_pack_flow_mod
    <2>4. PutEntries(b, m, 56) = b
      BY <1>1, NoEntries
    <2> QED
      BY <2>1, <2>2, <2>3, <2>4
  <1>11. CASE m.type = "GROUP_MOD"
    <2>1. Packed(m) = ofl_msg_pack_group_mod(m) /\ Shortest(m) = 16
      BY <1>11 DEF Packed, Shortest
    <2>2. PICK b : b.n = 16 + 0 /\ ofl_msg_pack_group_mod(m) = PutEntries(b, m, 16)
      BY <1>1, Sizes, SameSize, NoLength DEF ofl_msg_pack_group_mod
    <2>3. PutEntries(b, m, 16) = b
      BY <1>1, NoEntries
    <2> QED
      BY <2>1, <2>2, <2>3
  <1>12. CASE m.type = "PORT_MOD"
    <2>1. Packed(m) = ofl_msg_pack_port_mod(m) /\ Shortest(m) = 40
      BY <1>12 DEF Packed, Shortest
    <2>2. ofl_msg_pack_port_mod(m).n = 40
      BY <1>1, Sizes, SameSize DEF ofl_msg_pack_port_mod
    <2> QED
      BY <2>1, <2>2
  <1>13. CASE m.type = "TABLE_MOD"
    <2>1. Packed(m) = ofl_msg_pack_table_mod(m) /\ Shortest(m) = 16
      BY <1>13 DEF Packed, Shortest
    <2>2. ofl_msg_pack_table_mod(m).n = 16
      BY <1>1, Sizes, SameSize DEF ofl_msg_pack_table_mod
    <2> QED
      BY <2>1, <2>2
  <1>14. CASE m.type = "METER_MOD"
    <2>1. Packed(m) = ofl_msg_pack_meter_mod(m) /\ Shortest(m) = 16
      BY <1>14 DEF Packed, Shortest
    <2>2. PICK b : b.n = 16 + 0 /\ ofl_msg_pack_meter_mod(m) = PutEntries(b, m, 16)
      BY <1>1, Sizes, SameSize, NoLength DEF ofl_msg_pack_meter_mod
    <2>3. PutEntries(b, m, 16) = b
      BY <1>1, NoEntries
    <2> QED
      BY <2>1, <2>2, <2>3
  <1>15. CASE m.type = "QUEUE_GET_CONFIG_REPLY"
    <2>1. Packed(m) = ofl_msg_pack_queue_get_config_reply(m) /\ Shortest(m) = 16
      BY <1>15 DEF Packed, Shortest
    <2>2. PICK b : b.n = 16 + 0 /\ ofl_msg_pack_queue_get_config_reply(m) = PutEntries(b, m, 16)
      BY <1>1, Sizes, SameSize, NoLength DEF ofl_msg_pack_queue_get_config_reply
    <2>3. PutEntries(b, m, 16) = b
      BY <1>1, NoEntries
    <2> QED
      BY <2>1, <2>2, <2>3
  <1>16. CASE m.type \in {"ROLE_REQUEST", "ROLE_REPLY"}
    <2>1. Packed(m) = ofl_msg_pack_role_request(m) /\ Shortest(m) = 24
      BY <1>16 DEF Packed, Shortest
    <2>2. ofl_msg_pack_role_request(m).n = 24
      BY <1>1, Sizes, SameSize DEF ofl_msg_pack_role_request
    <2> QED
      BY <2>1, <2>2
  <1>17. CASE m.type = "MULTIPART_REQUEST"
    <2>1. PICK r : Packed(m) = PutAll(RequestBody(m), r, 0, ofp_multipart, Plain)
      BY <1>17 DEF Packed, ofl_msg_pack_multipart_request, PutMultipart
    <2>2. RequestBody(m).n = Shortest(m)
      BY <1>17, RequestSize DEF Shortest
    <2> QED
      BY <2>1, <2>2, SameSize
  <1>18. CASE m.type = "MULTIPART_REPLY"
    <2>1. PICK r : Packed(m) = PutAll(ReplyBody(m), r, 0, ofp_multipart, Plain)
      BY <1>18 DEF Packed, ofl_msg_pack_multipart_reply, PutMultipart
    <2>2. ReplyBody(m).n = Shortest(m)
      BY <1>18, ReplySize DEF Shortest
    <2> QED
      BY <2>1, <2>2, SameSize
  <1>19. CASE m.type \notin {"ERROR", "ECHO_REQUEST", "ECHO_REPLY", "GET_CONFIG_REPLY",
                           "SET_CONFIG", "FLOW_REMOVED", "PORT_STATUS", "GET_ASYNC_REPLY",
                           "SET_ASYNC", "PACKET_OUT", "FLOW_MOD", "GROUP_MOD", "PORT_MOD",
                           "TABLE_MOD", "METER_MOD", "QUEUE_GET_CONFIG_REPLY", "ROLE_REQUEST",
                           "ROLE_REPLY", "MULTIPART_REQUEST", "MULTIPART_REPLY", "PACKET_IN"}
    <2>1. Packed(m) = ofl_msg_pack_empty(m) /\ Shortest(m) = 8
      BY <1>19 DEF Packed, Shortest, Never
    <2>2. ofl_msg_pack_empty(m).n = 8
      BY Sizes, SameSize DEF ofl_msg_pack_empty
    <2> QED
      BY <2>1, <2>2
  <1>20. CASE m.type = "PACKET_IN"
    <2>1. Packed(m) = ofl_msg_pack_packet_in(m) /\ Shortest(m) = 34
      BY <1>20 DEF Packed, Shortest
    <2>2. PacketInLen(m) = 34
      <3>1. ROUND_UP(0 - 4, 8) = 0
        BY DEF ROUND_UP
      <3>2. PacketInLen(m) = 32 + ROUND_UP(0 - 4, 8) + 0 + 2
        BY <1>1, Sizes DEF PacketInLen
      <3> QED
        BY <3>1, <3>2
    <2>3. ofl_msg_pack_packet_in(m).n = PacketInLen(m)
      BY SameSize DEF ofl_msg_pack_packet_in
    <2> QED
      BY <2>1, <2>2, <2>3
  <1> QED
    BY <1>2, <1>3, <1>4, <1>5, <1>6, <1>7, <1>8, <1>9, <1>10, <1>11,
       <1>12, <1>13, <1>14, <1>15, <1>16, <1>17, <1>18, <1>19, <1>20

\* BareLength is that length.
LEMMA BareIsShortest ==
  ASSUME NEW m, GoodMsg(m), m.type \notin Never
  PROVE  BareLength(m) = Shortest(m)
  <1>1. PICK r : r = [m EXCEPT !.match = 0, !.items = <<>>, !.acts = <<>>, !.data = 0]
    OBVIOUS
  <1>2. DOMAIN m = MessageMembers
    BY DEF GoodMsg, Parts
  <1>3. Bared(r) /\ r.type = m.type /\ r.mp = m.mp
    BY <1>1, <1>2 DEF Bared, MessageMembers
  <1>4. r.type = "MULTIPART_REPLY" => GoodReply(r.mp, r.items)
    <2>1. SUFFICES ASSUME m.type = "MULTIPART_REPLY" PROVE GoodReply(r.mp, r.items)
      BY <1>3
    <2>2. GoodReply(m.mp, m.items)
      BY <2>1 DEF GoodMsg
    <2>3. Len(r.items) = 0
      BY <1>3 DEF Bared
    <2>4. \A i \in 1..Len(r.items) : FALSE
      BY <2>3
    <2> QED
      BY <1>3, <2>2, <2>4 DEF GoodReply
  <1>5. Packed(r).n = Shortest(r)
    BY <1>3, <1>4, BareSize
  <1>6. Shortest(r) = Shortest(m)
    BY <1>3 DEF Shortest
  <1>7. BareLength(m) = Packed(r).n
    BY <1>1, Zenon DEF BareLength
  <1> QED
    BY <1>5, <1>6, <1>7

\* A plan refuses a buffer of this size, or takes it up to the header of the
\* match at offset 48 and looks at what becomes of the match.
Refuses(p, size) == size < p.need \/ p.invalid
Clips(p) == p.need = 48 /\ p.take = 48 /\ p.match = 52 /\ p.ignores = {}

\* The common part of a multipart message does not change that.
LEMMA WithMultipartCut ==
  ASSUME NEW b, NEW p, DOMAIN p = PlanMembers, NEW size
  PROVE  /\ Refuses(p, size) => Refuses(WithMultipart(b, p), size)
         /\ Clips(p) => Clips(WithMultipart(b, p))
  <1>1. PICK x : WithMultipart(b, p) = [p EXCEPT !.got = x]
    BY DEF WithMultipart
  <1>2. PICK q : q = [p EXCEPT !.got = x]
    OBVIOUS
  <1>3. /\ q.need = p.need /\ q.take = p.take /\ q.invalid = p.invalid /\ q.match = p.match
        /\ q.ignores = p.ignores
    BY <1>2 DEF PlanMembers
  <1> QED
    BY <1>1, <1>2, <1>3 DEF Refuses, Clips

\* A request that ends inside its body.
LEMMA RequestCut ==
  ASSUME NEW b, NEW m, m.mp = MpOf(b), NEW size \in Nat, size >= 16, size < ShortestRequest(m.mp)
  PROVE  \/ Refuses(ofl_msg_unpack_multipart_request(b), size)
         \/ m.mp \in {"FLOW", "AGGREGATE"} /\ Clips(ofl_msg_unpack_multipart_request(b))
  <1>1. PICK x : x = MpOf(b)
    OBVIOUS
  <1>2. Body = 16
    BY Sizes DEF Body
  <1>3. CASE x \in {"FLOW", "AGGREGATE"}
    <2>1. PICK p : p = ofl_msg_unpack_multipart_request_flow(b)
      OBVIOUS
    <2>2. ofl_msg_unpack_multipart_request(b) = WithMultipart(b, p)
      BY <1>1, <1>3, <2>1 DEF ofl_msg_unpack_multipart_request
    <2>3. DOMAIN p = PlanMembers /\ Clips(p)
      BY <1>2, <2>1, Sizes DEF ofl_msg_unpack_multipart_request_flow, Reads, PlanMembers, Clips
    <2> QED
      BY <1>1, <1>3, <2>2, <2>3, WithMultipartCut
  <1>4. CASE x = "PORT_STATS"
    <2>1. PICK p : p = ofl_msg_unpack_multipart_request_port(b)
      OBVIOUS
    <2>2. ofl_msg_unpack_multipart_request(b) = WithMultipart(b, p)
      BY <1>1, <1>4, <2>1 DEF ofl_msg_unpack_multipart_request
    <2>3. DOMAIN p = PlanMembers /\ p.need = 24
      BY <1>2, <2>1, Sizes DEF ofl_msg_unpack_multipart_request_port, GetBody, Reads, PlanMembers
    <2>4. size < 24
      BY <1>1, <1>4 DEF ShortestRequest
    <2> QED
      BY <2>2, <2>3, <2>4, WithMultipartCut DEF Refuses
  <1>5. CASE x = "QUEUE"
    <2>1. PICK p : p = ofl_msg_unpack_multipart_request_queue(b)
      OBVIOUS
    <2>2. ofl_msg_unpack_multipart_request(b) = WithMultipart(b, p)
      BY <1>1, <1>5, <2>1 DEF ofl_msg_unpack_multipart_request
    <2>3. DOMAIN p = PlanMembers /\ p.need = 24
      BY <1>2, <2>1, Sizes DEF ofl_msg_unpack_multipart_request_queue, GetBody, Reads, PlanMembers
    <2>4. size < 24
      BY <1>1, <1>5 DEF ShortestRequest
    <2> QED
      BY <2>2, <2>3, <2>4, WithMultipartCut DEF Refuses
  <1>6. CASE x = "GROUP"
    <2>1. PICK p : p = ofl_msg_unpack_multipart_request_group(b)
      OBVIOUS
    <2>2. ofl_msg_unpack_multipart_request(b) = WithMultipart(b, p)
      BY <1>1, <1>6, <2>1 DEF ofl_msg_unpack_multipart_request
    <2>3. DOMAIN p = PlanMembers /\ p.need = 24
      BY <1>2, <2>1, Sizes DEF ofl_msg_unpack_multipart_request_group, GetBody, Reads, PlanMembers
    <2>4. size < 24
      BY <1>1, <1>6 DEF ShortestRequest
    <2> QED
      BY <2>2, <2>3, <2>4, WithMultipartCut DEF Refuses
  <1>7. CASE x \in {"METER", "METER_CONFIG"}
    <2>1. PICK p : p = ofl_msg_unpack_meter_multipart_request(b)
      OBVIOUS
    <2>2. ofl_msg_unpack_multipart_request(b) = WithMultipart(b, p)
      BY <1>1, <1>7, <2>1 DEF ofl_msg_unpack_multipart_request
    <2>3. DOMAIN p = PlanMembers /\ p.need = 24
      BY <1>2, <2>1, Sizes DEF ofl_msg_unpack_meter_multipart_request, GetBody, Reads, PlanMembers
    <2>4. size < 24
      BY <1>1, <1>7 DEF ShortestRequest
    <2> QED
      BY <2>2, <2>3, <2>4, WithMultipartCut DEF Refuses
  <1>8. CASE x \notin {"FLOW", "AGGREGATE", "PORT_STATS", "QUEUE", "GROUP", "METER", "METER_CONFIG"}
    <2>1. ShortestRequest(m.mp) = 16
      BY <1>1, <1>8 DEF ShortestRequest
    <2> QED
      BY <2>1
  <1> QED
    BY <1>3, <1>4, <1>5, <1>6, <1>7, <1>8

\* A reply that ends inside its body.
LEMMA ReplyCut ==
  ASSUME NEW b, NEW m, m.mp = MpOf(b), NEW size \in Nat, size >= 16, size < ShortestReply(m.mp)
  PROVE  Refuses(ofl_msg_unpack_multipart_reply(b), size)
  <1>1. PICK x : x = MpOf(b)
    OBVIOUS
  <1>2. Body = 16
    BY Sizes DEF Body
  <1>3. CASE x = "DESC"
    <2>1. PICK p : p = ofl_msg_unpack_reply_desc(b)
      OBVIOUS
    <2>2. ofl_msg_unpack_multipart_reply(b) = WithMultipart(b, p)
      BY <1>1, <1>3, <2>1 DEF ofl_msg_unpack_multipart_reply
    <2>3. DOMAIN p = PlanMembers /\ p.need = 1072
      BY <1>2, <2>1, Sizes
         DEF ofl_msg_unpack_reply_desc, Reads, PlanMembers
    <2>4. size < 1072
      BY <1>1, <1>3 DEF ShortestReply
    <2> QED
      BY <2>2, <2>3, <2>4, WithMultipartCut DEF Refuses
  <1>4. CASE x = "AGGREGATE"
    <2>1. PICK p : p = ofl_msg_unpack_multipart_reply_aggregate(b)
      OBVIOUS
    <2>2. ofl_msg_unpack_multipart_reply(b) = WithMultipart(b, p)
      BY <1>1, <1>4, <2>1 DEF ofl_msg_unpack_multipart_reply
    <2>3. DOMAIN p = PlanMembers /\ p.need = 40
      BY <1>2, <2>1, Sizes
         DEF ofl_msg_unpack_multipart_reply_aggregate, GetBody, Reads, PlanMembers
    <2>4. size < 40
      BY <1>1, <1>4 DEF ShortestReply
    <2> QED
      BY <2>2, <2>3, <2>4, WithMultipartCut DEF Refuses
  <1>5. CASE x = "GROUP_FEATURES"
    <2>1. PICK p : p = ofl_msg_unpack_multipart_reply_group_features(b)
      OBVIOUS
    <2>2. ofl_msg_unpack_multipart_reply(b) = WithMultipart(b, p)
      BY <1>1, <1>5, <2>1 DEF ofl_msg_unpack_multipart_reply
    <2>3. DOMAIN p = PlanMembers /\ p.need = 56
      BY <1>2, <2>1, Sizes
         DEF ofl_msg_unpack_multipart_reply_group_features, GetBody, Reads, PlanMembers
    <2>4. size < 56
      BY <1>1, <1>5 DEF ShortestReply
    <2> QED
      BY <2>2, <2>3, <2>4, WithMultipartCut DEF Refuses
  <1>6. CASE x = "METER_FEATURES"
    <2>1. PICK p : p = [Reads(Body, Body, Plain) EXCEPT !.invalid = TRUE]
      OBVIOUS
    <2>2. ofl_msg_unpack_multipart_reply(b) = WithMultipart(b, p)
      BY <1>1, <1>6, <2>1 DEF ofl_msg_unpack_multipart_reply
    <2>3. DOMAIN p = PlanMembers /\ p.invalid
      BY <2>1 DEF Reads, PlanMembers
    <2> QED
      BY <2>2, <2>3, WithMultipartCut DEF Refuses
  <1>7. CASE x \notin {"DESC", "AGGREGATE", "GROUP_FEATURES", "METER_FEATURES"}
    <2>1. ShortestReply(m.mp) = 16
      BY <1>1, <1>7 DEF ShortestReply
    <2> QED
      BY <2>1
  <1> QED
    BY <1>3, <1>4, <1>5, <1>6, <1>7

\* Any message that ends inside its structure, at a length that is checked.
LEMMA PlanCut ==
  ASSUME NEW b, NEW size \in Nat, size >= 9, Buffer(b, size), NEW m, Named(b, m),
         ~Unchecked(m, size), size < Shortest(m)
  PROVE  Refuses(Plan(b), size) \/ (HasMatch(m) /\ Clips(Plan(b)))
  <1>1. PICK t : t = m.type
    OBVIOUS
  <1>2. NameOf(Bytes(b, ofp_header.type[1], 1)) = t
    BY <1>1, TypeRead
  <1>3. CASE t = "ERROR"
    <2>1. Plan(b) = ofl_msg_unpack_error(b)
      BY <1>2, <1>3 DEF Plan, Empty
    <2>2. ofl_msg_unpack_error(b).need = 12
      BY Sizes DEF ofl_msg_unpack_error, Reads
    <2>3. size < 12
      BY <1>1, <1>3 DEF Shortest
    <2> QED
      BY <2>1, <2>2, <2>3 DEF Refuses
  <1>4. CASE t = "GET_CONFIG_REPLY"
    <2>1. Plan(b) = ofl_msg_unpack_get_config_reply(b)
      BY <1>2, <1>4 DEF Plan, Empty
    <2>2. ofl_msg_unpack_get_config_reply(b).need = 12
      BY Sizes DEF ofl_msg_unpack_get_config_reply, Reads
    <2>3. size < 12
      BY <1>1, <1>4 DEF Shortest
    <2> QED
      BY <2>1, <2>2, <2>3 DEF Refuses
  <1>5. CASE t = "SET_CONFIG"
    <2>1. Plan(b) = ofl_msg_unpack_set_config(b)
      BY <1>2, <1>5 DEF Plan, Empty
    <2>2. ofl_msg_unpack_set_config(b).need = 12
      BY Sizes DEF ofl_msg_unpack_set_config, Reads
    <2>3. size < 12
      BY <1>1, <1>5 DEF Shortest
    <2> QED
      BY <2>1, <2>2, <2>3 DEF Refuses
  <1>6. CASE t = "PORT_STATUS"
    <2>1. Plan(b) = ofl_msg_unpack_port_status(b)
      BY <1>2, <1>6 DEF Plan, Empty
    <2>2. ofl_msg_unpack_port_status(b).need = 80
      BY Sizes DEF ofl_msg_unpack_port_status, Reads
    <2>3. size < 80
      BY <1>1, <1>6 DEF Shortest
    <2> QED
      BY <2>1, <2>2, <2>3 DEF Refuses
  <1>7. CASE t \in {"GET_ASYNC_REPLY", "SET_ASYNC"}
    <2>1. Plan(b) = ofl_msg_unpack_async_config(b)
      BY <1>2, <1>7 DEF Plan, Empty
    <2>2. ofl_msg_unpack_async_config(b).need = 32
      BY Sizes DEF ofl_msg_unpack_async_config, Reads
    <2>3. size < 32
      BY <1>1, <1>7 DEF Shortest
    <2> QED
      BY <2>1, <2>2, <2>3 DEF Refuses
  <1>8. CASE t = "PACKET_OUT"
    <2>1. Plan(b) = ofl_msg_unpack_packet_out(b)
      BY <1>2, <1>8 DEF Plan, Empty
    <2>2. ofl_msg_unpack_packet_out(b).need = 24
      BY Sizes DEF ofl_msg_unpack_packet_out, Reads
    <2>3. size < 24
      BY <1>1, <1>8 DEF Shortest
    <2> QED
      BY <2>1, <2>2, <2>3 DEF Refuses
  <1>9. CASE t = "GROUP_MOD"
    <2>1. Plan(b) = ofl_msg_unpack_group_mod(b)
      BY <1>2, <1>9 DEF Plan, Empty
    <2>2. ofl_msg_unpack_group_mod(b).need = 16
      BY Sizes DEF ofl_msg_unpack_group_mod, Reads
    <2>3. size < 16
      BY <1>1, <1>9 DEF Shortest
    <2> QED
      BY <2>1, <2>2, <2>3 DEF Refuses
  <1>10. CASE t = "PORT_MOD"
    <2>1. Plan(b) = ofl_msg_unpack_port_mod(b)
      BY <1>2, <1>10 DEF Plan, Empty
    <2>2. ofl_msg_unpack_port_mod(b).need = 40
      BY Sizes DEF ofl_msg_unpack_port_mod, Reads
    <2>3. size < 40
      BY <1>1, <1>10 DEF Shortest
    <2> QED
      BY <2>1, <2>2, <2>3 DEF Refuses
  <1>11. CASE t = "TABLE_MOD"
    <2>1. Plan(b) = ofl_msg_unpack_table_mod(b)
      BY <1>2, <1>11 DEF Plan, Empty
    <2>2. ofl_msg_unpack_table_mod(b).need = 16
      BY Sizes DEF ofl_msg_unpack_table_mod, Reads
    <2>3. size < 16
      BY <1>1, <1>11 DEF Shortest
    <2> QED
      BY <2>1, <2>2, <2>3 DEF Refuses
  <1>12. CASE t = "METER_MOD"
    <2>1. Plan(b) = ofl_msg_unpack_meter_mod(b)
      BY <1>2, <1>12 DEF Plan, Empty
    <2>2. ofl_msg_unpack_meter_mod(b).need = 16
      BY Sizes DEF ofl_msg_unpack_meter_mod, Reads
    <2>3. size < 16
      BY <1>1, <1>12 DEF Shortest
    <2> QED
      BY <2>1, <2>2, <2>3 DEF Refuses
  <1>13. CASE t \in {"ROLE_REQUEST", "ROLE_REPLY"}
    <2>1. Plan(b) = ofl_msg_unpack_role_request(b)
      BY <1>2, <1>13 DEF Plan, Empty
    <2>2. ofl_msg_unpack_role_request(b).need = 24
      BY Sizes DEF ofl_msg_unpack_role_request, Reads
    <2>3. size < 24
      BY <1>1, <1>13 DEF Shortest
    <2> QED
      BY <2>1, <2>2, <2>3 DEF Refuses
  <1>14. CASE t = "QUEUE_GET_CONFIG_REPLY"
    <2>1. Plan(b) = ofl_msg_unpack_queue_get_config_reply(b)
      BY <1>2, <1>14 DEF Plan, Empty
    <2>2. ofl_msg_unpack_queue_get_config_reply(b).need = 16
      BY Sizes DEF ofl_msg_unpack_queue_get_config_reply, Reads
    <2>3. size < 16
      BY <1>1, <1>14 DEF Shortest
    <2> QED
      BY <2>1, <2>2, <2>3 DEF Refuses
  <1>15. CASE t = "FLOW_REMOVED"
    <2>1. Plan(b) = ofl_msg_unpack_flow_removed(b)
      BY <1>2, <1>15 DEF Plan, Empty
    <2>2. Clips(ofl_msg_unpack_flow_removed(b))
      BY Sizes DEF ofl_msg_unpack_flow_removed, Reads, Clips
    <2> QED
      BY <1>1, <1>15, <2>1, <2>2 DEF HasMatch
  <1>16. CASE t = "FLOW_MOD"
    <2>1. Plan(b) = ofl_msg_unpack_flow_mod(b)
      BY <1>2, <1>16 DEF Plan, Empty
    <2>2. Clips(ofl_msg_unpack_flow_mod(b))
      BY Sizes DEF ofl_msg_unpack_flow_mod, Reads, Clips
    <2> QED
      BY <1>1, <1>16, <2>1, <2>2 DEF HasMatch
  <1>17. CASE t = "MULTIPART_REQUEST"
    <2>1. Plan(b) = ofl_msg_unpack_multipart_request(b)
      BY <1>2, <1>17 DEF Plan, Empty
    <2>2. CASE size < 16
      <3>1. PICK p : p = ofl_msg_unpack_multipart_request(b)
        OBVIOUS
      <3>2. p.need \in 16..2000
        BY <3>1, RequestNeeds DEF Long
      <3>3. size < p.need
        BY <2>2, <3>2
      <3> QED
        BY <2>1, <3>1, <3>3 DEF Refuses
    <2>3. CASE size >= 16
      <3>1. IsMultipart(m)
        BY <1>1, <1>17 DEF IsMultipart
      <3>2. m.mp = MpOf(b)
        BY <2>3, <3>1, MpRead
      <3>3. size < ShortestRequest(m.mp)
        BY <1>1, <1>17 DEF Shortest
      <3> QED
        BY <1>1, <1>17, <2>1, <2>3, <3>2, <3>3, RequestCut DEF HasMatch
    <2> QED
      BY <2>2, <2>3
  <1>18. CASE t = "MULTIPART_REPLY"
    <2>1. Plan(b) = ofl_msg_unpack_multipart_reply(b)
      BY <1>2, <1>18 DEF Plan, Empty
    <2>2. CASE size < 16
      <3>1. PICK p : p = ofl_msg_unpack_multipart_reply(b)
        OBVIOUS
      <3>2. p.need \in 16..2000
        BY <3>1, ReplyNeeds DEF Long
      <3>3. size < p.need
        BY <2>2, <3>2
      <3> QED
        BY <2>1, <3>1, <3>3 DEF Refuses
    <2>3. CASE size >= 16
      <3>1. IsMultipart(m)
        BY <1>1, <1>18 DEF IsMultipart
      <3>2. m.mp = MpOf(b)
        BY <2>3, <3>1, MpRead
      <3>3. size < ShortestReply(m.mp)
        BY <1>1, <1>18 DEF Shortest
      <3> QED
        BY <1>1, <1>18, <2>1, <2>3, <3>2, <3>3, ReplyCut DEF HasMatch
    <2> QED
      BY <2>2, <2>3
  <1>19. CASE t \notin {"ERROR", "GET_CONFIG_REPLY", "SET_CONFIG", "PORT_STATUS", "GET_ASYNC_REPLY",
                     "SET_ASYNC", "PACKET_OUT", "GROUP_MOD", "PORT_MOD", "TABLE_MOD",
                     "METER_MOD", "ROLE_REQUEST", "ROLE_REPLY", "QUEUE_GET_CONFIG_REPLY",
                     "FLOW_REMOVED", "FLOW_MOD", "MULTIPART_REQUEST", "MULTIPART_REPLY",
                     "PACKET_IN"}
    <2>1. Shortest(m) = 8
      BY <1>1, <1>19 DEF Shortest
    <2> QED
      BY <2>1
  <1>20. CASE t = "PACKET_IN"
    <2>1. Plan(b) = ofl_msg_unpack_packet_in(b)
      BY <1>2, <1>20 DEF Plan, Empty
    <2>2. ofl_msg_unpack_packet_in(b).need = 32
      BY Sizes DEF ofl_msg_unpack_packet_in, Reads
    <2>3. Shortest(m) = 34 /\ size \notin 32..33
      BY <1>1, <1>20 DEF Shortest, Unchecked
    <2>4. size < 32
      BY <2>3
    <2> QED
      BY <2>1, <2>2, <2>4 DEF Refuses
  <1> QED
    BY <1>3, <1>4, <1>5, <1>6, <1>7, <1>8, <1>9, <1>10, <1>11,
       <1>12, <1>13, <1>14, <1>15, <1>16, <1>17, <1>18, <1>19, <1>20

\* A length stays where it is in what arrives,
LEMMA DeliveredNumbered ==
  ASSUME NEW b, NEW size, Buffer(b, size), NEW o \in Nat, NEW x, Numbered(b, o, x), NEW n \in Nat,
         o + 2 <= n
  PROVE  Numbered(Delivered(b, n), o, x)
  <1>1. size \in Nat /\ b.n = size /\ o \in 0..(size - 1) /\ o + 1 \in 0..(size - 1)
    BY DEF Buffer, Numbered
  <1>2. PICK c : c = Delivered(b, n)
    OBVIOUS
  <1>3. /\ DOMAIN c.at = 0..(n - 1)
        /\ \A i \in 0..(n - 1) : c.at[i] = IF i < b.n THEN b.at[i] ELSE Junk
    BY <1>2 DEF Delivered
  <1>4. o \in 0..(n - 1) /\ o + 1 \in 0..(n - 1) /\ o < b.n /\ o + 1 < b.n
    BY <1>1
  <1> QED
    BY <1>2, <1>3, <1>4 DEF Numbered

\* also when the header gives another length.
LEMMA AnnouncedNumbered ==
  ASSUME NEW b, NEW size, Buffer(b, size), NEW o \in Nat, NEW x, Numbered(b, o, x), NEW n \in Nat,
         o + 2 <= n, o >= 4
  PROVE  Numbered(Announced(b, n), o, x)
  <1>1. PICK c : c = Delivered(b, n)
    OBVIOUS
  <1>2. PICK v : v = hton(Num(n), 2)
    OBVIOUS
  <1>3. Announced(b, n) = Put(c, 2, v)
    <2>1. ofp_header.length[1] = 2
      BY DEF ofp_header
    <2> QED
      BY <1>1, <1>2, <2>1, Zenon DEF Announced
  <1>4. Numbered(c, o, x)
    BY <1>1, DeliveredNumbered
  <1>5. Sized(v, 2)
    BY <1>2, HtonSized
  <1>6. ASSUME NEW i \in DOMAIN c.at, Outside(i, 2, 2) PROVE Put(c, 2, v).at[i] = c.at[i]
    BY <1>5, <1>6, PutElse
  <1>7. Outside(o, 2, 2) /\ Outside(o + 1, 2, 2)
    BY DEF Outside
  <1>8. DOMAIN Put(c, 2, v).at = DOMAIN c.at
    BY DEF Put
  <1>9. Put(c, 2, v).at[o] = c.at[o] /\ Put(c, 2, v).at[o + 1] = c.at[o + 1]
    BY <1>4, <1>6, <1>7 DEF Numbered
  <1> QED
    BY <1>3, <1>4, <1>8, <1>9 DEF Numbered

\* What the decoder stops at: the buffer ends in the padding of the match.
Stops(b) == b.n \in 52..55 /\ Clips(Plan(b)) /\ NumAt(b, 50) \in Nat /\ NumAt(b, 50) >= 4

\* What keeps an incomplete message from being accepted: its header gives
\* another length, and what ends inside its structure is refused by the plan or
\* leaves less than a match takes.
Early ==
    /\ pc \in {"idle", "packed"} => how = "whole"
    /\ pc = "packed" => GoodMsg(sent) /\ Counted(buf, sent)
    /\ how = "part" => /\ pc \in {"header", "rejected"}
                       /\ pc = "header" => len < 8 \/ len # NumAt(buf, 2)
    /\ how = "short" /\ ~Unchecked(sent, buf.n) =>
         /\ pc \in {"header", "fixed", "match", "rejected"}
         /\ Refuses(plan, buf.n) \/ Stops(buf)
         /\ pc = "match" => Stops(buf) /\ len \in 0..7

\* A message that is cut short at such a length.
LEMMA ShortCut ==
  ASSUME NEW m, GoodMsg(m), NEW b, Packs(b, Least(m)), Named(b, m), Counted(b, m),
         NEW n, n \in 9..(BareLength(m) - 1), ~Unchecked(m, n), NEW c, c = Announced(b, n)
  PROVE  c.n = n /\ (Refuses(Plan(c), c.n) \/ Stops(c))
  <1>1. BareLength(m) = Shortest(m)
    BY BareIsShortest DEF Unchecked, Never
  <1>2. PICK k : k = Shortest(m)
    OBVIOUS
  <1>3. k \in Nat
    BY <1>2 DEF Shortest, ShortestRequest, ShortestReply
  <1>4. n \in Nat /\ n >= 9 /\ n < k
    BY <1>1, <1>2, <1>3
  <1>5. Buffer(c, n) /\ Named(c, m) /\ c.n = n
    <2>1. n >= 4
      BY <1>4
    <2>2. Buffer(c, n) /\ Named(c, m)
      BY <1>4, <2>1, AnnouncedNamed
    <2> QED
      BY <2>2 DEF Buffer
  <1>6. Refuses(Plan(c), n) \/ (HasMatch(m) /\ Clips(Plan(c)))
    BY <1>2, <1>4, <1>5, PlanCut
  <1>7. ASSUME HasMatch(m), Clips(Plan(c)) PROVE Refuses(Plan(c), n) \/ Stops(c)
    <2>1. k = 56
      BY <1>2, <1>7 DEF HasMatch, Shortest, ShortestRequest
    <2>2. CASE n < 48
      BY <1>7, <2>2 DEF Clips, Refuses
    <2>3. CASE n \in 52..55
      <3>1. PICK x \in Nat : x = m.match + 4 /\ x >= 4
        BY DEF GoodMsg, Parts
      <3>2. PICK size : Buffer(b, size)
        BY DEF Packs
      <3>3. Numbered(b, 50, x)
        BY <1>7, <3>1 DEF Counted
      <3>4. 50 + 2 <= n /\ 50 >= 4
        BY <2>3
      <3>5. Numbered(c, 50, x)
        BY <1>4, <3>2, <3>3, <3>4, AnnouncedNumbered
      <3>6. NumAt(c, 50) = x
        BY <3>5, NumberRead
      <3> QED
        BY <1>5, <1>7, <2>3, <3>1, <3>6 DEF Stops
    <2>4. n \notin 48..51
      BY <1>7 DEF Unchecked
    <2> QED
      BY <1>4, <2>1, <2>2, <2>3, <2>4
  <1> QED
    BY <1>5, <1>6, <1>7

\* Every step keeps it.
LEMMA EarlyNext ==
  ASSUME Wire, Early, [Next]_vars
  PROVE  Early'
  <1>1. CASE Pack
    <2>1. PICK m \in Messages : sent' = m /\ buf' = ofl_msg_pack(m)
      BY <1>1 DEF Pack
    <2>2. pc = "idle" /\ pc' = "packed" /\ how' = how
      BY <1>1 DEF Pack
    <2>3. GoodMsg(sent') /\ Counted(buf', sent')
      BY <2>1, GoodMessages, MessageCounted
    <2> QED
      BY <2>2, <2>3 DEF Early
  <1>2. ASSUME NEW kind, NEW b, Arrive(kind, b)
        PROVE  /\ pc = "packed" /\ how' = kind /\ buf' = b /\ len' = b.n /\ pc' = "header"
               /\ sent' = sent /\ GoodMsg(sent) /\ Counted(buf, sent) /\ Packs(buf, Least(sent))
               /\ Named(buf, sent)
    BY <1>2 DEF Arrive, Early, Wire
  <1>3. CASE DeliverWhole \/ DeliverMore
    <2>1. ASSUME NEW kind \in {"whole", "more"}, NEW b, Arrive(kind, b) PROVE Early'
      <3>1. how' = kind /\ pc' = "header"
        BY <1>2, <2>1
      <3> QED
        BY <3>1 DEF Early
    <2>2. DeliverWhole => Arrive("whole", buf)
      BY DEF DeliverWhole
    <2>3. DeliverMore => \E b : Arrive("more", b)
      BY DEF DeliverMore
    <2> QED
      BY <1>3, <2>1, <2>2, <2>3
  <1>4. CASE DeliverPart
    <2>1. PICK n : n \in 0..(buf.n - 1) /\ Arrive("part", Delivered(buf, n))
      BY <1>4 DEF DeliverPart
    <2>2. /\ how' = "part" /\ buf' = Delivered(buf, n) /\ len' = Delivered(buf, n).n
          /\ pc' = "header" /\ Counted(buf, sent) /\ Packs(buf, Least(sent))
      BY <1>2, <2>1
    <2>3. PICK size \in Nat : Buffer(buf, size)
      BY <2>2 DEF Packs
    <2>4. n \in Nat /\ n # size /\ buf.n = size
      BY <2>1, <2>3 DEF Buffer
    <2>5. len' = n
      BY <2>2 DEF Delivered
    <2>6. CASE n < 8
      BY <2>2, <2>5, <2>6 DEF Early
    <2>7. CASE n >= 8
      <3>1. Numbered(buf, 2, size) /\ 2 + 2 <= n
        BY <2>2, <2>4, <2>7 DEF Counted
      <3>2. Numbered(buf', 2, size)
        BY <2>2, <2>3, <2>4, <3>1, DeliveredNumbered
      <3>3. NumAt(buf', 2) = size
        BY <3>2, NumberRead
      <3> QED
        BY <2>2, <2>4, <2>5, <3>3 DEF Early
    <2> QED
      BY <2>4, <2>6, <2>7
  <1>5. CASE DeliverShort
    <2>1. PICK n : n \in 9..(BareLength(sent) - 1) /\ Arrive("short", Announced(buf, n))
      BY <1>5 DEF DeliverShort
    <2>2. /\ how' = "short" /\ buf' = Announced(buf, n) /\ pc' = "header" /\ sent' = sent
          /\ GoodMsg(sent) /\ Counted(buf, sent) /\ Packs(buf, Least(sent)) /\ Named(buf, sent)
      BY <1>2, <2>1
    <2>3. ASSUME ~Unchecked(sent, buf'.n) PROVE Refuses(Plan(buf'), buf'.n) \/ Stops(buf')
      <3>1. buf'.n = n
        BY <2>2 DEF Announced, Delivered, Put
      <3> QED
        BY <2>1, <2>2, <2>3, <3>1, ShortCut
    <2>4. plan' = Plan(buf')
      BY DEF plan
    <2> QED
      BY <2>2, <2>3, <2>4 DEF Early
  <1>6. ASSUME UNCHANGED <<sent, buf>> PROVE plan' = plan
    BY <1>6 DEF plan
  <1>7. CASE ofl_msg_unpack_header
    <2>1. pc = "header" /\ UNCHANGED <<sent, buf, how>>
      BY <1>7 DEF ofl_msg_unpack_header
    <2>2. pc' = "rejected" \/ (pc' = "fixed" /\ ~(len < 8) /\ len = NumAt(buf, 2))
      <3>1. ofp_header.length[1] = 2
        BY DEF ofp_header
      <3> QED
        BY <1>7, <3>1, Sizes, Zenon DEF ofl_msg_unpack_header, Rejected
    <2>3. how = "part" => pc' = "rejected"
      BY <2>1, <2>2 DEF Early
    <2>4. plan' = plan
      BY <1>6, <2>1
    <2> HIDE DEF plan
    <2> QED
      BY <2>1, <2>2, <2>3, <2>4 DEF Early
  <1>8. CASE ReadFixed
    <2>1. pc = "fixed" /\ UNCHANGED <<sent, buf, how>> /\ plan' = plan
      BY <1>6, <1>8, Zenon DEF ReadFixed
    <2>2. how # "part" /\ pc' \in {"rejected", "match", "count", "entries"}
      BY <1>8, <2>1, Zenon DEF ReadFixed, Rejected, Early, Listed
    <2>3. ASSUME how = "short", ~Unchecked(sent, buf.n)
          PROVE  \/ pc' = "rejected"
                 \/ pc' = "match" /\ Stops(buf) /\ len' \in 0..7
      <3>1. Refuses(plan, buf.n) \/ Stops(buf)
        BY <2>3 DEF Early
      <3>2. len = buf.n
        BY <2>1 DEF Wire
      <3>3. CASE TooShort \/ plan.invalid
        BY <1>8, <3>3, Zenon DEF ReadFixed, Rejected
      <3>4. CASE ~(TooShort \/ plan.invalid)
        <4>1. Stops(buf)
          BY <3>1, <3>2, <3>4 DEF TooShort, Refuses
        <4>2. len \in 52..55 /\ plan.take = 48 /\ plan.match = 52
          BY <3>2, <4>1 DEF Stops, Clips, plan
        <4> HIDE DEF plan
        <4>3. len' = Sub(len, 48) /\ pc' = "match"
          <5>1. len' = Sub(len, plan.take) /\ pc' = IF plan.match # None THEN "match" ELSE Listed
            BY <1>8, <3>4, Zenon DEF ReadFixed
          <5> QED
            BY <4>2, <5>1 DEF None
        <4>4. Sub(len, 48) \in 0..7
          <5>1. PICK d \in Nat \ {0} : d = 2^SizeBits
            BY CodecAssumption
          <5>2. PICK x \in 4..7 : x = len - 48
            BY <4>2
          <5>3. Sub(len, 48) = x % d
            BY <5>1, <5>2 DEF Sub
          <5>4. x % d \in 0..7
            BY <5>1, <5>2
          <5> QED
            BY <5>3, <5>4
        <4> QED
          BY <4>1, <4>3, <4>4
      <3> QED
        BY <3>3, <3>4
    <2> HIDE DEF plan
    <2> QED
      BY <2>1, <2>2, <2>3 DEF Early
  <1>9. ASSUME pc = "match", how = "short", ~Unchecked(sent, buf.n)
        PROVE  ~(MatchLen <= len) /\ "match" \notin plan.ignores
    <2>1. Stops(buf) /\ len \in 0..7
      BY <1>9 DEF Early
    <2>2. plan.match = 52 /\ plan.ignores = {}
      BY <2>1 DEF Stops, Clips, plan
    <2>3. PICK x \in Nat : x = NumAt(buf, 50) /\ x >= 4
      BY <2>1 DEF Stops
    <2> HIDE DEF plan
    <2>4. MatchLen = ROUND_UP(x, 8)
      <3>1. ofp_match.length[1] = 2 /\ 52 - 4 + 2 = 50
        BY DEF ofp_match
      <3>2. MatchLen = ROUND_UP(NumAt(buf, 52 - 4 + 2), 8)
        BY <2>2, <3>1 DEF MatchLen, MatchAt
      <3> QED
        BY <2>3, <3>1, <3>2
    <2>5. ROUND_UP(x, 8) \in Nat /\ ROUND_UP(x, 8) >= 8
      BY <2>3 DEF ROUND_UP
    <2> QED
      BY <2>1, <2>2, <2>4, <2>5
  <1>10. CASE ReadMatch
    <2>1. /\ pc = "match" /\ MatchLen <= len /\ pc' \in {"count", "entries"}
          /\ UNCHANGED <<sent, buf, how>>
      BY <1>10, Zenon DEF ReadMatch, Listed
    <2>2. how # "part" /\ ~(how = "short" /\ ~Unchecked(sent, buf.n))
      BY <1>9, <2>1 DEF Early
    <2> QED
      BY <2>1, <2>2 DEF Early
  <1>11. CASE RefuseMatch
    <2>1. pc = "match" /\ UNCHANGED <<sent, buf, how>> /\ plan' = plan
      BY <1>6, <1>11 DEF RefuseMatch
    <2>2. how # "part" /\ pc' \in {"rejected", "entries"}
      BY <1>11, <2>1, Zenon DEF RefuseMatch, Rejected, Early
    <2>3. how = "short" /\ ~Unchecked(sent, buf.n) => pc' = "rejected"
      BY <1>9, <1>11, <2>1, Zenon DEF RefuseMatch, Rejected
    <2> HIDE DEF plan
    <2> QED
      BY <2>1, <2>2, <2>3 DEF Early
  <1>12. ASSUME pc \in {"count", "entries", "finish"}, UNCHANGED <<sent, buf, how>>,
                pc' \notin {"idle", "packed"}
         PROVE  Early'
    BY <1>12 DEF Early
  <1>13. CASE ReadEntry
    BY <1>12, <1>13 DEF ReadEntry, MoreEntries
  <1>14. CASE RefuseEntry
    <2>1. pc = "entries" /\ UNCHANGED <<sent, buf, how>>
      BY <1>14 DEF RefuseEntry, MoreEntries
    <2>2. pc' = "rejected" \/ pc' = pc
      BY <1>14, Zenon DEF RefuseEntry, Rejected
    <2> QED
      BY <1>12, <2>1, <2>2
  <1>15. CASE ReadData
    BY <1>12, <1>15 DEF ReadData
  <1>16. CASE ofl_msg_unpack_finish
    BY <1>12, <1>16 DEF ofl_msg_unpack_finish, Accept
  <1>17. CASE NextMessage
    BY <1>17 DEF NextMessage, Early
  <1>18. CASE UNCHANGED vars
    <2>1. plan' = plan /\ UNCHANGED <<pc, sent, buf, how, len>>
      BY <1>6, <1>18 DEF vars
    <2> HIDE DEF plan
    <2> QED
      BY <2>1 DEF Early
  <1>19. CASE CountEntries
    BY <1>12, <1>19 DEF CountEntries
  <1>20. CASE RefuseCount
    BY <1>12, <1>20 DEF RefuseCount, Rejected
  <1> QED
    BY <1>1, <1>3, <1>4, <1>5, <1>7, <1>8, <1>10, <1>11, <1>13, <1>14, <1>15, <1>16, <1>17,
       <1>18, <1>19, <1>20 DEF Next

\* A message that is still incomplete, or that ends inside its structure, is
\* never taken for a message (cc_parse_msg.c:1544 and the length checks of the
\* ofl_msg_unpack functions), but for the lengths that no check refuses: for
\* every message, every length of fields, entries, actions and data, and every
\* length at which it is cut off.
THEOREM NothingShortAccepted == Spec => []ShortRejected
  <1>1. Init => Wire /\ Early
    <2>1. Init => Wire
      BY WireIdle DEF Init
    <2>2. Init => Early
      BY DEF Init, Early
    <2> QED
      BY <2>1, <2>2
  <1>2. Wire /\ Early /\ [Next]_vars => (Wire /\ Early)'
    BY WireNext, EarlyNext
  <1>3. Wire /\ Early => ShortRejected
    BY DEF Early, ShortRejected
  <1> QED
    BY <1>1, <1>2, <1>3, PTL DEF Spec
=============================================================================
