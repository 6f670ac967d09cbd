----------------------------- MODULE SlabProofs -----------------------------
(***************************************************************************)
(* Proofs about Slab for every geometry, alignment and size of the pool.   *)
(***************************************************************************)
EXTENDS Slab, FiniteSetTheorems, WellFoundedInduction, TLAPS

\* The memory that waits for ncx_slab_init gives no more pages than the model
\* follows.
AreaInv ==
    Waiting =>
        /\ area \in [base : 0..(pagesize-1), size : 0..MaxArea]
        /\ Pages(area) <= MaxPages

Pgs == 0..(MaxPages - 1)
Desc == [mark : {"none", "start", "busy", "cut"}, count : Nat, shift : Int, busy : SUBSET Nat]
Nexts == [Nodes -> Nodes \cup {NULL}]
Prevs == [Nodes -> (Nodes \cup {NULL}) \X {"page", "small", "exact", "big"}]
PoolType == [slab : [Pgs -> Desc], next : Nexts, prev : Prevs]

\* The list that a page with descriptor d may be on, and the type the page has
\* in the low bits of prev.
HeadOf(d) == IF d.mark = "cut" THEN Slot(d.shift) ELSE Free
KindOf(d) == IF d.mark = "cut" THEN TypeOf(d.shift) ELSE "page"
\* The type of the pages on the list of head h.
HeadKind(h) == IF h = Free THEN "page" ELSE TypeOf(h - MaxPages - 1)

Linked(s) == {x \in Pgs : s.next[x] # NULL}
Owner(s) == [x \in Pgs \cup Heads |-> IF x \in Heads THEN x ELSE HeadOf(s.slab[x])]

\* The pages L are on lists, each on the one of its owner: next leads from a
\* page to another of the same list or to the head, and prev back.
LinkInv(s, L, own) ==
    /\ L \subseteq Pgs
    /\ \A x \in L \cup Heads : /\ s.next[x] \in L \cup Heads /\ own[s.next[x]] = own[x]
                               /\ s.next[x] \in L => s.prev[s.next[x]][1] = x
    /\ \A x \in L : /\ s.prev[x][1] \in L \cup Heads /\ s.next[s.prev[x][1]] = x
                    /\ s.prev[x][2] = HeadKind(own[x])

\* The pages L are in order along nx: r counts down, from b at most, on the way
\* to the head.  Without it a ring of pages that no head leads to satisfies
\* LinkInv.
Ranks(nx, L, b, r) ==
    r \in [Pgs -> 0..b] /\ \A x \in L : nx[x] \in L => r[nx[x]] < r[x]
Sorted(nx, L) == \E b \in Nat : \E r : Ranks(nx, L, b, r)

\* A descriptor holds a run length or a shift and a bitmap.
Shape(d) == IF d.mark = "cut" THEN Cut(d.shift, d.busy) ELSE Run(d.mark, d.count)

\* The descriptor of page x in a pool of m pages.  The pages behind the first
\* of a run say so; the chunks of the bitmap are busy; the free runs and the
\* chunk pages with room are on lists, no other page is.
PageInv(s, m, x) ==
    LET d == s.slab[x]
    IN  /\ d = Shape(d)
        /\ d.mark = "cut" =>
              /\ x < m /\ d.shift \in Shifts
              /\ d.busy \subseteq 0..(Chunks(d.shift) - 1)
              /\ 0..(Reserved(d.shift) - 1) \subseteq d.busy
              /\ Room(s, x) = {} <=> s.next[x] = NULL
        /\ d.mark = "start" => d.count > 0 /\ s.prev[x][1] = NULL
        /\ d.mark = "busy" => d.count = 0
        /\ d.mark = "none" /\ d.count > 0 => s.next[x] # NULL
        /\ d.mark \in {"none", "start"} /\ d.count > 0 =>
              /\ x + d.count <= m
              /\ \A y \in (x + 1)..(x + d.count - 1) :
                    /\ s.slab[y].mark = IF d.mark = "none" THEN "none" ELSE "busy"
                    /\ s.slab[y].count = 0
        /\ s.next[x] # NULL => d.mark = "cut" \/ (d.mark = "none" /\ (d.count > 0 \/ m = 0))
        /\ s.prev[x][2] = KindOf(d)

\* Page x belongs to the run that starts at y, or is a chunk page.
Covers(s, y, x) == \/ s.slab[y].mark = "cut" /\ y = x
                   \/ s.slab[y].mark \in {"none", "start"} /\ x < y + s.slab[y].count
\* No page is lost.
Covered(s, m) == \A x \in 0..(m - 1) : \E y \in 0..x : Covers(s, y, x)

PoolInv(s, m) ==
    /\ s \in PoolType
    /\ LinkInv(s, Linked(s), Owner(s)) /\ Sorted(s.next, Linked(s))
    /\ \A x \in Pgs : PageInv(s, m, x)
    /\ Covered(s, m)

\* A block is a run of pages, or a busy chunk.
PageBlock(s, b, p) ==
    /\ s.slab[p].mark = "start" /\ b[1] = p * pagesize
    /\ b[2] <= s.slab[p].count * pagesize /\ Capacity(b) = s.slab[p].count * pagesize
ChunkBlock(s, b, p, c) ==
    /\ s.slab[p].mark = "cut" /\ c \in s.slab[p].busy /\ c >= Reserved(s.slab[p].shift)
    /\ b[1] = p * pagesize + c * 2^s.slab[p].shift /\ b[2] <= 2^s.slab[p].shift
    /\ Capacity(b) = 2^s.slab[p].shift

Held(s, b, p) == PageBlock(s, b, p) \/ \E c \in s.slab[p].busy : ChunkBlock(s, b, p, c)

LiveInv(s, l) ==
    /\ l \subseteq Nat \X Nat
    /\ \A b \in l : \E p \in Pgs : Held(s, b, p)
    /\ \A b, c \in l : b # c => b[1] # c[1]

\* A run that was given out is a block, a busy chunk is one too or belongs to
\* the bitmap, and a chunk page has a busy chunk.
PageUsed(s, l, p) ==
    LET d == s.slab[p]
    IN  /\ d.mark = "start" => \E b \in l : PageBlock(s, b, p)
        /\ d.mark = "cut" =>
              /\ \E c \in d.busy : c >= Reserved(d.shift)
              /\ \A c \in d.busy : c >= Reserved(d.shift) => \E b \in l : ChunkBlock(s, b, p, c)

UsedInv(s, l) == \A p \in Pgs : PageUsed(s, l, p)

IInv ==
    /\ AreaInv
    /\ n \in 0..MaxPages /\ (Waiting => n = 0 /\ live = {})
    /\ PoolInv(pool, n) /\ LiveInv(pool, live) /\ UsedInv(pool, live)

-----------------------------------------------------------------------------
(* Arithmetic.                                                               *)

\* Division rounds down.
LEMMA Quotient ==
  ASSUME NEW x \in Int, NEW d \in Nat \ {0}
  PROVE  /\ x \div d \in Int
         /\ (x \div d) * d <= x /\ x < (x \div d) * d + d
  OBVIOUS

\* Multiplication by a positive number keeps the order.
LEMMA Scaled ==
  ASSUME NEW x \in Int, NEW y \in Int, NEW d \in Nat, x <= y
  PROVE  x * d <= y * d
  OBVIOUS

\* How the pages that ncx_slab_init counts lie in the memory: r pages by the
\* first estimate, q that fit behind the aligned start.
LEMMA Layout ==
  ASSUME NEW P \in Nat \ {0}, NEW D \in Nat \ {0}, NEW h \in Nat \ {0},
         NEW base \in Nat, NEW size \in Nat, NEW r \in Int, NEW S \in Int, NEW q \in Int,
         r * (P + D) <= size, size < r * (P + D) + (P + D),
         base + h * D + r * D <= S,
         q * P <= base + size - S, base + size - S < q * P + P
  PROVE  LET k == IF r - q > 0 THEN r - (r - q) ELSE r
         IN  S + k * P <= base + size /\ base + size < S + (k + 1) * P
  <1>1. CASE r - q > 0
    <2>1. r - (r - q) = q /\ (q + 1) * P = q * P + P
      OBVIOUS
    <2>2. q * P \in Int
      OBVIOUS
    <2> QED
      BY <1>1, <2>1, <2>2
  <1>2. CASE ~(r - q > 0)
    <2>1. r * P <= q * P
      BY <1>2, Scaled
    <2>2. r * (P + D) = r * P + r * D /\ (r + 1) * P = r * P + P
      OBVIOUS
    <2>3. D <= h * D
      <3>1. 1 * D <= h * D
        BY Scaled
      <3> QED
        BY <3>1
    <2>4. r * P \in Int /\ q * P \in Int /\ r * D \in Int /\ h * D \in Int
      OBVIOUS
    <2> QED
      BY <1>2, <2>1, <2>2, <2>3, <2>4
  <1> QED
    BY <1>1, <1>2

\* The first estimate of the pages and the aligned start.
LEMMA Estimate ==
  ASSUME NEW a \in [base : 0..(pagesize-1), size : 0..MaxArea]
  PROVE  /\ a.base \in Nat /\ a.size \in 0..MaxArea
         /\ pagesize \in Nat \ {0} /\ Descriptor \in Nat \ {0}
         /\ pagesize_shift - min_shift \in Nat \ {0}
         /\ RawPages(a) \in Nat /\ Start(a) \in Int /\ End(a) = a.base + a.size
         /\ RawPages(a) * (pagesize + Descriptor) <= a.size
         /\ a.size < RawPages(a) * (pagesize + Descriptor) + (pagesize + Descriptor)
         /\ LET x == a.base + (pagesize_shift - min_shift) * Descriptor + RawPages(a) * Descriptor
            IN  x <= Start(a) /\ Start(a) < x + pagesize
  <1> DEFINE P == pagesize
             D == Descriptor
             h == pagesize_shift - min_shift
             r == a.size \div (P + D)
             S == AlignUp(HeaderEnd(a) + r * D)
  <1>1. P \in Nat \ {0} /\ D \in Nat \ {0} /\ h \in Nat \ {0}
        /\ a.base \in Nat /\ a.size \in 0..MaxArea /\ a.size \in Nat
    BY SlabAssumption, WidthAssumption
  <1>2. P + D \in Nat \ {0}
    BY <1>1
  <1>3. r \in Int /\ r * (P + D) <= a.size /\ a.size < r * (P + D) + (P + D)
    <2>1. PICK M \in Nat \ {0} : M = P + D
      BY <1>2
    <2>2. PICK z \in Int : z = a.size
      BY <1>1
    <2>3. r = z \div M
      BY <2>1, <2>2
    <2> HIDE DEF P, D, r
    <2>4. z \div M \in Int /\ (z \div M) * M <= z /\ z < (z \div M) * M + M
      BY Quotient
    <2> QED
      BY <2>1, <2>2, <2>3, <2>4
  <1>4. r \in Nat
    <2>1. SUFFICES ASSUME r + 1 <= 0 PROVE FALSE
      BY <1>3
    <2> HIDE DEF P, D, r
    <2>2. PICK M \in Nat \ {0} : M = P + D
      BY <1>2
    <2>3. (r + 1) * M <= 0 * M /\ 0 * M = 0 /\ (r + 1) * M = r * M + M /\ r * M \in Int
      BY <1>3, <2>1, Scaled
    <2> QED
      BY <1>1, <1>3, <2>2, <2>3
  <1>5. S \in Int /\ a.base + h * D + r * D <= S /\ S < a.base + h * D + r * D + P
    <2> DEFINE x == a.base + h * D + r * D
    <2>1. x \in Int /\ x = HeaderEnd(a) + r * D
      <3>1. HeaderEnd(a) = a.base + h * D
        BY DEF HeaderEnd, HeaderBytes
      <3> HIDE DEF P, D, h, r
      <3> QED
        BY <1>1, <1>3, <3>1
    <2>2. S = ((x + P - 1) \div P) * P
      BY <2>1 DEF AlignUp
    <2> HIDE DEF S, P, x
    <2>3. x + P - 1 \in Int
      BY <1>1, <2>1
    <2>4. /\ (x + P - 1) \div P \in Int
          /\ ((x + P - 1) \div P) * P <= x + P - 1
          /\ x + P - 1 < ((x + P - 1) \div P) * P + P
      BY <1>1, <2>3, Quotient
    <2>5. S \in Int /\ x + P - 1 < S + P /\ S <= x + P - 1
      BY <1>1, <2>2, <2>4
    <2>6. x <= S /\ S < x + P
      BY <1>1, <2>1, <2>5
    <2> QED
      BY <2>5, <2>6 DEF x
  <1>6. RawPages(a) = r
    BY DEF RawPages
  <1>7. Start(a) = S /\ End(a) = a.base + a.size
    BY <1>6 DEF Start, End
  <1> HIDE DEF r, S
  <1> QED
    BY <1>1, <1>3, <1>4, <1>5, <1>6, <1>7

\* What ncx_slab_init computes for memory in which the aligned start lies.
LEMMA PagesFit ==
  ASSUME NEW a \in [base : 0..(pagesize-1), size : 0..MaxArea], Start(a) <= End(a)
  PROVE  /\ Start(a) + Pages(a) * pagesize <= End(a)
         /\ End(a) < Start(a) + (Pages(a) + 1) * pagesize
         /\ Start(a) \in Int /\ End(a) \in Int /\ Pages(a) \in Int
  <1> DEFINE P == pagesize
             D == Descriptor
             h == pagesize_shift - min_shift
             r == RawPages(a)
             S == Start(a)
             q == (a.base + a.size - S) \div P
  <1>1. /\ a.base \in Nat /\ a.size \in 0..MaxArea /\ a.size \in Nat
        /\ P \in Nat \ {0} /\ D \in Nat \ {0} /\ h \in Nat \ {0}
        /\ r \in Nat /\ S \in Int /\ End(a) = a.base + a.size
        /\ r * (P + D) <= a.size /\ a.size < r * (P + D) + (P + D)
        /\ a.base + h * D + r * D <= S
    BY Estimate, SlabAssumption, WidthAssumption
  <1>2. q \in Int /\ q * P <= a.base + a.size - S /\ a.base + a.size - S < q * P + P
    <2> HIDE DEF P, S, r
    <2>1. a.base + a.size - S \in Int
      BY <1>1
    <2> QED
      BY <1>1, <2>1, Quotient
  <1>3. (End(a) - Start(a)) % AddressSpace = a.base + a.size - S
    <2>1. PICK x \in Int : x = a.base + a.size - S
      BY <1>1
    <2>2. 0 <= x /\ x <= MaxArea
      <3> HIDE DEF P, D, h, r, S
      <3>1. h * D \in Nat /\ r * D \in Nat
        BY <1>1
      <3>2. a.base <= S
        BY <1>1, <3>1
      <3> QED
        BY <1>1, <2>1, <3>2, SlabAssumption, WidthAssumption DEF S
    <2>3. MaxArea \in Nat /\ AddressSpace \in Nat /\ MaxArea < AddressSpace
      <3>1. MaxArea \in Nat /\ AddressSpace \in Nat /\ h * D + P * (MaxArea + 2) <= AddressSpace
        BY SlabAssumption, WidthAssumption
      <3> HIDE DEF P, D, h
      <3>2. h * D \in Nat
        BY <1>1
      <3>3. 1 * (MaxArea + 2) <= P * (MaxArea + 2) /\ P * (MaxArea + 2) \in Int
        BY <1>1, <3>1, Scaled
      <3> QED
        BY <3>1, <3>2, <3>3
    <2>4. x % AddressSpace = x
      BY <2>2, <2>3
    <2>5. End(a) - Start(a) = x
      BY <1>1, <2>1
    <2> QED
      BY <2>1, <2>4, <2>5
  <1>4. Pages(a) = IF r - q > 0 THEN r - (r - q) ELSE r
    BY <1>3 DEF Pages
  <1>5. LET k == IF r - q > 0 THEN r - (r - q) ELSE r
        IN  S + k * P <= a.base + a.size /\ a.base + a.size < S + (k + 1) * P
    <2> HIDE DEF P, D, h, r, S, q
    <2> QED
      BY <1>1, <1>2, Layout
  <1>6. Start(a) \in Int /\ End(a) \in Int /\ Pages(a) \in Int
    <2> HIDE DEF P, D, h, r, q
    <2> QED
      BY <1>1, <1>2, <1>4
  <1> QED
    BY <1>1, <1>4, <1>5, <1>6

\* Memory in which the aligned start does not lie: the unsigned difference wraps
\* and the first estimate stays, which is less than the header and a page.
LEMMA PagesOutside ==
  ASSUME NEW a \in [base : 0..(pagesize-1), size : 0..MaxArea], ~(Start(a) <= End(a))
  PROVE  /\ Start(a) > End(a) /\ Pages(a) \in Nat
         /\ Pages(a) * pagesize < HeaderBytes + pagesize
  <1> DEFINE P == pagesize
             D == Descriptor
             h == pagesize_shift - min_shift
             r == RawPages(a)
             S == Start(a)
             A == AddressSpace
             x == a.base + a.size - S
  <1>1. /\ a.base \in Nat /\ a.size \in 0..MaxArea /\ a.size \in Nat
        /\ P \in Nat \ {0} /\ D \in Nat \ {0} /\ h \in Nat \ {0}
        /\ r \in Nat /\ S \in Int /\ End(a) = a.base + a.size
        /\ r * (P + D) <= a.size /\ S < a.base + h * D + r * D + P
        /\ MaxArea \in Nat /\ A \in Nat /\ h * D + P * (MaxArea + 2) <= A
    BY Estimate, SlabAssumption, WidthAssumption
  <1>2. HeaderBytes = h * D /\ S > End(a) /\ End(a) - S = x
    BY <1>1 DEF HeaderBytes
  <1> HIDE DEF P, D, h, r, S, A
  <1>3. /\ h * D \in Nat /\ r * D \in Nat /\ r * P \in Nat /\ r * (P + D) = r * P + r * D
        /\ P * (MaxArea + 2) = (MaxArea + 1) * P + P /\ (MaxArea + 1) * P \in Nat
    BY <1>1
  <1>4. r * P < h * D + P
    BY <1>1, <1>2, <1>3
  <1>5. x \in Int /\ x < 0 /\ -x < h * D + P /\ (MaxArea + 1) * P <= A + x /\ A + x < A
    BY <1>1, <1>2, <1>3
  <1>6. x % A = A + x
    <2> HIDE DEF x
    <2>1. A > 0 /\ 0 <= A + x
      BY <1>1, <1>3, <1>5
    <2> QED
      BY <1>1, <1>5, <2>1
  <1>7. r <= (A + x) \div P
    <2> HIDE DEF x
    <2>1. PICK y \in Int : y = A + x
      BY <1>1, <1>5
    <2>2. y \div P \in Int /\ y < (y \div P) * P + P
      BY <1>1, Quotient
    <2>3. PICK z \in Int : z = y \div P
      BY <2>2
    <2>4. MaxArea + 1 < z + 1
      <3>1. SUFFICES ASSUME z + 1 <= MaxArea + 1 PROVE FALSE
        BY <1>1, <2>3
      <3>2. (z + 1) * P <= (MaxArea + 1) * P /\ (z + 1) * P = z * P + P
        BY <1>1, <2>3, <3>1, Scaled
      <3> QED
        BY <1>1, <1>3, <1>5, <2>1, <2>2, <2>3, <3>2
    <2>5. r <= MaxArea
      <3>1. r * 1 <= r * (P + D)
        <4>1. 1 <= P + D /\ P + D \in Int
          BY <1>1
        <4>2. PICK M \in Int : M = P + D /\ 1 <= M
          BY <4>1
        <4>3. 1 * r <= M * r
          BY <1>1, <4>2, Scaled
        <4> QED
          BY <1>1, <4>2, <4>3
      <3> QED
        BY <1>1, <3>1
    <2> QED
      BY <1>1, <2>1, <2>3, <2>4, <2>5
  <1>8. Pages(a) = r
    <2>1. (x % A) \div P \in Int
      <3>1. A + x \in Int
        BY <1>1, <1>5
      <3> QED
        BY <1>1, <1>6, <3>1, Quotient
    <2>2. Pages(a) = IF r - (x % A) \div P > 0 THEN r - (r - (x % A) \div P) ELSE r
      BY <1>2 DEF Pages, P, r, S, A
    <2> QED
      BY <1>1, <1>6, <1>7, <2>1, <2>2
  <1> QED
    BY <1>1, <1>2, <1>4, <1>8 DEF S, P

\* The pages laid out by ncx_slab_init end inside the memory it was given and
\* waste less than a page behind them, for every geometry, alignment and size;
\* the exception is memory with less than the header and a page to lay out,
\* whose aligned start may lie behind its end.
THEOREM PoolFitsItsMemory == Spec => InitFits
  <1>1. Init => AreaInv
    BY DEF Init, AreaInv
  <1>2. AreaInv /\ [Next]_vars => AreaInv'
    BY DEF AreaInv, Waiting, Next, vars, ncx_slab_init, ncx_slab_alloc, ncx_slab_free
  <1>3. AreaInv /\ [Next]_vars =>
           [area' # area =>
              \/ /\ Start(area) + n' * pagesize <= End(area)
                 /\ End(area) < Start(area) + (n' + 1) * pagesize
              \/ /\ Start(area) > End(area)
                 /\ n' * pagesize < HeaderBytes + pagesize]_vars
    <2> SUFFICES ASSUME AreaInv, [Next]_vars, area' # area
                 PROVE  \/ /\ Start(area) + n' * pagesize <= End(area)
                           /\ End(area) < Start(area) + (n' + 1) * pagesize
                        \/ /\ Start(area) > End(area)
                           /\ n' * pagesize < HeaderBytes + pagesize
      OBVIOUS
    <2>1. n' = Pages(area) /\ Waiting
      BY DEF Next, vars, ncx_slab_init, ncx_slab_alloc, ncx_slab_free
    <2>2. area \in [base : 0..(pagesize-1), size : 0..MaxArea]
      BY <2>1 DEF AreaInv
    <2>3. CASE Start(area) <= End(area)
      BY <2>1, <2>2, <2>3, PagesFit
    <2>4. CASE ~(Start(area) <= End(area))
      BY <2>1, <2>2, <2>4, PagesOutside
    <2> QED
      BY <2>3, <2>4
  <1> QED
    BY <1>1, <1>2, <1>3, PTL DEF Spec, InitFits

-----------------------------------------------------------------------------
(* The walk along a list.                                                    *)

\* A set of numbers has a least one.
LEMMA LowestNumber ==
  ASSUME NEW S \in SUBSET Nat, S # {}
  PROVE  Min(S) \in S /\ \A f \in S : Min(S) <= f
  <1> DEFINE Less == {ss \in Nat \X Nat : ss[1] < ss[2]}
  <1>1. IsWellFoundedOn(Less, Nat)
    BY NatLessThanWellFounded, Zenon DEF OpToRel
  <1>2. \E x \in S : \A y \in S : ~(<<y, x>> \in Less)
    <2> HIDE DEF Less
    <2> QED
      BY <1>1, WFMin
  <1>3. \E x \in S : \A y \in S : x <= y
    <2>1. \A x, y \in Nat : ~(<<y, x>> \in Less) => x <= y
      OBVIOUS
    <2> HIDE DEF Less
    <2> QED
      BY <1>2, <2>1
  <1> QED
    BY <1>3 DEF Min

\* f follows nx from h for k steps.
Walk(nx, h, k, f) ==
    /\ f \in [0..k -> Nodes \cup {NULL}] /\ f[0] = h
    /\ \A i \in 1..k : f[i] = IF f[i-1] = NULL THEN NULL ELSE nx[f[i-1]]

\* There is a walk of every length.
LEMMA WalkExists ==
  ASSUME NEW nx \in [Nodes -> Nodes \cup {NULL}], NEW h \in Nodes, NEW k \in Nat
  PROVE  \E f : Walk(nx, h, k, f)
  <1> DEFINE Bad == {i \in Nat : ~\E f : Walk(nx, h, i, f)}
  <1>1. SUFFICES ASSUME Bad # {} PROVE FALSE
    OBVIOUS
  <1>2. PICK m \in Bad : \A i \in Bad : m <= i
    <2>1. Bad \in SUBSET Nat
      OBVIOUS
    <2> HIDE DEF Bad
    <2> QED
      BY <1>1, <2>1, LowestNumber
  <1>3. m # 0
    <2>1. Walk(nx, h, 0, [i \in 0..0 |-> h])
      BY DEF Walk
    <2> QED
      BY <2>1
  <1>4. m - 1 \in Nat /\ m - 1 \notin Bad
    BY <1>2, <1>3
  <1>5. PICK f : Walk(nx, h, m - 1, f)
    BY <1>4
  <1> DEFINE to == IF f[m - 1] = NULL THEN NULL ELSE nx[f[m - 1]]
             g == [i \in 0..m |-> IF i = m THEN to ELSE f[i]]
  <1>6. m \in Nat /\ \A i \in 0..m : i = m \/ i \in 0..(m - 1)
    BY <1>4
  <1>7. to \in Nodes \cup {NULL}
    BY <1>4, <1>5 DEF Walk
  <1>8. g \in [0..m -> Nodes \cup {NULL}] /\ g[0] = h
    <2> HIDE DEF to
    <2> QED
      BY <1>3, <1>4, <1>5, <1>6, <1>7 DEF Walk
  <1>9. \A i \in 1..m : g[i] = IF g[i-1] = NULL THEN NULL ELSE nx[g[i-1]]
    <2> TAKE i \in 1..m
    <2>1. i - 1 \in 0..(m - 1) /\ i - 1 # m /\ i \in 0..m /\ i - 1 \in 0..m
      BY <1>4
    <2>2. g[i-1] = f[i-1]
      BY <2>1
    <2>3. CASE i = m
      BY <2>1, <2>2, <2>3
    <2>4. CASE i # m
      <3>1. i \in 1..(m - 1) /\ g[i] = f[i]
        BY <1>4, <2>1, <2>4
      <3> QED
        BY <1>5, <2>2, <3>1 DEF Walk
    <2> QED
      BY <2>3, <2>4
  <1>10. Walk(nx, h, m, g)
    <2> HIDE DEF g
    <2> QED
      BY <1>8, <1>9 DEF Walk
  <1> QED
    BY <1>10

\* Pages, heads and NULL are different.
LEMMA NodesDiffer ==
  /\ Heads \subseteq Nodes /\ Pgs \subseteq Nodes /\ NULL \notin Nodes
  /\ Heads \cap Pgs = {} /\ Free \in Heads /\ \A s \in Shifts : Slot(s) \in Heads /\ Slot(s) # Free
  BY SlabAssumption DEF Heads, Nodes, Pgs, Slot, Free, NULL, Shifts

\* The walk that Listed follows, and where it stops.
ListWalk(s, h, f, stop) ==
    /\ Walk(s.next, h, MaxPages + 1, f) /\ Listed(s, h) = [k \in 1..(stop - 1) |-> f[k]]
    /\ stop \in 1..(MaxPages + 1) /\ (stop <= MaxPages => f[stop] \in {h, NULL})
    /\ \A k \in 1..(stop - 1) : f[k] # h

\* Listed is the walk along next, up to the return to the head.
LEMMA ListedWalk ==
  ASSUME NEW s \in PoolType, NEW h \in Heads
  PROVE  \E f, stop : ListWalk(s, h, f, stop)
  <1> DEFINE Step(f) == [k \in 0..MaxPages+1 |->
                           IF k = 0 THEN h ELSE IF f[k-1] = NULL THEN NULL ELSE s.next[f[k-1]]]
             at == CHOOSE f : f = Step(f)
             stop == Min({k \in 1..MaxPages : at[k] \in {h, NULL}} \cup {MaxPages + 1})
  <1>1. MaxPages \in Nat \ {0} /\ h \in Nodes
    BY SlabAssumption, NodesDiffer
  <1>2. Listed(s, h) = [k \in 1..(stop - 1) |-> at[k]]
    BY DEF Listed
  <1>3. s.next \in [Nodes -> Nodes \cup {NULL}]
    BY DEF PoolType, Nexts
  <1>4. PICK f : Walk(s.next, h, MaxPages + 1, f)
    BY <1>1, <1>3, WalkExists
  <1>5. f = Step(f)
    <2>1. DOMAIN f = 0..MaxPages+1 /\ f = [k \in 0..MaxPages+1 |-> f[k]] /\ f[0] = h
      BY <1>4 DEF Walk
    <2>2. \A k \in 0..MaxPages+1 : k # 0 => k \in 1..MaxPages+1
      BY <1>1
    <2>3. \A k \in 0..MaxPages+1 :
             f[k] = IF k = 0 THEN h ELSE IF f[k-1] = NULL THEN NULL ELSE s.next[f[k-1]]
      BY <1>4, <2>1, <2>2 DEF Walk
    <2> QED
      BY <2>1, <2>3
  <1>6. at = Step(at)
    BY <1>5
  <1> HIDE DEF at
  <1>7. /\ at[0] = h /\ at = [k \in 0..MaxPages+1 |-> at[k]]
        /\ \A k \in 1..MaxPages+1 : at[k] = IF at[k-1] = NULL THEN NULL ELSE s.next[at[k-1]]
    <2>1. 0 \in 0..MaxPages+1 /\ \A k \in 1..MaxPages+1 : k \in 0..MaxPages+1 /\ k # 0
      BY <1>1
    <2>2. at = [k \in 0..MaxPages+1 |-> at[k]]
      BY <1>6
    <2> QED
      BY <1>6, <2>1, <2>2
  <1> HIDE DEF Step
  <1> DEFINE Bad == {k \in 0..MaxPages+1 : at[k] \notin Nodes \cup {NULL}}
  <1>8. Bad = {}
    <2>1. SUFFICES ASSUME Bad # {} PROVE FALSE
      OBVIOUS
    <2>2. PICK k \in Bad : \A i \in Bad : k <= i
      <3>1. Bad \in SUBSET Nat
        BY <1>1
      <3> HIDE DEF Bad
      <3> QED
        BY <2>1, <3>1, LowestNumber
    <2>3. k # 0
      BY <1>1, <1>7
    <2>4. k \in 1..MaxPages+1 /\ k - 1 \in 0..MaxPages+1 /\ ~(k <= k - 1)
      BY <1>1, <2>3
    <2>5. at[k-1] \in Nodes \cup {NULL}
      BY <2>2, <2>4
    <2> QED
      BY <1>3, <1>7, <2>2, <2>4, <2>5
  <1>9. Walk(s.next, h, MaxPages + 1, at)
    BY <1>7, <1>8 DEF Walk
  <1> DEFINE Ends == {k \in 1..MaxPages : at[k] \in {h, NULL}} \cup {MaxPages + 1}
  <1>10. stop \in Ends /\ \A k \in Ends : stop <= k
    <2>1. Ends \in SUBSET Nat /\ Ends # {}
      BY <1>1
    <2>2. stop = Min(Ends)
      OBVIOUS
    <2> HIDE DEF Ends, stop
    <2> QED
      BY <2>1, <2>2, LowestNumber
  <1> HIDE DEF stop
  <1>11. stop \in 1..(MaxPages + 1) /\ (stop <= MaxPages => at[stop] \in {h, NULL})
    BY <1>1, <1>10
  <1>12. ASSUME NEW k \in 1..(stop - 1) PROVE at[k] # h
    <2>1. k \in 1..MaxPages /\ ~(stop <= k)
      BY <1>1, <1>11
    <2> QED
      BY <1>10, <2>1
  <1> QED
    BY <1>2, <1>9, <1>11, <1>12 DEF ListWalk

\* The walk stays among the pages that the head owns.
LEMMA WalkOwned ==
  ASSUME NEW s, NEW L, NEW own, LinkInv(s, L, own), NEW h \in Heads,
         \A x \in Heads : own[x] = x, NEW m \in Nat, NEW f, Walk(s.next, h, m, f), NEW k \in 0..m
  PROVE  /\ f[k] \in L \cup {h} /\ own[f[k]] = h
         /\ f[k] \in L => f[k] # h /\ s.next[f[k]] # f[k]
         /\ k > 0 => f[k] = s.next[f[k-1]] /\ (f[k] \in L => s.prev[f[k]][1] = f[k-1])
  <1> DEFINE Good(i) == /\ f[i] \in L \cup Heads /\ own[f[i]] = h
                        /\ f[i] \in L => s.next[f[i]] # f[i]
             Bad == {i \in 0..m : ~Good(i)}
  <1>1. L \cup Heads \subseteq Nodes /\ NULL \notin L \cup Heads /\ L \cap Heads = {}
    BY NodesDiffer DEF LinkInv
  <1>2. Bad = {}
    <2>1. SUFFICES ASSUME Bad # {} PROVE FALSE
      OBVIOUS
    <2>2. PICK i \in Bad : \A j \in Bad : i <= j
      <3>1. Bad \in SUBSET Nat
        OBVIOUS
      <3> HIDE DEF Bad
      <3> QED
        BY <2>1, <3>1, LowestNumber
    <2>3. i # 0
      BY <1>1 DEF Walk
    <2>4. i \in 1..m /\ i - 1 \in 0..m /\ ~(i <= i - 1)
      BY <2>3
    <2>5. Good(i - 1)
      BY <2>2, <2>4
    <2>6. f[i] = s.next[f[i-1]]
      BY <1>1, <2>4, <2>5 DEF Walk
    <2>7. f[i] \in L \cup Heads /\ own[f[i]] = h
      BY <2>5, <2>6 DEF LinkInv
    <2>8. ASSUME f[i] \in L, s.next[f[i]] = f[i] PROVE FALSE
      <3>1. s.prev[f[i]][1] = f[i-1] /\ s.prev[f[i]][1] = f[i]
        BY <2>5, <2>6, <2>8 DEF LinkInv
      <3> QED
        BY <2>5, <2>8, <3>1
    <2> QED
      BY <2>2, <2>7, <2>8
  <1>3. Good(k)
    BY <1>2
  <1>4. ASSUME k > 0 PROVE f[k] = s.next[f[k-1]] /\ (f[k] \in L => s.prev[f[k]][1] = f[k-1])
    <2>1. k \in 1..m /\ k - 1 \in 0..m
      BY <1>4
    <2>2. Good(k - 1)
      BY <1>2, <2>1
    <2>3. f[k] = s.next[f[k-1]]
      BY <1>1, <2>1, <2>2 DEF Walk
    <2> QED
      BY <2>2, <2>3 DEF LinkInv
  <1> QED
    BY <1>1, <1>3, <1>4

\* What a list with head h contains: pages that h owns, none of them linked to
\* itself.  It is empty only if the head is linked to itself.
LEMMA ListedOwned ==
  ASSUME NEW s \in PoolType, NEW L, NEW own, LinkInv(s, L, own), NEW h \in Heads,
         \A x \in Heads : own[x] = x
  PROVE  /\ \A i \in DOMAIN Listed(s, h) :
               LET x == Listed(s, h)[i] IN x \in L /\ own[x] = h /\ s.next[x] # x
         /\ Listed(s, h) = <<>> => s.next[h] = h
         /\ DOMAIN Listed(s, h) \in SUBSET Nat
  <1>1. MaxPages \in Nat \ {0} /\ MaxPages + 1 \in Nat
    BY SlabAssumption
  <1>2. PICK f, stop : ListWalk(s, h, f, stop)
    BY ListedWalk
  <1>3. /\ Walk(s.next, h, MaxPages + 1, f) /\ Listed(s, h) = [k \in 1..(stop - 1) |-> f[k]]
        /\ stop \in 1..(MaxPages + 1) /\ (stop <= MaxPages => f[stop] \in {h, NULL})
        /\ \A k \in 1..(stop - 1) : f[k] # h
    BY <1>2 DEF ListWalk
  <1>4. \A k \in 0..(MaxPages + 1) :
           /\ f[k] \in L \cup {h} /\ own[f[k]] = h /\ (f[k] \in L => s.next[f[k]] # f[k])
           /\ k > 0 => f[k] = s.next[f[k-1]] /\ (f[k] \in L => s.prev[f[k]][1] = f[k-1])
    BY <1>1, <1>3, WalkOwned
  <1>5. ASSUME NEW i \in 1..(stop - 1) PROVE f[i] \in L /\ own[f[i]] = h /\ s.next[f[i]] # f[i]
    <2>1. i \in 0..(MaxPages + 1) /\ i > 0 /\ i - 1 \in 0..(MaxPages + 1)
      BY <1>1, <1>3
    <2>2. f[i] \in L /\ own[f[i]] = h /\ s.prev[f[i]][1] = f[i-1] /\ f[i] = s.next[f[i-1]]
      BY <1>3, <1>4, <2>1
    <2> QED
      BY <1>4, <2>1, <2>2
  <1>6. ASSUME s.next[h] # h PROVE Listed(s, h) # <<>>
    <2>1. 1 \in 0..(MaxPages + 1) /\ f[1] = s.next[h]
      BY <1>1, <1>3, <1>4 DEF Walk
    <2>2. f[1] \notin {h, NULL}
      BY <1>6, <2>1, NodesDiffer DEF LinkInv
    <2>3. stop # 1
      BY <1>1, <1>3, <2>2
    <2>4. 1 \in DOMAIN Listed(s, h)
      BY <1>1, <1>3, <2>3
    <2> QED
      BY <2>4
  <1> QED
    BY <1>3, <1>5, <1>6

\* The ranks go down along the pages of a walk.
LEMMA RanksFall ==
  ASSUME NEW s, NEW L, NEW own, LinkInv(s, L, own), NEW h \in Heads,
         \A x \in Heads : own[x] = x, NEW m \in Nat, NEW f, Walk(s.next, h, m, f),
         NEW b \in Nat, NEW r, Ranks(s.next, L, b, r), \A k \in 1..m : f[k] \in L,
         NEW j \in 1..m, NEW i \in 1..(j - 1)
  PROVE  r[f[j]] < r[f[i]]
  <1> DEFINE Bad == {k \in 1..m : \E g \in 1..(k - 1) : ~(r[f[k]] < r[f[g]])}
  <1>1. SUFFICES ASSUME Bad # {} PROVE FALSE
    OBVIOUS
  <1>2. PICK k \in Bad : \A g \in Bad : k <= g
    <2>1. Bad \in SUBSET Nat
      OBVIOUS
    <2> HIDE DEF Bad
    <2> QED
      BY <1>1, <2>1, LowestNumber
  <1>3. PICK g \in 1..(k - 1) : ~(r[f[k]] < r[f[g]])
    BY <1>2
  <1>4. k \in 1..m /\ k \in 0..m /\ k > 0 /\ k - 1 \in 1..m /\ g \in 1..m /\ ~(k <= k - 1)
    BY <1>2, <1>3
  <1>5. f[k] \in L /\ f[k-1] \in L /\ f[g] \in L /\ f[k] = s.next[f[k-1]]
    BY <1>4, WalkOwned
  <1>6. /\ r[f[k]] < r[f[k-1]]
        /\ r[f[k]] \in Int /\ r[f[k-1]] \in Int /\ r[f[g]] \in Int
    BY <1>5 DEF Ranks, LinkInv
  <1>7. CASE g = k - 1
    BY <1>3, <1>6, <1>7
  <1>8. CASE g # k - 1
    <2>1. g \in 1..((k - 1) - 1) /\ k - 1 \notin Bad
      BY <1>2, <1>3, <1>4, <1>8
    <2>2. r[f[k-1]] < r[f[g]]
      BY <1>4, <2>1
    <2> QED
      BY <1>3, <1>6, <2>2
  <1> QED
    BY <1>7, <1>8

\* Pages that are in order cannot keep a walk away from its head: there are only
\* MaxPages of them.
LEMMA WalkReturns ==
  ASSUME NEW s \in PoolType, NEW L, NEW own, LinkInv(s, L, own), Sorted(s.next, L),
         NEW h \in Heads, \A x \in Heads : own[x] = x, NEW f, NEW stop, ListWalk(s, h, f, stop)
  PROVE  f[stop] = h
  <1>1. MaxPages \in Nat \ {0} /\ MaxPages + 1 \in Nat
    BY SlabAssumption
  <1>2. /\ Walk(s.next, h, MaxPages + 1, f) /\ stop \in 1..(MaxPages + 1)
        /\ stop <= MaxPages => f[stop] \in {h, NULL}
        /\ \A k \in 1..(stop - 1) : f[k] # h
    BY DEF ListWalk
  <1>3. \A k \in 0..(MaxPages + 1) : f[k] \in L \cup {h}
    BY <1>1, <1>2, WalkOwned
  <1>4. NULL \notin L \cup {h} /\ L \subseteq Pgs
    BY NodesDiffer DEF LinkInv
  <1>5. SUFFICES ASSUME f[stop] # h PROVE FALSE
    OBVIOUS
  <1>6. stop = MaxPages + 1
    BY <1>1, <1>2, <1>3, <1>4, <1>5
  <1>7. ASSUME NEW k \in 1..(MaxPages + 1) PROVE f[k] \in L
    <2>1. k = stop \/ k \in 1..(stop - 1)
      BY <1>1, <1>6
    <2> QED
      BY <1>1, <1>2, <1>3, <1>5, <2>1
  <1>8. PICK b \in Nat : \E r : Ranks(s.next, L, b, r)
    BY DEF Sorted
  <1>9. PICK r : Ranks(s.next, L, b, r)
    BY <1>8
  <1>10. \A j \in 1..(MaxPages + 1) : \A i \in 1..(j - 1) :
           r[f[j]] < r[f[i]] /\ r[f[j]] \in Int /\ r[f[i]] \in Int
    <2> TAKE j \in 1..(MaxPages + 1)
    <2> TAKE i \in 1..(j - 1)
    <2>1. r[f[j]] < r[f[i]]
      BY <1>1, <1>2, <1>7, <1>9, RanksFall
    <2>2. i \in 1..(MaxPages + 1)
      BY <1>1
    <2> QED
      BY <1>4, <1>7, <1>9, <2>1, <2>2 DEF Ranks
  <1>11. PICK g : g = [k \in 1..(MaxPages + 1) |-> f[k]]
    OBVIOUS
  <1>12. g \in [1..(MaxPages + 1) -> Pgs]
    BY <1>4, <1>7, <1>11
  <1>13. /\ IsFiniteSet(1..(MaxPages + 1)) /\ Cardinality(1..(MaxPages + 1)) = MaxPages + 1
         /\ IsFiniteSet(Pgs) /\ Cardinality(Pgs) = MaxPages
    <2>1. 0 \in Int /\ 1 \in Int /\ MaxPages + 1 \in Int /\ MaxPages - 1 \in Int
          /\ ~(1 > MaxPages + 1) /\ ~(0 > MaxPages - 1)
      BY <1>1
    <2>2. IsFiniteSet(1..(MaxPages + 1)) /\ Cardinality(1..(MaxPages + 1)) = (MaxPages + 1) - 1 + 1
      BY <2>1, FS_Interval
    <2>3. IsFiniteSet(Pgs) /\ Cardinality(Pgs) = (MaxPages - 1) - 0 + 1
      BY <2>1, FS_Interval DEF Pgs
    <2> QED
      BY <1>1, <2>2, <2>3
  <1>14. PICK x, y \in 1..(MaxPages + 1) : x # y /\ g[x] = g[y]
    <2>1. PICK S : S = 1..(MaxPages + 1)
      OBVIOUS
    <2>2. /\ IsFiniteSet(S) /\ IsFiniteSet(Pgs) /\ Cardinality(Pgs) < Cardinality(S)
          /\ g \in [S -> Pgs]
      BY <1>1, <1>12, <1>13, <2>1
    <2>3. \E x, y \in S : x # y /\ g[x] = g[y]
      BY <2>2, FS_PigeonHole
    <2> QED
      BY <2>1, <2>3
  <1>15. x \in 1..(y - 1) \/ y \in 1..(x - 1)
    BY <1>1, <1>14
  <1> QED
    BY <1>10, <1>11, <1>14, <1>15

\* A list holds all pages that its head owns.
LEMMA WalkComplete ==
  ASSUME NEW s \in PoolType, NEW L, NEW own, LinkInv(s, L, own), Sorted(s.next, L),
         NEW h \in Heads, \A x \in Heads : own[x] = x, NEW f, NEW stop, ListWalk(s, h, f, stop),
         NEW p \in L, own[p] = h
  PROVE  \E k \in 1..(stop - 1) : f[k] = p
  <1>1. MaxPages \in Nat \ {0} /\ MaxPages + 1 \in Nat
    BY SlabAssumption
  <1>2. Walk(s.next, h, MaxPages + 1, f) /\ stop \in 1..(MaxPages + 1) /\ f[stop] = h /\ f[0] = h
    <2>1. f[stop] = h
      BY WalkReturns
    <2>2. Walk(s.next, h, MaxPages + 1, f) /\ stop \in 1..(MaxPages + 1)
      BY DEF ListWalk
    <2> QED
      BY <2>1, <2>2 DEF Walk
  <1>3. \A k \in 1..(MaxPages + 1) : f[k] = s.next[f[k-1]]
    <2> TAKE k \in 1..(MaxPages + 1)
    <2>1. k \in 0..(MaxPages + 1) /\ k > 0
      BY <1>1
    <2> QED
      BY <1>1, <1>2, <2>1, WalkOwned
  <1>4. PICK b \in Nat : \E r : Ranks(s.next, L, b, r)
    BY DEF Sorted
  <1>5. PICK r : Ranks(s.next, L, b, r)
    BY <1>4
  <1>6. L \subseteq Pgs /\ h \notin L /\ \A x \in L : r[x] \in 0..b
    BY <1>5, NodesDiffer DEF LinkInv, Ranks
  <1> DEFINE On(x) == \E k \in 1..(stop - 1) : f[k] = x
             Miss == {x \in L : own[x] = h /\ ~On(x)}
             D == {b - r[x] : x \in Miss}
  <1>7. SUFFICES ASSUME p \in Miss PROVE FALSE
    OBVIOUS
  <1>8. PICK d \in D : \A e \in D : d <= e
    <2>1. D \in SUBSET Nat /\ D # {}
      BY <1>6, <1>7
    <2> HIDE DEF D
    <2> QED
      BY <2>1, LowestNumber
  <1>9. PICK x \in Miss : d = b - r[x]
    BY <1>8
  <1>10. PICK y : y = s.prev[x][1]
    OBVIOUS
  <1>11. x \in L /\ own[x] = h /\ x # h /\ y \in L \cup Heads /\ s.next[y] = x /\ own[y] = h
    BY <1>6, <1>9, <1>10 DEF LinkInv
  <1>12. \A k \in 0..(stop - 1) : f[k] = y => On(x)
    <2> SUFFICES ASSUME NEW k \in 0..(stop - 1), f[k] = y PROVE On(x)
      OBVIOUS
    <2>1. k + 1 \in 1..(MaxPages + 1) /\ (k + 1) - 1 = k
      BY <1>1, <1>2
    <2>2. f[k+1] = x
      BY <1>3, <1>11, <2>1
    <2>3. k + 1 # stop
      BY <1>2, <1>11, <2>2
    <2>4. k + 1 \in 1..(stop - 1)
      BY <1>1, <1>2, <2>3
    <2> QED
      BY <2>2, <2>4
  <1>13. y \notin Heads
    <2>1. y \in Heads => y = f[0]
      BY <1>2, <1>11
    <2>2. 0 \in 0..(stop - 1)
      BY <1>1, <1>2
    <2> QED
      BY <1>9, <1>12, <2>1, <2>2
  <1>14. y \in L /\ ~On(y)
    <2>1. \A k \in 1..(stop - 1) : k \in 0..(stop - 1)
      BY <1>1, <1>2
    <2> QED
      BY <1>9, <1>11, <1>12, <1>13, <2>1
  <1>15. r[x] < r[y] /\ b - r[y] \in D
    BY <1>5, <1>11, <1>14 DEF Ranks
  <1>16. b - r[x] <= b - r[y]
    BY <1>8, <1>9, <1>15
  <1> QED
    BY <1>6, <1>11, <1>14, <1>15, <1>16

-----------------------------------------------------------------------------
(* List surgery keeps the rings.                                             *)

\* LinkInv is about the pages on lists and the heads only.
LEMMA LinkSame ==
  ASSUME NEW s, NEW t, NEW L, NEW own, NEW own2, LinkInv(s, L, own),
         \A x \in L \cup Heads : t.next[x] = s.next[x] /\ own2[x] = own[x],
         \A x \in L : t.prev[x] = s.prev[x]
  PROVE  LinkInv(t, L, own2)
  BY DEF LinkInv

\* The fields after Unlink.
LEMMA UnlinkFields ==
  ASSUME NEW s \in PoolType, NEW p \in Pgs, s.prev[p][1] \in Nodes, s.next[p] \in Nodes
  PROVE  /\ Unlink(s, p) \in PoolType /\ Unlink(s, p).slab = s.slab
         /\ \A x \in Nodes :
               /\ Unlink(s, p).next[x] = IF x = s.prev[p][1] THEN s.next[p] ELSE s.next[x]
               /\ Unlink(s, p).prev[x] = IF x = s.next[p] THEN s.prev[p] ELSE s.prev[x]
  <1>1. p \in Nodes
    BY NodesDiffer
  <1>2. s.next \in Nexts /\ s.prev \in Prevs
    BY DEF PoolType
  <1>3. /\ Unlink(s, p).slab = s.slab
        /\ Unlink(s, p).next = [s.next EXCEPT ![s.prev[p][1]] = s.next[p]]
        /\ Unlink(s, p).prev = [s.prev EXCEPT ![s.next[p]] = s.prev[p]]
    BY DEF Unlink, PoolType
  <1>4. /\ [s.next EXCEPT ![s.prev[p][1]] = s.next[p]] \in Nexts
        /\ [s.prev EXCEPT ![s.next[p]] = s.prev[p]] \in Prevs
    BY <1>1, <1>2 DEF Nexts, Prevs
  <1>5. Unlink(s, p) \in PoolType
    BY <1>4 DEF PoolType, Unlink
  <1> QED
    BY <1>1, <1>2, <1>3, <1>5 DEF Nexts, Prevs

\* A page that is unlinked leaves the rest of its ring sound.
LEMMA UnlinkRing ==
  ASSUME NEW s \in PoolType, NEW L, NEW own, LinkInv(s, L, own), NEW p \in L
  PROVE  /\ Unlink(s, p) \in PoolType /\ Unlink(s, p).slab = s.slab
         /\ LinkInv(Unlink(s, p), L \ {p}, own)
  <1>1. PICK a, b, t : a = s.prev[p][1] /\ b = s.next[p] /\ t = Unlink(s, p)
    OBVIOUS
  <1>2. /\ a \in L \cup Heads /\ s.next[a] = p /\ b \in L \cup Heads /\ own[b] = own[p]
        /\ own[p] = own[a] /\ s.prev[p][2] = HeadKind(own[p])
        /\ L \subseteq Pgs /\ L \cup Heads \subseteq Nodes /\ (b \in L => s.prev[b][1] = p)
    BY <1>1, NodesDiffer DEF LinkInv
  <1>3. /\ t \in PoolType /\ t.slab = s.slab
        /\ \A x \in Nodes : /\ t.next[x] = IF x = a THEN b ELSE s.next[x]
                            /\ t.prev[x] = IF x = b THEN s.prev[p] ELSE s.prev[x]
    BY <1>1, <1>2, UnlinkFields
  <1>4. /\ \A x \in L \cup Heads : /\ s.next[x] \in L \cup Heads /\ own[s.next[x]] = own[x]
                                   /\ s.next[x] \in L => s.prev[s.next[x]][1] = x
        /\ \A x \in L : /\ s.prev[x][1] \in L \cup Heads /\ s.next[s.prev[x][1]] = x
                        /\ s.prev[x][2] = HeadKind(own[x])
    BY DEF LinkInv
  <1>5. Heads \cap L = {}
    BY <1>2, NodesDiffer
  <1>6. ASSUME NEW x \in (L \ {p}) \cup Heads
        PROVE  /\ t.next[x] \in (L \ {p}) \cup Heads /\ own[t.next[x]] = own[x]
               /\ t.next[x] \in L \ {p} => t.prev[t.next[x]][1] = x
    <2>1. CASE x = a
      <3>1. b # p
        BY <1>1, <1>2, <1>4, <1>5, <2>1
      <3> QED
        BY <1>1, <1>2, <1>3, <2>1, <3>1
    <2>2. CASE x # a
      <3>1. s.next[x] # p
        BY <1>1, <1>4, <2>2
      <3>2. s.next[x] \in L => s.next[x] # b
        BY <1>1, <1>2, <1>4, <1>5
      <3> QED
        BY <1>2, <1>3, <1>4, <2>2, <3>1, <3>2
    <2> QED
      BY <2>1, <2>2
  <1>7. ASSUME NEW x \in L \ {p}
        PROVE  /\ t.prev[x][1] \in (L \ {p}) \cup Heads /\ t.next[t.prev[x][1]] = x
               /\ t.prev[x][2] = HeadKind(own[x])
    <2>1. CASE x = b
      <3>1. a # p
        BY <1>1, <1>2, <2>1
      <3> QED
        BY <1>1, <1>2, <1>3, <2>1, <3>1
    <2>2. CASE x # b
      <3>1. s.prev[x][1] # p /\ s.prev[x][1] # a
        BY <1>1, <1>2, <1>4, <2>2
      <3> QED
        BY <1>2, <1>3, <1>4, <2>2, <3>1
    <2> QED
      BY <2>1, <2>2
  <1>8. LinkInv(t, L \ {p}, own)
    BY <1>2, <1>6, <1>7 DEF LinkInv
  <1> QED
    BY <1>1, <1>3, <1>8

\* t is s with page p in front of the list of head h.
Pushed(s, t, h, p, type) ==
    /\ t \in PoolType /\ t.slab = s.slab
    /\ \A x \in Nodes :
          /\ t.next[x] = IF x = h THEN p ELSE IF x = p THEN s.next[h] ELSE s.next[x]
          /\ t.prev[x] = IF x = p THEN <<h, type>> ELSE IF x = s.next[h] THEN <<p, type>>
                         ELSE s.prev[x]

\* The fields after PushFront.
LEMMA PushFields ==
  ASSUME NEW s \in PoolType, NEW p \in Pgs, NEW h \in Heads, s.next[h] \in Nodes,
         s.next[h] # p, NEW type \in {"page", "small", "exact", "big"}
  PROVE  Pushed(s, PushFront(s, h, p, type), h, p, type)
  <1>1. p \in Nodes /\ h \in Nodes /\ p # h
    BY NodesDiffer
  <1>2. s.next \in Nexts /\ s.prev \in Prevs
    BY DEF PoolType
  <1>3. /\ PushFront(s, h, p, type).slab = s.slab
        /\ PushFront(s, h, p, type).next = [s.next EXCEPT ![p] = s.next[h], ![h] = p]
        /\ PushFront(s, h, p, type).prev =
              [s.prev EXCEPT ![p] = <<h, type>>, ![s.next[h]] = <<p, type>>]
    BY DEF PushFront, PoolType
  <1>4. /\ [s.next EXCEPT ![p] = s.next[h], ![h] = p] \in Nexts
        /\ [s.prev EXCEPT ![p] = <<h, type>>, ![s.next[h]] = <<p, type>>] \in Prevs
    BY <1>1, <1>2 DEF Nexts, Prevs
  <1>5. PushFront(s, h, p, type) \in PoolType
    BY <1>4 DEF PoolType, PushFront
  <1> QED
    BY <1>1, <1>2, <1>3, <1>5 DEF Nexts, Prevs, Pushed

\* A page that is on no list joins the ring of its owner.
LEMMA PushRing ==
  ASSUME NEW s \in PoolType, NEW L, NEW own, LinkInv(s, L, own), NEW p \in Pgs, p \notin L,
         NEW h \in Heads, own[p] = h, own[h] = h,
         NEW type \in {"page", "small", "exact", "big"}, type = HeadKind(h)
  PROVE  /\ PushFront(s, h, p, type) \in PoolType /\ PushFront(s, h, p, type).slab = s.slab
         /\ LinkInv(PushFront(s, h, p, type), L \cup {p}, own)
  <1>1. PICK b, t : b = s.next[h] /\ t = PushFront(s, h, p, type)
    OBVIOUS
  <1>2. /\ b \in L \cup Heads /\ own[b] = h /\ p \notin Heads
        /\ L \subseteq Pgs /\ L \cup Heads \subseteq Nodes /\ (b \in L => s.prev[b][1] = h)
        /\ p \in Nodes /\ Heads \cap L = {}
    BY <1>1, NodesDiffer DEF LinkInv
  <1>3. /\ t \in PoolType /\ t.slab = s.slab
        /\ \A x \in Nodes :
              /\ t.next[x] = IF x = h THEN p ELSE IF x = p THEN b ELSE s.next[x]
              /\ t.prev[x] = IF x = p THEN <<h, type>> ELSE IF x = b THEN <<p, type>>
                             ELSE s.prev[x]
    <2>1. s.next[h] \in Nodes /\ s.next[h] # p
      BY <1>1, <1>2
    <2>2. Pushed(s, PushFront(s, h, p, type), h, p, type)
      BY <2>1, PushFields
    <2> QED
      BY <1>1, <2>2 DEF Pushed
  <1>4. /\ \A x \in L \cup Heads : /\ s.next[x] \in L \cup Heads /\ own[s.next[x]] = own[x]
                                   /\ s.next[x] \in L => s.prev[s.next[x]][1] = x
        /\ \A x \in L : /\ s.prev[x][1] \in L \cup Heads /\ s.next[s.prev[x][1]] = x
                        /\ s.prev[x][2] = HeadKind(own[x])
    BY DEF LinkInv
  <1>5. ASSUME NEW x \in (L \cup {p}) \cup Heads
        PROVE  /\ t.next[x] \in (L \cup {p}) \cup Heads /\ own[t.next[x]] = own[x]
               /\ t.next[x] \in L \cup {p} => t.prev[t.next[x]][1] = x
    <2>1. CASE x = h
      BY <1>2, <1>3, <2>1
    <2>2. CASE x = p
      <3>1. t.next[x] = b /\ b # p
        BY <1>2, <1>3, <2>2
      <3>2. b \in L => t.prev[b] = <<p, type>>
        BY <1>2, <1>3, <3>1
      <3> QED
        BY <1>2, <2>2, <3>1, <3>2
    <2>3. CASE x # h /\ x # p
      <3>1. t.next[x] = s.next[x] /\ x \in L \cup Heads
        BY <1>2, <1>3, <2>3
      <3>2. s.next[x] # p
        BY <1>2, <1>4, <3>1
      <3>3. s.next[x] \in L => s.next[x] # b
        BY <1>2, <1>4, <2>3, <3>1
      <3> QED
        BY <1>2, <1>3, <1>4, <3>1, <3>2, <3>3
    <2> QED
      BY <2>1, <2>2, <2>3
  <1>6. ASSUME NEW x \in L \cup {p}
        PROVE  /\ t.prev[x][1] \in (L \cup {p}) \cup Heads /\ t.next[t.prev[x][1]] = x
               /\ t.prev[x][2] = HeadKind(own[x])
    <2>1. CASE x = p
      BY <1>2, <1>3, <2>1
    <2>2. CASE x # p /\ x = b
      <3>1. t.prev[x] = <<p, type>>
        BY <1>2, <1>3, <2>2
      <3> QED
        BY <1>2, <1>3, <2>2, <3>1
    <2>3. CASE x # p /\ x # b
      <3>1. x \in L /\ t.prev[x] = s.prev[x]
        BY <1>2, <1>3, <2>3
      <3>2. s.prev[x][1] # p /\ s.prev[x][1] # h
        BY <1>1, <1>2, <1>4, <2>3, <3>1
      <3> QED
        BY <1>2, <1>3, <1>4, <3>1, <3>2
    <2> QED
      BY <2>1, <2>2, <2>3
  <1>7. LinkInv(t, L \cup {p}, own)
    BY <1>2, <1>5, <1>6 DEF LinkInv
  <1> QED
    BY <1>1, <1>3, <1>7

\* t is s with page p + k, the rest of a run, in the place of page p.
Replaced(s, t, p, k) ==
    /\ t \in PoolType
    /\ t.slab = [s.slab EXCEPT ![p + k] = Run("none", s.slab[p].count - k)]
    /\ \A x \in Nodes :
          /\ t.next[x] = IF x = s.prev[p][1] THEN p + k ELSE IF x = p + k THEN s.next[p]
                         ELSE s.next[x]
          /\ t.prev[x] = IF x = s.next[p] THEN <<p + k, "page">> ELSE IF x = p + k THEN s.prev[p]
                         ELSE s.prev[x]

\* The fields after Split.
LEMMA SplitFields ==
  ASSUME NEW s \in PoolType, NEW p \in Pgs, NEW k \in Nat, p + k \in Pgs,
         s.slab[p].count - k \in Nat, s.prev[p][1] \in Nodes, s.next[p] \in Nodes
  PROVE  Replaced(s, Split(s, p, k), p, k)
  <1>1. p \in Nodes /\ p + k \in Nodes
    BY NodesDiffer
  <1>2. s.next \in Nexts /\ s.prev \in Prevs /\ s.slab \in [Pgs -> Desc]
    BY DEF PoolType
  <1>3. /\ Split(s, p, k).slab = [s.slab EXCEPT ![p + k] = Run("none", s.slab[p].count - k)]
        /\ Split(s, p, k).next = [s.next EXCEPT ![p + k] = s.next[p], ![s.prev[p][1]] = p + k]
        /\ Split(s, p, k).prev =
              [s.prev EXCEPT ![p + k] = s.prev[p], ![s.next[p]] = <<p + k, "page">>]
    BY DEF Split, PoolType
  <1>4. Run("none", s.slab[p].count - k) \in Desc
    BY DEF Run, Desc
  <1>5. /\ [s.next EXCEPT ![p + k] = s.next[p], ![s.prev[p][1]] = p + k] \in Nexts
        /\ [s.prev EXCEPT ![p + k] = s.prev[p], ![s.next[p]] = <<p + k, "page">>] \in Prevs
        /\ [s.slab EXCEPT ![p + k] = Run("none", s.slab[p].count - k)] \in [Pgs -> Desc]
    <2>1. [s.slab EXCEPT ![p + k] = Run("none", s.slab[p].count - k)] \in [Pgs -> Desc]
      BY <1>2, <1>4
    <2> QED
      BY <1>1, <1>2, <2>1 DEF Nexts, Prevs
  <1>6. Split(s, p, k) \in PoolType
    BY <1>5 DEF PoolType, Split
  <1> QED
    BY <1>1, <1>2, <1>3, <1>6 DEF Nexts, Prevs, Replaced

\* The rest of a run takes the run's place in the ring.
LEMMA SplitRing ==
  ASSUME NEW s \in PoolType, NEW L, NEW own, LinkInv(s, L, own), NEW p \in L, NEW k \in Nat,
         p + k \in Pgs, p + k \notin L, s.slab[p].count - k \in Nat, s.next[p] # p,
         own[p] = Free, own[p + k] = Free
  PROVE  /\ Replaced(s, Split(s, p, k), p, k)
         /\ LinkInv(Split(s, p, k), (L \ {p}) \cup {p + k}, own)
  <1>1. PICK a, b, r, t : a = s.prev[p][1] /\ b = s.next[p] /\ r = p + k /\ t = Split(s, p, k)
    OBVIOUS
  <1>2. /\ a \in L \cup Heads /\ s.next[a] = p /\ b \in L \cup Heads /\ own[b] = Free
        /\ own[a] = Free /\ s.prev[p][2] = "page" /\ HeadKind(Free) = "page"
        /\ L \subseteq Pgs /\ L \cup Heads \subseteq Nodes /\ (b \in L => s.prev[b][1] = p)
        /\ r \in Nodes /\ r \in Pgs /\ r \notin L \cup Heads /\ Heads \cap L = {}
    BY <1>1, NodesDiffer DEF LinkInv, HeadKind
  <1>3. Replaced(s, Split(s, p, k), p, k)
    <2>1. p \in Pgs /\ s.prev[p][1] \in Nodes /\ s.next[p] \in Nodes
      BY <1>1, <1>2
    <2> QED
      BY <2>1, SplitFields
  <1>4. \A x \in Nodes :
           /\ t.next[x] = IF x = a THEN r ELSE IF x = r THEN b ELSE s.next[x]
           /\ t.prev[x] = IF x = b THEN <<r, "page">> ELSE IF x = r THEN s.prev[p] ELSE s.prev[x]
    BY <1>1, <1>3 DEF Replaced
  <1>5. /\ \A x \in L \cup Heads : /\ s.next[x] \in L \cup Heads /\ own[s.next[x]] = own[x]
                                   /\ s.next[x] \in L => s.prev[s.next[x]][1] = x
        /\ \A x \in L : /\ s.prev[x][1] \in L \cup Heads /\ s.next[s.prev[x][1]] = x
                        /\ s.prev[x][2] = HeadKind(own[x])
    BY DEF LinkInv
  <1>6. a # p /\ b # p /\ a # r /\ b # r /\ own[r] = Free
    BY <1>1, <1>2
  <1> DEFINE M == (L \ {p}) \cup {r}
  <1>7. ASSUME NEW x \in M \cup Heads
        PROVE  /\ t.next[x] \in M \cup Heads /\ own[t.next[x]] = own[x]
               /\ t.next[x] \in M => t.prev[t.next[x]][1] = x
    <2>1. CASE x = a
      <3>1. t.next[x] = r /\ t.prev[r] = s.prev[p]
        BY <1>2, <1>4, <1>6, <2>1
      <3> QED
        BY <1>1, <1>2, <1>6, <2>1, <3>1
    <2>2. CASE x = r
      <3>1. t.next[x] = b /\ (b \in L => t.prev[b] = <<r, "page">>)
        BY <1>2, <1>4, <1>6, <2>2
      <3> QED
        BY <1>2, <1>6, <2>2, <3>1
    <2>3. CASE x # a /\ x # r
      <3>1. t.next[x] = s.next[x] /\ x \in L \cup Heads /\ x # p
        BY <1>2, <1>4, <2>3
      <3>2. s.next[x] # p /\ s.next[x] # r
        BY <1>1, <1>2, <1>5, <2>3, <3>1
      <3>3. s.next[x] \in L => s.next[x] # b
        BY <1>2, <1>5, <3>1
      <3>4. s.next[x] \in L => t.prev[s.next[x]] = s.prev[s.next[x]]
        BY <1>2, <1>4, <3>2, <3>3
      <3> QED
        BY <1>2, <1>5, <3>1, <3>2, <3>4
    <2> QED
      BY <2>1, <2>2, <2>3
  <1>8. ASSUME NEW x \in M
        PROVE  /\ t.prev[x][1] \in M \cup Heads /\ t.next[t.prev[x][1]] = x
               /\ t.prev[x][2] = HeadKind(own[x])
    <2>1. CASE x = r
      <3>1. t.prev[x] = s.prev[p] /\ t.next[a] = r
        BY <1>2, <1>4, <1>6, <2>1
      <3> QED
        BY <1>1, <1>2, <1>6, <2>1, <3>1
    <2>2. CASE x = b
      <3>1. t.prev[x] = <<r, "page">> /\ t.next[r] = b
        BY <1>2, <1>4, <1>6, <2>2
      <3> QED
        BY <1>2, <2>2, <3>1
    <2>3. CASE x # r /\ x # b
      <3>1. x \in L /\ x # p /\ t.prev[x] = s.prev[x]
        BY <1>2, <1>4, <2>3
      <3>2. s.prev[x][1] # p /\ s.prev[x][1] # a /\ s.prev[x][1] # r
        BY <1>1, <1>2, <1>5, <2>3, <3>1
      <3> QED
        BY <1>2, <1>4, <1>5, <3>1, <3>2
    <2> QED
      BY <2>1, <2>2, <2>3
  <1>9. LinkInv(t, M, own)
    BY <1>2, <1>7, <1>8 DEF LinkInv
  <1> QED
    BY <1>1, <1>3, <1>9

\* The order of the pages of L depends on their next fields only.
LEMMA SortedSame ==
  ASSUME NEW f, NEW g, NEW L, Sorted(f, L), \A x \in L : g[x] = f[x]
  PROVE  Sorted(g, L)
  BY DEF Sorted, Ranks

\* A page that is unlinked leaves the rest in order.
LEMMA SortedUnlink ==
  ASSUME NEW s \in PoolType, NEW L, NEW own, LinkInv(s, L, own), NEW p \in L,
         Sorted(s.next, L)
  PROVE  Sorted(Unlink(s, p).next, L \ {p})
  <1>1. PICK b \in Nat : \E r : Ranks(s.next, L, b, r)
    BY DEF Sorted
  <1>2. PICK r : Ranks(s.next, L, b, r)
    BY <1>1
  <1>3. PICK t : t = Unlink(s, p)
    OBVIOUS
  <1>4. /\ p \in Pgs /\ s.prev[p][1] \in L \cup Heads /\ s.next[p] \in L \cup Heads
        /\ L \subseteq Pgs /\ L \cup Heads \subseteq Nodes /\ s.next[s.prev[p][1]] = p
    BY NodesDiffer DEF LinkInv
  <1>5. \A x \in Nodes : t.next[x] = IF x = s.prev[p][1] THEN s.next[p] ELSE s.next[x]
    BY <1>3, <1>4, UnlinkFields
  <1>6. ASSUME NEW x \in L \ {p}, t.next[x] \in L \ {p} PROVE r[t.next[x]] < r[x]
    <2>1. CASE x = s.prev[p][1]
      <3>1. t.next[x] = s.next[p] /\ s.next[p] \in L /\ s.next[x] = p
        BY <1>4, <1>5, <1>6, <2>1
      <3>2. r[s.next[p]] < r[p] /\ r[p] < r[x]
        BY <1>2, <3>1 DEF Ranks
      <3>3. r[p] \in Int /\ r[x] \in Int /\ r[s.next[p]] \in Int
        BY <1>2, <1>4, <3>1 DEF Ranks
      <3> QED
        BY <3>1, <3>2, <3>3
    <2>2. CASE x # s.prev[p][1]
      BY <1>2, <1>4, <1>5, <1>6, <2>2 DEF Ranks
    <2> QED
      BY <2>1, <2>2
  <1>7. Ranks(t.next, L \ {p}, b, r)
    BY <1>2, <1>6 DEF Ranks
  <1> QED
    BY <1>3, <1>7 DEF Sorted

\* A page put in front of a list comes before all others.
LEMMA SortedPush ==
  ASSUME NEW s \in PoolType, NEW L, NEW own, LinkInv(s, L, own), NEW p \in Pgs, p \notin L,
         NEW h \in Heads, NEW type \in {"page", "small", "exact", "big"}, Sorted(s.next, L)
  PROVE  Sorted(PushFront(s, h, p, type).next, L \cup {p})
  <1>1. PICK b \in Nat : \E r : Ranks(s.next, L, b, r)
    BY DEF Sorted
  <1>2. PICK r : Ranks(s.next, L, b, r)
    BY <1>1
  <1>3. PICK t : t = PushFront(s, h, p, type)
    OBVIOUS
  <1>4. /\ s.next[h] \in L \cup Heads /\ p \notin L \cup Heads /\ h \notin L
        /\ L \subseteq Pgs /\ L \cup Heads \subseteq Nodes /\ p \in Nodes
        /\ \A x \in L : s.next[x] \in L \cup Heads
    BY NodesDiffer DEF LinkInv
  <1>5. \A x \in Nodes : t.next[x] = IF x = h THEN p ELSE IF x = p THEN s.next[h] ELSE s.next[x]
    <2>1. Pushed(s, t, h, p, type)
      BY <1>3, <1>4, PushFields
    <2> QED
      BY <2>1 DEF Pushed
  <1>6. PICK q : q = [r EXCEPT ![p] = b + 1]
    OBVIOUS
  <1>7. /\ q \in [Pgs -> 0..(b + 1)] /\ q[p] = b + 1
        /\ \A x \in L : q[x] = r[x] /\ r[x] \in 0..b
    BY <1>2, <1>4, <1>6 DEF Ranks
  <1>8. ASSUME NEW x \in L \cup {p}, t.next[x] \in L \cup {p} PROVE q[t.next[x]] < q[x]
    <2>1. CASE x = p
      <3>1. t.next[x] = s.next[h] /\ s.next[h] \in L
        BY <1>4, <1>5, <1>8, <2>1
      <3> QED
        BY <1>7, <2>1, <3>1
    <2>2. CASE x # p
      <3>1. x \in L /\ t.next[x] = s.next[x] /\ s.next[x] \in L
        BY <1>4, <1>5, <1>8, <2>2
      <3> QED
        BY <1>2, <1>7, <3>1 DEF Ranks
    <2> QED
      BY <2>1, <2>2
  <1>9. Ranks(t.next, L \cup {p}, b + 1, q) /\ b + 1 \in Nat
    BY <1>7, <1>8 DEF Ranks
  <1> QED
    BY <1>3, <1>9 DEF Sorted

\* The rest of a run takes the run's place in the order.
LEMMA SortedSplit ==
  ASSUME NEW s, NEW L, NEW own, LinkInv(s, L, own), NEW p \in L, NEW k \in Nat,
         p + k \in Pgs, p + k \notin L, NEW t, Replaced(s, t, p, k), Sorted(s.next, L)
  PROVE  Sorted(t.next, (L \ {p}) \cup {p + k})
  <1>1. PICK b \in Nat : \E r : Ranks(s.next, L, b, r)
    BY DEF Sorted
  <1>2. PICK r : Ranks(s.next, L, b, r)
    BY <1>1
  <1>3. PICK e : e = p + k
    OBVIOUS
  <1>4. /\ p \in Pgs /\ s.prev[p][1] \in L \cup Heads /\ s.next[p] \in L \cup Heads
        /\ L \subseteq Pgs /\ L \cup Heads \subseteq Nodes /\ s.next[s.prev[p][1]] = p
        /\ e \in Pgs /\ e \notin L /\ e \in Nodes /\ e \notin Heads
        /\ \A x \in L : s.next[x] \in L \cup Heads /\ (s.next[x] = p => x = s.prev[p][1])
    BY <1>3, NodesDiffer DEF LinkInv
  <1>5. \A x \in Nodes :
           t.next[x] = IF x = s.prev[p][1] THEN e ELSE IF x = e THEN s.next[p] ELSE s.next[x]
    BY <1>3 DEF Replaced
  <1>6. PICK q : q = [r EXCEPT ![e] = r[p]]
    OBVIOUS
  <1>7. q \in [Pgs -> 0..b] /\ q[e] = r[p] /\ \A x \in L : q[x] = r[x]
    BY <1>2, <1>4, <1>6 DEF Ranks
  <1> DEFINE M == (L \ {p}) \cup {e}
  <1>8. ASSUME NEW x \in M, t.next[x] \in M PROVE q[t.next[x]] < q[x]
    <2>1. CASE x = s.prev[p][1]
      <3>1. x \in L /\ t.next[x] = e /\ s.next[x] = p
        BY <1>4, <1>5, <1>8, <2>1
      <3> QED
        BY <1>2, <1>7, <3>1 DEF Ranks
    <2>2. CASE x # s.prev[p][1] /\ x = e
      <3>1. t.next[x] = s.next[p] /\ s.next[p] \in L
        BY <1>4, <1>5, <1>8, <2>2
      <3> QED
        BY <1>2, <1>7, <2>2, <3>1 DEF Ranks
    <2>3. CASE x # s.prev[p][1] /\ x # e
      <3>1. x \in L /\ t.next[x] = s.next[x] /\ s.next[x] \in L
        BY <1>4, <1>5, <1>8, <2>3
      <3> QED
        BY <1>2, <1>7, <3>1 DEF Ranks
    <2> QED
      BY <2>1, <2>2, <2>3
  <1>9. Ranks(t.next, M, b, q)
    BY <1>7, <1>8 DEF Ranks
  <1> QED
    BY <1>3, <1>9 DEF Sorted

-----------------------------------------------------------------------------
(* Runs of pages.                                                            *)

\* The type of the pages on the list that a page belongs to is its own type.
LEMMA KindOfHead ==
  ASSUME NEW d, d.mark = "cut" => d.shift \in Shifts
  PROVE  /\ HeadOf(d) \in Heads /\ HeadKind(HeadOf(d)) = KindOf(d)
         /\ HeadKind(Free) = "page" /\ (HeadOf(d) = Free <=> d.mark # "cut")
  <1>1. CASE d.mark = "cut"
    <2>1. PICK sh \in Shifts : sh = d.shift
      BY <1>1
    <2>2. Slot(sh) \in Heads /\ Slot(sh) # Free /\ Slot(sh) - MaxPages - 1 = sh
      BY SlabAssumption, NodesDiffer DEF Slot, Shifts
    <2> QED
      BY <1>1, <2>1, <2>2 DEF HeadOf, KindOf, HeadKind
  <1>2. CASE d.mark # "cut"
    BY <1>2, NodesDiffer DEF HeadOf, KindOf, HeadKind
  <1> QED
    BY <1>1, <1>2

\* The owner of a page, and the facts about it that every step needs.
LEMMA Owned ==
  ASSUME NEW s, NEW m, PoolInv(s, m)
  PROVE  /\ \A x \in Heads : Owner(s)[x] = x
         /\ \A x \in Pgs : /\ Owner(s)[x] = HeadOf(s.slab[x]) /\ Owner(s)[x] \in Heads
                           /\ HeadKind(Owner(s)[x]) = KindOf(s.slab[x])
                           /\ Owner(s)[x] = Free <=> s.slab[x].mark # "cut"
         /\ Linked(s) \subseteq Pgs /\ \A x \in Linked(s) : s.next[x] \in Nodes
  <1>1. \A x \in Pgs : s.slab[x].mark = "cut" => s.slab[x].shift \in Shifts
    BY DEF PoolInv, PageInv
  <1>2. \A x \in Heads : Owner(s)[x] = x
    BY DEF Owner
  <1>3. \A x \in Pgs : Owner(s)[x] = HeadOf(s.slab[x])
    BY NodesDiffer DEF Owner
  <1>4. \A x \in Linked(s) : s.next[x] \in Nodes
    BY NodesDiffer DEF PoolInv, PoolType, Nexts, Linked
  <1>5. ASSUME NEW x \in Pgs
        PROVE  /\ HeadOf(s.slab[x]) \in Heads /\ HeadKind(HeadOf(s.slab[x])) = KindOf(s.slab[x])
               /\ HeadOf(s.slab[x]) = Free <=> s.slab[x].mark # "cut"
    <2>1. PICK d : d = s.slab[x]
      OBVIOUS
    <2>2. d.mark = "cut" => d.shift \in Shifts
      BY <1>1, <2>1
    <2> QED
      BY <2>1, <2>2, KindOfHead
  <1> QED
    BY <1>2, <1>3, <1>4, <1>5 DEF Linked

\* No two runs overlap: what lies behind the first page of one run is neither
\* the first page of another nor behind it.
LEMMA RunsApart ==
  ASSUME NEW s, NEW m, PoolInv(s, m), NEW x \in Pgs, NEW p \in Pgs, x # p,
         s.slab[x].mark \in {"none", "start"}, s.slab[x].count > 0,
         NEW k \in Nat \ {0},
         \/ s.slab[p].mark = "cut" /\ k = 1
         \/ s.slab[p].mark \in {"none", "start"} /\ k <= s.slab[p].count,
         NEW y \in (x + 1)..(x + s.slab[x].count - 1)
  PROVE  y \notin p..(p + k - 1)
  <1>1. x \in Int /\ p \in Int /\ y \in Int /\ s.slab[x].count \in Nat /\ s.slab[p].count \in Nat
    <2>1. s.slab[x] \in Desc /\ s.slab[p] \in Desc
      BY DEF PoolInv, PoolType
    <2>2. x \in Int /\ p \in Int /\ y \in Int
      BY DEF Pgs
    <2> QED
      BY <2>1, <2>2 DEF Desc
  <1>2. \A z \in (x + 1)..(x + s.slab[x].count - 1) :
           s.slab[z].mark \in {"none", "busy"} /\ s.slab[z].count = 0
    BY DEF PoolInv, PageInv
  <1>3. p \notin (x + 1)..(x + s.slab[x].count - 1)
    BY <1>1, <1>2
  <1>4. x \notin (p + 1)..(p + k - 1)
    <2>1. CASE s.slab[p].mark = "cut" /\ k = 1
      BY <1>1, <2>1
    <2>2. CASE s.slab[p].mark \in {"none", "start"} /\ k <= s.slab[p].count
      <3>1. s.slab[p].count > 0
        BY <1>1, <2>2
      <3>2. \A z \in (p + 1)..(p + s.slab[p].count - 1) : s.slab[z].count = 0
        BY <2>2, <3>1 DEF PoolInv, PageInv
      <3> QED
        BY <1>1, <2>2, <3>2
    <2> QED
      BY <2>1, <2>2
  <1> QED
    BY <1>1, <1>3, <1>4

\* u is s with page p taken off the free list, or replaced there by the rest of
\* its run behind k pages; M are the pages that are on lists now.
Shortened(s, u, M, p, k, m) ==
    /\ u \in PoolType /\ LinkInv(u, M, Owner(s)) /\ Sorted(u.next, M)
    /\ \A q \in Pgs : q # p + k => u.slab[q] = s.slab[q]
    /\ s.slab[p].count > k => u.slab[p + k] = Run("none", s.slab[p].count - k)
    /\ s.slab[p].count <= k /\ p + k \in Pgs => u.slab[p + k] = s.slab[p + k]
    /\ \A x \in Pgs : x \notin M /\ x # p => u.next[x] = NULL /\ u.prev[x] = s.prev[x]
    /\ M \cap p..(p + k - 1) = {}
    /\ s.slab[p].mark = "none" /\ p + s.slab[p].count <= m
    /\ \A h \in Heads : h # Free => u.next[h] = s.next[h]

\* Split and Unlink, on the page that alloc_pages stops at.
LEMMA TakeRing ==
  ASSUME NEW s, NEW m \in 0..MaxPages, PoolInv(s, m), NEW p \in Linked(s),
         s.slab[p].mark # "cut", s.next[p] # p,
         NEW k \in Nat \ {0}, k <= s.slab[p].count,
         NEW u, u = IF s.slab[p].count > k THEN Split(s, p, k) ELSE Unlink(s, p),
         NEW M, M = IF s.slab[p].count > k THEN (Linked(s) \ {p}) \cup {p + k}
                                           ELSE Linked(s) \ {p}
  PROVE  Shortened(s, u, M, p, k, m)
  <1> DEFINE L == Linked(s)
             own == Owner(s)
  <1>1. PICK n0 : n0 = s.slab[p].count
    OBVIOUS
  <1>2. s \in PoolType /\ LinkInv(s, L, own) /\ Sorted(s.next, L)
        /\ p \in Pgs /\ s.slab[p] \in Desc /\ n0 \in Nat
        /\ p \in Nat /\ m \in Nat /\ m <= MaxPages /\ MaxPages \in Nat
    BY <1>1, SlabAssumption DEF PoolInv, PoolType, Desc, Pgs, Linked
  <1>3. s.slab[p].mark = "none" /\ p + n0 <= m
        /\ \A y \in (p + 1)..(p + n0 - 1) : s.slab[y].mark = "none" /\ s.slab[y].count = 0
    <2>1. PageInv(s, m, p)
      BY <1>2 DEF PoolInv
    <2>2. n0 > 0
      BY <1>1, <1>2
    <2>3. s.slab[p].mark = "none"
      BY <2>1 DEF PageInv, Linked
    <2> QED
      BY <1>1, <2>1, <2>2, <2>3 DEF PageInv
  <1>4. \A y \in (p + 1)..(p + n0 - 1) : y \in Pgs /\ y \notin L
    <2> TAKE y \in (p + 1)..(p + n0 - 1)
    <2>1. y \in Pgs /\ m # 0
      BY <1>2, <1>3 DEF Pgs
    <2>2. s.slab[y].mark = "none" /\ ~(s.slab[y].count > 0)
      BY <1>3
    <2>3. PageInv(s, m, y)
      BY <2>1 DEF PoolInv
    <2>4. s.next[y] = NULL
      BY <2>1, <2>2, <2>3 DEF PageInv
    <2> QED
      BY <2>1, <2>4 DEF Linked
  <1>5. /\ own[p] = Free /\ \A y \in (p + 1)..(p + n0 - 1) : own[y] = Free
        /\ \A x \in Pgs : x \notin L => s.next[x] = NULL
    <2>1. \A x \in Pgs : own[x] = Free <=> s.slab[x].mark # "cut"
      BY Owned
    <2> QED
      BY <1>2, <1>3, <1>4, <2>1 DEF Linked
  <1>6. /\ s.prev[p][1] \in L \cup Heads /\ s.next[p] \in L \cup Heads
        /\ own[s.prev[p][1]] = Free /\ s.next[s.prev[p][1]] = p
    <2> HIDE DEF L, own
    <2>1. p \in L
      BY DEF L
    <2>2. /\ s.prev[p][1] \in L \cup Heads /\ s.next[p] \in L \cup Heads
          /\ s.next[s.prev[p][1]] = p
      BY <1>2, <2>1 DEF LinkInv
    <2>3. own[s.next[s.prev[p][1]]] = own[s.prev[p][1]]
      BY <1>2, <2>2 DEF LinkInv
    <2> QED
      BY <1>5, <2>2, <2>3
  <1>7. L \cup Heads \subseteq Nodes /\ Pgs \subseteq Nodes /\ Heads \cap Pgs = {}
        /\ \A h \in Heads : own[h] = h
    BY NodesDiffer, Owned DEF Linked
  <1>8. CASE n0 > k
    <2>1. p + k \in (p + 1)..(p + n0 - 1) /\ n0 - k \in Nat
      BY <1>2, <1>8
    <2>2. PICK r : r = p + k
      OBVIOUS
    <2>3. r \in Pgs /\ r \notin L /\ own[r] = Free
      BY <1>4, <1>5, <2>1, <2>2
    <2>4. /\ Replaced(s, Split(s, p, k), p, k)
          /\ LinkInv(Split(s, p, k), (L \ {p}) \cup {p + k}, own)
      <3>1. p + k \in Pgs /\ p + k \notin L /\ own[p + k] = Free /\ s.slab[p].count - k \in Nat
        BY <1>1, <2>1, <2>2, <2>3
      <3> HIDE DEF L, own
      <3> QED
        BY <1>2, <1>5, <3>1, SplitRing DEF L
    <2>5. u = Split(s, p, k) /\ M = (L \ {p}) \cup {r}
      BY <1>1, <1>8, <2>2
    <2>6. u \in PoolType /\ u.slab = [s.slab EXCEPT ![r] = Run("none", n0 - k)]
          /\ s.slab \in [Pgs -> Desc]
      BY <1>1, <1>2, <2>2, <2>4, <2>5 DEF Replaced, PoolType
    <2>7. \A x \in Pgs : x \notin (L \ {p}) \cup {r} /\ x # p =>
             u.next[x] = NULL /\ u.prev[x] = s.prev[x]
      BY <1>5, <1>6, <1>7, <2>2, <2>4, <2>5 DEF Replaced
    <2>8. ((L \ {p}) \cup {r}) \cap p..(p + k - 1) = {}
      <3>1. \A y \in p..(p + k - 1) : y = p \/ y \in (p + 1)..(p + n0 - 1)
        BY <1>2, <1>8
      <3>2. r \notin p..(p + k - 1) /\ r # p
        BY <1>2, <2>2
      <3> QED
        BY <1>4, <3>1, <3>2
    <2>9. \A h \in Heads : h # Free => u.next[h] = s.next[h]
      BY <1>6, <1>7, <2>2, <2>3, <2>4, <2>5 DEF Replaced
    <2>10. /\ \A q \in Pgs : q # r => u.slab[q] = s.slab[q]
           /\ u.slab[r] = Run("none", n0 - k)
      BY <2>3, <2>6
    <2>11. ~(n0 <= k)
      BY <1>2, <1>8
    <2>12. Sorted(u.next, (L \ {p}) \cup {r})
      <3>1. p + k \in Pgs /\ p + k \notin L /\ p \in L
        BY <2>2, <2>3
      <3> HIDE DEF L, own
      <3> QED
        BY <1>2, <2>2, <2>4, <2>5, <3>1, SortedSplit
    <2> QED
      BY <1>1, <1>3, <1>8, <2>2, <2>4, <2>5, <2>6, <2>7, <2>8, <2>9, <2>10, <2>11, <2>12
         DEF Shortened
  <1>9. CASE ~(n0 > k)
    <2>1. n0 = k
      BY <1>1, <1>2, <1>9
    <2>2. u = Unlink(s, p) /\ M = L \ {p}
      BY <1>1, <1>9
    <2>3. u \in PoolType /\ u.slab = s.slab /\ LinkInv(u, L \ {p}, own)
      <3>1. p \in L
        OBVIOUS
      <3> HIDE DEF L, own
      <3>2. /\ Unlink(s, p) \in PoolType /\ Unlink(s, p).slab = s.slab
            /\ LinkInv(Unlink(s, p), L \ {p}, own)
        BY <1>2, <3>1, UnlinkRing
      <3> QED
        BY <2>2, <3>2
    <2>4. \A x \in Nodes :
             /\ u.next[x] = IF x = s.prev[p][1] THEN s.next[p] ELSE s.next[x]
             /\ u.prev[x] = IF x = s.next[p] THEN s.prev[p] ELSE s.prev[x]
      BY <1>2, <1>6, <1>7, <2>2, UnlinkFields
    <2>5. \A x \in Pgs : x \notin L \ {p} /\ x # p => u.next[x] = NULL /\ u.prev[x] = s.prev[x]
      BY <1>5, <1>6, <1>7, <2>4
    <2>6. (L \ {p}) \cap p..(p + k - 1) = {}
      <3>1. \A y \in p..(p + k - 1) : y = p \/ y \in (p + 1)..(p + n0 - 1)
        BY <1>2, <2>1
      <3> QED
        BY <1>4, <3>1
    <2>7. \A h \in Heads : h # Free => u.next[h] = s.next[h]
      BY <1>6, <1>7, <2>4
    <2>8. Sorted(u.next, L \ {p})
      <3>1. p \in L
        OBVIOUS
      <3> HIDE DEF L, own
      <3> QED
        BY <1>2, <2>2, <3>1, SortedUnlink
    <2> QED
      BY <1>1, <1>3, <1>9, <2>2, <2>3, <2>5, <2>6, <2>7, <2>8 DEF Shortened
  <1> QED
    BY <1>8, <1>9

\* Taking pages off the free list: the pages taken become a run of their own,
\* and no other block is touched.
LEMMA TakeStep ==
  ASSUME NEW s, NEW m \in 0..MaxPages, PoolInv(s, m), NEW p \in Linked(s),
         s.slab[p].mark # "cut", s.next[p] # p,
         NEW k \in Nat \ {0}, k <= s.slab[p].count
  PROVE  LET t == TakePages(s, p, k)
         IN  /\ PoolInv(t, m) /\ t.slab[p] = Run("start", k) /\ t.next[p] = NULL
             /\ s.slab[p].mark = "none" /\ p + k <= m /\ Linked(t) \cap p..(p + k - 1) = {}
             /\ \A q \in Pgs : s.slab[q].mark \in {"start", "cut"} => t.slab[q] = s.slab[q]
             /\ \A q \in Pgs : q # p /\ t.slab[q].mark \in {"start", "cut"} =>
                                  t.slab[q] = s.slab[q]
             /\ \A h \in Heads : h # Free => t.next[h] = s.next[h]
  <1> DEFINE L == Linked(s)
             own == Owner(s)
             t == TakePages(s, p, k)
             mine == p..(p + k - 1)
  <1>1. PICK n0 : n0 = s.slab[p].count
    OBVIOUS
  <1>2. PICK u : u = IF n0 > k THEN Split(s, p, k) ELSE Unlink(s, p)
    OBVIOUS
  <1>3. PICK M : M = IF n0 > k THEN (L \ {p}) \cup {p + k} ELSE L \ {p}
    OBVIOUS
  <1>4. /\ u \in PoolType /\ LinkInv(u, M, own) /\ Sorted(u.next, M)
        /\ \A q \in Pgs : q # p + k => u.slab[q] = s.slab[q]
        /\ n0 > k => u.slab[p + k] = Run("none", n0 - k)
        /\ n0 <= k /\ p + k \in Pgs => u.slab[p + k] = s.slab[p + k]
        /\ \A x \in Pgs : x \notin M /\ x # p => u.next[x] = NULL /\ u.prev[x] = s.prev[x]
        /\ M \cap mine = {}
        /\ s.slab[p].mark = "none" /\ p + n0 <= m
        /\ \A h \in Heads : h # Free => u.next[h] = s.next[h]
    <2>1. Shortened(s, u, M, p, k, m)
      BY <1>1, <1>2, <1>3, TakeRing
    <2> QED
      BY <1>1, <2>1 DEF Shortened
  <1>5. /\ s \in PoolType /\ p \in Pgs /\ n0 \in Nat /\ k <= n0 /\ p \in Nat /\ k \in Nat
        /\ m \in Nat /\ m <= MaxPages /\ MaxPages \in Nat /\ n0 > 0 /\ k > 0
    <2>1. p \in Pgs /\ s.slab[p] \in Desc /\ s \in PoolType
      BY DEF PoolInv, PoolType, Linked
    <2> QED
      BY <1>1, <2>1, SlabAssumption DEF Desc, Pgs
  <1>6. /\ t.slab = [q \in DOMAIN u.slab |-> IF q = p THEN Run("start", k)
                        ELSE IF q \in mine THEN Run("busy", 0) ELSE u.slab[q]]
        /\ t.next = [x \in Nodes |-> IF x \in mine THEN NULL ELSE u.next[x]]
        /\ t.prev = [x \in Nodes |-> IF x \in mine THEN <<NULL, "page">> ELSE u.prev[x]]
        /\ DOMAIN u.slab = Pgs
    <2>1. DOMAIN u.slab = Pgs
      BY <1>4 DEF PoolType
    <2> QED
      BY <1>1, <1>2, <2>1 DEF TakePages
  <1>7. t \in PoolType
    <2>1. Run("start", k) \in Desc /\ Run("busy", 0) \in Desc
      BY DEF Run, Desc
    <2>2. /\ [q \in Pgs |-> IF q = p THEN Run("start", k)
                        ELSE IF q \in mine THEN Run("busy", 0) ELSE u.slab[q]] \in [Pgs -> Desc]
      BY <1>4, <2>1 DEF PoolType
    <2>3. [x \in Nodes |-> IF x \in mine THEN NULL ELSE u.next[x]] \in Nexts
      BY <1>4 DEF PoolType, Nexts
    <2>4. [x \in Nodes |-> IF x \in mine THEN <<NULL, "page">> ELSE u.prev[x]] \in Prevs
      BY <1>4 DEF PoolType, Prevs
    <2>5. t = [slab |-> t.slab, next |-> t.next, prev |-> t.prev]
      BY DEF TakePages
    <2> HIDE DEF t, mine
    <2> QED
      BY <1>6, <2>2, <2>3, <2>4, <2>5 DEF PoolType
  <1>8. p \in mine /\ mine \subseteq Pgs /\ p + k \notin mine /\ p + k # p
    BY <1>4, <1>5 DEF Pgs
  <1> HIDE DEF t
  <1>9. /\ t.slab[p] = Run("start", k)
        /\ \A q \in Pgs : q \in mine /\ q # p => t.slab[q] = Run("busy", 0)
        /\ \A q \in Pgs : q \notin mine => t.slab[q] = u.slab[q]
        /\ \A x \in Nodes : x \in mine => t.next[x] = NULL /\ t.prev[x] = <<NULL, "page">>
        /\ \A x \in Nodes : x \notin mine => t.next[x] = u.next[x] /\ t.prev[x] = u.prev[x]
    <2> HIDE DEF mine
    <2> QED
      BY <1>5, <1>6, <1>8
  <1> HIDE DEF mine
  <1>10. /\ n0 > k => p + k \in Pgs /\ t.slab[p + k] = Run("none", n0 - k)
         /\ \A q \in Pgs : q \notin mine /\ (n0 > k => q # p + k) => t.slab[q] = s.slab[q]
    <2>1. n0 > k => p + k \in Pgs
      BY <1>4, <1>5 DEF Pgs
    <2>2. n0 > k \/ n0 <= k
      BY <1>5
    <2> QED
      BY <1>4, <1>8, <1>9, <2>1, <2>2
  <1>11. M \subseteq Pgs /\ \A x \in M : u.next[x] \in Nodes
    BY <1>4, NodesDiffer DEF LinkInv
  <1>12. Linked(t) = M
    <2>1. ASSUME NEW x \in M PROVE x \in Linked(t)
      BY <1>4, <1>9, <1>11, NodesDiffer DEF Linked
    <2>2. ASSUME NEW x \in Pgs, x \notin M PROVE t.next[x] = NULL
      <3>1. CASE x \in mine
        BY <1>9, <3>1, NodesDiffer
      <3>2. CASE x \notin mine
        BY <1>4, <1>8, <1>9, <2>2, <3>2, NodesDiffer
      <3> QED
        BY <3>1, <3>2
    <2> QED
      BY <1>11, <2>1, <2>2 DEF Linked
  <1>13. \A x \in M : x \in Pgs /\ Owner(t)[x] = own[x]
    <2>1. ASSUME NEW x \in M, n0 > k => x # p + k PROVE Owner(t)[x] = own[x]
      <3>1. t.slab[x] = s.slab[x] /\ x \in Pgs
        BY <1>4, <1>10, <1>11, <2>1
      <3> QED
        BY <3>1 DEF Owner
    <2>2. ASSUME n0 > k PROVE Owner(t)[p + k] = Free /\ own[p + k] = Free
      <3>1. t.slab[p + k].mark # "cut"
        BY <1>10, <2>2 DEF Run
      <3>2. s.slab[p + k].mark = "none"
        <4>1. p + k \in (p + 1)..(p + n0 - 1)
          BY <1>5, <2>2
        <4> QED
          BY <1>1, <1>4, <1>5, <4>1 DEF PoolInv, PageInv
      <3> QED
        BY <1>10, <2>2, <3>1, <3>2, NodesDiffer DEF Owner, HeadOf
    <2> QED
      BY <1>11, <2>1, <2>2
  <1>14. LinkInv(t, M, Owner(t))
    <2>1. \A x \in M \cup Heads : x \in Nodes /\ x \notin mine
      BY <1>4, <1>8, <1>11, NodesDiffer
    <2>2. \A x \in Heads : Owner(t)[x] = own[x]
      BY DEF Owner
    <2>3. \A x \in M \cup Heads : t.next[x] = u.next[x] /\ Owner(t)[x] = own[x]
      BY <1>9, <1>13, <2>1, <2>2
    <2>4. \A x \in M : t.prev[x] = u.prev[x]
      BY <1>9, <2>1
    <2> HIDE DEF own
    <2> QED
      BY <1>4, <2>3, <2>4, LinkSame
  <1>15. ASSUME NEW x \in Pgs PROVE PageInv(t, m, x)
    <2> USE NodesDiffer
    <2>0. x \in Nodes
      OBVIOUS
    <2>1. CASE x = p
      <3>1. t.slab[x] = Run("start", k) /\ t.next[x] = NULL /\ t.prev[x] = <<NULL, "page">>
        BY <1>8, <1>9, <2>0, <2>1
      <3>2. \A y \in (x + 1)..(x + k - 1) : t.slab[y] = Run("busy", 0)
        <4>1. \A y \in (x + 1)..(x + k - 1) : y \in mine /\ y # p
          BY <1>5, <2>1 DEF mine
        <4> QED
          BY <1>8, <1>9, <4>1
      <3>3. x + k <= m
        BY <1>4, <1>5, <2>1
      <3> QED
        BY <1>5, <3>1, <3>2, <3>3 DEF PageInv, Run, KindOf, Shape
    <2>2. CASE x \in mine /\ x # p
      <3>1. t.slab[x] = Run("busy", 0) /\ t.next[x] = NULL /\ t.prev[x] = <<NULL, "page">>
        BY <1>9, <2>0, <2>2
      <3> QED
        BY <3>1 DEF PageInv, Run, KindOf, Shape
    <2>3. CASE n0 > k /\ x = p + k
      <3>1. t.slab[x] = Run("none", n0 - k) /\ n0 - k \in Nat /\ n0 - k > 0 /\ x + (n0 - k) = p + n0
        BY <1>5, <1>10, <2>3
      <3>2. t.prev[x][2] = "page"
        <4>1. x \in M /\ Owner(t)[x] = Free
          BY <1>3, <2>3, <3>1 DEF Owner, HeadOf, Run
        <4> QED
          BY <1>14, <4>1 DEF LinkInv, HeadKind
      <3>3. \A y \in (x + 1)..(x + (n0 - k) - 1) : t.slab[y].mark = "none" /\ t.slab[y].count = 0
        <4>1. \A y \in (p + 1)..(p + n0 - 1) : s.slab[y].mark = "none" /\ s.slab[y].count = 0
          BY <1>1, <1>4, <1>5 DEF PoolInv, PageInv
        <4>2. \A y \in (x + 1)..(x + (n0 - k) - 1) :
                 y \in (p + 1)..(p + n0 - 1) /\ y \in Pgs /\ y \notin mine /\ y # p + k
          BY <1>4, <1>5, <2>3 DEF mine, Pgs
        <4> QED
          BY <1>10, <4>1, <4>2
      <3>4. t.next[x] # NULL
        BY <1>3, <1>12, <2>3 DEF Linked
      <3> QED
        BY <1>4, <3>1, <3>2, <3>3, <3>4 DEF PageInv, Run, KindOf, Shape
    <2>4. CASE x \notin mine /\ (n0 > k => x # p + k)
      <3>1. t.slab[x] = s.slab[x] /\ PageInv(s, m, x)
        BY <1>10, <2>4 DEF PoolInv
      <3>2. x # p /\ (x \in M <=> x \in L)
        BY <1>3, <1>8, <2>4
      <3>3. t.next[x] # NULL <=> s.next[x] # NULL
        BY <1>12, <3>2 DEF Linked
      <3>4. t.prev[x][2] = KindOf(s.slab[x])
        <4>1. CASE x \in M
          <5>1. HeadKind(own[x]) = KindOf(s.slab[x])
            BY Owned
          <5> QED
            BY <1>13, <1>14, <4>1, <5>1 DEF LinkInv
        <4>2. CASE x \notin M
          BY <1>4, <1>9, <2>4, <3>1, <3>2, <4>2 DEF PageInv
        <4> QED
          BY <4>1, <4>2
      <3>5. ASSUME s.slab[x].mark \in {"none", "start"}, s.slab[x].count > 0,
                   NEW y \in (x + 1)..(x + s.slab[x].count - 1)
            PROVE  t.slab[y] = s.slab[y]
        <4>1. y \notin p..(p + n0 - 1)
          BY <1>1, <1>4, <1>5, <3>2, <3>5, RunsApart
        <4>2. y \notin mine /\ (n0 > k => y # p + k)
          BY <1>5, <4>1 DEF mine
        <4>3. y \in Pgs
          <5>1. x + s.slab[x].count <= m /\ s.slab[x].count \in Nat /\ x \in Nat
            <6>1. s.slab[x] \in Desc /\ x \in Nat
              BY <1>5 DEF PoolType, Pgs
            <6> QED
              BY <3>1, <3>5, <6>1 DEF PageInv, Desc
          <5> QED
            BY <1>5, <5>1 DEF Pgs
        <4> QED
          BY <1>10, <4>2, <4>3
      <3>6. Room(t, x) = Room(s, x)
        BY <3>1 DEF Room
      <3>7. s.slab[x].mark = "start" => t.prev[x][1] = NULL
        <4> SUFFICES ASSUME s.slab[x].mark = "start" PROVE t.prev[x] = s.prev[x]
          BY <3>1 DEF PageInv
        <4>1. x \notin M
          BY <3>1, <3>2 DEF PageInv, Linked
        <4> QED
          BY <1>4, <1>9, <2>4, <3>2, <4>1
      <3> QED
        BY <3>1, <3>3, <3>4, <3>5, <3>6, <3>7 DEF PageInv
    <2> QED
      BY <2>1, <2>2, <2>3, <2>4
  <1>16. Sorted(t.next, M)
    <2>1. \A x \in M : t.next[x] = u.next[x]
      BY <1>4, <1>8, <1>9, <1>11, NodesDiffer
    <2> QED
      BY <1>4, <2>1, SortedSame
  <1>17. ASSUME NEW x \in 0..(m - 1) PROVE \E y \in 0..x : Covers(t, y, x)
    <2>1. PICK y \in 0..x : Covers(s, y, x)
      BY <1>17 DEF PoolInv, Covered
    <2>2. y \in Pgs /\ x \in Nat /\ y \in Nat /\ y <= x /\ s.slab[y].count \in Nat
      <3>1. y \in Pgs /\ x \in Nat /\ y \in Nat /\ y <= x
        BY <1>5 DEF Pgs
      <3> QED
        BY <1>5, <3>1 DEF PoolType, Desc
    <2>3. CASE y = p
      <3>1. x < p + n0
        BY <1>1, <1>4, <2>1, <2>3 DEF Covers
      <3>2. CASE x < p + k
        BY <1>9, <2>3, <3>2 DEF Covers, Run
      <3>3. CASE ~(x < p + k)
        <4>1. n0 > k /\ p + k \in 0..x /\ x < (p + k) + (n0 - k)
          BY <1>5, <2>2, <3>1, <3>3
        <4> QED
          BY <1>10, <4>1 DEF Covers, Run
      <3> QED
        BY <3>2, <3>3
    <2>4. CASE y # p
      <3>1. s.slab[y].mark = "cut" \/ s.slab[y].count > 0
        BY <2>1, <2>2 DEF Covers
      <3>2. \A z \in (p + 1)..(p + n0 - 1) : s.slab[z].mark = "none" /\ s.slab[z].count = 0
        BY <1>1, <1>4, <1>5 DEF PoolInv, PageInv
      <3>3. y \notin (p + 1)..(p + n0 - 1)
        BY <3>1, <3>2
      <3>4. y \notin mine /\ (n0 > k => y # p + k)
        BY <1>5, <2>2, <2>4, <3>3 DEF mine
      <3>5. t.slab[y] = s.slab[y]
        BY <1>10, <2>2, <3>4
      <3> QED
        BY <2>1, <3>5 DEF Covers
    <2> QED
      BY <2>3, <2>4
  <1>18. PoolInv(t, m)
    BY <1>7, <1>12, <1>14, <1>15, <1>16, <1>17 DEF PoolInv, Covered
  <1>19. \A q \in Pgs : s.slab[q].mark \in {"start", "cut"} => t.slab[q] = s.slab[q]
    <2>1. \A y \in (p + 1)..(p + n0 - 1) : s.slab[y].mark = "none"
      BY <1>1, <1>4, <1>5 DEF PoolInv, PageInv
    <2>2. ASSUME NEW q \in Pgs, s.slab[q].mark \in {"start", "cut"}
          PROVE  q \notin mine /\ (n0 > k => q # p + k)
      <3>1. q # p /\ q \notin (p + 1)..(p + n0 - 1)
        BY <1>4, <2>1, <2>2
      <3> QED
        BY <1>5, <3>1 DEF mine, Pgs
    <2> QED
      BY <1>10, <2>2
  <1>20. p + k <= m
    BY <1>4, <1>5
  <1>21. \A h \in Heads : h # Free => t.next[h] = s.next[h]
    BY <1>4, <1>8, <1>9, NodesDiffer
  <1>22. t.next[p] = NULL
    BY <1>5, <1>8, <1>9, NodesDiffer
  <1>23. \A q \in Pgs : q # p /\ t.slab[q].mark \in {"start", "cut"} => t.slab[q] = s.slab[q]
    BY <1>9, <1>10 DEF Run
  <1> QED
    BY <1>23, <1>4, <1>9, <1>12, <1>18, <1>19, <1>20, <1>21, <1>22 DEF t, mine

\* Returning pages: the run, or the emptied chunk page, becomes a free run, and
\* no other block is touched.
LEMMA FreeStep ==
  ASSUME NEW s, NEW m \in 0..MaxPages, PoolInv(s, m), NEW p \in Pgs, NEW k \in Nat \ {0},
         \/ s.slab[p].mark \in {"start", "none"} /\ k = s.slab[p].count
         \/ s.slab[p].mark = "cut" /\ k = 1
  PROVE  LET v == ncx_slab_free_pages(s, p, k)
         IN  /\ PoolInv(v, m) /\ Linked(v) = Linked(s) \cup {p}
             /\ v.slab = [q \in Pgs |-> IF q = p THEN Run("none", k)
                             ELSE IF q \in Cleared(p, k) THEN Run("none", 0) ELSE s.slab[q]]
             /\ \A q \in Pgs : q # p /\ s.slab[q].mark \in {"start", "cut"} =>
                                  v.slab[q] = s.slab[q]
  <1> DEFINE L == Linked(s)
             own == Owner(s)
             C == Cleared(p, k)
  <1>1. PICK t : t = [slab |-> [q \in DOMAIN s.slab |-> IF q = p THEN Run("none", k)
                          ELSE IF q \in C THEN Run("none", 0) ELSE s.slab[q]],
              next |-> [x \in Nodes |-> IF x \in C THEN NULL ELSE s.next[x]],
              prev |-> [x \in Nodes |-> IF x \in C THEN <<NULL, "page">>
                                        ELSE s.prev[x]]]
    OBVIOUS
  <1>2. PICK u : u = OffList(t, p)
    OBVIOUS
  <1>3. PICK v : v = PushFront(u, Free, p, "page")
    OBVIOUS
  <1>4. v = ncx_slab_free_pages(s, p, k)
    BY <1>1, <1>2, <1>3 DEF ncx_slab_free_pages
  <1>5. /\ s \in PoolType /\ LinkInv(s, L, own) /\ Sorted(s.next, L)
        /\ p \in Nat /\ m \in Nat /\ m <= MaxPages
        /\ k \in Nat /\ k > 0 /\ MaxPages \in Nat
    BY SlabAssumption DEF PoolInv, Pgs
  <1>6. p + k <= m /\ \A y \in C : s.slab[y].mark \in {"busy", "none"} /\ s.slab[y].count = 0
    <2>1. PageInv(s, m, p)
      BY DEF PoolInv
    <2>2. CASE s.slab[p].mark \in {"start", "none"} /\ k = s.slab[p].count
      BY <1>5, <2>1, <2>2 DEF PageInv, Cleared
    <2>3. CASE s.slab[p].mark = "cut" /\ k = 1
      BY <1>5, <2>1, <2>3 DEF PageInv, Cleared
    <2> QED
      BY <2>2, <2>3
  <1>7. p \notin C /\ C \subseteq Pgs
    BY <1>5, <1>6 DEF Cleared, Pgs
  <1>8. C \cap L = {}
    <2> SUFFICES ASSUME NEW y \in C PROVE s.next[y] = NULL
      BY DEF Linked
    <2>1. m # 0 /\ y \in Pgs /\ ~(s.slab[y].count > 0) /\ s.slab[y].mark # "cut"
      BY <1>5, <1>6, <1>7
    <2> QED
      BY <2>1 DEF PoolInv, PageInv
  <1> HIDE DEF C
  <1>9. /\ t.slab[p] = Run("none", k)
        /\ \A q \in Pgs : q \in C => t.slab[q] = Run("none", 0)
        /\ \A q \in Pgs : q \notin C /\ q # p => t.slab[q] = s.slab[q]
        /\ \A x \in Nodes : x \in C => t.next[x] = NULL /\ t.prev[x] = <<NULL, "page">>
        /\ \A x \in Nodes : x \notin C => t.next[x] = s.next[x] /\ t.prev[x] = s.prev[x]
    <2>1. DOMAIN s.slab = Pgs
      BY <1>5 DEF PoolType
    <2> QED
      BY <1>1, <1>7, <2>1
  <1>10. t \in PoolType
    <2>1. Run("none", k) \in Desc /\ Run("none", 0) \in Desc
      BY DEF Run, Desc
    <2>2. s.slab \in [Pgs -> Desc] /\ s.next \in Nexts /\ s.prev \in Prevs
      BY <1>5 DEF PoolType
    <2>3. [q \in DOMAIN s.slab |-> IF q = p THEN Run("none", k)
                          ELSE IF q \in C THEN Run("none", 0) ELSE s.slab[q]] \in [Pgs -> Desc]
      BY <2>1, <2>2
    <2>4. [x \in Nodes |-> IF x \in C THEN NULL ELSE s.next[x]] \in Nexts
      BY <2>2 DEF Nexts
    <2>5. [x \in Nodes |-> IF x \in C THEN <<NULL, "page">> ELSE s.prev[x]] \in Prevs
      BY <2>2 DEF Prevs
    <2> QED
      BY <1>1, <2>3, <2>4, <2>5 DEF PoolType
  <1>11. /\ L \subseteq Pgs /\ L \cup Heads \subseteq Nodes /\ Pgs \subseteq Nodes
         /\ Heads \cap Pgs = {} /\ C \cap (L \cup Heads) = {} /\ Free \in Heads /\ p \in Nodes
         /\ NULL \notin Nodes
    BY <1>7, <1>8, NodesDiffer DEF Linked
  <1> DEFINE own2 == Owner(t)
  <1>12. own2[p] = Free /\ (\A x \in L \ {p} : own2[x] = own[x])
         /\ \A x \in Heads : own2[x] = x /\ own[x] = x
    <2>1. own2[p] = Free
      BY <1>9, <1>11 DEF Owner, HeadOf, Run
    <2>2. \A x \in L \ {p} : own2[x] = own[x]
      BY <1>9, <1>11 DEF Owner
    <2>3. \A x \in Heads : own2[x] = x /\ own[x] = x
      BY DEF Owner
    <2> QED
      BY <2>1, <2>2, <2>3
  <1> HIDE DEF own, own2
  <1>13. LinkInv(t, L, own)
    <2>1. \A x \in L \cup Heads : t.next[x] = s.next[x] /\ own[x] = own[x]
      BY <1>9, <1>11
    <2>2. \A x \in L : t.prev[x] = s.prev[x]
      BY <1>9, <1>11
    <2> HIDE DEF L
    <2> QED
      BY <1>5, <2>1, <2>2, LinkSame
  <1>14. /\ u \in PoolType /\ u.slab = t.slab /\ LinkInv(u, L \ {p}, own)
         /\ \A x \in Pgs : x \notin L /\ x # p => u.next[x] = t.next[x] /\ u.prev[x] = t.prev[x]
    <2>1. CASE t.next[p] # NULL
      <3>1. u = Unlink(t, p)
        BY <1>2, <2>1 DEF OffList
      <3>2. p \in L
        BY <1>7, <1>9, <1>11, <2>1 DEF Linked
      <3>3. t.prev[p][1] \in L \cup Heads /\ t.next[p] \in L \cup Heads
        BY <1>13, <3>2 DEF LinkInv
      <3>4. Unlink(t, p) \in PoolType /\ Unlink(t, p).slab = t.slab
            /\ LinkInv(Unlink(t, p), L \ {p}, own)
        <4> HIDE DEF L
        <4> QED
          BY <1>10, <1>13, <3>2, UnlinkRing
      <3>5. \A x \in Nodes :
               /\ Unlink(t, p).next[x] = IF x = t.prev[p][1] THEN t.next[p] ELSE t.next[x]
               /\ Unlink(t, p).prev[x] = IF x = t.next[p] THEN t.prev[p] ELSE t.prev[x]
        BY <1>10, <1>11, <3>3, UnlinkFields
      <3> QED
        BY <1>11, <3>1, <3>3, <3>4, <3>5
    <2>2. CASE t.next[p] = NULL
      <3>1. u = t
        BY <1>2, <2>2 DEF OffList
      <3>2. L \ {p} = L
        BY <1>7, <1>9, <1>11, <2>2 DEF Linked
      <3> QED
        BY <1>10, <1>13, <3>1, <3>2
    <2> QED
      BY <2>1, <2>2
  <1>15. LinkInv(u, L \ {p}, own2)
    <2>1. \A x \in (L \ {p}) \cup Heads : u.next[x] = u.next[x] /\ own2[x] = own[x]
      BY <1>12
    <2>2. \A x \in L \ {p} : u.prev[x] = u.prev[x]
      OBVIOUS
    <2> HIDE DEF L
    <2> QED
      BY <1>14, <2>1, <2>2, LinkSame
  <1>16. PICK M : M = L \ {p}
    OBVIOUS
  <1>17. /\ v \in PoolType /\ v.slab = t.slab /\ LinkInv(v, M \cup {p}, own2)
    <2>1. "page" = HeadKind(Free) /\ p \notin M
      BY <1>16 DEF HeadKind
    <2>2. LinkInv(u, M, own2)
      BY <1>15, <1>16
    <2>3. /\ PushFront(u, Free, p, "page") \in PoolType
          /\ PushFront(u, Free, p, "page").slab = u.slab
          /\ LinkInv(PushFront(u, Free, p, "page"), M \cup {p}, own2)
      BY <1>11, <1>12, <1>14, <2>1, <2>2, PushRing
    <2> QED
      BY <1>3, <1>14, <2>3
  <1>18. \A x \in Pgs : x \notin M \cup {p} => v.next[x] = t.next[x] /\ v.prev[x] = t.prev[x]
    <2>1. u.next[Free] \in M \cup Heads
      BY <1>11, <1>15, <1>16 DEF LinkInv
    <2>2. Pushed(u, v, Free, p, "page")
      <3>1. u.next[Free] \in Nodes /\ u.next[Free] # p
        BY <1>11, <1>16, <2>1
      <3> QED
        BY <1>3, <1>11, <1>14, <3>1, PushFields
    <2> QED
      BY <1>11, <1>14, <1>16, <2>1, <2>2 DEF Pushed
  <1>19. Linked(v) = M \cup {p}
    <2>1. \A x \in M \cup {p} : v.next[x] \in Nodes
      BY <1>11, <1>16, <1>17 DEF LinkInv
    <2>2. ASSUME NEW x \in Pgs, x \notin M \cup {p} PROVE v.next[x] = NULL
      <3>1. x \notin L
        BY <1>16, <2>2
      <3>2. t.next[x] = NULL
        BY <1>9, <1>11, <3>1 DEF Linked
      <3> QED
        BY <1>18, <2>2, <3>2
    <2> QED
      BY <1>11, <1>16, <2>1, <2>2 DEF Linked
  <1>20. Owner(v) = own2
    BY <1>17 DEF Owner, own2
  <1>21. ASSUME NEW x \in Pgs PROVE PageInv(v, m, x)
    <2>0. x \in Nodes /\ v.slab = t.slab
      BY <1>11, <1>17
    <2>1. CASE x = p
      <3>1. v.slab[x] = Run("none", k) /\ v.prev[x][2] = "page"
        BY <1>9, <1>12, <1>17, <2>1 DEF LinkInv, HeadKind
      <3>2. \A y \in (x + 1)..(x + k - 1) : v.slab[y] = Run("none", 0)
        BY <1>7, <1>9, <2>0, <2>1 DEF C, Cleared
      <3>3. v.next[x] # NULL
        BY <1>19, <2>1 DEF Linked
      <3> QED
        BY <1>5, <1>6, <2>1, <3>1, <3>2, <3>3 DEF PageInv, Run, KindOf, Shape
    <2>2. CASE x \in C
      <3>1. v.slab[x] = Run("none", 0) /\ x \notin M \cup {p}
        BY <1>7, <1>8, <1>9, <1>16, <2>0, <2>2
      <3>2. v.next[x] = NULL /\ v.prev[x] = <<NULL, "page">>
        BY <1>9, <1>18, <2>0, <2>2, <3>1
      <3> QED
        BY <3>1, <3>2 DEF PageInv, Run, KindOf, Shape
    <2>3. CASE x \notin C /\ x # p
      <3>1. v.slab[x] = s.slab[x] /\ PageInv(s, m, x)
        BY <1>9, <2>0, <2>3 DEF PoolInv
      <3>2. v.next[x] # NULL <=> s.next[x] # NULL
        BY <1>16, <1>19, <2>3 DEF Linked
      <3>3. v.prev[x][2] = KindOf(s.slab[x])
        <4>1. CASE x \in M
          <5>1. HeadKind(Owner(s)[x]) = KindOf(s.slab[x])
            BY Owned
          <5>2. v.prev[x][2] = HeadKind(own2[x]) /\ own2[x] = own[x]
            BY <1>12, <1>16, <1>17, <4>1 DEF LinkInv
          <5> QED
            BY <5>1, <5>2 DEF own
        <4>2. CASE x \notin M
          <5>1. v.prev[x] = s.prev[x]
            BY <1>9, <1>18, <2>0, <2>3, <4>2
          <5> QED
            BY <3>1, <5>1 DEF PageInv
        <4> QED
          BY <4>1, <4>2
      <3>4. ASSUME s.slab[x].mark \in {"none", "start"}, s.slab[x].count > 0,
                   NEW y \in (x + 1)..(x + s.slab[x].count - 1)
            PROVE  v.slab[y] = s.slab[y]
        <4>1. y \notin p..(p + k - 1)
          <5>1. \/ s.slab[p].mark = "cut" /\ k = 1
                \/ s.slab[p].mark \in {"none", "start"} /\ k <= s.slab[p].count
            BY <1>5
          <5> QED
            BY <2>3, <3>4, <5>1, RunsApart
        <4>2. y \notin C /\ y # p
          BY <1>5, <4>1 DEF C, Cleared
        <4>3. y \in Pgs
          <5>1. x + s.slab[x].count <= m /\ s.slab[x].count \in Nat /\ x \in Nat
            <6>1. s.slab[x] \in Desc /\ x \in Nat
              BY <1>5 DEF PoolType, Pgs
            <6> QED
              BY <3>1, <3>4, <6>1 DEF PageInv, Desc
          <5> QED
            BY <1>5, <5>1 DEF Pgs
        <4> QED
          BY <1>9, <2>0, <4>2, <4>3
      <3>5. Room(v, x) = Room(s, x)
        BY <3>1 DEF Room
      <3>6. s.slab[x].mark = "start" => v.prev[x][1] = NULL
        <4> SUFFICES ASSUME s.slab[x].mark = "start" PROVE v.prev[x] = s.prev[x]
          BY <3>1 DEF PageInv
        <4>1. x \notin M
          BY <1>16, <2>3, <3>1 DEF PageInv, Linked
        <4> QED
          BY <1>9, <1>18, <2>0, <2>3, <4>1
      <3> QED
        BY <3>1, <3>2, <3>3, <3>4, <3>5, <3>6 DEF PageInv
    <2> QED
      BY <2>1, <2>2, <2>3
  <1>22. Sorted(v.next, M \cup {p})
    <2>1. Sorted(t.next, L)
      <3>1. \A x \in L : t.next[x] = s.next[x]
        BY <1>9, <1>11
      <3> HIDE DEF L
      <3> QED
        BY <1>5, <3>1, SortedSame
    <2>2. Sorted(u.next, M)
      <3>1. CASE t.next[p] # NULL
        <4>1. u = Unlink(t, p)
          BY <1>2, <3>1 DEF OffList
        <4>2. p \in L
          BY <1>7, <1>9, <1>11, <3>1 DEF Linked
        <4> HIDE DEF L
        <4> QED
          BY <1>10, <1>13, <1>16, <2>1, <4>1, <4>2, SortedUnlink
      <3>2. CASE t.next[p] = NULL
        <4>1. u = t
          BY <1>2, <3>2 DEF OffList
        <4>2. L \ {p} = L
          BY <1>7, <1>9, <1>11, <3>2 DEF Linked
        <4> QED
          BY <1>16, <2>1, <4>1, <4>2
      <3> QED
        BY <3>1, <3>2
    <2>3. LinkInv(u, M, own2) /\ p \notin M
      BY <1>15, <1>16
    <2> QED
      BY <1>3, <1>11, <1>14, <2>2, <2>3, SortedPush
  <1>23. ASSUME NEW x \in 0..(m - 1) PROVE \E y \in 0..x : Covers(v, y, x)
    <2>1. PICK y \in 0..x : Covers(s, y, x)
      BY <1>23 DEF PoolInv, Covered
    <2>2. y \in Pgs /\ x \in Nat /\ y \in Nat /\ y <= x /\ s.slab[y].count \in Nat
      <3>1. y \in Pgs /\ x \in Nat /\ y \in Nat /\ y <= x
        BY <1>5 DEF Pgs
      <3> QED
        BY <1>5, <3>1 DEF PoolType, Desc
    <2>3. CASE y = p
      <3>1. x < p + k
        BY <1>5, <2>1, <2>3 DEF Covers
      <3> QED
        BY <1>9, <1>17, <2>3, <3>1 DEF Covers, Run
    <2>4. CASE y # p
      <3>1. y \notin C
        BY <1>6, <2>1, <2>2 DEF Covers
      <3>2. v.slab[y] = s.slab[y]
        BY <1>9, <1>17, <2>2, <2>4, <3>1
      <3> QED
        BY <2>1, <3>2 DEF Covers
    <2> QED
      BY <2>3, <2>4
  <1>24. PoolInv(v, m)
    BY <1>17, <1>19, <1>20, <1>21, <1>22, <1>23 DEF PoolInv, Covered
  <1>25. \A q \in Pgs : q # p /\ s.slab[q].mark \in {"start", "cut"} => v.slab[q] = s.slab[q]
    BY <1>6, <1>9, <1>17
  <1>26. v.slab = [q \in Pgs |-> IF q = p THEN Run("none", k)
                      ELSE IF q \in C THEN Run("none", 0) ELSE s.slab[q]]
    BY <1>1, <1>5, <1>17 DEF PoolType
  <1>27. Linked(v) = Linked(s) \cup {p}
    BY <1>16, <1>19
  <1> QED
    BY <1>4, <1>24, <1>25, <1>26, <1>27 DEF C

\* The search of alloc_pages stops at a run of the free list that is long enough.
LEMMA FirstFitFree ==
  ASSUME NEW s, NEW m, PoolInv(s, m), NEW k \in Nat \ {0}, NEW p \in FirstFit(s, k)
  PROVE  /\ p \in Linked(s) /\ p \in Pgs /\ s.slab[p].mark # "cut" /\ s.next[p] # p
         /\ k <= s.slab[p].count /\ s.slab[p].count \in Nat
  <1>1. PICK list : list = Listed(s, Free)
    OBVIOUS
  <1>2. PICK i \in DOMAIN list : p = list[i] /\ Fits(s, list[i], k)
    BY <1>1 DEF FirstFit
  <1>3. s \in PoolType /\ LinkInv(s, Linked(s), Owner(s))
    BY DEF PoolInv
  <1>4. p \in Linked(s) /\ Owner(s)[p] = Free /\ s.next[p] # p
    BY <1>1, <1>2, <1>3, Owned, ListedOwned, NodesDiffer
  <1>5. p \in Pgs /\ s.slab[p] \in Desc
    BY <1>3, <1>4, Owned DEF PoolType
  <1>6. s.slab[p].count \in Nat
    BY <1>5 DEF Desc
  <1> QED
    BY <1>2, <1>4, <1>5, <1>6, Owned DEF Fits

-----------------------------------------------------------------------------
(* A new pool.                                                               *)

\* The pool that ncx_slab_init leaves: one free run of all pages.
LEMMA BlankPool ==
  ASSUME NEW k \in 0..MaxPages
  PROVE  PoolInv(Blank(k), k)
  <1>1. PICK s : s = Blank(k)
    OBVIOUS
  <1>2. /\ MaxPages \in Nat \ {0} /\ k \in Nat /\ k <= MaxPages /\ 0 \in Pgs
        /\ 0 \in Nodes /\ 0 \notin Heads /\ Free \in Heads /\ Heads \subseteq Nodes
        /\ Pgs \subseteq Nodes /\ Heads \cap Pgs = {} /\ NULL \notin Nodes
    BY SlabAssumption, NodesDiffer DEF Pgs
  <1>3. /\ s.slab = [p \in Pgs |-> Run("none", IF p = 0 THEN k ELSE 0)]
        /\ s.next = [x \in Nodes |-> IF x = Free THEN 0 ELSE IF x = 0 THEN Free
                                     ELSE IF x \in Heads THEN x ELSE NULL]
        /\ s.prev = [x \in Nodes |-> <<IF x = 0 THEN Free ELSE NULL, "page">>]
    BY <1>1 DEF Blank, Pgs
  <1>4. s \in PoolType
    <2>1. s.slab \in [Pgs -> Desc]
      BY <1>2, <1>3 DEF Run, Desc
    <2>2. s.next \in Nexts
      BY <1>2, <1>3 DEF Nexts
    <2>3. s.prev \in Prevs
      BY <1>2, <1>3 DEF Prevs
    <2>4. s = [slab |-> s.slab, next |-> s.next, prev |-> s.prev]
      BY <1>1 DEF Blank
    <2> QED
      BY <2>1, <2>2, <2>3, <2>4 DEF PoolType
  <1>5. Linked(s) = {0}
    BY <1>2, <1>3 DEF Linked
  <1>6. \A x \in Pgs : Owner(s)[x] = Free
    BY <1>2, <1>3 DEF Owner, HeadOf, Run
  <1>7. \A x \in Heads : Owner(s)[x] = x
    BY DEF Owner
  <1>8. LinkInv(s, {0}, Owner(s))
    <2>1. s.next[0] = Free /\ s.next[Free] = 0 /\ s.prev[0] = <<Free, "page">>
          /\ \A x \in Heads : x # Free => s.next[x] = x
      BY <1>2, <1>3
    <2> HIDE DEF Owner
    <2> QED
      BY <1>2, <1>6, <1>7, <2>1 DEF LinkInv, HeadKind
  <1>9. ASSUME NEW x \in Pgs PROVE PageInv(s, k, x)
    <2>1. s.slab[x] = Run("none", IF x = 0 THEN k ELSE 0) /\ s.prev[x][2] = "page"
      BY <1>2, <1>3
    <2>2. s.next[x] # NULL => x = 0
      BY <1>5 DEF Linked
    <2>3. \A y \in 1..(k - 1) : s.slab[y] = Run("none", 0)
      BY <1>2, <1>3 DEF Pgs
    <2>4. s.next[0] # NULL
      BY <1>5 DEF Linked
    <2> QED
      BY <1>2, <2>1, <2>2, <2>3, <2>4 DEF PageInv, Run, KindOf, Shape
  <1>10. Sorted(s.next, {0})
    <2>1. s.next[0] \notin {0}
      BY <1>2, <1>3
    <2>2. Ranks(s.next, {0}, 0, [x \in Pgs |-> 0])
      BY <2>1 DEF Ranks
    <2> QED
      BY <2>2 DEF Sorted
  <1>11. Covered(s, k)
    <2> SUFFICES ASSUME NEW x \in 0..(k - 1) PROVE 0 \in 0..x /\ Covers(s, 0, x)
      BY DEF Covered
    <2>1. s.slab[0] = Run("none", k)
      BY <1>2, <1>3
    <2> QED
      BY <1>2, <2>1 DEF Covers, Run
  <1> QED
    BY <1>1, <1>4, <1>5, <1>8, <1>9, <1>10, <1>11 DEF PoolInv

-----------------------------------------------------------------------------
(* Chunk pages.                                                              *)

\* The pages of t that are on no list look like it, and, but for page p, are as
\* they were in s.
Unlisted(s, t, M, p) ==
    \A x \in Pgs \ M : /\ t.next[x] = NULL /\ t.prev[x][2] = KindOf(t.slab[x])
                       /\ x # p => t.prev[x] = s.prev[x]

\* The pool stays sound when one page is cut into chunks, or its bitmap
\* changes, while its list is kept up.
LEMMA Recut ==
  ASSUME NEW s, NEW m \in 0..MaxPages, PoolInv(s, m), NEW p \in Pgs, p < m,
         s.slab[p].mark = "cut" \/ s.slab[p] = Run("start", 1),
         NEW t \in PoolType, \A q \in Pgs : q # p => t.slab[q] = s.slab[q],
         t.slab[p].mark = "cut", t.slab[p].count = 0, t.slab[p].shift \in Shifts,
         t.slab[p].busy \subseteq 0..(Chunks(t.slab[p].shift) - 1),
         0..(Reserved(t.slab[p].shift) - 1) \subseteq t.slab[p].busy,
         Room(t, p) = {} <=> t.next[p] = NULL,
         NEW M, M \cup {p} = Linked(s) \cup {p}, LinkInv(t, M, Owner(t)), Sorted(t.next, M),
         Unlisted(s, t, M, p)
  PROVE  PoolInv(t, m)
  <1>1. s \in PoolType /\ MaxPages \in Nat
    BY SlabAssumption DEF PoolInv
  <1>2. M \subseteq Pgs /\ Heads \subseteq Nodes /\ Pgs \subseteq Nodes /\ NULL \notin Nodes
    BY NodesDiffer DEF LinkInv
  <1>3. Linked(t) = M
    BY <1>2 DEF Linked, LinkInv, Unlisted
  <1>4. \A x \in Pgs : t.slab[x].mark = "cut" => t.slab[x].shift \in Shifts
    BY DEF PoolInv, PageInv
  <1>5. \A x \in Pgs : t.prev[x][2] = KindOf(t.slab[x])
    <2> TAKE x \in Pgs
    <2>1. CASE x \in M
      <3>1. x \notin Heads /\ Owner(t)[x] = HeadOf(t.slab[x])
        BY NodesDiffer DEF Owner
      <3>2. HeadKind(HeadOf(t.slab[x])) = KindOf(t.slab[x])
        BY <1>4, KindOfHead
      <3> QED
        BY <2>1, <3>1, <3>2 DEF LinkInv
    <2>2. CASE x \notin M
      BY <2>2 DEF Unlisted
    <2> QED
      BY <2>1, <2>2
  <1>6. ASSUME NEW x \in Pgs PROVE PageInv(t, m, x)
    <2>1. CASE x = p
      <3>1. t.slab[p] \in Desc
        BY DEF PoolType
      <3>2. t.slab[p] = Shape(t.slab[p])
        BY <3>1 DEF Desc, Shape, Cut
      <3> QED
        BY <1>5, <2>1, <3>2 DEF PageInv
    <2>2. CASE x # p
      <3>1. t.slab[x] = s.slab[x] /\ PageInv(s, m, x) /\ Room(t, x) = Room(s, x)
        BY <2>2 DEF PoolInv, Room
      <3>2. t.next[x] # NULL <=> s.next[x] # NULL
        BY <1>3, <2>2 DEF Linked
      <3>3. ASSUME s.slab[x].mark \in {"none", "start"}, s.slab[x].count > 0,
                   NEW y \in (x + 1)..(x + s.slab[x].count - 1)
            PROVE  t.slab[y] = s.slab[y]
        <4>1. s.slab[y].mark \notin {"start", "cut"}
          BY <3>1, <3>3 DEF PageInv, Run
        <4>2. y \in Pgs
          <5>1. x + s.slab[x].count <= m /\ s.slab[x].count \in Nat /\ x \in Nat
                /\ MaxPages \in Nat
            <6>1. s.slab[x] \in Desc /\ x \in Nat
              BY <1>1 DEF PoolType, Pgs
            <6> QED
              BY <3>1, <3>3, <6>1, SlabAssumption DEF PageInv, Desc
          <5> QED
            BY <5>1 DEF Pgs
        <4> QED
          BY <4>1, <4>2 DEF Run
      <3>4. s.slab[x].mark = "start" => t.prev[x] = s.prev[x]
        <4> SUFFICES ASSUME s.slab[x].mark = "start" PROVE x \notin M
          BY <2>2 DEF Unlisted
        <4> QED
          BY <2>2, <3>1 DEF PageInv, Linked
      <3> QED
        BY <1>5, <3>1, <3>2, <3>3, <3>4 DEF PageInv
    <2> QED
      BY <2>1, <2>2
  <1>7. ASSUME NEW x \in 0..(m - 1) PROVE \E y \in 0..x : Covers(t, y, x)
    <2>1. PICK y \in 0..x : Covers(s, y, x)
      BY <1>7 DEF PoolInv, Covered
    <2>2. y \in Pgs /\ x \in Nat /\ y \in Nat /\ y <= x
      BY SlabAssumption DEF Pgs
    <2>3. CASE y = p
      <3>1. x = p
        BY <2>1, <2>2, <2>3 DEF Covers, Run
      <3> QED
        BY <2>3, <3>1 DEF Covers
    <2>4. CASE y # p
      BY <2>1, <2>2, <2>4 DEF Covers
    <2> QED
      BY <2>3, <2>4
  <1> QED
    BY <1>3, <1>6, <1>7 DEF PoolInv, Covered

\* u is s but for the lists and the bitmap of page p, which is B.
Remarked(s, u, p, B) ==
    /\ \A q \in Pgs : q # p => u.slab[q] = s.slab[q]
    /\ u.slab[p].mark = s.slab[p].mark /\ u.slab[p].shift = s.slab[p].shift
    /\ u.slab[p].count = s.slab[p].count /\ u.slab[p].busy = B

\* The fields after a bit was set or cleared.
LEMMA BitFields ==
  ASSUME NEW s \in PoolType, NEW p \in Pgs, NEW B \in SUBSET Nat
  PROVE  LET t == [s EXCEPT !.slab[p].busy = B]
         IN  t \in PoolType /\ t.next = s.next /\ t.prev = s.prev /\ Remarked(s, t, p, B)
  <1>1. PICK t : t = [s EXCEPT !.slab[p].busy = B]
    OBVIOUS
  <1>2. s.slab \in [Pgs -> Desc] /\ s.next \in Nexts /\ s.prev \in Prevs
    BY DEF PoolType
  <1>3. PICK d : d = [s.slab[p] EXCEPT !.busy = B]
    OBVIOUS
  <1>4. d \in Desc /\ d.mark = s.slab[p].mark /\ d.shift = s.slab[p].shift /\ d.busy = B
        /\ d.count = s.slab[p].count
    BY <1>2, <1>3 DEF Desc
  <1>5. t = [s EXCEPT !.slab = [s.slab EXCEPT ![p] = d]]
    BY <1>1, <1>3
  <1>6. [s.slab EXCEPT ![p] = d] \in [Pgs -> Desc]
    BY <1>2, <1>4
  <1>7. t.slab = [s.slab EXCEPT ![p] = d] /\ t.next = s.next /\ t.prev = s.prev /\ t \in PoolType
    BY <1>2, <1>5, <1>6 DEF PoolType
  <1>8. Remarked(s, t, p, B)
    BY <1>2, <1>4, <1>7 DEF Remarked
  <1> QED
    BY <1>1, <1>7, <1>8

\* u is s with page p off its list.
Dropped(s, u, p, type) ==
    /\ u \in PoolType /\ u.slab = s.slab /\ u.next[p] = NULL /\ u.prev[p] = <<NULL, type>>
    /\ \A x \in Nodes : x # p => /\ u.next[x] = Unlink(s, p).next[x]
                                 /\ u.prev[x] = Unlink(s, p).prev[x]

\* The fields after Detached.
LEMMA DetachFields ==
  ASSUME NEW s \in PoolType, NEW p \in Pgs, s.prev[p][1] \in Nodes, s.next[p] \in Nodes,
         NEW type \in {"page", "small", "exact", "big"}
  PROVE  Dropped(s, Detached(s, p, type), p, type)
  <1>1. PICK v : v = Unlink(s, p)
    OBVIOUS
  <1>2. v \in PoolType /\ v.slab = s.slab
    BY <1>1, UnlinkFields
  <1>3. v.next \in Nexts /\ v.prev \in Prevs /\ p \in Nodes
    BY <1>2, NodesDiffer DEF PoolType
  <1>4. PICK u : u = [v EXCEPT !.next[p] = NULL, !.prev[p] = <<NULL, type>>]
    OBVIOUS
  <1>5. u.slab = v.slab /\ u.next = [v.next EXCEPT ![p] = NULL]
        /\ u.prev = [v.prev EXCEPT ![p] = <<NULL, type>>]
    BY <1>2, <1>4 DEF PoolType
  <1>6. u.next \in Nexts /\ u.prev \in Prevs
    BY <1>3, <1>5 DEF Nexts, Prevs
  <1>7. u \in PoolType
    BY <1>2, <1>4, <1>5, <1>6 DEF PoolType
  <1>8. u.next[p] = NULL /\ u.prev[p] = <<NULL, type>>
        /\ \A x \in Nodes : x # p => u.next[x] = v.next[x] /\ u.prev[x] = v.prev[x]
    BY <1>3, <1>5 DEF Nexts, Prevs
  <1> QED
    BY <1>1, <1>2, <1>4, <1>5, <1>7, <1>8 DEF Dropped, Detached

\* u is s with chunk c of page p given out, as AllocChunk does it.
ChunkTaken(s, u, p, c) ==
    LET t == [s EXCEPT !.slab[p].busy = @ \cup {c}]
    IN  u = IF Room(t, p) = {} THEN Detached(t, p, TypeOf(s.slab[p].shift)) ELSE t

\* Giving out a chunk: its bit is set, and a page that is full now leaves the
\* list of its slot.
LEMMA MarkStep ==
  ASSUME NEW s, NEW m \in 0..MaxPages, PoolInv(s, m), NEW p \in Linked(s),
         s.slab[p].mark = "cut", NEW c \in Room(s, p), NEW u, ChunkTaken(s, u, p, c)
  PROVE  PoolInv(u, m) /\ Remarked(s, u, p, s.slab[p].busy \cup {c})
  <1> DEFINE L == Linked(s)
             shift == s.slab[p].shift
             B == s.slab[p].busy \cup {c}
  <1>1. PICK t : /\ t = [s EXCEPT !.slab[p].busy = B]
                 /\ u = IF Room(t, p) = {} THEN Detached(t, p, TypeOf(shift)) ELSE t
    BY DEF ChunkTaken
  <1>2. /\ s \in PoolType /\ LinkInv(s, L, Owner(s)) /\ PageInv(s, m, p) /\ p \in Pgs
        /\ Sorted(s.next, L)
        /\ L \subseteq Pgs
    BY DEF PoolInv, Linked
  <1>3. /\ shift \in Shifts /\ Chunks(shift) \in Nat /\ p < m /\ s.slab[p].count = 0
        /\ s.slab[p].busy \subseteq 0..(Chunks(shift) - 1)
        /\ 0..(Reserved(shift) - 1) \subseteq s.slab[p].busy
    BY <1>2, SlabAssumption DEF PageInv, Shape, Cut
  <1>4. B \in SUBSET Nat /\ B \subseteq 0..(Chunks(shift) - 1)
        /\ 0..(Reserved(shift) - 1) \subseteq B
    BY <1>3 DEF Room
  <1>5. t \in PoolType /\ t.next = s.next /\ t.prev = s.prev /\ Remarked(s, t, p, B)
    <2> HIDE DEF B
    <2> QED
      BY <1>1, <1>2, <1>4, BitFields
  <1>6. Owner(t) = Owner(s)
    <2>1. \A x \in Pgs : HeadOf(t.slab[x]) = HeadOf(s.slab[x])
      BY <1>5 DEF Remarked, HeadOf
    <2> QED
      BY <2>1 DEF Owner
  <1>7. LinkInv(t, L, Owner(t))
    BY <1>2, <1>5, <1>6 DEF LinkInv
  <1>8. \A x \in Pgs : t.prev[x][2] = KindOf(t.slab[x])
    <2>1. \A x \in Pgs : KindOf(t.slab[x]) = KindOf(s.slab[x])
      BY <1>5 DEF Remarked, KindOf
    <2> QED
      BY <1>5, <2>1 DEF PoolInv, PageInv
  <1>9. CASE Room(t, p) # {}
    <2>1. Unlisted(s, t, L, p)
      BY <1>5, <1>8 DEF Linked, Unlisted
    <2>2. /\ t.slab[p].mark = "cut" /\ t.slab[p].shift = shift /\ t.slab[p].busy = B
          /\ t.slab[p].count = 0
          /\ \A q \in Pgs : q # p => t.slab[q] = s.slab[q]
      BY <1>3, <1>5 DEF Remarked
    <2>3. L \cup {p} = Linked(s) \cup {p} /\ Sorted(t.next, L) /\ t.next[p] # NULL
      BY <1>2, <1>5 DEF Linked
    <2> HIDE DEF L, B
    <2>4. PoolInv(t, m)
      BY <1>2, <1>3, <1>4, <1>5, <1>7, <1>9, <2>1, <2>2, <2>3, Recut
    <2> QED
      BY <1>1, <1>5, <1>9, <2>4 DEF B
  <1>10. CASE Room(t, p) = {}
    <2> DEFINE M == L \ {p}
               type == TypeOf(shift)
    <2>1. type \in {"page", "small", "exact", "big"} /\ KindOf(t.slab[p]) = type
      BY <1>5 DEF TypeOf, KindOf, Remarked
    <2>2. u = Detached(t, p, type)
      BY <1>1, <1>10
    <2>3. t.prev[p][1] \in L \cup Heads /\ t.next[p] \in L \cup Heads
      BY <1>7 DEF LinkInv
    <2>4. L \cup Heads \subseteq Nodes /\ Pgs \subseteq Nodes /\ Heads \cap Pgs = {}
      BY <1>2, NodesDiffer
    <2>5. Dropped(t, u, p, type)
      <3> HIDE DEF type
      <3> QED
        BY <1>2, <1>5, <2>1, <2>2, <2>3, <2>4, DetachFields
    <2>6. /\ Unlink(t, p).slab = t.slab
          /\ LinkInv(Unlink(t, p), M, Owner(t))
      <3> HIDE DEF L
      <3> QED
        BY <1>5, <1>7, UnlinkRing DEF L
    <2>7. Owner(u) = Owner(t)
      BY <2>5 DEF Owner, Dropped
    <2>8. LinkInv(u, M, Owner(u))
      <3>1. \A x \in M \cup Heads : x \in Nodes /\ x # p
        BY <1>2, <2>4
      <3>2. \A x \in M \cup Heads : u.next[x] = Unlink(t, p).next[x]
                                    /\ Owner(u)[x] = Owner(t)[x]
        BY <2>5, <2>7, <3>1 DEF Dropped
      <3>3. \A x \in M : u.prev[x] = Unlink(t, p).prev[x]
        BY <2>5, <3>1 DEF Dropped
      <3> HIDE DEF M
      <3> QED
        BY <2>6, <3>2, <3>3, LinkSame
    <2>9. ASSUME NEW x \in Pgs \ M
          PROVE  /\ u.next[x] = NULL /\ u.prev[x][2] = KindOf(u.slab[x])
                 /\ x # p => u.prev[x] = s.prev[x]
      <3>1. CASE x = p
        BY <2>1, <2>5, <3>1 DEF Dropped
      <3>2. CASE x # p
        <4>1. x \in Nodes /\ x \notin L \cup Heads
          BY <2>4, <2>9, <3>2
        <4>2. Unlink(t, p).next[x] = t.next[x] /\ Unlink(t, p).prev[x] = t.prev[x]
          BY <1>2, <1>5, <2>3, <2>4, <4>1, UnlinkFields
        <4>3. u.next[x] = t.next[x] /\ u.prev[x] = t.prev[x] /\ u.slab = t.slab
          BY <2>5, <3>2, <4>1, <4>2 DEF Dropped
        <4> QED
          BY <1>5, <1>8, <4>1, <4>3 DEF Linked
      <3> QED
        BY <3>1, <3>2
    <2>10. Remarked(s, u, p, B) /\ Unlisted(s, u, M, p)
      <3>1. Remarked(s, u, p, B)
        BY <1>5, <2>5 DEF Remarked, Dropped
      <3> QED
        BY <2>9, <3>1 DEF Unlisted
    <2>11. /\ u.slab[p].mark = "cut" /\ u.slab[p].shift = shift /\ u.slab[p].busy = B
           /\ u.next[p] = NULL /\ u \in PoolType /\ u.slab[p].count = 0
           /\ \A q \in Pgs : q # p => u.slab[q] = s.slab[q]
      BY <1>3, <2>5, <2>10 DEF Remarked, Dropped
    <2>12. M \cup {p} = Linked(s) \cup {p} /\ Room(u, p) = {}
      BY <1>10, <2>5 DEF Dropped, Room
    <2>13. Sorted(u.next, M)
      <3>1. Sorted(Unlink(t, p).next, M)
        <4>1. p \in L
          OBVIOUS
        <4> HIDE DEF L
        <4> QED
          BY <1>2, <1>5, <1>7, <4>1, SortedUnlink
      <3>2. \A x \in M : u.next[x] = Unlink(t, p).next[x]
        BY <2>4, <2>5 DEF Dropped
      <3> HIDE DEF M
      <3> QED
        BY <3>1, <3>2, SortedSame
    <2> HIDE DEF M, L, B
    <2>14. PoolInv(u, m)
      BY <1>2, <1>3, <1>4, <2>8, <2>10, <2>11, <2>12, <2>13, Recut
    <2> QED
      BY <2>10, <2>14 DEF B
  <1> QED
    BY <1>9, <1>10

\* Taking back a chunk: a page that was full returns to the list of its slot
\* before the bit is cleared.
LEMMA ClearStep ==
  ASSUME NEW s, NEW m \in 0..MaxPages, PoolInv(s, m), NEW p \in Pgs, s.slab[p].mark = "cut",
         NEW c \in s.slab[p].busy, c >= Reserved(s.slab[p].shift)
  PROVE  LET t == [Relinked(s, p, s.slab[p].shift) EXCEPT !.slab[p].busy = @ \ {c}]
         IN  PoolInv(t, m) /\ Remarked(s, t, p, s.slab[p].busy \ {c})
  <1> DEFINE L == Linked(s)
             shift == s.slab[p].shift
             B == s.slab[p].busy \ {c}
             type == TypeOf(shift)
  <1>1. PICK w : w = Relinked(s, p, shift)
    OBVIOUS
  <1>2. /\ s \in PoolType /\ LinkInv(s, L, Owner(s)) /\ PageInv(s, m, p) /\ Sorted(s.next, L)
        /\ L \subseteq Pgs /\ L \cup Heads \subseteq Nodes /\ Pgs \subseteq Nodes
        /\ Heads \cap Pgs = {} /\ NULL \notin Nodes
    BY NodesDiffer DEF PoolInv, Linked
  <1>3. /\ shift \in Shifts /\ Chunks(shift) \in Nat /\ Reserved(shift) \in Nat /\ p < m
        /\ s.slab[p].count = 0
        /\ s.slab[p].busy \subseteq 0..(Chunks(shift) - 1)
        /\ 0..(Reserved(shift) - 1) \subseteq s.slab[p].busy
    BY <1>2, SlabAssumption DEF PageInv, Shape, Cut
  <1>4. /\ B \in SUBSET Nat /\ B \subseteq 0..(Chunks(shift) - 1)
        /\ 0..(Reserved(shift) - 1) \subseteq B
        /\ c \in 0..(Chunks(shift) - 1) /\ c \notin B
    BY <1>3
  <1>5. /\ Slot(shift) \in Heads /\ Owner(s)[p] = Slot(shift) /\ type = HeadKind(Slot(shift))
        /\ Owner(s)[Slot(shift)] = Slot(shift)
        /\ type \in {"page", "small", "exact", "big"} /\ KindOf(s.slab[p]) = type
    <2>1. Owner(s)[p] = HeadOf(s.slab[p]) /\ Owner(s)[p] \in Heads
          /\ HeadKind(Owner(s)[p]) = KindOf(s.slab[p])
      BY Owned
    <2>2. HeadOf(s.slab[p]) = Slot(shift) /\ KindOf(s.slab[p]) = type
      BY DEF HeadOf, KindOf
    <2>3. \A x \in Heads : Owner(s)[x] = x
      BY Owned
    <2>4. type \in {"page", "small", "exact", "big"}
      BY DEF TypeOf
    <2> QED
      BY <2>1, <2>2, <2>3, <2>4
  <1>6. PICK M : \/ M = L /\ w = s /\ p \in L
                 \/ M = L \cup {p} /\ p \notin L /\ w = PushFront(s, Slot(shift), p, type)
    <2>1. Room(s, p) = {} <=> s.next[p] = NULL
      BY <1>2 DEF PageInv
    <2>2. s.next[p] = NULL <=> p \notin L
      BY DEF Linked
    <2>3. \/ w = s /\ s.next[p] # NULL
          \/ w = PushFront(s, Slot(shift), p, type) /\ s.next[p] = NULL
      BY <1>1, <2>1 DEF Relinked
    <2> QED
      BY <2>2, <2>3
  <1> HIDE DEF L, type, B
  <1>7. /\ w \in PoolType /\ w.slab = s.slab /\ LinkInv(w, M, Owner(s))
        /\ M = L \cup {p} /\ Sorted(w.next, M)
        /\ \A x \in Pgs \ M : w.next[x] = s.next[x] /\ w.prev[x] = s.prev[x] /\ x \notin L
    <2>1. CASE M = L /\ w = s /\ p \in L
      BY <1>2, <2>1
    <2>2. CASE M = L \cup {p} /\ p \notin L /\ w = PushFront(s, Slot(shift), p, type)
      <3>1. /\ PushFront(s, Slot(shift), p, type) \in PoolType
            /\ PushFront(s, Slot(shift), p, type).slab = s.slab
            /\ LinkInv(PushFront(s, Slot(shift), p, type), L \cup {p}, Owner(s))
        BY <1>2, <1>5, <2>2, PushRing
      <3>2. s.next[Slot(shift)] \in L \cup Heads
        BY <1>2, <1>5 DEF LinkInv
      <3>3. s.next[Slot(shift)] \in Nodes /\ s.next[Slot(shift)] # p
        BY <1>2, <2>2, <3>2
      <3>4. Pushed(s, w, Slot(shift), p, type)
        BY <1>2, <1>5, <2>2, <3>3, PushFields
      <3>5. \A x \in Pgs \ M : w.next[x] = s.next[x] /\ w.prev[x] = s.prev[x] /\ x \notin L
        BY <1>2, <1>5, <2>2, <3>2, <3>4 DEF Pushed
      <3>6. Sorted(w.next, M)
        BY <1>2, <1>5, <2>2, SortedPush
      <3> QED
        BY <2>2, <3>1, <3>5, <3>6
    <2> QED
      BY <1>6, <2>1, <2>2
  <1>8. PICK t : t = [w EXCEPT !.slab[p].busy = B]
    OBVIOUS
  <1>9. t \in PoolType /\ t.next = w.next /\ t.prev = w.prev /\ Remarked(s, t, p, B)
    <2>1. t \in PoolType /\ t.next = w.next /\ t.prev = w.prev /\ Remarked(w, t, p, B)
      BY <1>4, <1>7, <1>8, BitFields
    <2> QED
      BY <1>7, <2>1 DEF Remarked
  <1>10. \A x \in Pgs : /\ HeadOf(t.slab[x]) = HeadOf(s.slab[x])
                        /\ KindOf(t.slab[x]) = KindOf(s.slab[x])
    BY <1>9 DEF Remarked, HeadOf, KindOf
  <1>11. Owner(t) = Owner(s)
    BY <1>10 DEF Owner
  <1>12. LinkInv(t, M, Owner(t))
    BY <1>7, <1>9, <1>11 DEF LinkInv
  <1>13. Unlisted(s, t, M, p)
    <2> SUFFICES ASSUME NEW x \in Pgs \ M
                 PROVE  /\ t.next[x] = NULL /\ t.prev[x][2] = KindOf(t.slab[x])
                        /\ t.prev[x] = s.prev[x]
      BY DEF Unlisted
    <2>1. s.next[x] = NULL /\ s.prev[x][2] = KindOf(s.slab[x])
      BY <1>7 DEF L, Linked, PoolInv, PageInv
    <2> QED
      BY <1>7, <1>9, <1>10, <2>1
  <1>14. /\ t.slab[p].mark = "cut" /\ t.slab[p].shift = shift /\ t.slab[p].busy = B
         /\ t.slab[p].count = 0
         /\ \A q \in Pgs : q # p => t.slab[q] = s.slab[q]
    BY <1>3, <1>9 DEF Remarked
  <1>15. /\ Room(t, p) # {} /\ M \cup {p} = Linked(s) \cup {p} /\ Sorted(t.next, M)
         /\ t.next[p] # NULL
    <2>1. Room(t, p) # {} /\ M \cup {p} = Linked(s) \cup {p} /\ Sorted(t.next, M)
      BY <1>4, <1>7, <1>9, <1>14 DEF Room, L
    <2>2. p \in M /\ t.next[p] \in M \cup Heads
      BY <1>7, <1>12 DEF LinkInv
    <2> QED
      BY <1>2, <1>7, <2>1, <2>2
  <1>16. PoolInv(t, m)
    BY <1>3, <1>4, <1>9, <1>12, <1>13, <1>14, <1>15, Recut
  <1>17. t = [Relinked(s, p, s.slab[p].shift) EXCEPT !.slab[p].busy = @ \ {c}]
    <2>1. w.slab[p].busy \ {c} = B
      BY <1>7 DEF B
    <2> QED
      BY <1>1, <1>8, <2>1
  <1> QED
    BY <1>9, <1>16, <1>17 DEF B

\* u is t with page p cut and put on the empty list of its slot.
NewlyCut(t, u, p, shift) ==
    u = [t EXCEPT !.slab[p] = Cut(shift, FirstBusy(shift)),
                  !.next[p] = Slot(shift), !.next[Slot(shift)] = p,
                  !.prev[p] = <<Slot(shift), TypeOf(shift)>>]

\* Its fields.
LEMMA CutFields ==
  ASSUME NEW t \in PoolType, NEW p \in Pgs, NEW shift \in Shifts, NEW u, NewlyCut(t, u, p, shift)
  PROVE  /\ u \in PoolType /\ u.slab = [t.slab EXCEPT ![p] = Cut(shift, FirstBusy(shift))]
         /\ \A x \in Nodes :
               /\ u.next[x] = IF x = Slot(shift) THEN p ELSE IF x = p THEN Slot(shift)
                              ELSE t.next[x]
               /\ u.prev[x] = IF x = p THEN <<Slot(shift), TypeOf(shift)>> ELSE t.prev[x]
  <1>1. /\ p \in Nodes /\ Slot(shift) \in Nodes /\ Slot(shift) # p
        /\ TypeOf(shift) \in {"page", "small", "exact", "big"}
    BY NodesDiffer DEF TypeOf
  <1>2. Cut(shift, FirstBusy(shift)) \in Desc
    <2>1. shift \in Int /\ FirstBusy(shift) \in SUBSET Nat
      BY SlabAssumption DEF Shifts, FirstBusy
    <2> QED
      BY <2>1 DEF Cut, Desc
  <1>3. t.slab \in [Pgs -> Desc] /\ t.next \in Nexts /\ t.prev \in Prevs
    BY DEF PoolType
  <1>4. PICK d, h, ty : d = Cut(shift, FirstBusy(shift)) /\ h = Slot(shift) /\ ty = TypeOf(shift)
    OBVIOUS
  <1>5. u = [t EXCEPT !.slab[p] = d, !.next[p] = h, !.next[h] = p, !.prev[p] = <<h, ty>>]
    BY <1>4 DEF NewlyCut
  <1>6. u.slab = [t.slab EXCEPT ![p] = d] /\ u.next = [[t.next EXCEPT ![p] = h] EXCEPT ![h] = p]
        /\ u.prev = [t.prev EXCEPT ![p] = <<h, ty>>]
    BY <1>5 DEF PoolType
  <1>7. u.slab \in [Pgs -> Desc] /\ u.next \in Nexts /\ u.prev \in Prevs
    BY <1>1, <1>2, <1>3, <1>4, <1>6 DEF Nexts, Prevs
  <1>8. u \in PoolType
    BY <1>5, <1>6, <1>7 DEF PoolType
  <1>9. \A x \in Nodes : /\ u.next[x] = IF x = h THEN p ELSE IF x = p THEN h ELSE t.next[x]
                         /\ u.prev[x] = IF x = p THEN <<h, ty>> ELSE t.prev[x]
    BY <1>1, <1>3, <1>4, <1>6 DEF Nexts, Prevs
  <1> QED
    BY <1>4, <1>6, <1>8, <1>9

\* Cutting a page that was just taken: it is alone on the list of its slot, and
\* the chunks of its bitmap and the first one behind them are busy.
LEMMA CutStep ==
  ASSUME NEW t, NEW m \in 0..MaxPages, PoolInv(t, m), NEW p \in Pgs, p < m,
         t.slab[p] = Run("start", 1), NEW shift \in Shifts,
         t.next[Slot(shift)] = Slot(shift), NEW u, NewlyCut(t, u, p, shift)
  PROVE  /\ PoolInv(u, m) /\ u.slab[p] = Cut(shift, FirstBusy(shift))
         /\ \A q \in Pgs : q # p => u.slab[q] = t.slab[q]
  <1> DEFINE L == Linked(t)
             M == L \cup {p}
  <1>1. /\ t \in PoolType /\ LinkInv(t, L, Owner(t)) /\ PageInv(t, m, p) /\ Sorted(t.next, L)
        /\ L \subseteq Pgs /\ L \cup Heads \subseteq Nodes /\ Pgs \subseteq Nodes
        /\ Heads \cap Pgs = {} /\ NULL \notin Nodes /\ p \in Nodes
    BY NodesDiffer DEF PoolInv, Linked
  <1>2. PICK h : h = Slot(shift)
    OBVIOUS
  <1>3. h \in Heads /\ h # p /\ h \in Nodes /\ h \notin L
    BY <1>1, <1>2, NodesDiffer
  <1>4. p \notin L
    BY <1>1 DEF PageInv, Linked, Run
  <1>5. /\ u \in PoolType /\ u.slab = [t.slab EXCEPT ![p] = Cut(shift, FirstBusy(shift))]
        /\ \A x \in Nodes :
              /\ u.next[x] = IF x = h THEN p ELSE IF x = p THEN h ELSE t.next[x]
              /\ u.prev[x] = IF x = p THEN <<h, TypeOf(shift)>> ELSE t.prev[x]
    BY <1>1, <1>2, CutFields
  <1>6. /\ u.slab[p] = Cut(shift, FirstBusy(shift))
        /\ \A q \in Pgs : q # p => u.slab[q] = t.slab[q]
    BY <1>1, <1>5 DEF PoolType
  <1>7. /\ Owner(u)[p] = h /\ HeadKind(h) = TypeOf(shift) /\ KindOf(u.slab[p]) = TypeOf(shift)
        /\ \A x \in Heads : Owner(u)[x] = x /\ Owner(t)[x] = x
        /\ \A x \in L : Owner(u)[x] = Owner(t)[x]
    <2>1. HeadOf(u.slab[p]) = h /\ KindOf(u.slab[p]) = TypeOf(shift)
      BY <1>2, <1>6 DEF HeadOf, KindOf, Cut
    <2>2. Owner(u)[p] = h
      BY <1>1, <2>1 DEF Owner
    <2>3. HeadKind(HeadOf(u.slab[p])) = KindOf(u.slab[p])
      <3>1. u.slab[p].shift \in Shifts
        BY <1>6 DEF Cut
      <3> QED
        BY <3>1, KindOfHead
    <2>4. \A x \in L : Owner(u)[x] = Owner(t)[x]
      BY <1>1, <1>4, <1>6 DEF Owner
    <2>5. \A x \in Heads : Owner(u)[x] = x /\ Owner(t)[x] = x
      BY DEF Owner
    <2> QED
      BY <2>1, <2>2, <2>3, <2>4, <2>5
  <1> DEFINE own == Owner(t)
             own2 == Owner(u)
  <1>8. LinkInv(u, M, own2)
    <2> HIDE DEF L, own, own2
    <2>0. t.next[h] = h
      BY <1>2
    <2>1. ASSUME NEW x \in M \cup Heads
          PROVE  /\ u.next[x] \in M \cup Heads /\ own2[u.next[x]] = own2[x]
                 /\ u.next[x] \in M => u.prev[u.next[x]][1] = x
      <3>1. CASE x = h
        BY <1>1, <1>3, <1>5, <1>7, <3>1 DEF own2
      <3>2. CASE x = p
        BY <1>1, <1>3, <1>5, <1>7, <3>2 DEF own2
      <3>3. CASE x # h /\ x # p
        <4>1. x \in L \cup Heads /\ x \in Nodes
          BY <1>1, <2>1, <3>3
        <4>2. /\ t.next[x] \in L \cup Heads /\ own[t.next[x]] = own[x]
              /\ t.next[x] \in L => t.prev[t.next[x]][1] = x
          BY <1>1, <4>1 DEF LinkInv, own
        <4>3. u.next[x] = t.next[x] /\ t.next[x] # p /\ t.next[x] \in Nodes
          BY <1>1, <1>4, <1>5, <3>3, <4>1, <4>2
        <4>4. own2[t.next[x]] = own[t.next[x]] /\ own2[x] = own[x]
          BY <1>7, <4>1, <4>2 DEF own, own2
        <4>5. u.prev[t.next[x]] = t.prev[t.next[x]]
          BY <1>5, <4>3
        <4>6. t.next[x] \in M => t.next[x] \in L
          BY <4>3
        <4> QED
          BY <4>2, <4>3, <4>4, <4>5, <4>6
      <3> QED
        BY <3>1, <3>2, <3>3
    <2>2. ASSUME NEW x \in M
          PROVE  /\ u.prev[x][1] \in M \cup Heads /\ u.next[u.prev[x][1]] = x
                 /\ u.prev[x][2] = HeadKind(own2[x])
      <3>1. CASE x = p
        BY <1>1, <1>3, <1>5, <1>7, <3>1 DEF own2
      <3>2. CASE x # p
        <4>1. x \in L /\ x \in Nodes
          BY <1>1, <2>2, <3>2
        <4>2. /\ t.prev[x][1] \in L \cup Heads /\ t.next[t.prev[x][1]] = x
              /\ t.prev[x][2] = HeadKind(own[x])
          BY <1>1, <4>1 DEF LinkInv, own
        <4>3. u.prev[x] = t.prev[x] /\ own2[x] = own[x]
          BY <1>5, <1>7, <3>2, <4>1 DEF own, own2
        <4>4. t.prev[x][1] # h /\ t.prev[x][1] # p /\ t.prev[x][1] \in Nodes
          BY <1>1, <1>3, <1>4, <2>0, <4>1, <4>2
        <4>5. u.next[t.prev[x][1]] = t.next[t.prev[x][1]]
          BY <1>5, <4>4
        <4> QED
          BY <4>2, <4>3, <4>5
      <3> QED
        BY <3>1, <3>2
    <2>3. M \subseteq Pgs
      BY <1>1
    <2> HIDE DEF M
    <2> QED
      BY <2>1, <2>2, <2>3 DEF LinkInv
  <1>9. Unlisted(t, u, M, p)
    <2> SUFFICES ASSUME NEW x \in Pgs \ M
                 PROVE  /\ u.next[x] = NULL /\ u.prev[x][2] = KindOf(u.slab[x])
                        /\ u.prev[x] = t.prev[x]
      BY DEF Unlisted
    <2>1. t.next[x] = NULL /\ t.prev[x][2] = KindOf(t.slab[x])
      BY DEF Linked, PoolInv, PageInv
    <2>2. x # p /\ x # h /\ x \in Nodes
      BY <1>1, <1>3
    <2> QED
      BY <1>5, <1>6, <2>1, <2>2
  <1>10. /\ u.slab[p].mark = "cut" /\ u.slab[p].shift = shift
         /\ u.slab[p].busy \subseteq 0..(Chunks(shift) - 1)
         /\ 0..(Reserved(shift) - 1) \subseteq u.slab[p].busy /\ Room(u, p) # {}
         /\ u.slab[p].count = 0
    <2>1. /\ u.slab[p].mark = "cut" /\ u.slab[p].shift = shift
          /\ u.slab[p].busy = 0..Reserved(shift) /\ u.slab[p].count = 0
      BY <1>6 DEF Cut, FirstBusy
    <2>2. Reserved(shift) \in Nat /\ Chunks(shift) \in Nat /\ Reserved(shift) + 1 < Chunks(shift)
      BY SlabAssumption
    <2>3. Reserved(shift) + 1 \in Room(u, p)
      BY <2>1, <2>2 DEF Room
    <2> QED
      BY <2>1, <2>2, <2>3
  <1>11. M \cup {p} = Linked(t) \cup {p} /\ u.next[p] # NULL
    BY <1>1, <1>3, <1>5
  <1>12. Sorted(u.next, M)
    <2>0. PICK b \in Nat : \E r : Ranks(t.next, L, b, r)
      BY <1>1 DEF Sorted
    <2>1. PICK r : Ranks(t.next, L, b, r)
      BY <2>0
    <2>2. Ranks(u.next, M, b, r)
      <3>1. u.next[p] = h /\ h \notin M /\ p \notin Heads
        BY <1>1, <1>3, <1>5
      <3>2. \A x \in L : u.next[x] = t.next[x] /\ t.next[x] \in L \cup Heads
        <4>1. \A x \in L : t.next[x] \in L \cup Heads
          BY <1>1 DEF LinkInv
        <4> QED
          BY <1>1, <1>3, <1>4, <1>5, <4>1
      <3> HIDE DEF L
      <3> QED
        BY <2>1, <3>1, <3>2 DEF Ranks
    <2> QED
      BY <2>2 DEF Sorted
  <1> HIDE DEF L, M
  <1>13. /\ u.slab[p].shift \in Shifts
         /\ u.slab[p].busy \subseteq 0..(Chunks(u.slab[p].shift) - 1)
         /\ 0..(Reserved(u.slab[p].shift) - 1) \subseteq u.slab[p].busy
         /\ Room(u, p) = {} <=> u.next[p] = NULL
         /\ u.slab[p].count = 0
    BY <1>10, <1>11
  <1>14. LinkInv(u, M, Owner(u)) /\ u \in PoolType /\ u.slab[p].mark = "cut"
    BY <1>5, <1>8, <1>10
  <1>15. PoolInv(u, m)
    BY <1>6, <1>9, <1>11, <1>13, <1>14, <1>12, Recut
  <1> QED
    BY <1>6, <1>15

-----------------------------------------------------------------------------
(* The blocks.                                                               *)

\* The page of an address and the place in the page.
LEMMA Address ==
  ASSUME NEW P \in Nat \ {0}, NEW p \in Nat, NEW r \in Nat, r < P
  PROVE  (p * P + r) \div P = p /\ (p * P + r) % P = r
  <1> DEFINE x == p * P + r
             q == x \div P
  <1>1. x \in Int /\ p * P \in Int
    OBVIOUS
  <1>2. q \in Int /\ q * P <= x /\ x < q * P + P
    <2> HIDE DEF x
    <2> QED
      BY <1>1, Quotient
  <1>3. q * P \in Int /\ (q + 1) * P = q * P + P /\ (p + 1) * P = p * P + P
    <2> HIDE DEF q
    <2> QED
      BY <1>2
  <1> HIDE DEF q
  <1>4. ~(q < p)
    <2>1. SUFFICES ASSUME q < p PROVE FALSE
      OBVIOUS
    <2>2. (q + 1) * P <= p * P
      BY <1>2, <2>1, Scaled
    <2> QED
      BY <1>1, <1>2, <1>3, <2>2
  <1>5. ~(p < q)
    <2>1. SUFFICES ASSUME p < q PROVE FALSE
      OBVIOUS
    <2>2. (p + 1) * P <= q * P
      BY <1>2, <2>1, Scaled
    <2> QED
      BY <1>1, <1>2, <1>3, <2>2
  <1>6. q = p
    BY <1>2, <1>4, <1>5
  <1>7. x % P = x - q * P
    BY <1>1 DEF q
  <1> QED
    BY <1>1, <1>6, <1>7 DEF q

\* A chunk lies within its page, behind the chunks before it.
LEMMA ChunkPlace ==
  ASSUME NEW shift \in Shifts, NEW c \in 0..(Chunks(shift) - 1)
  PROVE  /\ 2^shift \in Nat \ {0} /\ c * 2^shift \in Nat
         /\ c * 2^shift + 2^shift <= pagesize
         /\ (c * 2^shift) \div 2^shift = c
         /\ \A d \in Nat : d < c => d * 2^shift + 2^shift <= c * 2^shift
  <1>1. PICK S, k : S = 2^shift /\ k = Chunks(shift)
    OBVIOUS
  <1>2. S \in Nat \ {0} /\ k \in Nat /\ k * S = pagesize
    BY <1>1, SlabAssumption
  <1>3. c \in Nat /\ c + 1 <= k
    BY <1>1, <1>2
  <1>4. c * S \in Nat /\ (c + 1) * S = c * S + S
    BY <1>2, <1>3
  <1>5. (c + 1) * S <= k * S
    BY <1>2, <1>3, Scaled
  <1>6. (c * S) \div S = c
    <2>1. c * S + 0 = c * S
      BY <1>4
    <2>2. (c * S + 0) \div S = c
      BY <1>2, <1>3, Address
    <2> QED
      BY <2>1, <2>2
  <1>7. ASSUME NEW d \in Nat, d < c PROVE d * S + S <= c * S
    <2>1. (d + 1) * S <= c * S
      BY <1>2, <1>3, <1>7, Scaled
    <2>2. (d + 1) * S = d * S + S
      BY <1>2
    <2> QED
      BY <2>1, <2>2
  <1> QED
    BY <1>1, <1>2, <1>4, <1>5, <1>6, <1>7

\* Where a block lies: on the k pages from p on.
Extent(s, b, p, k, m) ==
    /\ k \in Nat \ {0} /\ p + k <= m
    /\ \/ s.slab[p].mark = "cut" /\ k = 1
       \/ s.slab[p].mark = "start" /\ k = s.slab[p].count
    /\ p * pagesize <= b[1] /\ b[1] < p * pagesize + pagesize
    /\ b[1] + b[2] <= (p + k) * pagesize
    /\ b[1] \div pagesize = p

\* A block lies on the pages of its run, or on its chunk page.
LEMMA HeldExtent ==
  ASSUME NEW s, NEW m \in 0..MaxPages, PoolInv(s, m), NEW b \in Nat \X Nat, NEW p \in Pgs,
         Held(s, b, p)
  PROVE  \E k : Extent(s, b, p, k, m)
  <1>1. PICK P : P = pagesize
    OBVIOUS
  <1>2. P \in Nat \ {0} /\ p \in Nat /\ b[1] \in Nat /\ b[2] \in Nat
        /\ MaxPages \in Nat /\ m \in Nat
    BY <1>1, SlabAssumption DEF Pgs
  <1>3. p * P \in Int /\ (p + 1) * P = p * P + P
    BY <1>2
  <1>4. PageInv(s, m, p) /\ s.slab[p].count \in Nat
    BY DEF PoolInv, PoolType, Desc
  <1>5. ASSUME NEW r \in Nat, r < P, b[1] = p * P + r PROVE b[1] \div P = p
    BY <1>2, <1>5, Address
  <1>6. CASE PageBlock(s, b, p)
    <2>1. PICK k : k = s.slab[p].count
      OBVIOUS
    <2>2. /\ s.slab[p].mark = "start" /\ b[1] = p * P /\ b[2] <= k * P
          /\ k \in Nat \ {0} /\ p + k <= m
      BY <1>1, <1>4, <1>6, <2>1 DEF PageBlock, PageInv
    <2>3. k * P \in Int /\ (p + k) * P = p * P + k * P
      BY <1>2, <2>2
    <2>4. b[1] = p * P + 0
      BY <1>3, <2>2
    <2>5. b[1] \div P = p
      BY <1>2, <1>5, <2>4
    <2>6. b[1] + b[2] <= (p + k) * P
      BY <1>2, <1>3, <2>2, <2>3
    <2> QED
      BY <1>1, <1>2, <1>3, <2>1, <2>2, <2>5, <2>6 DEF Extent
  <1>7. ASSUME NEW c \in s.slab[p].busy, ChunkBlock(s, b, p, c) PROVE Extent(s, b, p, 1, m)
    <2>1. PICK S, shift : shift = s.slab[p].shift /\ S = 2^shift
      OBVIOUS
    <2>2. /\ s.slab[p].mark = "cut" /\ b[1] = p * P + c * S /\ b[2] <= S
      BY <1>1, <1>7, <2>1 DEF ChunkBlock
    <2>3. shift \in Shifts /\ c \in 0..(Chunks(shift) - 1) /\ p < m
      BY <1>4, <2>1, <2>2 DEF PageInv
    <2>4. S \in Nat \ {0} /\ c * S \in Nat /\ c * S + S <= P
      BY <1>1, <2>1, <2>3, ChunkPlace
    <2>5. PICK r \in Nat : r = c * S
      BY <2>4
    <2>6. r < P /\ b[1] = p * P + r
      BY <1>2, <2>2, <2>4, <2>5
    <2>7. b[1] \div P = p
      BY <1>5, <2>6
    <2>8. p * P <= b[1] /\ b[1] < p * P + P /\ b[1] + b[2] <= (p + 1) * P /\ p + 1 <= m
      BY <1>2, <1>3, <2>2, <2>3, <2>4, <2>5, <2>6
    <2> QED
      BY <1>1, <2>2, <2>7, <2>8 DEF Extent
  <1> QED
    BY <1>6, <1>7 DEF Held

\* Where a chunk lies in its page, and that it is none of the bitmap's.
LEMMA HeldChunk ==
  ASSUME NEW s, NEW m \in 0..MaxPages, PoolInv(s, m), NEW b \in Nat \X Nat, NEW p \in Pgs,
         NEW c \in s.slab[p].busy, ChunkBlock(s, b, p, c)
  PROVE  LET shift == s.slab[p].shift
         IN  /\ shift \in Shifts /\ c \in 0..(Chunks(shift) - 1) /\ c >= Reserved(shift)
             /\ b[1] % pagesize = c * 2^shift /\ (b[1] % pagesize) \div 2^shift = c
             /\ b[1] % pagesize >= Reserved(shift) * 2^shift
  <1>1. PICK P, S, shift : P = pagesize /\ shift = s.slab[p].shift /\ S = 2^shift
    OBVIOUS
  <1>2. P \in Nat \ {0} /\ p \in Nat
    BY <1>1, SlabAssumption DEF Pgs
  <1>3. /\ s.slab[p].mark = "cut" /\ b[1] = p * P + c * S /\ c >= Reserved(shift)
    BY <1>1 DEF ChunkBlock
  <1>4. PageInv(s, m, p)
    BY DEF PoolInv
  <1>5. shift \in Shifts /\ c \in 0..(Chunks(shift) - 1)
    BY <1>1, <1>3, <1>4 DEF PageInv
  <1>6. S \in Nat \ {0} /\ c * S \in Nat /\ c * S + S <= P /\ (c * S) \div S = c
    BY <1>1, <1>5, ChunkPlace
  <1>7. PICK r \in Nat : r = c * S
    BY <1>6
  <1>8. r < P /\ b[1] = p * P + r
    BY <1>2, <1>3, <1>6, <1>7
  <1>9. b[1] % P = r
    BY <1>2, <1>8, Address
  <1>10. Reserved(shift) \in Nat /\ c \in Nat
    BY <1>5, SlabAssumption
  <1>11. Reserved(shift) * S <= c * S
    BY <1>3, <1>6, <1>10, Scaled
  <1> QED
    BY <1>1, <1>3, <1>5, <1>6, <1>7, <1>9, <1>11

\* Two blocks with different addresses have no byte in common.
LEMMA BlocksDisjoint ==
  ASSUME NEW s, NEW m \in 0..MaxPages, PoolInv(s, m),
         NEW b \in Nat \X Nat, NEW c \in Nat \X Nat, b[1] < c[1],
         NEW p \in Pgs, NEW q \in Pgs, Held(s, b, p), Held(s, c, q)
  PROVE  b[1] + b[2] <= c[1]
  <1>1. PICK P : P = pagesize
    OBVIOUS
  <1>2. /\ P \in Nat \ {0} /\ p \in Nat /\ q \in Nat
        /\ b[1] \in Nat /\ b[2] \in Nat /\ c[1] \in Nat /\ c[2] \in Nat
    BY <1>1, SlabAssumption DEF Pgs
  <1>3. PICK k : Extent(s, b, p, k, m)
    BY HeldExtent
  <1>4. PICK j : Extent(s, c, q, j, m)
    BY HeldExtent
  <1>5. /\ k \in Nat \ {0} /\ p * P <= b[1] /\ b[1] < p * P + P /\ b[1] + b[2] <= (p + k) * P
        /\ j \in Nat \ {0} /\ q * P <= c[1] /\ c[1] < q * P + P
    BY <1>1, <1>3, <1>4 DEF Extent
  <1>6. p * P \in Int /\ q * P \in Int /\ (q + 1) * P = q * P + P /\ (p + k) * P \in Int
    BY <1>2, <1>5
  <1>7. p <= q
    <2>1. SUFFICES ASSUME q + 1 <= p PROVE FALSE
      BY <1>2
    <2>2. (q + 1) * P <= p * P
      BY <1>2, <2>1, Scaled
    <2> QED
      BY <1>2, <1>5, <1>6, <2>2
  <1>8. CASE p # q
    <2>1. p + k <= q
      <3>1. SUFFICES ASSUME q <= p + k - 1 PROVE FALSE
        BY <1>2, <1>5
      <3>2. k > 1 /\ q \in (p + 1)..(p + k - 1)
        BY <1>2, <1>5, <1>7, <1>8, <3>1
      <3>3. s.slab[p].mark = "start" /\ k = s.slab[p].count
        BY <1>3, <3>2 DEF Extent
      <3>4. \/ s.slab[q].mark = "cut" /\ j = 1
            \/ s.slab[q].mark \in {"none", "start"} /\ j <= s.slab[q].count
        BY <1>4, <1>5 DEF Extent
      <3>5. s.slab[p].mark \in {"none", "start"} /\ s.slab[p].count > 0
            /\ q \in (p + 1)..(p + s.slab[p].count - 1)
        BY <1>5, <3>2, <3>3
      <3>6. q \notin q..(q + j - 1)
        BY <1>5, <1>8, <3>4, <3>5, RunsApart
      <3> QED
        BY <1>2, <1>5, <3>6
    <2>2. (p + k) * P <= q * P
      BY <1>2, <1>5, <2>1, Scaled
    <2> QED
      BY <1>2, <1>5, <1>6, <2>2
  <1>9. CASE p = q
    <2>1. s.slab[p].mark = "cut"
      BY <1>2, <1>9 DEF Held, PageBlock, ChunkBlock
    <2>2. PICK f \in s.slab[p].busy : ChunkBlock(s, b, p, f)
      BY <2>1 DEF Held, PageBlock
    <2>3. PICK g \in s.slab[p].busy : ChunkBlock(s, c, p, g)
      BY <1>9, <2>1 DEF Held, PageBlock
    <2>4. PICK S, shift : shift = s.slab[p].shift /\ S = 2^shift
      OBVIOUS
    <2>5. /\ b[1] = p * P + f * S /\ b[2] <= S /\ c[1] = p * P + g * S
      BY <1>1, <2>2, <2>3, <2>4 DEF ChunkBlock
    <2>6. shift \in Shifts /\ f \in 0..(Chunks(shift) - 1) /\ g \in 0..(Chunks(shift) - 1)
      BY <2>2, <2>3, <2>4, HeldChunk
    <2>7. /\ S \in Nat \ {0} /\ f * S \in Nat /\ g * S \in Nat
          /\ \A d \in Nat : d < g => d * S + S <= g * S
          /\ \A d \in Nat : d < f => d * S + S <= f * S
      BY <2>4, <2>6, ChunkPlace
    <2>8. f \in Nat /\ g \in Nat
      BY <2>6, SlabAssumption
    <2>9. f < g
      BY <1>2, <1>6, <2>5, <2>7, <2>8
    <2>10. f * S + S <= g * S
      BY <2>7, <2>8, <2>9
    <2> QED
      BY <1>2, <1>6, <2>5, <2>7, <2>10
  <1> QED
    BY <1>8, <1>9

\* What the invariant says about the blocks.
LEMMA InvNoOverlap == IInv => NoOverlap
  <1> SUFFICES ASSUME IInv PROVE NoOverlap
    OBVIOUS
  <1>1. /\ n \in 0..MaxPages /\ PoolInv(pool, n) /\ live \subseteq Nat \X Nat
        /\ \A b \in live : \E p \in Pgs : Held(pool, b, p)
        /\ \A b, c \in live : b # c => b[1] # c[1]
    BY DEF IInv, LiveInv
  <1>2. \A b \in live : b \in Nat \X Nat /\ b[1] \in Nat /\ b[2] \in Nat
    BY <1>1
  <1>3. ASSUME NEW b \in live, NEW c \in live, b[1] < c[1] PROVE Bytes(b) \cap Bytes(c) = {}
    <2>1. b[1] + b[2] <= c[1]
      BY <1>1, <1>2, <1>3, BlocksDisjoint
    <2> QED
      BY <1>2, <2>1 DEF Bytes
  <1>4. ASSUME NEW b \in live, NEW c \in live, b # c PROVE Bytes(b) \cap Bytes(c) = {}
    <2>1. b[1] < c[1] \/ c[1] < b[1]
      BY <1>1, <1>2, <1>4
    <2> QED
      BY <1>3, <2>1
  <1>5. ASSUME NEW b \in live PROVE Bytes(b) \subseteq 0..(n * pagesize - 1)
    <2>1. PICK p \in Pgs : Held(pool, b, p)
      BY <1>1
    <2>2. PICK k : Extent(pool, b, p, k, n)
      BY <1>1, <1>2, <2>1, HeldExtent
    <2>3. PICK P : P = pagesize /\ P \in Nat
      BY SlabAssumption
    <2>4. p \in Nat /\ k \in Nat /\ p + k <= n /\ n \in Nat /\ b[1] + b[2] <= (p + k) * P
      BY <1>1, <2>2, <2>3, SlabAssumption DEF Extent, Pgs
    <2>5. (p + k) * P <= n * P
      BY <2>3, <2>4, Scaled
    <2>6. (p + k) * P \in Int /\ n * P \in Int
      BY <2>3, <2>4
    <2>7. b[1] + b[2] <= n * P
      BY <1>2, <2>4, <2>5, <2>6
    <2> QED
      BY <1>2, <2>3, <2>6, <2>7 DEF Bytes
  <1>6. ASSUME NEW b \in live, pool.slab[b[1] \div pagesize].mark = "cut"
        PROVE  b[1] % pagesize >= Reserved(pool.slab[b[1] \div pagesize].shift)
                                   * 2^(pool.slab[b[1] \div pagesize].shift)
    <2>1. PICK p \in Pgs : Held(pool, b, p)
      BY <1>1
    <2>2. PICK k : Extent(pool, b, p, k, n)
      BY <1>1, <1>2, <2>1, HeldExtent
    <2>3. b[1] \div pagesize = p
      BY <2>2 DEF Extent
    <2>4. PICK c \in pool.slab[p].busy : ChunkBlock(pool, b, p, c)
      BY <1>6, <2>1, <2>3 DEF Held, PageBlock
    <2>5. b[1] % pagesize >= Reserved(pool.slab[p].shift) * 2^(pool.slab[p].shift)
      BY <1>1, <1>2, <2>4, HeldChunk
    <2> QED
      BY <2>3, <2>5
  <1> QED
    BY <1>4, <1>5, <1>6 DEF NoOverlap

\* A block is where it was while its page keeps its descriptor, or, for a
\* chunk, its size and its bit.
LEMMA HeldKept ==
  ASSUME NEW s, NEW t, NEW b, NEW p, Held(s, b, p),
         \/ t.slab[p] = s.slab[p]
         \/ /\ s.slab[p].mark = "cut"
            /\ t.slab[p].mark = "cut" /\ t.slab[p].shift = s.slab[p].shift
            /\ \A c \in s.slab[p].busy : ChunkBlock(s, b, p, c) => c \in t.slab[p].busy
  PROVE  Held(t, b, p)
  BY DEF Held, PageBlock, ChunkBlock

\* The user gets block b on page p.
LEMMA LiveMore ==
  ASSUME NEW s, NEW m \in 0..MaxPages, PoolInv(s, m), NEW l, LiveInv(s, l), NEW t, PoolInv(t, m),
         NEW b \in Nat \X Nat, NEW p \in Pgs, Held(t, b, p),
         \A d \in l : \A q \in Pgs : q # p /\ Held(s, d, q) => Held(t, d, q),
         \A d \in l : Held(s, d, p) => Held(t, d, p) /\ d[1] # b[1]
  PROVE  LiveInv(t, l \cup {b})
  <1>1. ASSUME NEW d \in l PROVE d[1] # b[1] /\ \E q \in Pgs : Held(t, d, q)
    <2>1. PICK q \in Pgs : Held(s, d, q)
      BY <1>1 DEF LiveInv
    <2>2. CASE q = p
      BY <2>1, <2>2
    <2>3. CASE q # p
      <3>1. d \in Nat \X Nat
        BY <1>1 DEF LiveInv
      <3>2. \E k : Extent(s, d, q, k, m)
        BY <2>1, <3>1, HeldExtent
      <3>3. \E k : Extent(t, b, p, k, m)
        BY HeldExtent
      <3>4. d[1] \div pagesize = q /\ b[1] \div pagesize = p
        BY <3>2, <3>3 DEF Extent
      <3>5. d[1] # b[1]
        BY <2>3, <3>4
      <3> QED
        BY <2>1, <2>3, <3>5
    <2> QED
      BY <2>2, <2>3
  <1>2. l \cup {b} \subseteq Nat \X Nat
    BY DEF LiveInv
  <1>3. \A d \in l \cup {b} : \E q \in Pgs : Held(t, d, q)
    BY <1>1
  <1>4. \A d, e \in l \cup {b} : d # e => d[1] # e[1]
    BY <1>1 DEF LiveInv
  <1> QED
    BY <1>2, <1>3, <1>4 DEF LiveInv

\* The user gives block b back.
LEMMA LiveLess ==
  ASSUME NEW s, NEW l, LiveInv(s, l), NEW t, NEW b \in l,
         \A d \in l \ {b} : \A q \in Pgs : Held(s, d, q) => Held(t, d, q)
  PROVE  LiveInv(t, l \ {b})
  BY DEF LiveInv

\* The blocks of a page that keeps its descriptor are still held after the user
\* got or gave back a block of another page.
LEMMA UsedOther ==
  ASSUME NEW s, NEW m \in 0..MaxPages, PoolInv(s, m), NEW l \in SUBSET (Nat \X Nat),
         NEW q \in Pgs, PageUsed(s, l, q), NEW t, t.slab[q] = s.slab[q],
         NEW b, b[1] \div pagesize # q, NEW l2, l \ {b} \subseteq l2
  PROVE  PageUsed(t, l2, q)
  <1>1. ASSUME NEW d \in l, Held(s, d, q) PROVE d \in l2
    <2>1. PICK k : Extent(s, d, q, k, m)
      BY <1>1, HeldExtent
    <2> QED
      BY <2>1 DEF Extent
  <1>2. ASSUME t.slab[q].mark = "start" PROVE \E d \in l2 : PageBlock(t, d, q)
    <2>1. PICK d \in l : PageBlock(s, d, q)
      BY <1>2 DEF PageUsed
    <2>2. d \in l2
      BY <1>1, <2>1 DEF Held
    <2> QED
      BY <2>1, <2>2 DEF PageBlock
  <1>3. ASSUME t.slab[q].mark = "cut", NEW c \in t.slab[q].busy, c >= Reserved(t.slab[q].shift)
        PROVE  \E d \in l2 : ChunkBlock(t, d, q, c)
    <2>1. PICK d \in l : ChunkBlock(s, d, q, c)
      BY <1>3 DEF PageUsed
    <2>2. d \in l2
      BY <1>1, <1>3, <2>1 DEF Held
    <2> QED
      BY <2>1, <2>2 DEF ChunkBlock
  <1>4. t.slab[q].mark = "cut" => \E c \in t.slab[q].busy : c >= Reserved(t.slab[q].shift)
    BY DEF PageUsed
  <1> QED
    BY <1>2, <1>3, <1>4 DEF PageUsed

-----------------------------------------------------------------------------
(* The operations.                                                           *)

\* Rounding up to pages, in the two forms the code and Capacity have.
LEMMA Rounded ==
  ASSUME NEW P \in Nat \ {0}, NEW size \in Nat
  PROVE  (size + P - 1) \div P = size \div P + (IF size % P # 0 THEN 1 ELSE 0)
  <1>1. PICK z : z = size \div P
    OBVIOUS
  <1>2. z \in Int /\ z * P <= size /\ size < z * P + P
    BY <1>1, Quotient
  <1>3. z >= 0
    <2>1. SUFFICES ASSUME z + 1 <= 0 PROVE FALSE
      BY <1>2
    <2>2. (z + 1) * P <= 0 * P /\ (z + 1) * P = z * P + P /\ 0 * P = 0
      BY <1>2, <2>1, Scaled
    <2> QED
      BY <1>2, <2>2
  <1>4. size % P = size - z * P
    BY <1>1
  <1>5. PICK y, r : y = z * P /\ r = size - y
    OBVIOUS
  <1>6. y \in Int /\ r \in Nat /\ r < P /\ size = y + r /\ size % P = r
    BY <1>2, <1>4, <1>5
  <1>7. CASE r = 0
    <2>1. size + P - 1 = z * P + (P - 1) /\ P - 1 \in Nat /\ P - 1 < P
      BY <1>5, <1>6, <1>7
    <2>2. (z * P + (P - 1)) \div P = z
      BY <1>2, <1>3, <2>1, Address
    <2> QED
      BY <1>1, <1>2, <1>6, <1>7, <2>1, <2>2
  <1>8. CASE r # 0
    <2>1. (z + 1) * P = y + P
      BY <1>2, <1>5
    <2>2. size + P - 1 = (z + 1) * P + (r - 1) /\ r - 1 \in Nat /\ r - 1 < P /\ z + 1 \in Nat
      BY <1>2, <1>3, <1>6, <1>8, <2>1
    <2>3. ((z + 1) * P + (r - 1)) \div P = z + 1
      BY <2>2, Address
    <2> QED
      BY <1>1, <1>6, <1>8, <2>2, <2>3
  <1> QED
    BY <1>7, <1>8

\* Whole pages.
LEMMA AllocPagesStep ==
  ASSUME IInv, NEW size \in Nat, AllocPages(size)
  PROVE  PoolInv(pool', n) /\ LiveInv(pool', live') /\ UsedInv(pool', live')
  <1>1. PICK k : k = size \div pagesize + (IF size % pagesize # 0 THEN 1 ELSE 0)
    OBVIOUS
  <1>2. n \in 0..MaxPages /\ PoolInv(pool, n) /\ LiveInv(pool, live) /\ UsedInv(pool, live)
    BY DEF IInv
  <1>3. k \in Nat \ {0} /\ size <= k * pagesize
    <2>1. PICK P : P = pagesize /\ P \in Nat \ {0, 1}
      BY SlabAssumption
    <2>2. PICK z : z = size \div P
      OBVIOUS
    <2>3. z \in Int /\ z * P <= size /\ size < z * P + P
      BY <2>1, <2>2, Quotient
    <2>4. z >= 0
      <3>1. SUFFICES ASSUME z + 1 <= 0 PROVE FALSE
        BY <2>3
      <3>2. (z + 1) * P <= 0 * P /\ (z + 1) * P = z * P + P /\ 0 * P = 0
        BY <2>1, <2>3, <3>1, Scaled
      <3> QED
        BY <2>1, <2>3, <3>2
    <2>5. size % P = size - z * P
      BY <2>1, <2>2
    <2>6. size >= 1
      BY <2>1 DEF AllocPages, ncx_slab_max_size
    <2>7. CASE size % P # 0
      <3>1. k = z + 1 /\ (z + 1) * P = z * P + P
        BY <1>1, <2>1, <2>2, <2>3, <2>7
      <3> QED
        BY <2>1, <2>3, <2>4, <3>1
    <2>8. CASE size % P = 0
      <3>1. k = z /\ size = z * P
        BY <1>1, <2>1, <2>2, <2>3, <2>5, <2>8
      <3>2. z # 0
        BY <2>1, <2>6, <3>1
      <3> QED
        BY <2>1, <2>3, <2>4, <3>1, <3>2
    <2> QED
      BY <2>7, <2>8
  <1>4. CASE \E p \in FirstFit(pool, k) : Give(TakePages(pool, p, k), p * pagesize, size)
    <2>1. PICK p \in FirstFit(pool, k) : Give(TakePages(pool, p, k), p * pagesize, size)
      BY <1>4
    <2>2. /\ p \in Linked(pool) /\ p \in Pgs /\ pool.slab[p].mark # "cut" /\ pool.next[p] # p
          /\ k <= pool.slab[p].count
      BY <1>2, <1>3, FirstFitFree
    <2>3. PICK t : t = TakePages(pool, p, k)
      OBVIOUS
    <2>4. /\ PoolInv(t, n) /\ t.slab[p] = Run("start", k) /\ pool.slab[p].mark = "none"
          /\ \A q \in Pgs : pool.slab[q].mark \in {"start", "cut"} => t.slab[q] = pool.slab[q]
          /\ \A q \in Pgs : q # p /\ t.slab[q].mark \in {"start", "cut"} =>
                               t.slab[q] = pool.slab[q]
      BY <1>2, <1>3, <2>2, <2>3, TakeStep
    <2>5. PICK b : b = <<p * pagesize, size>>
      OBVIOUS
    <2>6. pool' = t /\ live' = live \cup {b}
      BY <2>1, <2>3, <2>5 DEF Give
    <2>7. b \in Nat \X Nat
      BY <2>2, <2>5, SlabAssumption DEF Pgs
    <2>8. PageBlock(t, b, p)
      <3>1. Capacity(b) = k * pagesize
        <4>1. b[2] >= ncx_slab_max_size /\ b[2] = size
          BY <2>5 DEF AllocPages
        <4>2. (size + pagesize - 1) \div pagesize = k
          BY <1>1, Rounded, SlabAssumption
        <4> QED
          BY <4>1, <4>2 DEF Capacity
      <3> QED
        BY <1>3, <2>4, <2>5, <3>1 DEF PageBlock, Run
    <2>9. \A d : \A q \in Pgs : Held(pool, d, q) => q # p /\ Held(t, d, q)
      <3> SUFFICES ASSUME NEW d, NEW q \in Pgs, Held(pool, d, q) PROVE q # p /\ Held(t, d, q)
        OBVIOUS
      <3>1. pool.slab[q].mark \in {"start", "cut"}
        BY DEF Held, PageBlock, ChunkBlock
      <3> QED
        BY <2>4, <3>1, HeldKept
    <2>10. LiveInv(t, live \cup {b})
      BY <1>2, <2>2, <2>4, <2>7, <2>8, <2>9, LiveMore DEF Held
    <2>11. ASSUME NEW q \in Pgs PROVE PageUsed(t, live \cup {b}, q)
      <3>1. CASE q = p
        BY <2>4, <2>8, <3>1 DEF PageUsed, Run
      <3>2. CASE q # p /\ t.slab[q].mark \in {"start", "cut"}
        <4>1. b[1] \div pagesize # q
          <5>1. PICK j : Extent(t, b, p, j, n)
            BY <1>2, <2>2, <2>4, <2>7, <2>8, HeldExtent DEF Held
          <5> QED
            BY <3>2, <5>1 DEF Extent
        <4>2. PageUsed(pool, live, q) /\ live \in SUBSET (Nat \X Nat)
          BY <1>2 DEF UsedInv, LiveInv
        <4>3. t.slab[q] = pool.slab[q] /\ live \ {b} \subseteq live \cup {b}
          BY <2>4, <3>2
        <4> QED
          BY <1>2, <4>1, <4>2, <4>3, UsedOther
      <3>3. CASE t.slab[q].mark \notin {"start", "cut"}
        BY <3>3 DEF PageUsed
      <3> QED
        BY <3>1, <3>2, <3>3
    <2> QED
      BY <2>4, <2>6, <2>10, <2>11 DEF UsedInv
  <1>5. CASE UNCHANGED <<pool, live>>
    BY <1>2, <1>5
  <1> QED
    BY <1>1, <1>4, <1>5 DEF AllocPages

\* A chunk of a page on the list of its slot.
LEMMA AllocChunkStep ==
  ASSUME IInv, NEW size \in Nat, size < ncx_slab_max_size, NEW shift \in Shifts,
         shift = ShiftOf(size), size <= 2^shift, AllocChunk(size, shift)
  PROVE  PoolInv(pool', n) /\ LiveInv(pool', live') /\ UsedInv(pool', live')
  <1>1. PICK list : list = Listed(pool, Slot(shift))
    OBVIOUS
  <1>2. PICK i : i = Min({j \in DOMAIN list : Room(pool, list[j]) # {}})
    OBVIOUS
  <1>3. PICK p : p = list[i]
    OBVIOUS
  <1>4. PICK c : c = Min(Room(pool, p))
    OBVIOUS
  <1>5. n \in 0..MaxPages /\ PoolInv(pool, n) /\ LiveInv(pool, live) /\ UsedInv(pool, live)
    BY DEF IInv
  <1>6. /\ \A j \in DOMAIN list : list[j] \in Linked(pool) /\ Owner(pool)[list[j]] = Slot(shift)
        /\ DOMAIN list \in SUBSET Nat
    <2>1. pool \in PoolType /\ LinkInv(pool, Linked(pool), Owner(pool))
      BY <1>5 DEF PoolInv
    <2>2. Slot(shift) \in Heads /\ \A x \in Heads : Owner(pool)[x] = x
      BY <1>5, Owned, NodesDiffer
    <2> QED
      BY <1>1, <2>1, <2>2, ListedOwned
  <1>7. i \in DOMAIN list /\ Room(pool, p) # {}
    <2> DEFINE J == {j \in DOMAIN list : Room(pool, list[j]) # {}}
    <2>1. J # {} /\ J \in SUBSET Nat
      BY <1>1, <1>6 DEF AllocChunk
    <2>2. i = Min(J)
      BY <1>2
    <2> HIDE DEF J
    <2>3. i \in J
      BY <2>1, <2>2, LowestNumber
    <2> QED
      BY <1>3, <2>3 DEF J
  <1>8. p \in Linked(pool) /\ p \in Pgs /\ Owner(pool)[p] = Slot(shift)
    BY <1>3, <1>6, <1>7 DEF Linked
  <1>9. pool.slab[p].mark = "cut" /\ pool.slab[p].shift = shift
    <2>1. pool.slab[p].mark = "cut" /\ HeadOf(pool.slab[p]) = Slot(shift)
      BY <1>5, <1>8, Owned, NodesDiffer
    <2>2. pool.slab[p].shift \in Shifts
      BY <1>5, <1>8, <2>1 DEF PoolInv, PageInv
    <2>3. PICK x \in Shifts : x = pool.slab[p].shift
      BY <2>2
    <2>4. Slot(x) = Slot(shift)
      BY <2>1, <2>3 DEF HeadOf
    <2>5. x = shift
      BY <2>4, SlabAssumption DEF Slot, Shifts
    <2> QED
      BY <2>1, <2>3, <2>5
  <1>10. c \in Room(pool, p)
    <2>1. Room(pool, p) \in SUBSET Nat
      BY <1>9, SlabAssumption DEF Room
    <2> QED
      BY <1>4, <1>7, <2>1, LowestNumber
  <1>11. /\ c \in 0..(Chunks(shift) - 1) /\ c \notin pool.slab[p].busy /\ c >= Reserved(shift)
         /\ c \in Nat
    <2>1. c \in 0..(Chunks(shift) - 1) /\ c \notin pool.slab[p].busy
      BY <1>9, <1>10 DEF Room
    <2>2. 0..(Reserved(shift) - 1) \subseteq pool.slab[p].busy
      BY <1>5, <1>8, <1>9 DEF PoolInv, PageInv
    <2>3. Reserved(shift) \in Nat /\ Chunks(shift) \in Nat
      BY SlabAssumption
    <2> QED
      BY <2>1, <2>2, <2>3
  <1>12. PICK b : b = <<p * pagesize + c * 2^shift, size>>
    OBVIOUS
  <1>13. PICK u : /\ ChunkTaken(pool, u, p, c)
                  /\ pool' = u /\ live' = live \cup {b}
    BY <1>1, <1>2, <1>3, <1>4, <1>9, <1>12 DEF AllocChunk, Give, ChunkTaken
  <1>14. PoolInv(u, n) /\ Remarked(pool, u, p, pool.slab[p].busy \cup {c})
    BY <1>5, <1>8, <1>9, <1>10, <1>13, MarkStep
  <1>15. /\ u.slab[p].mark = "cut" /\ u.slab[p].shift = shift
         /\ u.slab[p].busy = pool.slab[p].busy \cup {c}
         /\ \A q \in Pgs : q # p => u.slab[q] = pool.slab[q]
    BY <1>9, <1>14 DEF Remarked
  <1>16. 2^shift \in Nat \ {0} /\ c * 2^shift \in Nat
    BY <1>11, ChunkPlace
  <1>17. b \in Nat \X Nat
    <2>1. p * pagesize \in Nat
      BY <1>8, SlabAssumption DEF Pgs
    <2> QED
      BY <1>12, <1>16, <2>1
  <1>18. Capacity(b) = 2^shift
    <2>1. ncx_slab_max_size \in Int
      BY SlabAssumption DEF ncx_slab_max_size
    <2>2. b[2] = size /\ ~(size >= ncx_slab_max_size)
      BY <1>12, <2>1
    <2> QED
      BY <2>2 DEF Capacity
  <1>19. c \in u.slab[p].busy /\ ChunkBlock(u, b, p, c)
    BY <1>11, <1>12, <1>15, <1>18 DEF ChunkBlock
  <1>20. \A d \in live : \A q \in Pgs : Held(pool, d, q) => Held(u, d, q)
    <2> TAKE d \in live
    <2> TAKE q \in Pgs
    <2> HAVE Held(pool, d, q)
    <2> QED
      BY <1>9, <1>15, HeldKept
  <1>21. \A d \in live : Held(pool, d, p) => d[1] # b[1]
    <2> TAKE d \in live
    <2> HAVE Held(pool, d, p)
    <2>1. PICK e \in pool.slab[p].busy : ChunkBlock(pool, d, p, e)
      BY <1>9 DEF Held, PageBlock
    <2>2. d \in Nat \X Nat
      BY <1>5 DEF LiveInv
    <2>3. (d[1] % pagesize) \div 2^shift = e
      BY <1>5, <1>8, <1>9, <2>1, <2>2, HeldChunk
    <2>4. ChunkBlock(u, b, p, c) /\ c \in u.slab[p].busy
      BY <1>19
    <2>5. (b[1] % pagesize) \div 2^shift = c
      BY <1>5, <1>8, <1>14, <1>15, <1>17, <2>4, HeldChunk
    <2> QED
      BY <1>11, <2>3, <2>5
  <1>22. LiveInv(u, live \cup {b})
    <2>1. Held(u, b, p)
      BY <1>19 DEF Held
    <2> QED
      BY <1>5, <1>8, <1>14, <1>17, <1>20, <1>21, <2>1, LiveMore
  <1>23. ASSUME NEW q \in Pgs PROVE PageUsed(u, live \cup {b}, q)
    <2>1. PageUsed(pool, live, q) /\ live \in SUBSET (Nat \X Nat)
      BY <1>5 DEF UsedInv, LiveInv
    <2>2. CASE q = p
      <3>1. ASSUME NEW e \in u.slab[p].busy, e >= Reserved(shift)
            PROVE  \E d \in live \cup {b} : ChunkBlock(u, d, p, e)
        <4>1. CASE e = c
          BY <1>19, <4>1
        <4>2. CASE e # c
          <5>1. PICK d \in live : ChunkBlock(pool, d, p, e)
            BY <1>9, <1>15, <2>1, <2>2, <3>1, <4>2 DEF PageUsed
          <5>2. ChunkBlock(u, d, p, e)
            BY <1>9, <1>15, <5>1 DEF ChunkBlock
          <5> QED
            BY <5>2
        <4> QED
          BY <4>1, <4>2
      <3> QED
        BY <1>11, <1>15, <1>19, <2>2, <3>1 DEF PageUsed
    <2>3. CASE q # p
      <3>1. b[1] \div pagesize # q
        <4>1. PICK j : Extent(u, b, p, j, n)
          BY <1>5, <1>8, <1>14, <1>17, <1>19, HeldExtent DEF Held
        <4> QED
          BY <2>3, <4>1 DEF Extent
      <3>2. u.slab[q] = pool.slab[q] /\ live \ {b} \subseteq live \cup {b}
        BY <1>15, <2>3
      <3> QED
        BY <1>5, <2>1, <3>1, <3>2, UsedOther
    <2> QED
      BY <2>2, <2>3
  <1> QED
    BY <1>13, <1>14, <1>22, <1>23 DEF UsedInv

\* The first chunk of a page that is newly cut.
LEMMA AllocNewStep ==
  ASSUME IInv, NEW size \in Nat, size < ncx_slab_max_size, NEW shift \in Shifts,
         shift = ShiftOf(size), size <= 2^shift, AllocNew(size, shift)
  PROVE  PoolInv(pool', n) /\ LiveInv(pool', live') /\ UsedInv(pool', live')
  <1>1. n \in 0..MaxPages /\ PoolInv(pool, n) /\ LiveInv(pool, live) /\ UsedInv(pool, live)
    BY DEF IInv
  <1>2. PICK R, S : R = Reserved(shift) /\ S = 2^shift
    OBVIOUS
  <1>3. CASE \E p \in FirstFit(pool, 1) :
                LET s == TakePages(pool, p, 1)
                IN  Give([s EXCEPT !.slab[p] = Cut(shift, FirstBusy(shift)),
                                   !.next[p] = Slot(shift), !.next[Slot(shift)] = p,
                                   !.prev[p] = <<Slot(shift), TypeOf(shift)>>],
                         p * pagesize + Reserved(shift) * 2^shift, size)
    <2>1. PICK p \in FirstFit(pool, 1) : \E u : /\ NewlyCut(TakePages(pool, p, 1), u, p, shift)
                                                /\ Give(u, p * pagesize + R * S, size)
      BY <1>2, <1>3 DEF NewlyCut
    <2>2. PICK u : /\ NewlyCut(TakePages(pool, p, 1), u, p, shift)
                   /\ Give(u, p * pagesize + R * S, size)
      BY <2>1
    <2>3. PICK t : t = TakePages(pool, p, 1)
      OBVIOUS
    <2>4. /\ p \in Linked(pool) /\ p \in Pgs /\ pool.slab[p].mark # "cut" /\ pool.next[p] # p
          /\ 1 <= pool.slab[p].count
      BY <1>1, FirstFitFree
    <2>5. /\ PoolInv(t, n) /\ t.slab[p] = Run("start", 1) /\ pool.slab[p].mark = "none"
          /\ p + 1 <= n
          /\ \A q \in Pgs : pool.slab[q].mark \in {"start", "cut"} => t.slab[q] = pool.slab[q]
          /\ \A q \in Pgs : q # p /\ t.slab[q].mark \in {"start", "cut"} =>
                               t.slab[q] = pool.slab[q]
          /\ \A h \in Heads : h # Free => t.next[h] = pool.next[h]
      BY <1>1, <2>3, <2>4, TakeStep
    <2>6. t.next[Slot(shift)] = Slot(shift)
      <3>1. pool \in PoolType /\ LinkInv(pool, Linked(pool), Owner(pool))
        BY <1>1 DEF PoolInv
      <3>2. /\ Slot(shift) \in Heads /\ Slot(shift) # Free
            /\ \A x \in Heads : Owner(pool)[x] = x
        BY <1>1, Owned, NodesDiffer
      <3>3. Listed(pool, Slot(shift)) = <<>>
        BY DEF AllocNew
      <3>4. pool.next[Slot(shift)] = Slot(shift)
        BY <3>1, <3>2, <3>3, ListedOwned
      <3> QED
        BY <2>5, <3>2, <3>4
    <2>7. p < n
      BY <1>1, <2>4, <2>5, SlabAssumption DEF Pgs
    <2>8. /\ PoolInv(u, n) /\ u.slab[p] = Cut(shift, FirstBusy(shift))
          /\ \A q \in Pgs : q # p => u.slab[q] = t.slab[q]
      BY <1>1, <2>2, <2>3, <2>4, <2>5, <2>6, <2>7, CutStep
    <2>9. PICK b : b = <<p * pagesize + R * S, size>>
      OBVIOUS
    <2>10. pool' = u /\ live' = live \cup {b}
      BY <2>2, <2>9 DEF Give
    <2>11. b \in Nat \X Nat
      <3>1. p * pagesize \in Nat /\ R \in Nat /\ S \in Nat
        BY <1>2, <2>4, SlabAssumption DEF Pgs
      <3> QED
        BY <2>9, <3>1
    <2>12. /\ R \in u.slab[p].busy /\ ChunkBlock(u, b, p, R)
           /\ u.slab[p].mark = "cut" /\ u.slab[p].shift = shift /\ u.slab[p].busy = 0..R
           /\ R \in Nat
      <3>1. /\ u.slab[p].mark = "cut" /\ u.slab[p].shift = shift
            /\ u.slab[p].busy = 0..R /\ R \in Nat
        BY <1>2, <2>8, SlabAssumption DEF Cut, FirstBusy
      <3>2. R \in u.slab[p].busy /\ ChunkBlock(u, b, p, R)
        <4>1. ncx_slab_max_size \in Int
          BY SlabAssumption DEF ncx_slab_max_size
        <4>2. b[2] = size /\ ~(size >= ncx_slab_max_size)
          BY <2>9, <4>1
        <4>3. Capacity(b) = 2^shift
          BY <4>2 DEF Capacity
        <4> QED
          BY <1>2, <2>9, <3>1, <4>3 DEF ChunkBlock
      <3> QED
        BY <3>1, <3>2
    <2>13. \A d : \A q \in Pgs : Held(pool, d, q) => q # p /\ Held(u, d, q)
      <3> SUFFICES ASSUME NEW d, NEW q \in Pgs, Held(pool, d, q) PROVE q # p /\ Held(u, d, q)
        OBVIOUS
      <3>1. pool.slab[q].mark \in {"start", "cut"}
        BY DEF Held, PageBlock, ChunkBlock
      <3>2. q # p /\ u.slab[q] = pool.slab[q]
        BY <2>5, <2>8, <3>1
      <3> QED
        BY <3>2, HeldKept
    <2>14. LiveInv(u, live \cup {b})
      BY <1>1, <2>4, <2>8, <2>11, <2>12, <2>13, LiveMore DEF Held
    <2>15. ASSUME NEW q \in Pgs PROVE PageUsed(u, live \cup {b}, q)
      <3>1. PageUsed(pool, live, q) /\ live \in SUBSET (Nat \X Nat)
        BY <1>1 DEF UsedInv, LiveInv
      <3>2. CASE q = p
        <4>1. \A e \in u.slab[p].busy : e >= Reserved(shift) => e = R
          BY <1>2, <2>12
        <4>2. R >= Reserved(shift)
          BY <1>2, <2>12
        <4> QED
          BY <2>12, <3>2, <4>1, <4>2 DEF PageUsed
      <3>3. CASE q # p /\ u.slab[q].mark \in {"start", "cut"}
        <4>1. b[1] \div pagesize # q
          <5>1. PICK j : Extent(u, b, p, j, n)
            BY <1>1, <2>4, <2>8, <2>11, <2>12, HeldExtent DEF Held
          <5> QED
            BY <3>3, <5>1 DEF Extent
        <4>2. u.slab[q] = pool.slab[q] /\ live \ {b} \subseteq live \cup {b}
          BY <2>5, <2>8, <3>3
        <4> QED
          BY <1>1, <3>1, <4>1, <4>2, UsedOther
      <3>4. CASE u.slab[q].mark \notin {"start", "cut"}
        BY <3>4 DEF PageUsed
      <3> QED
        BY <3>2, <3>3, <3>4
    <2> QED
      BY <2>8, <2>10, <2>14, <2>15 DEF UsedInv
  <1>4. CASE UNCHANGED <<pool, live>>
    BY <1>1, <1>4
  <1> QED
    BY <1>3, <1>4 DEF AllocNew

\* Giving a run of pages back.
LEMMA FreePagesStep ==
  ASSUME IInv, NEW b \in live, NEW p \in Pgs, PageBlock(pool, b, p), b[1] \div pagesize = p
  PROVE  LET v == Freed(pool, b[1])
         IN  /\ PoolInv(v, n) /\ LiveInv(v, live \ {b}) /\ UsedInv(v, live \ {b})
             /\ v.slab[p] = Run("none", pool.slab[p].count)
  <1>1. n \in 0..MaxPages /\ PoolInv(pool, n) /\ LiveInv(pool, live) /\ UsedInv(pool, live)
    BY DEF IInv
  <1>2. PICK k : k = pool.slab[p].count
    OBVIOUS
  <1>3. pool.slab[p].mark = "start" /\ k \in Nat \ {0} /\ pool.prev[p][2] = "page"
    <2>1. pool.slab[p].mark = "start" /\ PageInv(pool, n, p) /\ pool.slab[p] \in Desc
      BY <1>1 DEF PageBlock, PoolInv, PoolType
    <2> QED
      BY <1>2, <2>1 DEF PageInv, KindOf, Desc
  <1>4. PICK v : v = Freed(pool, b[1])
    OBVIOUS
  <1>5. v = ncx_slab_free_pages(pool, p, k)
    <2>1. b[1] % pagesize = 0
      <3>1. PICK P : P = pagesize /\ P \in Nat \ {0} /\ p \in Nat
        BY SlabAssumption DEF Pgs
      <3>2. b[1] = p * P + 0
        BY <3>1 DEF PageBlock
      <3>3. (p * P + 0) % P = 0
        BY <3>1, Address
      <3> QED
        BY <3>1, <3>2, <3>3
    <2>2. pool.slab[p] # Run("none", 0) /\ pool.slab[p].mark # "busy"
      BY <1>3 DEF Run
    <2> QED
      BY <1>2, <1>3, <1>4, <2>1, <2>2 DEF Freed, FreePages
  <1>6. PoolInv(v, n) /\ LiveInv(v, live \ {b}) /\ v.slab[p] = Run("none", k)
    <2>1. /\ PoolInv(v, n)
          /\ \A q \in Pgs : q # p /\ pool.slab[q].mark \in {"start", "cut"} =>
                              v.slab[q] = pool.slab[q]
          /\ v.slab = [q \in Pgs |-> IF q = p THEN Run("none", k)
                          ELSE IF q \in Cleared(p, k) THEN Run("none", 0) ELSE pool.slab[q]]
      BY <1>1, <1>2, <1>3, <1>5, FreeStep
    <2>2. ASSUME NEW d \in live \ {b}, NEW q \in Pgs, Held(pool, d, q) PROVE Held(v, d, q)
      <3>1. q # p
        <4>1. SUFFICES ASSUME q = p PROVE FALSE
          OBVIOUS
        <4>2. d[1] = b[1]
          BY <1>3, <2>2, <4>1 DEF Held, PageBlock, ChunkBlock
        <4> QED
          BY <1>1, <4>2 DEF LiveInv
      <3>2. pool.slab[q].mark \in {"start", "cut"}
        BY <2>2 DEF Held, PageBlock, ChunkBlock
      <3> QED
        BY <2>1, <2>2, <3>1, <3>2, HeldKept
    <2>3. LiveInv(v, live \ {b})
      BY <1>1, <2>2, LiveLess
    <2> QED
      BY <2>1, <2>3
  <1>7. ASSUME NEW q \in Pgs PROVE PageUsed(v, live \ {b}, q)
    <2>1. v.slab = [x \in Pgs |-> IF x = p THEN Run("none", k)
                       ELSE IF x \in Cleared(p, k) THEN Run("none", 0) ELSE pool.slab[x]]
      BY <1>1, <1>2, <1>3, <1>5, FreeStep
    <2>2. CASE v.slab[q].mark \in {"start", "cut"}
      <3>1. q # p /\ v.slab[q] = pool.slab[q]
        BY <2>1, <2>2 DEF Run
      <3>2. PageUsed(pool, live, q) /\ live \in SUBSET (Nat \X Nat)
        BY <1>1 DEF UsedInv, LiveInv
      <3> QED
        BY <1>1, <3>1, <3>2, UsedOther
    <2>3. CASE v.slab[q].mark \notin {"start", "cut"}
      BY <2>3 DEF PageUsed
    <2> QED
      BY <2>2, <2>3
  <1> QED
    BY <1>2, <1>4, <1>6, <1>7 DEF UsedInv

\* Giving a chunk back.
LEMMA FreeChunkStep ==
  ASSUME IInv, NEW b \in live, NEW p \in Pgs, NEW c \in pool.slab[p].busy,
         ChunkBlock(pool, b, p, c), b[1] \div pagesize = p
  PROVE  LET v == Freed(pool, b[1])
         IN  /\ PoolInv(v, n) /\ LiveInv(v, live \ {b}) /\ UsedInv(v, live \ {b})
             /\ \/ /\ v.slab[p].mark = "cut" /\ c \notin v.slab[p].busy
                   /\ v.slab[p].shift = pool.slab[p].shift
                \/ v.slab[p] = Run("none", 1)
  <1>1. /\ n \in 0..MaxPages /\ PoolInv(pool, n) /\ LiveInv(pool, live)
        /\ UsedInv(pool, live) /\ live \subseteq Nat \X Nat
    BY DEF IInv, LiveInv
  <1>2. PICK shift : shift = pool.slab[p].shift
    OBVIOUS
  <1>3. /\ shift \in Shifts /\ c \in 0..(Chunks(shift) - 1) /\ c >= Reserved(shift)
        /\ (b[1] % pagesize) \div 2^shift = c
    BY <1>1, <1>2, HeldChunk
  <1>4. pool.slab[p].mark = "cut"
    BY DEF ChunkBlock
  <1>5. pool.prev[p][2] = TypeOf(shift)
    BY <1>1, <1>2, <1>4 DEF PoolInv, PageInv, KindOf
  <1>6. pool.prev[p][2] # "page" /\ (pool.prev[p][2] = "exact" => exact_shift = shift)
    BY <1>5 DEF TypeOf
  <1>7. PICK t : t = [Relinked(pool, p, shift) EXCEPT !.slab[p].busy = @ \ {c}]
    OBVIOUS
  <1>8. PICK v : v = Freed(pool, b[1])
    OBVIOUS
  <1>9. \/ v = t /\ ~Empty(shift, t.slab[p].busy)
        \/ v = ncx_slab_free_pages(t, p, 1) /\ Empty(shift, t.slab[p].busy)
    <2>1. v = FreeChunk(pool, b[1])
      BY <1>6, <1>8 DEF Freed
    <2>2. shift = IF pool.prev[p][2] = "exact" THEN exact_shift ELSE pool.slab[p].shift
      BY <1>2, <1>6
    <2>3. b[1] % 2^shift = 0
      <3>1. PICK S, k : S = 2^shift /\ k = Chunks(shift)
        OBVIOUS
      <3>2. S \in Nat \ {0} /\ k \in Nat /\ k * S = pagesize /\ p \in Nat /\ c \in Nat
        BY <1>3, <3>1, SlabAssumption DEF Pgs
      <3>3. b[1] = p * (k * S) + c * S
        BY <1>2, <3>1, <3>2 DEF ChunkBlock
      <3>4. p * (k * S) + c * S = (p * k + c) * S + 0 /\ p * k + c \in Nat
        BY <3>2
      <3>5. PICK z \in Nat : z = p * k + c
        BY <3>4
      <3>6. (z * S + 0) % S = 0
        BY <3>2, Address
      <3> QED
        BY <3>1, <3>3, <3>4, <3>5, <3>6
    <2> QED
      BY <1>3, <1>7, <2>1, <2>2, <2>3 DEF FreeChunk
  <1>10. PoolInv(t, n) /\ Remarked(pool, t, p, pool.slab[p].busy \ {c})
    BY <1>1, <1>2, <1>3, <1>4, <1>7, ClearStep
  <1>11. /\ t.slab[p].mark = "cut" /\ t.slab[p].shift = shift
         /\ t.slab[p].busy = pool.slab[p].busy \ {c}
         /\ \A q \in Pgs : q # p => t.slab[q] = pool.slab[q]
    BY <1>2, <1>4, <1>10 DEF Remarked
  <1>12. ASSUME NEW d \in live \ {b}, NEW q \in Pgs, Held(pool, d, q) PROVE Held(t, d, q)
    <2>1. CASE q # p
      BY <1>11, <1>12, <2>1, HeldKept
    <2>2. CASE q = p
      <3>1. ASSUME NEW e \in pool.slab[p].busy, ChunkBlock(pool, d, p, e) PROVE e # c
        <4>1. d[1] # b[1]
          BY <1>1, <1>12 DEF LiveInv
        <4> QED
          BY <3>1, <4>1 DEF ChunkBlock
      <3> QED
        BY <1>2, <1>4, <1>11, <1>12, <2>2, <3>1, HeldKept
    <2> QED
      BY <2>1, <2>2
  <1>13. \A q \in Pgs : PageUsed(pool, live, q) /\ live \in SUBSET (Nat \X Nat)
    BY <1>1 DEF UsedInv
  <1>14. CASE v = t /\ ~Empty(shift, t.slab[p].busy)
    <2>1. LiveInv(t, live \ {b})
      BY <1>1, <1>12, LiveLess
    <2>2. ASSUME NEW q \in Pgs PROVE PageUsed(t, live \ {b}, q)
      <3>1. CASE q = p
        <4>1. \E e \in t.slab[p].busy : e >= Reserved(shift)
          <5>1. PICK e \in t.slab[p].busy : e \notin 0..(Reserved(shift) - 1)
            BY <1>14 DEF Empty
          <5>2. Reserved(shift) \in Nat /\ e \in Nat
            <6>1. t.slab[p] \in Desc
              BY <1>10 DEF PoolInv, PoolType
            <6> QED
              BY <1>3, <6>1, SlabAssumption DEF Desc
          <5> QED
            BY <5>1, <5>2
        <4>2. ASSUME NEW e \in t.slab[p].busy, e >= Reserved(shift)
              PROVE  \E d \in live \ {b} : ChunkBlock(t, d, p, e)
          <5>1. e \in pool.slab[p].busy /\ e # c
            BY <1>11
          <5>2. PICK d \in live : ChunkBlock(pool, d, p, e)
            BY <1>2, <1>4, <1>13, <4>2, <5>1 DEF PageUsed
          <5>3. (d[1] % pagesize) \div 2^shift = e
            BY <1>1, <1>2, <5>1, <5>2, HeldChunk
          <5>4. d # b
            BY <1>3, <5>1, <5>3
          <5>5. ChunkBlock(t, d, p, e)
            BY <1>2, <1>11, <5>2 DEF ChunkBlock
          <5> QED
            BY <5>4, <5>5
        <4> QED
          BY <1>11, <3>1, <4>1, <4>2 DEF PageUsed
      <3>2. CASE q # p
        <4>1. t.slab[q] = pool.slab[q]
          BY <1>11, <3>2
        <4> QED
          BY <1>1, <1>13, <3>2, <4>1, UsedOther
      <3> QED
        BY <3>1, <3>2
    <2> QED
      BY <1>2, <1>8, <1>10, <1>11, <1>14, <2>1, <2>2 DEF UsedInv
  <1>15. CASE v = ncx_slab_free_pages(t, p, 1) /\ Empty(shift, t.slab[p].busy)
    <2>1. /\ PoolInv(v, n)
          /\ \A q \in Pgs : q # p /\ t.slab[q].mark \in {"start", "cut"} => v.slab[q] = t.slab[q]
          /\ v.slab = [q \in Pgs |-> IF q = p THEN Run("none", 1)
                          ELSE IF q \in Cleared(p, 1) THEN Run("none", 0) ELSE t.slab[q]]
      BY <1>1, <1>10, <1>11, <1>15, FreeStep
    <2>2. ASSUME NEW d \in live \ {b}, NEW q \in Pgs, Held(pool, d, q) PROVE Held(v, d, q)
      <3>1. Held(t, d, q)
        BY <1>12, <2>2
      <3>2. q # p
        <4>1. SUFFICES ASSUME q = p PROVE FALSE
          OBVIOUS
        <4>2. PICK e \in t.slab[p].busy : e >= Reserved(shift)
          BY <1>11, <3>1, <4>1 DEF Held, PageBlock, ChunkBlock
        <4>3. e \in 0..(Reserved(shift) - 1) /\ Reserved(shift) \in Nat
          BY <1>3, <1>15, SlabAssumption DEF Empty
        <4> QED
          BY <4>2, <4>3
      <3>3. t.slab[q].mark \in {"start", "cut"}
        BY <3>1 DEF Held, PageBlock, ChunkBlock
      <3> QED
        BY <2>1, <3>1, <3>2, <3>3, HeldKept
    <2>3. LiveInv(v, live \ {b})
      BY <1>1, <2>2, LiveLess
    <2>4. ASSUME NEW q \in Pgs PROVE PageUsed(v, live \ {b}, q)
      <3>1. CASE v.slab[q].mark \in {"start", "cut"}
        <4>1. q # p /\ v.slab[q] = pool.slab[q]
          BY <1>11, <2>1, <3>1 DEF Run
        <4> QED
          BY <1>1, <1>13, <4>1, UsedOther
      <3>2. CASE v.slab[q].mark \notin {"start", "cut"}
        BY <3>2 DEF PageUsed
      <3> QED
        BY <3>1, <3>2
    <2>5. v.slab[p] = Run("none", 1)
      BY <2>1
    <2> QED
      BY <1>8, <2>1, <2>3, <2>4, <2>5 DEF UsedInv
  <1> QED
    BY <1>9, <1>14, <1>15

\* The invariant holds at the start.
LEMMA InvInit == Init => IInv
  <1> SUFFICES ASSUME Init PROVE IInv
    OBVIOUS
  <1>1. MaxPages \in Nat
    BY SlabAssumption
  <1>2. PoolInv(Blank(0), 0)
    BY <1>1, BlankPool
  <1>3. PoolInv(pool, n) /\ n = 0 /\ live = {}
    BY <1>2 DEF Init
  <1>4. LiveInv(pool, live) /\ UsedInv(pool, live)
    <2>1. \A p \in Pgs : pool.slab[p].mark = "none"
      BY DEF Init, Blank, Pgs, Run
    <2> QED
      BY <1>3, <2>1 DEF LiveInv, UsedInv, PageUsed
  <1>5. AreaInv
    BY DEF Init, AreaInv
  <1> QED
    BY <1>1, <1>3, <1>4, <1>5 DEF IInv

\* Every operation keeps the invariant.
LEMMA InvNext == IInv /\ [Next]_vars => IInv'
  <1> SUFFICES ASSUME IInv, [Next]_vars PROVE IInv'
    OBVIOUS
  <1>1. /\ AreaInv /\ n \in 0..MaxPages /\ (Waiting => n = 0 /\ live = {})
        /\ PoolInv(pool, n) /\ LiveInv(pool, live) /\ UsedInv(pool, live)
    BY DEF IInv
  <1>2. CASE UNCHANGED vars
    BY <1>2 DEF vars, IInv, AreaInv, Waiting
  <1>3. CASE ncx_slab_init
    <2>1. PICK a : a = area /\ a \in [base : 0..(pagesize-1), size : 0..MaxArea]
      BY <1>1, <1>3 DEF AreaInv, ncx_slab_init
    <2>2. Pages(a) \in 0..MaxPages
      <3>1. PICK k, P, S, E : k = Pages(a) /\ P = pagesize /\ S = Start(a) /\ E = End(a)
        OBVIOUS
      <3>2. P \in Nat \ {0} /\ MaxPages \in Nat /\ k <= MaxPages
        BY <1>1, <1>3, <2>1, <3>1, SlabAssumption DEF AreaInv, ncx_slab_init
      <3>3. CASE ~(S <= E)
        BY <2>1, <3>1, <3>2, <3>3, PagesOutside
      <3>4. CASE S <= E
        <4>1. S \in Int /\ E \in Int /\ k \in Int /\ E < S + (k + 1) * P
          BY <2>1, <3>1, <3>4, PagesFit
        <4>2. SUFFICES ASSUME k + 1 <= 0 PROVE FALSE
          BY <3>1, <3>2, <4>1
        <4>3. (k + 1) * P <= 0 * P /\ 0 * P = 0 /\ (k + 1) * P \in Int
          BY <3>2, <4>1, <4>2, Scaled
        <4> QED
          BY <3>2, <3>4, <4>1, <4>3
      <3> QED
        BY <3>3, <3>4
    <2>3. /\ n' = Pages(a) /\ pool' = Blank(Pages(a)) /\ area' \in {<<>>, Outside}
          /\ live' = {}
      BY <1>1, <1>3, <2>1 DEF ncx_slab_init
    <2>4. PoolInv(pool', n')
      BY <2>2, <2>3, BlankPool
    <2>5. LiveInv(pool', live') /\ UsedInv(pool', live')
      <3>1. \A p \in Pgs : Blank(Pages(a)).slab[p].mark = "none"
        BY DEF Blank, Pgs, Run
      <3> QED
        BY <2>3, <3>1 DEF LiveInv, UsedInv, PageUsed
    <2> QED
      BY <2>2, <2>3, <2>4, <2>5 DEF IInv, AreaInv, Waiting
  <1>4. ASSUME PoolInv(pool', n), LiveInv(pool', live'), UsedInv(pool', live'), area = <<>>,
               UNCHANGED <<area, n>>
        PROVE  IInv'
    BY <1>1, <1>4 DEF IInv, AreaInv, Waiting
  <1>5. ASSUME NEW size \in Sizes[n], ncx_slab_alloc(size) PROVE IInv'
    <2>1. size \in Nat /\ area = <<>> /\ UNCHANGED <<area, n>>
      BY <1>1, <1>5, SlabAssumption DEF ncx_slab_alloc
    <2>2. CASE AllocPages(size)
      BY <1>4, <2>1, <2>2, AllocPagesStep
    <2>3. CASE size < ncx_slab_max_size
               /\ (AllocChunk(size, ShiftOf(size)) \/ AllocNew(size, ShiftOf(size)))
      <3>1. PICK shift : shift = ShiftOf(size)
        OBVIOUS
      <3>2. shift \in Shifts /\ size <= 2^shift
        <4>1. ncx_slab_max_size \in Int
          BY SlabAssumption DEF ncx_slab_max_size
        <4>2. size \in 0..(ncx_slab_max_size - 1)
          BY <2>1, <2>3, <4>1
        <4> QED
          BY <3>1, <4>2, SlabAssumption
      <3>3. AllocChunk(size, shift) \/ AllocNew(size, shift)
        BY <2>3, <3>1
      <3>4. PoolInv(pool', n) /\ LiveInv(pool', live') /\ UsedInv(pool', live')
        BY <2>1, <2>3, <3>1, <3>2, <3>3, AllocChunkStep, AllocNewStep
      <3> QED
        BY <1>4, <2>1, <3>4
    <2> QED
      BY <1>5, <2>2, <2>3 DEF ncx_slab_alloc
  <1>6. ASSUME NEW b \in live, ncx_slab_free(b) PROVE IInv'
    <2>1. area = <<>> /\ UNCHANGED <<area, n>> /\ pool' = Freed(pool, b[1]) /\ live' = live \ {b}
      BY <1>6 DEF ncx_slab_free
    <2>2. PICK p \in Pgs : Held(pool, b, p)
      BY <1>1 DEF LiveInv
    <2>3. b \in Nat \X Nat
      BY <1>1 DEF LiveInv
    <2>4. PICK k : Extent(pool, b, p, k, n)
      BY <1>1, <2>2, <2>3, HeldExtent
    <2>5. b[1] \div pagesize = p
      BY <2>4 DEF Extent
    <2>6. /\ PoolInv(Freed(pool, b[1]), n) /\ LiveInv(Freed(pool, b[1]), live \ {b})
          /\ UsedInv(Freed(pool, b[1]), live \ {b})
      BY <2>2, <2>5, FreePagesStep, FreeChunkStep DEF Held
    <2> QED
      BY <1>4, <2>1, <2>6
  <1> QED
    BY <1>2, <1>3, <1>5, <1>6 DEF Next

\* The blocks that ncx_slab_alloc has returned and that were not freed lie in
\* the pool, do not overlap, and stay clear of the bitmaps: whatever the
\* geometry, the sizes and the order of the calls.
THEOREM BlocksApart == Spec => []NoOverlap
  BY InvInit, InvNext, InvNoOverlap, PTL DEF Spec

-----------------------------------------------------------------------------
(* The lists hold what the descriptors say.                                  *)

\* The list of a head holds the linked pages that the head owns.
LEMMA ListExact ==
  ASSUME NEW s, NEW m, PoolInv(s, m), NEW h \in Heads
  PROVE  ToSet(Listed(s, h)) = {x \in Linked(s) : Owner(s)[x] = h}
  <1>1. /\ s \in PoolType /\ LinkInv(s, Linked(s), Owner(s)) /\ Sorted(s.next, Linked(s))
        /\ \A x \in Heads : Owner(s)[x] = x
    BY Owned DEF PoolInv
  <1>2. PICK f, stop : ListWalk(s, h, f, stop)
    BY <1>1, ListedWalk
  <1>3. Listed(s, h) = [k \in 1..(stop - 1) |-> f[k]]
    BY <1>2 DEF ListWalk
  <1>4. \A i \in DOMAIN Listed(s, h) : /\ Listed(s, h)[i] \in Linked(s)
                                       /\ Owner(s)[Listed(s, h)[i]] = h
    BY <1>1, ListedOwned
  <1>5. ASSUME NEW x \in Linked(s), Owner(s)[x] = h PROVE \E k \in 1..(stop - 1) : f[k] = x
    BY <1>1, <1>2, <1>5, WalkComplete
  <1> HIDE DEF Listed
  <1> QED
    BY <1>3, <1>4, <1>5 DEF ToSet

\* Every list of the pool is a ring.
LEMMA ListRing ==
  ASSUME NEW m, PoolInv(pool, m), NEW h \in Heads
  PROVE  Ring(h)
  <1>1. /\ pool \in PoolType /\ LinkInv(pool, Linked(pool), Owner(pool))
        /\ Sorted(pool.next, Linked(pool)) /\ \A x \in Heads : Owner(pool)[x] = x
        /\ MaxPages \in Nat \ {0} /\ MaxPages + 1 \in Nat
    BY Owned, SlabAssumption DEF PoolInv
  <1>2. PICK f, stop : ListWalk(pool, h, f, stop)
    BY <1>1, ListedWalk
  <1>3. /\ Walk(pool.next, h, MaxPages + 1, f) /\ Listed(pool, h) = [k \in 1..(stop - 1) |-> f[k]]
        /\ stop \in 1..(MaxPages + 1) /\ f[stop] = h /\ f[0] = h
        /\ \A k \in 1..(stop - 1) : f[k] # h
    <2>1. f[stop] = h
      BY <1>1, <1>2, WalkReturns
    <2>2. /\ Walk(pool.next, h, MaxPages + 1, f)
          /\ Listed(pool, h) = [k \in 1..(stop - 1) |-> f[k]]
          /\ stop \in 1..(MaxPages + 1) /\ \A k \in 1..(stop - 1) : f[k] # h
      BY <1>2 DEF ListWalk
    <2>3. f[0] = h
      BY <2>2 DEF Walk
    <2> QED
      BY <2>1, <2>2, <2>3
  <1>4. \A k \in 1..stop : /\ f[k-1] \in Nodes /\ f[k] = pool.next[f[k-1]]
                           /\ k < stop => pool.prev[f[k]][1] = f[k-1]
    <2> TAKE k \in 1..stop
    <2>1. k \in 0..(MaxPages + 1) /\ k > 0 /\ k - 1 \in 0..(MaxPages + 1)
          /\ (k < stop => k \in 1..(stop - 1))
      BY <1>1, <1>3
    <2>2. /\ f[k] \in Linked(pool) \cup {h} /\ f[k-1] \in Linked(pool) \cup {h}
          /\ f[k] = pool.next[f[k-1]]
          /\ f[k] \in Linked(pool) => pool.prev[f[k]][1] = f[k-1]
      BY <1>1, <1>3, <2>1, WalkOwned
    <2> QED
      BY <1>3, <2>1, <2>2, NodesDiffer DEF Linked
  <1>5. PICK list : list = <<h>> \o Listed(pool, h)
    OBVIOUS
  <1>6. Len(list) = stop /\ \A i \in 1..stop : list[i] = f[i-1]
    <2>1. PICK t : t = Listed(pool, h)
      OBVIOUS
    <2>2. t \in Seq(Nodes) /\ Len(t) = stop - 1 /\ \A i \in 1..(stop - 1) : t[i] = f[i]
      <3>1. \A k \in 1..(stop - 1) : f[k] \in Nodes
        <4> TAKE k \in 1..(stop - 1)
        <4>1. k + 1 \in 1..stop /\ (k + 1) - 1 = k
          BY <1>1, <1>3
        <4> QED
          BY <1>4, <4>1
      <3>2. t = [k \in 1..(stop - 1) |-> f[k]] /\ stop - 1 \in Nat
        BY <1>1, <1>3, <2>1
      <3> QED
        BY <3>1, <3>2
    <2>3. list = <<h>> \o t /\ h \in Nodes /\ stop \in Nat \ {0}
      BY <1>1, <1>3, <1>5, <2>1, NodesDiffer
    <2>4. Len(list) = stop /\ list[1] = h /\ \A i \in 2..stop : list[i] = t[i-1]
      BY <2>2, <2>3
    <2>5. \A i \in 2..stop : i - 1 \in 1..(stop - 1)
      BY <2>3
    <2>6. \A i \in 1..stop : i = 1 \/ i \in 2..stop
      BY <2>3
    <2> QED
      BY <1>3, <2>2, <2>4, <2>5, <2>6
  <1>7. pool.next[Last(list)] = h
    <2>1. stop \in 1..stop
      BY <1>1, <1>3
    <2> QED
      BY <1>3, <1>4, <1>6, <2>1 DEF Last
  <1>8. ASSUME NEW i \in 2..Len(list) PROVE pool.prev[list[i]][1] = list[i-1]
    <2>1. i - 1 \in 1..stop /\ i - 1 < stop /\ i \in 1..stop
      BY <1>1, <1>3, <1>6
    <2> QED
      BY <1>4, <1>6, <2>1
  <1> QED
    BY <1>5, <1>7, <1>8 DEF Ring

\* Every variable has its type.
LEMMA InvTypeOK == IInv => TypeOK
  <1> SUFFICES ASSUME IInv PROVE TypeOK
    OBVIOUS
  <1>1. n \in 0..MaxPages /\ PoolInv(pool, n) /\ MaxPages \in Nat
    BY SlabAssumption DEF IInv
  <1>2. pool.slab \in [Pgs -> Desc] /\ pool.next \in Nexts /\ pool.prev \in Prevs
    BY <1>1 DEF PoolInv, PoolType
  <1>3. ASSUME NEW p \in Pgs
        PROVE  /\ pool.slab[p].mark \in {"none", "start", "busy", "cut"}
               /\ pool.slab[p].count \in 0..MaxPages
               /\ pool.slab[p].mark = "cut" =>
                     /\ pool.slab[p].shift \in Shifts
                     /\ pool.slab[p].busy \subseteq 0..(Chunks(pool.slab[p].shift) - 1)
    <2>1. PICK d : d = pool.slab[p]
      OBVIOUS
    <2>2. /\ d \in Desc /\ d = Shape(d) /\ p \in Nat
          /\ d.mark = "cut" => d.shift \in Shifts /\ d.busy \subseteq 0..(Chunks(d.shift) - 1)
          /\ d.mark = "busy" => d.count = 0
          /\ d.mark \in {"none", "start"} /\ d.count > 0 => p + d.count <= n
      BY <1>1, <1>2, <2>1 DEF PoolInv, PageInv, Pgs
    <2>3. d.mark = "cut" => d.count = 0
      BY <2>2 DEF Shape, Cut
    <2>4. d.mark \in {"none", "start", "busy", "cut"} /\ d.count \in Nat
      BY <2>2 DEF Desc
    <2>5. d.count \in 0..MaxPages
      BY <1>1, <2>2, <2>3, <2>4
    <2> QED
      BY <2>1, <2>2, <2>4, <2>5
  <1> QED
    BY <1>1, <1>2, <1>3 DEF TypeOK, Nexts, Prevs

\* The lists hold the pages the descriptors say.
LEMMA InvListsSound == IInv => ListsSound
  <1> SUFFICES ASSUME IInv PROVE ListsSound
    OBVIOUS
  <1>1. n \in 0..MaxPages /\ PoolInv(pool, n) /\ MaxPages \in Nat
    BY SlabAssumption DEF IInv
  <1>2. \A x \in Pgs : PageInv(pool, n, x) /\ Owner(pool)[x] = HeadOf(pool.slab[x])
    BY <1>1, Owned DEF PoolInv
  <1>3. \A x \in Pgs : pool.slab[x].count \in Nat
    BY <1>1 DEF PoolInv, PoolType, Desc
  <1>4. 0..(n - 1) \subseteq Pgs /\ \A x \in Pgs : x \in Nat /\ (x < n => x \in 0..(n - 1))
    BY <1>1 DEF Pgs
  <1>5. ASSUME NEW s \in Shifts
        PROVE  ToSet(Listed(pool, Slot(s))) =
                  {p \in 0..(n-1) : /\ pool.slab[p].mark = "cut" /\ pool.slab[p].shift = s
                                    /\ Room(pool, p) # {}}
    <2>1. ToSet(Listed(pool, Slot(s))) = {x \in Linked(pool) : Owner(pool)[x] = Slot(s)}
      BY <1>1, ListExact, NodesDiffer
    <2>2. ASSUME NEW x \in Pgs
          PROVE  HeadOf(pool.slab[x]) = Slot(s) <=>
                    pool.slab[x].mark = "cut" /\ pool.slab[x].shift = s
      <3>1. pool.slab[x].mark = "cut" => pool.slab[x].shift \in Shifts
        BY <1>2 DEF PageInv
      <3>2. \A i \in Shifts : Slot(i) = Slot(s) => i = s
        BY <1>1, SlabAssumption DEF Slot, Shifts
      <3> QED
        BY <3>1, <3>2, NodesDiffer DEF HeadOf
    <2>3. ASSUME NEW x \in Pgs, pool.slab[x].mark = "cut"
          PROVE  x \in 0..(n - 1) /\ (Room(pool, x) # {} <=> x \in Linked(pool))
      BY <1>2, <1>4, <2>3 DEF PageInv, Linked
    <2> QED
      BY <1>2, <1>4, <2>1, <2>2, <2>3 DEF Linked
  <1>6. ASSUME n > 0
        PROVE  ToSet(Listed(pool, Free)) =
                  {p \in 0..(n-1) : pool.slab[p].mark = "none" /\ pool.slab[p].count > 0}
    <2>1. ToSet(Listed(pool, Free)) = {x \in Linked(pool) : Owner(pool)[x] = Free}
      BY <1>1, ListExact, NodesDiffer
    <2>2. ASSUME NEW x \in Pgs
          PROVE  x \in Linked(pool) /\ Owner(pool)[x] = Free <=>
                    pool.slab[x].mark = "none" /\ pool.slab[x].count > 0
      <3>1. Owner(pool)[x] = Free <=> pool.slab[x].mark # "cut"
        BY <1>1, Owned
      <3> QED
        BY <1>1, <1>2, <1>6, <3>1 DEF PageInv, Linked
    <2>3. ASSUME NEW x \in Pgs, pool.slab[x].mark = "none", pool.slab[x].count > 0
          PROVE  x \in 0..(n - 1)
      <3>1. x + pool.slab[x].count <= n
        BY <1>2, <2>3 DEF PageInv
      <3> QED
        BY <1>1, <1>3, <1>4, <2>3, <3>1
    <2> QED
      BY <1>4, <2>1, <2>2, <2>3 DEF Linked
  <1>7. \A h \in Heads : Ring(h)
    BY <1>1, ListRing
  <1> QED
    BY <1>5, <1>6, <1>7, InvTypeOK DEF ListsSound

\* The descriptors stay well formed, every list stays a ring, a slot's list
\* holds exactly the chunk pages with room and the free list exactly the free
\* runs: whatever the geometry, the sizes and the order of the calls.
THEOREM ListsAreSound == Spec => []ListsSound
  BY InvInit, InvNext, InvListsSound, PTL DEF Spec

-----------------------------------------------------------------------------
(* Freeing twice.                                                            *)

\* s and t have the same descriptors, and the same pages on each list.
SameLists(s, t) ==
    t.slab = s.slab /\ \A h \in Heads : ToSet(Listed(t, h)) = ToSet(Listed(s, h))

\* Freeing a free run moves it to the front of its list and does nothing else.
LEMMA FreeFreeRun ==
  ASSUME NEW s, NEW m \in 0..MaxPages, PoolInv(s, m), NEW p \in Pgs, NEW k \in Nat \ {0},
         s.slab[p] = Run("none", k)
  PROVE  SameLists(s, ncx_slab_free_pages(s, p, k))
  <1>1. PICK v : v = ncx_slab_free_pages(s, p, k)
    OBVIOUS
  <1>2. s.slab[p].mark = "none" /\ s.slab[p].count = k
    BY DEF Run
  <1>3. /\ PoolInv(v, m) /\ Linked(v) = Linked(s) \cup {p}
        /\ v.slab = [q \in Pgs |-> IF q = p THEN Run("none", k)
                        ELSE IF q \in Cleared(p, k) THEN Run("none", 0) ELSE s.slab[q]]
    BY <1>1, <1>2, FreeStep
  <1>4. \A q \in Pgs \cap Cleared(p, k) : s.slab[q] = Run("none", 0)
    <2>1. \A q \in (p + 1)..(p + k - 1) : s.slab[q].mark = "none" /\ s.slab[q].count = 0
      BY <1>2 DEF PoolInv, PageInv
    <2>2. \A q \in Pgs : s.slab[q] = Shape(s.slab[q])
      BY DEF PoolInv, PageInv
    <2> QED
      BY <2>1, <2>2 DEF Cleared, Shape
  <1>5. v.slab = s.slab
    <2>1. s.slab = [q \in Pgs |-> s.slab[q]]
      BY DEF PoolInv, PoolType
    <2> QED
      BY <1>3, <1>4, <2>1
  <1>6. Linked(v) = Linked(s)
    BY <1>2, <1>3 DEF PoolInv, PageInv, Linked
  <1>7. Owner(v) = Owner(s)
    BY <1>5 DEF Owner
  <1>8. ASSUME NEW h \in Heads PROVE ToSet(Listed(v, h)) = ToSet(Listed(s, h))
    <2>1. ToSet(Listed(v, h)) = {x \in Linked(v) : Owner(v)[x] = h}
      BY <1>3, ListExact
    <2>2. ToSet(Listed(s, h)) = {x \in Linked(s) : Owner(s)[x] = h}
      BY ListExact
    <2> QED
      BY <1>6, <1>7, <2>1, <2>2
  <1> QED
    BY <1>1, <1>5, <1>8 DEF SameLists

\* The second free of a block finds the run free or the chunk's bit clear.
LEMMA FreedAgain ==
  ASSUME IInv, NEW b \in live
  PROVE  SameLists(Freed(pool, b[1]), Freed(Freed(pool, b[1]), b[1]))
  <1>1. n \in 0..MaxPages /\ PoolInv(pool, n) /\ LiveInv(pool, live)
    BY DEF IInv
  <1>2. b \in Nat \X Nat
    BY <1>1 DEF LiveInv
  <1>3. PICK p \in Pgs : Held(pool, b, p)
    BY <1>1 DEF LiveInv
  <1>4. b[1] \div pagesize = p
    <2>1. PICK k : Extent(pool, b, p, k, n)
      BY <1>1, <1>2, <1>3, HeldExtent
    <2> QED
      BY <2>1 DEF Extent
  <1>5. PICK v : v = Freed(pool, b[1])
    OBVIOUS
  <1>6. ASSUME PoolInv(v, n), NEW k \in Nat \ {0}, v.slab[p] = Run("none", k)
        PROVE  SameLists(v, Freed(v, b[1]))
    <2>1. v.prev[p][2] = "page"
      BY <1>6 DEF PoolInv, PageInv, KindOf, Run
    <2>2. v.slab[p] # Run("none", 0) /\ v.slab[p].mark # "busy" /\ v.slab[p].count = k
      BY <1>6 DEF Run
    <2>3. Freed(v, b[1]) = IF b[1] % pagesize # 0 THEN v ELSE ncx_slab_free_pages(v, p, k)
      BY <1>4, <2>1, <2>2 DEF Freed, FreePages
    <2>4. SameLists(v, ncx_slab_free_pages(v, p, k))
      BY <1>1, <1>6, FreeFreeRun
    <2>5. SameLists(v, v)
      BY DEF SameLists
    <2> QED
      BY <2>3, <2>4, <2>5
  <1>7. CASE PageBlock(pool, b, p)
    <2>1. PoolInv(v, n) /\ v.slab[p] = Run("none", pool.slab[p].count)
      BY <1>4, <1>5, <1>7, FreePagesStep
    <2>2. pool.slab[p].count \in Nat \ {0}
      <3>1. PageInv(pool, n, p) /\ pool.slab[p] \in Desc
        BY <1>1 DEF PoolInv, PoolType
      <3> QED
        BY <1>7, <3>1 DEF PageInv, PageBlock, Desc
    <2> QED
      BY <1>5, <1>6, <2>1, <2>2
  <1>8. ASSUME NEW c \in pool.slab[p].busy, ChunkBlock(pool, b, p, c)
        PROVE  SameLists(v, Freed(v, b[1]))
    <2>1. /\ PoolInv(v, n)
          /\ \/ /\ v.slab[p].mark = "cut" /\ c \notin v.slab[p].busy
                /\ v.slab[p].shift = pool.slab[p].shift
             \/ v.slab[p] = Run("none", 1)
      BY <1>4, <1>5, <1>8, FreeChunkStep
    <2>2. CASE v.slab[p] = Run("none", 1)
      BY <1>6, <2>1, <2>2
    <2>3. CASE /\ v.slab[p].mark = "cut" /\ c \notin v.slab[p].busy
               /\ v.slab[p].shift = pool.slab[p].shift
      <3>1. PICK shift : shift = pool.slab[p].shift
        OBVIOUS
      <3>2. (b[1] % pagesize) \div 2^shift = c
        BY <1>1, <1>2, <1>8, <3>1, HeldChunk
      <3>3. v.prev[p][2] = TypeOf(shift)
        BY <2>1, <2>3, <3>1 DEF PoolInv, PageInv, KindOf
      <3>4. v.prev[p][2] # "page" /\ (v.prev[p][2] = "exact" => exact_shift = shift)
        BY <3>3 DEF TypeOf
      <3>5. Freed(v, b[1]) = v
        BY <1>4, <2>3, <3>1, <3>2, <3>4 DEF Freed, FreeChunk
      <3> QED
        BY <3>5 DEF SameLists
    <2> QED
      BY <2>1, <2>2, <2>3
  <1> QED
    BY <1>3, <1>5, <1>7, <1>8 DEF Held

\* Freeing a block again right after it was freed changes no descriptor and
\* moves no page from one list to another.
THEOREM FreeTwice == Spec => DoubleFreeHarmless
  <1>1. IInv /\ [Next]_vars =>
           [\A b \in live \ live' :
              LET again == Freed(pool', b[1])
              IN  /\ again.slab = pool'.slab
                  /\ \A h \in Heads : ToSet(Listed(again, h)) = ToSet(Listed(pool', h))]_vars
    <2> SUFFICES ASSUME IInv, [Next]_vars, NEW b \in live, b \notin live'
                 PROVE  SameLists(pool', Freed(pool', b[1]))
      BY DEF SameLists
    <2>1. ncx_slab_free(b)
      <3>1. \A size : ncx_slab_alloc(size) => b \in live'
        BY DEF ncx_slab_alloc, AllocPages, AllocChunk, AllocNew, Give
      <3>2. \A d \in live : ncx_slab_free(d) => d = b
        BY DEF ncx_slab_free
      <3> QED
        BY <3>1, <3>2 DEF Next, vars, ncx_slab_init
    <2>2. pool' = Freed(pool, b[1])
      BY <2>1 DEF ncx_slab_free
    <2> QED
      BY <2>2, FreedAgain
  <1> QED
    BY <1>1, InvInit, InvNext, PTL DEF Spec, DoubleFreeHarmless

-----------------------------------------------------------------------------
(* Sums over finite sets.                                                    *)

\* g[s] is the sum of f over s, for all subsets s of S that have at most k
\* elements, the elements taken in the order MapThenSumSet takes them.
Pick(s) == CHOOSE x \in s : TRUE
Parts(S, k) == {s \in SUBSET S : Cardinality(s) <= k}
SumStep(f, g, s) == IF s = {} THEN 0 ELSE f[Pick(s)] + g[s \ {Pick(s)}]
SumTo(f, S, k, g) == g \in [Parts(S, k) -> Nat] /\ \A s \in Parts(S, k) : g[s] = SumStep(f, g, s)

\* Taking the chosen element away leaves a smaller set.
LEMMA Smaller ==
  ASSUME NEW S, IsFiniteSet(S), NEW s \in SUBSET S, s # {}
  PROVE  /\ Pick(s) \in s /\ IsFiniteSet(s) /\ Cardinality(s) \in Nat \ {0}
         /\ \A x \in s : s \ {x} \in SUBSET S /\ Cardinality(s \ {x}) = Cardinality(s) - 1
  <1>1. Pick(s) \in s
    BY DEF Pick
  <1>2. IsFiniteSet(s)
    BY FS_Subset
  <1>3. Cardinality(s) \in Nat /\ Cardinality(s) # 0
    BY <1>2, FS_CardinalityType, FS_EmptySet
  <1>4. \A x \in s : Cardinality(s \ {x}) = Cardinality(s) - 1
    BY <1>2, FS_RemoveElement
  <1> QED
    BY <1>1, <1>2, <1>3, <1>4

\* There is a sum for sets of every size.
LEMMA SumToExists ==
  ASSUME NEW S, IsFiniteSet(S), NEW f \in [S -> Nat], NEW k \in Nat
  PROVE  \E g : SumTo(f, S, k, g)
  <1> DEFINE Bad == {i \in Nat : ~\E g : SumTo(f, S, i, g)}
  <1>1. SUFFICES ASSUME Bad # {} PROVE FALSE
    OBVIOUS
  <1>2. PICK m \in Bad : \A i \in Bad : m <= i
    <2>1. Bad \in SUBSET Nat
      OBVIOUS
    <2> HIDE DEF Bad
    <2> QED
      BY <1>1, <2>1, LowestNumber
  <1>3. m # 0
    <2>1. ASSUME NEW s \in Parts(S, 0) PROVE s = {}
      <3>1. CASE s # {}
        <4>1. Cardinality(s) \in Nat \ {0} /\ Cardinality(s) <= 0
          BY <3>1, Smaller DEF Parts
        <4> QED
          BY <4>1
      <3> QED
        BY <3>1
    <2>2. PICK g : g = [s \in Parts(S, 0) |-> 0]
      OBVIOUS
    <2>3. SumTo(f, S, 0, g)
      BY <2>1, <2>2 DEF SumTo, SumStep
    <2> QED
      BY <2>3
  <1>4. m \in Nat /\ m - 1 \in Nat /\ m - 1 \notin Bad
    BY <1>2, <1>3
  <1>5. PICK g : SumTo(f, S, m - 1, g)
    BY <1>4
  <1>6. PICK e : e = [s \in Parts(S, m) |-> SumStep(f, g, s)]
    OBVIOUS
  <1>7. ASSUME NEW s \in Parts(S, m), s # {}
        PROVE  Pick(s) \in S /\ s \ {Pick(s)} \in Parts(S, m - 1)
    <2>1. /\ Pick(s) \in s /\ Cardinality(s) \in Nat /\ s \ {Pick(s)} \in SUBSET S
          /\ Cardinality(s \ {Pick(s)}) = Cardinality(s) - 1 /\ Cardinality(s) <= m
      BY <1>7, Smaller DEF Parts
    <2> QED
      BY <1>4, <2>1 DEF Parts
  <1>8. ASSUME NEW s \in Parts(S, m) PROVE SumStep(f, g, s) \in Nat
    <2>1. CASE s = {}
      BY <2>1 DEF SumStep
    <2>2. CASE s # {}
      <3>1. f[Pick(s)] \in Nat /\ g[s \ {Pick(s)}] \in Nat
        BY <1>5, <1>7, <2>2 DEF SumTo
      <3> QED
        BY <2>2, <3>1 DEF SumStep
    <2> QED
      BY <2>1, <2>2
  <1>9. ASSUME NEW s \in Parts(S, m - 1) PROVE s \in Parts(S, m) /\ e[s] = g[s]
    <2>1. s \in Parts(S, m)
      <3>1. IsFiniteSet(s) /\ Cardinality(s) <= m - 1
        BY FS_Subset DEF Parts
      <3>2. Cardinality(s) \in Nat
        BY <3>1, FS_CardinalityType
      <3> QED
        BY <1>4, <3>1, <3>2 DEF Parts
    <2> QED
      BY <1>5, <1>6, <2>1 DEF SumTo
  <1>10. ASSUME NEW s \in Parts(S, m) PROVE e[s] = SumStep(f, e, s)
    <2>1. e[s] = SumStep(f, g, s)
      BY <1>6
    <2>2. CASE s = {}
      BY <2>1, <2>2 DEF SumStep
    <2>3. CASE s # {}
      <3>1. e[s \ {Pick(s)}] = g[s \ {Pick(s)}]
        BY <1>7, <1>9, <2>3
      <3> QED
        BY <2>1, <3>1 DEF SumStep
    <2> QED
      BY <2>2, <2>3
  <1>11. e \in [Parts(S, m) -> Nat]
    BY <1>6, <1>8
  <1>12. SumTo(f, S, m, e)
    BY <1>10, <1>11 DEF SumTo
  <1> QED
    BY <1>12

\* g is the sum of f over the subsets of S, in whatever order.
Adds(f, S, g) ==
    /\ g \in [SUBSET S -> Nat] /\ g[{}] = 0
    /\ \A s \in SUBSET S : \A x \in s : g[s] = f[x] + g[s \ {x}]

\* The equation of MapThenSumSet.
Solves(f, S, g) == g = [s \in SUBSET S |-> SumStep(f, g, s)]

\* The equation has a solution.
LEMMA SumExists ==
  ASSUME NEW S, IsFiniteSet(S), NEW f \in [S -> Nat]
  PROVE  \E g : Solves(f, S, g)
  <1>1. PICK k \in Nat : k = Cardinality(S)
    BY FS_CardinalityType
  <1>2. PICK g : SumTo(f, S, k, g)
    BY SumToExists
  <1>3. Parts(S, k) = SUBSET S
    <2>1. \A s \in SUBSET S : Cardinality(s) <= k
      BY <1>1, FS_Subset
    <2> QED
      BY <2>1 DEF Parts
  <1>4. g = [s \in SUBSET S |-> g[s]] /\ \A s \in SUBSET S : g[s] = SumStep(f, g, s)
    BY <1>2, <1>3 DEF SumTo
  <1>5. Solves(f, S, g)
    BY <1>4 DEF Solves
  <1> QED
    BY <1>5

\* Any solution adds f up, and the order does not matter.
LEMMA SumAdds ==
  ASSUME NEW S, IsFiniteSet(S), NEW f \in [S -> Nat], NEW g, Solves(f, S, g)
  PROVE  Adds(f, S, g)
  <1>1. \A s \in SUBSET S : g[s] = SumStep(f, g, s)
    BY Zenon DEF Solves
  <1>2. DOMAIN g = SUBSET S /\ g = [s \in SUBSET S |-> g[s]]
    BY Zenon DEF Solves
  <1>3. g[{}] = 0
    <2>1. {} \in SUBSET S
      OBVIOUS
    <2> QED
      BY <1>1, <2>1 DEF SumStep
  <1>4. \A s \in SUBSET S : s # {} => g[s] = f[Pick(s)] + g[s \ {Pick(s)}]
    BY <1>1 DEF SumStep
  <1> DEFINE Good(s) == g[s] \in Nat /\ \A x \in s : g[s] = f[x] + g[s \ {x}]
             Bad == {s \in SUBSET S : ~Good(s)}
             Many == {Cardinality(s) : s \in Bad}
  <1>5. Bad = {}
    <2>1. SUFFICES ASSUME Bad # {} PROVE FALSE
      OBVIOUS
    <2>2. \A s \in SUBSET S : Cardinality(s) \in Nat
      BY FS_Subset, FS_CardinalityType
    <2>3. \A s : s \in Bad <=> s \in SUBSET S /\ ~Good(s)
      OBVIOUS
    <2>4. PICK s \in Bad : \A t \in Bad : Cardinality(s) <= Cardinality(t)
      <3> HIDE DEF Bad
      <3>1. \A t \in Bad : Cardinality(t) \in Nat
        BY <2>2, <2>3
      <3>2. Many \in SUBSET Nat /\ Many # {}
        BY <2>1, <3>1
      <3>3. PICK m \in Many : \A i \in Many : m <= i
        <4> HIDE DEF Many
        <4> QED
          BY <3>2, LowestNumber
      <3> QED
        BY <3>3
    <2>5. PICK m \in Nat : m = Cardinality(s) /\ s \in SUBSET S /\ ~Good(s)
      BY <2>2, <2>3, <2>4
    <2> HIDE DEF Bad
    <2>6. s # {}
      <3>1. Good({})
        BY <1>3
      <3> QED
        BY <2>5, <3>1
    <2>7. ASSUME NEW x \in s PROVE s \ {x} \in SUBSET S /\ Good(s \ {x})
      <3>1. s \ {x} \in SUBSET S /\ Cardinality(s \ {x}) = m - 1 /\ m \in Nat
        BY <2>5, <2>6, Smaller
      <3>2. s \ {x} \notin Bad
        BY <2>4, <2>5, <3>1
      <3> HIDE DEF Good
      <3> QED
        BY <2>3, <3>1, <3>2
    <2>8. PICK y \in s : g[s] = f[y] + g[s \ {y}]
      BY <1>4, <2>5, <2>6, Smaller
    <2>9. \A x \in s : f[x] \in Nat /\ g[s \ {x}] \in Nat
      BY <2>5, <2>7
    <2>10. g[s] \in Nat
      <3>1. f[y] \in Nat /\ g[s \ {y}] \in Nat
        BY <2>9
      <3>2. PICK u \in Nat, v \in Nat : u = f[y] /\ v = g[s \ {y}]
        BY <3>1
      <3>3. u + v \in Nat /\ g[s] = u + v
        BY <2>8, <3>2
      <3> QED
        BY <3>3
    <2>11. ASSUME NEW x \in s PROVE g[s] = f[x] + g[s \ {x}]
      <3>1. CASE x = y
        BY <2>8, <3>1
      <3>2. CASE x # y
        <4>1. PICK t : t = (s \ {x}) \ {y}
          OBVIOUS
        <4>2. (s \ {y}) \ {x} = t /\ x \in s \ {y} /\ y \in s \ {x}
          BY <3>2, <4>1
        <4>3. g[s \ {y}] = f[x] + g[t] /\ g[s \ {x}] = f[y] + g[t]
          BY <2>7, <4>1, <4>2
        <4>4. g[t] \in Nat
          <5>1. t \in SUBSET S /\ g[s \ {x}] \in Nat
            BY <2>5, <2>9, <4>1
          <5>2. Cardinality(t) \in Nat /\ Cardinality(t) < m
            <6>1. IsFiniteSet(s \ {x}) /\ IsFiniteSet(s) /\ Cardinality(s \ {x}) = m - 1
                  /\ y \in s \ {x} /\ m \in Nat
              BY <2>5, <2>6, <4>2, FS_Subset, Smaller
            <6>2. Cardinality(t) = (m - 1) - 1
              BY <4>1, <6>1, FS_RemoveElement
            <6>3. Cardinality(t) \in Nat
              BY <2>2, <5>1
            <6> QED
              BY <6>1, <6>2, <6>3
          <5>3. t \notin Bad
            BY <2>4, <2>5, <5>2
          <5>4. Good(t)
            <6> HIDE DEF Good
            <6> QED
              BY <2>3, <5>1, <5>3
          <5> QED
            BY <5>4
        <4>5. PICK u \in Nat, v \in Nat, w \in Nat : u = f[x] /\ v = f[y] /\ w = g[t]
          BY <2>9, <4>4
        <4>6. g[s \ {y}] = u + w /\ g[s \ {x}] = v + w /\ v + (u + w) = u + (v + w)
          BY <4>3, <4>5
        <4> QED
          BY <2>8, <4>5, <4>6
      <3> QED
        BY <3>1, <3>2
    <2> QED
      BY <2>5, <2>10, <2>11
  <1>6. \A s \in SUBSET S : Good(s)
    BY <1>5
  <1> QED
    BY <1>2, <1>3, <1>6 DEF Adds

\* f is c on all of t, and t has nothing in common with s.
Level(f, s, t, c) == s \cap t = {} /\ \A x \in t : f[x] = c

\* Adding the elements of t, on all of which f is c, adds c that many times.
LEMMA SumConst ==
  ASSUME NEW S, IsFiniteSet(S), NEW f \in [S -> Nat], NEW g, Adds(f, S, g), NEW c \in Nat,
         NEW s \in SUBSET S, NEW t \in SUBSET S, Level(f, s, t, c)
  PROVE  Cardinality(t) \in Nat /\ g[s \cup t] = g[s] + Cardinality(t) * c
  <1> DEFINE Sum(u, k) == g[s \cup u] = g[s] + k * c
             Bad == {k \in Nat : \E u \in SUBSET t : Cardinality(u) = k /\ ~Sum(u, k)}
  <1>1. \A u \in SUBSET t : IsFiniteSet(u) /\ Cardinality(u) \in Nat
    <2>1. IsFiniteSet(t)
      BY FS_Subset
    <2> QED
      BY <2>1, FS_Subset, FS_CardinalityType
  <1>2. Bad = {}
    <2>1. SUFFICES ASSUME Bad # {} PROVE FALSE
      OBVIOUS
    <2>2. PICK k \in Bad : \A i \in Bad : k <= i
      <3>1. Bad \in SUBSET Nat
        OBVIOUS
      <3> HIDE DEF Bad
      <3> QED
        BY <2>1, <3>1, LowestNumber
    <2>3. PICK u \in SUBSET t : Cardinality(u) = k /\ ~Sum(u, k)
      BY <2>2
    <2>4. k \in Nat /\ g[s] \in Nat
      BY <2>2 DEF Adds
    <2>5. u # {}
      <3>1. SUFFICES ASSUME u = {} PROVE FALSE
        OBVIOUS
      <3>2. k = 0 /\ s \cup u = s
        BY <2>3, <3>1, FS_EmptySet
      <3>3. PICK a \in Nat : a = g[s]
        BY <2>4
      <3>4. a = a + 0 * c
        OBVIOUS
      <3> QED
        BY <2>3, <3>2, <3>3, <3>4
    <2>6. PICK x : x \in u
      BY <2>5
    <2>7. PICK v : v = u \ {x}
      OBVIOUS
    <2>8. v \in SUBSET t /\ Cardinality(v) = k - 1 /\ k - 1 \in Nat
      <3>1. IsFiniteSet(u) /\ Cardinality(v) = k - 1
        BY <1>1, <2>3, <2>6, <2>7, FS_RemoveElement
      <3>2. v \in SUBSET t
        BY <2>7
      <3>3. Cardinality(v) \in Nat
        BY <1>1, <3>2
      <3> QED
        BY <3>1, <3>2, <3>3
    <2>9. Sum(v, k - 1)
      <3>1. k - 1 \notin Bad
        BY <2>2, <2>4
      <3> HIDE DEF Sum
      <3> QED
        BY <2>8, <3>1
    <2>10. g[s \cup u] = f[x] + g[s \cup v]
      <3>1. PICK w : w = s \cup u
        OBVIOUS
      <3>2. w \in SUBSET S /\ x \in w /\ w \ {x} = s \cup v
        BY <2>6, <2>7, <3>1 DEF Level
      <3>3. g[w] = f[x] + g[w \ {x}]
        BY <3>2 DEF Adds
      <3> QED
        BY <3>1, <3>2, <3>3
    <2>11. f[x] = c
      BY <2>6 DEF Level
    <2>12. PICK a \in Nat : a = g[s]
      BY <2>4
    <2>13. c + (a + (k - 1) * c) = a + k * c
      BY <2>4
    <2> QED
      BY <2>3, <2>9, <2>10, <2>11, <2>12, <2>13
  <1>3. Cardinality(t) \in Nat
    BY <1>1
  <1>4. Sum(t, Cardinality(t))
    <2> HIDE DEF Sum
    <2> QED
      BY <1>2, <1>3
  <1> QED
    BY <1>3, <1>4

-----------------------------------------------------------------------------
(* The walk of ncx_slab_stat.                                                *)

\* The first pages of the runs, and the chunk pages.
Tiles == {p \in 0..(n - 1) : \/ pool.slab[p].mark = "cut"
                             \/ pool.slab[p].mark \in {"none", "start"} /\ pool.slab[p].count > 0}

\* The low bits of prev tell the chunk pages, and a page behind the first of a
\* run does not move the walk on.
LEMMA Strides ==
  ASSUME IInv, NEW p \in Pgs
  PROVE  /\ pool.slab[p].count \in Nat /\ Stride(p) \in Nat /\ p \in Nat
         /\ Kind(p) = "cut" <=> pool.slab[p].mark = "cut"
         /\ pool.slab[p].mark = "cut" => Stride(p) = 1
         /\ pool.slab[p].mark # "cut" => Stride(p) = pool.slab[p].count
         /\ p < n => p + Stride(p) \in 0..n
         /\ p \in Tiles => Stride(p) > 0
  <1>1. /\ n \in 0..MaxPages /\ PageInv(pool, n, p) /\ pool.slab[p] \in Desc /\ p \in Nat
        /\ MaxPages \in Nat
    BY SlabAssumption DEF IInv, PoolInv, PoolType, Pgs
  <1>2. pool.slab[p].count \in Nat /\ pool.slab[p].mark \in {"none", "start", "busy", "cut"}
    BY <1>1 DEF Desc
  <1>3. Kind(p) = "cut" <=> pool.slab[p].mark = "cut"
    <2>1. pool.prev[p][2] = KindOf(pool.slab[p])
      BY <1>1 DEF PageInv
    <2>2. \A i : TypeOf(i) # "page"
      BY DEF TypeOf
    <2> QED
      BY <2>1, <2>2 DEF Kind, KindOf
  <1>4. /\ pool.slab[p].mark = "cut" => Stride(p) = 1
        /\ pool.slab[p].mark # "cut" => Stride(p) = pool.slab[p].count
    BY <1>3 DEF Stride
  <1>5. pool.slab[p].mark # "cut" /\ pool.slab[p].count > 0 => p + pool.slab[p].count <= n
    BY <1>1, <1>2 DEF PageInv
  <1>6. p < n => p + Stride(p) \in 0..n
    BY <1>1, <1>2, <1>4, <1>5
  <1>7. p \in Tiles => Stride(p) > 0
    BY <1>2, <1>4 DEF Tiles
  <1> QED
    BY <1>1, <1>2, <1>3, <1>4, <1>6, <1>7

\* No run starts inside another.
LEMMA TilesApart ==
  ASSUME IInv, NEW p \in Tiles, NEW x \in (p + 1)..(p + Stride(p) - 1)
  PROVE  x \notin Tiles /\ x \in 0..(n - 1)
  <1>1. n \in 0..MaxPages /\ PoolInv(pool, n) /\ MaxPages \in Nat
    BY SlabAssumption DEF IInv
  <1>2. p \in Pgs /\ p \in 0..(n - 1)
    BY <1>1 DEF Tiles, Pgs
  <1>3. /\ pool.slab[p].mark = "cut" => Stride(p) = 1
        /\ pool.slab[p].mark # "cut" => Stride(p) = pool.slab[p].count
        /\ p + Stride(p) \in 0..n /\ p \in Nat /\ Stride(p) \in Nat
    BY <1>1, <1>2, Strides
  <1>4. x \in 0..(n - 1) /\ Stride(p) > 1
    BY <1>1, <1>3
  <1>5. pool.slab[p].mark \in {"none", "start"} /\ Stride(p) = pool.slab[p].count
    BY <1>3, <1>4 DEF Tiles
  <1>6. pool.slab[x].mark \in {"none", "busy"} /\ pool.slab[x].count = 0
    <2>1. PageInv(pool, n, p)
      BY <1>1, <1>2 DEF PoolInv
    <2>2. pool.slab[p].count > 0
      BY <1>3, <1>4, <1>5
    <2> QED
      BY <1>5, <2>1, <2>2 DEF PageInv
  <1> QED
    BY <1>4, <1>6 DEF Tiles

\* Behind a run comes the next one, or the end of the pool.
LEMMA TileAfter ==
  ASSUME IInv
  PROVE  0 \in Tiles \cup {n} /\ \A p \in Tiles : p + Stride(p) \in Tiles \cup {n}
  <1>1. n \in 0..MaxPages /\ PoolInv(pool, n) /\ MaxPages \in Nat /\ n \in Nat
    BY SlabAssumption DEF IInv
  <1>2. \A y \in 0..(n - 1) : y \in Pgs
    BY <1>1 DEF Pgs
  <1>3. ASSUME NEW x \in 0..(n - 1), \A y \in Tiles : y < x => y + Stride(y) <= x
        PROVE  x \in Tiles
    <2>1. PICK y \in 0..x : Covers(pool, y, x)
      BY <1>1, <1>3 DEF PoolInv, Covered
    <2>2. y \in 0..(n - 1) /\ y \in Pgs /\ y \in Nat
      BY <1>1, <1>2
    <2>3. /\ pool.slab[y].count \in Nat
          /\ pool.slab[y].mark # "cut" => Stride(y) = pool.slab[y].count
      BY <2>2, Strides
    <2>4. CASE y = x
      BY <2>1, <2>2, <2>3, <2>4 DEF Covers, Tiles
    <2>5. CASE y < x
      <3>1. pool.slab[y].mark \in {"none", "start"} /\ x < y + pool.slab[y].count
        BY <2>1, <2>5 DEF Covers
      <3>2. y \in Tiles /\ ~(y + Stride(y) <= x)
        BY <2>2, <2>3, <2>5, <3>1 DEF Tiles
      <3> QED
        BY <1>3, <2>5, <3>2
    <2> QED
      BY <2>2, <2>4, <2>5
  <1>4. 0 \in Tiles \cup {n}
    <2>1. CASE n # 0
      <3>1. 0 \in 0..(n - 1) /\ \A y \in Tiles : ~(y < 0)
        BY <1>1, <2>1 DEF Tiles
      <3> QED
        BY <1>3, <3>1
    <2> QED
      BY <2>1
  <1>5. ASSUME NEW p \in Tiles PROVE p + Stride(p) \in Tiles \cup {n}
    <2>1. p \in 0..(n - 1) /\ p \in Pgs
      BY <1>2 DEF Tiles
    <2>2. p + Stride(p) \in 0..n /\ Stride(p) \in Nat /\ p \in Nat
      BY <1>1, <2>1, Strides
    <2>3. CASE p + Stride(p) # n
      <3>1. PICK x : x = p + Stride(p)
        OBVIOUS
      <3>2. x \in 0..(n - 1) /\ x \in Nat
        BY <1>1, <2>2, <2>3, <3>1
      <3>3. ASSUME NEW y \in Tiles, y < x PROVE y + Stride(y) <= x
        <4>1. y \in 0..(n - 1) /\ y \in Nat /\ Stride(y) \in Nat
          BY <1>1, <1>2, Strides DEF Tiles
        <4>2. CASE y = p
          BY <2>2, <3>1, <4>2
        <4>3. CASE p < y
          <5>1. y \in (p + 1)..(p + Stride(p) - 1)
            BY <2>2, <3>1, <3>3, <4>1, <4>3
          <5> QED
            BY <5>1, TilesApart
        <4>4. CASE y < p
          <5>1. p \notin (y + 1)..(y + Stride(y) - 1)
            BY TilesApart
          <5>2. y + Stride(y) <= p
            BY <2>2, <4>1, <4>4, <5>1
          <5> QED
            BY <2>2, <3>1, <4>1, <5>2
        <4> QED
          BY <2>2, <4>1, <4>2, <4>3, <4>4
      <3>4. x \in Tiles
        BY <1>3, <3>2, <3>3
      <3> QED
        BY <3>1, <3>4
    <2> QED
      BY <2>3
  <1> QED
    BY <1>4, <1>5

\* Before a run, and before the end of the pool, comes a run.
LEMMA TileBefore ==
  ASSUME IInv, NEW x \in Tiles \cup {n}, x # 0
  PROVE  \E y \in Tiles : y < x /\ y + Stride(y) = x
  <1>1. n \in 0..MaxPages /\ MaxPages \in Nat /\ n \in Nat
    BY SlabAssumption DEF IInv
  <1>2. \A y \in Tiles : y \in Pgs /\ y \in Nat /\ Stride(y) \in Nat /\ Stride(y) > 0 /\ y < n
    <2> TAKE y \in Tiles
    <2>1. y \in 0..(n - 1) /\ y \in Pgs
      BY <1>1 DEF Tiles, Pgs
    <2> QED
      BY <1>1, <2>1, Strides
  <1>3. x \in Nat
    BY <1>1, <1>2
  <1> DEFINE Gaps == {x - y : y \in {z \in Tiles : z < x}}
  <1>4. PICK d \in Gaps : \A e \in Gaps : d <= e
    <2>1. 0 \in Tiles /\ 0 < x
      <3>1. x = n \/ (x \in Nat /\ x < n)
        BY <1>2
      <3> QED
        BY <1>1, <1>3, <3>1, TileAfter
    <2>2. Gaps \in SUBSET Nat
      BY <1>2, <1>3
    <2>3. Gaps # {}
      BY <2>1
    <2> HIDE DEF Gaps
    <2> QED
      BY <2>2, <2>3, LowestNumber
  <1>5. PICK y \in Tiles : y < x /\ d = x - y
    BY <1>4
  <1>6. \A z \in Tiles : z < x => z <= y
    <2> TAKE z \in Tiles
    <2> HAVE z < x
    <2>1. x - y <= x - z
      BY <1>4, <1>5
    <2> QED
      BY <1>2, <1>3, <2>1
  <1>7. y + Stride(y) \in Tiles \cup {n} /\ y \in Nat /\ Stride(y) \in Nat /\ Stride(y) > 0
    BY <1>2, TileAfter
  <1>8. ~(y + Stride(y) < x)
    <2> SUFFICES ASSUME y + Stride(y) < x PROVE FALSE
      OBVIOUS
    <2>1. y + Stride(y) # n
      BY <1>1, <1>2, <1>3, <1>7
    <2>2. y + Stride(y) <= y
      BY <1>6, <1>7, <2>1
    <2> QED
      BY <1>7, <2>2
  <1>9. ~(x < y + Stride(y))
    <2> SUFFICES ASSUME x < y + Stride(y) PROVE FALSE
      OBVIOUS
    <2>1. x \in (y + 1)..(y + Stride(y) - 1)
      BY <1>3, <1>5, <1>7
    <2>2. x \notin Tiles /\ x \in 0..(n - 1)
      BY <2>1, TilesApart
    <2> QED
      BY <1>1, <2>2
  <1> QED
    BY <1>3, <1>5, <1>7, <1>8, <1>9
\* The walk looks at the first page of every run and at every chunk page, and at
\* no other descriptor.
LEMMA VisitedTiles == IInv => Visited = Tiles
  <1> SUFFICES ASSUME IInv PROVE Visited = Tiles
    OBVIOUS
  <1> DEFINE Step(f) == [k \in 0..MaxPages |->
                           IF k = 0 THEN 0
                           ELSE IF f[k-1] >= n THEN n ELSE f[k-1] + Stride(f[k-1])]
             at == CHOOSE f : f = Step(f)
  <1>1. Visited = {at[k] : k \in 0..MaxPages} \cap 0..(n - 1)
    BY DEF Visited
  <1>2. n \in 0..MaxPages /\ MaxPages \in Nat \ {0} /\ n \in Nat /\ 0..(n - 1) \subseteq Pgs
    BY SlabAssumption DEF IInv, Pgs
  <1>3. Nodes \subseteq Nat /\ NULL \notin Nodes /\ 0..n \subseteq Nodes /\ 0 \in Nodes
    <2>1. Free \in Nodes /\ Free = MaxPages /\ NULL \notin Nodes
      BY NodesDiffer DEF Free
    <2>2. Slot(pagesize_shift - 1) \in Int
      BY SlabAssumption DEF Slot
    <2> QED
      BY <1>2, <2>1, <2>2 DEF Nodes
  <1>4. \E f : f = Step(f)
    <2>1. PICK nx : nx = [x \in Nodes |-> IF x \in 0..(n - 1) THEN x + Stride(x) ELSE n]
      OBVIOUS
    <2>2. nx \in [Nodes -> Nodes \cup {NULL}] /\ \A x \in Nodes : nx[x] \in 0..n
      <3>1. \A x \in 0..(n - 1) : x + Stride(x) \in 0..n
        BY <1>2, Strides
      <3> QED
        BY <1>2, <1>3, <2>1, <3>1
    <2>3. PICK f : Walk(nx, 0, MaxPages, f)
      BY <1>2, <1>3, <2>2, WalkExists
    <2>4. \A k \in 0..MaxPages : f[k] # NULL
      <3> DEFINE Bad == {k \in 0..MaxPages : f[k] = NULL}
      <3>1. SUFFICES ASSUME Bad # {} PROVE FALSE
        OBVIOUS
      <3>2. PICK k \in Bad : \A i \in Bad : k <= i
        <4>1. Bad \in SUBSET Nat
          BY <1>2
        <4> HIDE DEF Bad
        <4> QED
          BY <3>1, <4>1, LowestNumber
      <3>3. k # 0
        BY <1>3, <2>3 DEF Walk
      <3>4. k \in 1..MaxPages /\ k - 1 \in 0..MaxPages /\ ~(k <= k - 1)
        BY <1>2, <3>3
      <3>5. f[k-1] \in Nodes
        BY <2>3, <3>2, <3>4 DEF Walk
      <3>6. f[k] = nx[f[k-1]]
        BY <1>3, <2>3, <3>4, <3>5 DEF Walk
      <3> QED
        BY <1>3, <2>2, <3>2, <3>5, <3>6
    <2>5. \A k \in 0..MaxPages : f[k] \in Nodes
      BY <2>3, <2>4 DEF Walk
    <2>6. ASSUME NEW k \in 0..MaxPages
          PROVE  f[k] = IF k = 0 THEN 0 ELSE IF f[k-1] >= n THEN n ELSE f[k-1] + Stride(f[k-1])
      <3>1. CASE k = 0
        BY <2>3, <3>1 DEF Walk
      <3>2. CASE k # 0
        <4>1. k \in 1..MaxPages /\ k - 1 \in 0..MaxPages
          BY <1>2, <3>2
        <4>2. f[k-1] \in Nodes /\ f[k-1] \in Nat /\ f[k] = nx[f[k-1]]
          BY <1>3, <2>3, <2>5, <4>1 DEF Walk
        <4>3. f[k-1] \in 0..(n - 1) <=> ~(f[k-1] >= n)
          BY <1>2, <4>2
        <4> QED
          BY <2>1, <3>2, <4>2, <4>3
      <3> QED
        BY <3>1, <3>2
    <2>7. f = [k \in 0..MaxPages |-> f[k]]
      BY <2>3 DEF Walk
    <2>8. f = Step(f)
      BY <2>6, <2>7
    <2> QED
      BY <2>8
  <1>5. at = Step(at)
    BY <1>4
  <1> HIDE DEF at
  <1>6. /\ at[0] = 0
        /\ \A k \in 1..MaxPages :
              at[k] = IF at[k-1] >= n THEN n ELSE at[k-1] + Stride(at[k-1])
    <2>1. 0 \in 0..MaxPages /\ \A k \in 1..MaxPages : k \in 0..MaxPages /\ k # 0
      BY <1>2
    <2> QED
      BY <1>5, <2>1
  <1> HIDE DEF Step
  <1>7. \A p \in Tiles : p \in Nat /\ p < n /\ Stride(p) \in Nat /\ Stride(p) > 0
    <2> TAKE p \in Tiles
    <2>1. p \in 0..(n - 1) /\ p \in Pgs
      BY <1>2 DEF Tiles
    <2> QED
      BY <1>2, <2>1, Strides
  <1> DEFINE Good(k) == at[k] \in Tiles \cup {n} /\ (at[k] = n \/ at[k] >= k)
             Bad == {k \in 0..MaxPages : ~Good(k)}
  <1>8. Bad = {}
    <2>1. SUFFICES ASSUME Bad # {} PROVE FALSE
      OBVIOUS
    <2>2. PICK k \in Bad : \A i \in Bad : k <= i
      <3>1. Bad \in SUBSET Nat
        BY <1>2
      <3> HIDE DEF Bad
      <3> QED
        BY <2>1, <3>1, LowestNumber
    <2>3. k # 0
      <3>1. Good(0)
        BY <1>2, <1>6, TileAfter
      <3> QED
        BY <2>2, <3>1
    <2>4. k \in 1..MaxPages /\ k - 1 \in 0..MaxPages /\ ~(k <= k - 1) /\ k \in Nat
      BY <1>2, <2>3
    <2>5. Good(k - 1)
      BY <2>2, <2>4
    <2>6. CASE at[k-1] = n
      <3>1. at[k] = n
        BY <1>2, <1>6, <2>4, <2>6
      <3> QED
        BY <2>2, <3>1
    <2>7. CASE at[k-1] # n
      <3>1. PICK p \in Tiles : p = at[k-1] /\ p >= k - 1
        BY <2>5, <2>7
      <3>2. p \in Nat /\ p < n /\ Stride(p) \in Nat /\ Stride(p) > 0
        BY <1>7
      <3>3. at[k] = p + Stride(p)
        BY <1>2, <1>6, <2>4, <3>1, <3>2
      <3>4. p + Stride(p) \in Tiles \cup {n} /\ p + Stride(p) >= k
        BY <2>4, <3>1, <3>2, TileAfter
      <3>5. Good(k)
        BY <3>3, <3>4
      <3> QED
        BY <2>2, <3>5
    <2> QED
      BY <2>6, <2>7
  <1>9. Visited \subseteq Tiles
    <2> SUFFICES ASSUME NEW k \in 0..MaxPages, at[k] \in 0..(n - 1) PROVE at[k] \in Tiles
      BY <1>1
    <2>1. Good(k)
      BY <1>8
    <2> QED
      BY <1>2, <2>1
  <1> DEFINE Miss == {p \in Tiles : \A k \in 0..MaxPages : at[k] # p}
  <1>10. Miss = {}
    <2>1. SUFFICES ASSUME Miss # {} PROVE FALSE
      OBVIOUS
    <2>2. PICK p \in Miss : \A i \in Miss : p <= i
      <3>1. Miss \in SUBSET Nat
        BY <1>7
      <3> HIDE DEF Miss
      <3> QED
        BY <2>1, <3>1, LowestNumber
    <2>3. p \in Tiles /\ p # 0 /\ p \in Nat /\ p < n
      BY <1>2, <1>6, <1>7, <2>2
    <2>4. PICK y \in Tiles : y < p /\ y + Stride(y) = p
      BY <2>3, TileBefore
    <2>5. y \in Nat /\ y < n
      BY <1>7
    <2>6. y \notin Miss
      BY <2>2, <2>3, <2>4, <2>5
    <2>7. PICK k \in 0..MaxPages : at[k] = y
      BY <2>6
    <2>8. y >= k
      <3>1. Good(k)
        BY <1>8
      <3> QED
        BY <1>2, <2>5, <2>7, <3>1
    <2>9. k + 1 \in 1..MaxPages /\ k + 1 \in 0..MaxPages /\ (k + 1) - 1 = k
      BY <1>2, <2>3, <2>4, <2>5, <2>8
    <2>10. at[k+1] = p
      BY <1>2, <1>6, <2>4, <2>5, <2>7, <2>9
    <2> QED
      BY <2>2, <2>9, <2>10
  <1>11. Tiles \subseteq Visited
    <2> SUFFICES ASSUME NEW p \in Tiles PROVE p \in Visited
      OBVIOUS
    <2>1. PICK k \in 0..MaxPages : at[k] = p
      BY <1>10
    <2>2. p \in 0..(n - 1)
      BY DEF Tiles
    <2> QED
      BY <1>1, <2>1, <2>2
  <1> QED
    BY <1>9, <1>11

\* The number of free pages that the walk counts is the sum over the free runs.
LEMMA FreePageSum ==
  ASSUME IInv
  PROVE  LET F == {p \in Visited : Kind(p) = "free"}
             f == [p \in F |-> pool.slab[p].count]
         IN  /\ F \subseteq 0..(n - 1) /\ f \in [F -> Nat]
             /\ \E g : Adds(f, F, g) /\ stat.free_page = g[F]
  <1> DEFINE F == {p \in Visited : Kind(p) = "free"}
             f == [p \in F |-> pool.slab[p].count]
             Add(g) == [s \in SUBSET F |->
                          IF s = {} THEN 0
                          ELSE pool.slab[CHOOSE x \in s : TRUE].count
                               + g[s \ {CHOOSE x \in s : TRUE}]]
             sum == CHOOSE g : g = Add(g)
  <1>1. stat.free_page = MapThenSumSet(LAMBDA p : pool.slab[p].count,
                                       {p \in Visited : Kind(p) = "free"})
    BY DEF stat
  <1>2. stat.free_page = sum[F]
    BY <1>1, Zenon DEF MapThenSumSet, MapThenFoldSet
  <1>3. F \subseteq 0..(n - 1) /\ F \subseteq Pgs /\ n \in Nat
    BY VisitedTiles, SlabAssumption DEF Tiles, IInv, Pgs
  <1>4. f \in [F -> Nat] /\ IsFiniteSet(F)
    <2>1. IsFiniteSet(0..(n - 1))
      <3>1. 0 \in Int /\ n - 1 \in Int
        BY <1>3
      <3> QED
        BY <3>1, FS_Interval
    <2>2. IsFiniteSet(F)
      BY <1>3, <2>1, FS_Subset
    <2>3. \A p \in Pgs : pool.slab[p].count \in Nat
      BY Strides
    <2> QED
      BY <1>3, <2>2, <2>3
  <1>5. ASSUME NEW g PROVE g = Add(g) <=> Solves(f, F, g)
    <2>1. ASSUME NEW s \in SUBSET F, s # {} PROVE f[Pick(s)] = pool.slab[Pick(s)].count
      BY <2>1 DEF Pick
    <2>2. Add(g) = [s \in SUBSET F |-> SumStep(f, g, s)]
      BY <2>1 DEF SumStep, Pick
    <2> QED
      BY <2>2, Zenon DEF Solves
  <1> HIDE DEF F, f
  <1>6. sum = Add(sum)
    <2>1. PICK g : Solves(f, F, g)
      BY <1>4, SumExists
    <2>2. g = Add(g)
      BY <1>5, <2>1, Zenon
    <2> QED
      BY <2>2, Zenon
  <1> HIDE DEF sum
  <1>7. Solves(f, F, sum)
    BY <1>5, <1>6, Zenon
  <1> HIDE DEF Add
  <1>8. Adds(f, F, sum)
    BY <1>4, <1>7, SumAdds
  <1> QED
    BY <1>2, <1>3, <1>4, <1>8 DEF F, f

\* When no block is held every page belongs to a free run, and the walk counts
\* them all.
LEMMA InvAllReturned == IInv => AllReturned
  <1> SUFFICES ASSUME IInv, live = {} PROVE stat.free_page = n
    BY DEF AllReturned
  <1>1. n \in 0..MaxPages /\ MaxPages \in Nat /\ n \in Nat /\ 0..(n - 1) \subseteq Pgs
    BY SlabAssumption DEF IInv, Pgs
  <1>2. PICK F : F = {p \in Visited : Kind(p) = "free"}
    OBVIOUS
  <1>3. PICK f : f = [p \in F |-> pool.slab[p].count]
    OBVIOUS
  <1>4. PICK g : Adds(f, F, g) /\ stat.free_page = g[F]
    BY <1>2, <1>3, FreePageSum
  <1>5. /\ F = Tiles
        /\ \A p \in Tiles : /\ Stride(p) = f[p] /\ p \in Nat /\ p < n
                            /\ Stride(p) \in Nat /\ Stride(p) > 0
    <2>1. ASSUME NEW p \in Tiles
          PROVE  /\ Kind(p) = "free" /\ Stride(p) = pool.slab[p].count /\ p \in Nat /\ p < n
                 /\ Stride(p) \in Nat /\ Stride(p) > 0
      <3>1. p \in 0..(n - 1) /\ p \in Pgs
        BY <1>1 DEF Tiles
      <3>2. pool.slab[p].mark = "none" /\ pool.slab[p].count > 0
        <4>1. PageUsed(pool, live, p)
          BY <3>1 DEF IInv, UsedInv
        <4> QED
          BY <4>1 DEF PageUsed, Tiles
      <3>3. Stride(p) = pool.slab[p].count /\ Kind(p) # "cut" /\ Stride(p) \in Nat
        BY <3>1, <3>2, Strides
      <3>4. pool.prev[p][1] # NULL
        <4>1. p \in Linked(pool)
          BY <3>1, <3>2 DEF IInv, PoolInv, PageInv, Linked
        <4>2. pool.prev[p][1] \in Linked(pool) \cup Heads
          BY <4>1 DEF IInv, PoolInv, LinkInv
        <4> QED
          BY <4>2, NodesDiffer DEF Linked
      <3> QED
        BY <1>1, <3>1, <3>2, <3>3, <3>4 DEF Kind
    <2>2. F = Tiles
      BY <1>2, <2>1, VisitedTiles
    <2> QED
      BY <1>3, <2>1, <2>2
  <1> DEFINE Upto(x) == {y \in Tiles : y < x}
             Bad == {x \in Tiles \cup {n} : g[Upto(x)] # x}
  <1>6. Bad = {}
    <2>1. SUFFICES ASSUME Bad # {} PROVE FALSE
      OBVIOUS
    <2>2. PICK x \in Bad : \A z \in Bad : x <= z
      <3>1. Bad \in SUBSET Nat
        BY <1>1, <1>5
      <3> HIDE DEF Bad
      <3> QED
        BY <2>1, <3>1, LowestNumber
    <2>3. x \in Tiles \cup {n} /\ x \in Nat /\ g[Upto(x)] # x
      BY <1>1, <1>5, <2>2
    <2>4. x # 0
      <3>1. Upto(0) = {}
        BY <1>5
      <3> QED
        BY <1>4, <2>3, <3>1 DEF Adds
    <2>5. PICK y \in Tiles : y < x /\ y + Stride(y) = x
      BY <2>3, <2>4, TileBefore
    <2>6. y \in Nat /\ Stride(y) \in Nat /\ Stride(y) = f[y]
      BY <1>5
    <2>7. g[Upto(y)] = y
      <3>1. y \notin Bad
        BY <2>2, <2>3, <2>5, <2>6
      <3> QED
        BY <3>1
    <2>8. Upto(x) \ {y} = Upto(y) /\ y \in Upto(x)
      <3>1. ASSUME NEW z \in Tiles, z < x, z # y PROVE z < y
        <4>1. z \in Nat
          BY <1>5
        <4>2. z \notin (y + 1)..(y + Stride(y) - 1)
          BY TilesApart
        <4> QED
          BY <2>3, <2>5, <2>6, <3>1, <4>1, <4>2
      <3>2. \A z \in Tiles : z < y => z < x /\ z # y
        BY <1>5, <2>3, <2>5, <2>6
      <3> QED
        BY <2>5, <3>1, <3>2
    <2>9. g[Upto(x)] = f[y] + g[Upto(y)]
      <3>1. PICK s : s = Upto(x)
        OBVIOUS
      <3>2. s \in SUBSET F /\ y \in s /\ s \ {y} = Upto(y)
        BY <1>5, <2>8, <3>1
      <3>3. g[s] = f[y] + g[s \ {y}]
        BY <1>4, <3>2 DEF Adds
      <3> QED
        BY <3>1, <3>2, <3>3
    <2> QED
      BY <2>3, <2>5, <2>6, <2>7, <2>9
  <1>7. g[Upto(n)] = n
    BY <1>6
  <1>8. Upto(n) = F
    BY <1>5
  <1> QED
    BY <1>4, <1>7, <1>8

\* Once every block has been freed, in whatever order, all pages are free again:
\* no page is lost.
THEOREM NoPageLost == Spec => []AllReturned
  BY InvInit, InvNext, InvAllReturned, PTL DEF Spec

-----------------------------------------------------------------------------
(* What ncx_slab_stat reports.                                               *)

\* A set of numbers with a bound has a largest one.
LEMMA HighestNumber ==
  ASSUME NEW b \in Nat, NEW S \in SUBSET (0..b), S # {}
  PROVE  Max(S) \in S /\ \A x \in S : x <= Max(S)
  <1> DEFINE D == {b - x : x \in S}
  <1>1. D \in SUBSET Nat /\ D # {}
    <2>1. \A x \in S : b - x \in Nat
      OBVIOUS
    <2>2. PICK x : x \in S
      OBVIOUS
    <2>3. b - x \in D
      BY <2>2
    <2> QED
      BY <2>1, <2>3
  <1>2. PICK d \in D : \A e \in D : d <= e
    <2> HIDE DEF D
    <2> QED
      BY <1>1, LowestNumber
  <1>3. PICK x \in S : d = b - x
    BY <1>2
  <1>4. \A y \in S : x >= y
    <2> TAKE y \in S
    <2>1. b - x <= b - y /\ x \in Int /\ y \in Int
      BY <1>2, <1>3
    <2> QED
      BY <2>1
  <1>5. Max(S) \in S /\ \A y \in S : Max(S) >= y
    BY <1>4 DEF Max
  <1> QED
    BY <1>5

\* The walk tells the runs that were given out from the free ones.
LEMMA TileKinds ==
  ASSUME IInv, NEW p \in Tiles
  PROVE  /\ p \in 0..(n - 1) /\ p \in Pgs
         /\ Kind(p) = "cut" <=> pool.slab[p].mark = "cut"
         /\ Kind(p) = "taken" <=> pool.slab[p].mark = "start"
         /\ Kind(p) = "free" <=> pool.slab[p].mark = "none"
         /\ pool.slab[p].mark # "cut" => pool.slab[p].count > 0
  <1>1. p \in 0..(n - 1) /\ p \in Pgs
    BY SlabAssumption DEF Tiles, IInv, Pgs
  <1>2. PageInv(pool, n, p)
    BY <1>1 DEF IInv, PoolInv
  <1>3. Kind(p) = "cut" <=> pool.slab[p].mark = "cut"
    BY <1>1, Strides
  <1>4. pool.slab[p].mark = "start" => pool.prev[p][1] = NULL
    BY <1>2 DEF PageInv
  <1>5. ASSUME pool.slab[p].mark = "none" PROVE pool.prev[p][1] # NULL
    <2>1. p \in Linked(pool)
      BY <1>1, <1>2, <1>5 DEF PageInv, Linked, Tiles
    <2>2. pool.prev[p][1] \in Linked(pool) \cup Heads
      BY <2>1 DEF IInv, PoolInv, LinkInv
    <2> QED
      BY <2>2, NodesDiffer DEF Linked
  <1> QED
    BY <1>1, <1>3, <1>4, <1>5 DEF Kind, Tiles

\* The largest run that the walk sees is the largest that the search of
\* ncx_slab_alloc_pages can find.
LEMMA MaxFreeExact ==
  ASSUME IInv
  PROVE  /\ FirstFit(pool, stat.max_free_pages + 1) = {}
         /\ stat.max_free_pages > 0 => FirstFit(pool, stat.max_free_pages) # {}
  <1>1. /\ n \in 0..MaxPages /\ MaxPages \in Nat /\ n \in Nat /\ 0..(n - 1) \subseteq Pgs
        /\ PoolInv(pool, n)
    BY SlabAssumption DEF IInv, Pgs
  <1>2. PICK R : R = {p \in Tiles : pool.slab[p].mark = "none"}
    OBVIOUS
  <1>3. PICK C : C = {pool.slab[p].count : p \in R} \cup {0}
    OBVIOUS
  <1>4. PICK m : m = stat.max_free_pages
    OBVIOUS
  <1>5. m = Max(C)
    <2>1. {q \in Visited : Kind(q) = "free"} = R
      BY <1>2, VisitedTiles, TileKinds
    <2>2. stat.max_free_pages =
             Max({pool.slab[p].count : p \in {q \in Visited : Kind(q) = "free"}} \cup {0})
      BY DEF stat
    <2> QED
      BY <1>3, <1>4, <2>1, <2>2
  <1>6. ASSUME NEW p \in Pgs, pool.slab[p].mark = "none", pool.slab[p].count > 0
        PROVE  p \in R /\ pool.slab[p].count \in 0..n /\ p \in ToSet(Listed(pool, Free))
    <2>1. p + pool.slab[p].count <= n /\ p \in Linked(pool)
      BY <1>1, <1>6 DEF PoolInv, PageInv, Linked
    <2>2. pool.slab[p].count \in Nat /\ p \in Nat
      BY Strides
    <2>3. p \in 0..(n - 1)
      BY <1>1, <1>6, <2>1, <2>2
    <2>4. Owner(pool)[p] = Free
      BY <1>1, <1>6, Owned
    <2>5. p \in ToSet(Listed(pool, Free))
      BY <1>1, <2>1, <2>4, ListExact, NodesDiffer
    <2> QED
      BY <1>1, <1>2, <1>6, <2>1, <2>2, <2>3, <2>5 DEF Tiles
  <1>7. m \in C /\ (\A x \in C : x <= m) /\ m \in Nat
    <2>1. \A p \in R : p \in Pgs /\ pool.slab[p].mark = "none" /\ pool.slab[p].count > 0
      BY <1>1, <1>2 DEF Tiles
    <2>2. C \in SUBSET (0..n) /\ C # {}
      BY <1>1, <1>3, <1>6, <2>1
    <2>3. n \in Nat /\ Max(C) \in C /\ \A x \in C : x <= Max(C)
      BY <1>1, <2>2, HighestNumber
    <2>4. m \in C /\ \A x \in C : x <= m
      BY <1>5, <2>3
    <2>5. m \in 0..n
      BY <2>2, <2>4
    <2> QED
      BY <1>1, <2>4, <2>5
  <1>8. FirstFit(pool, m + 1) = {}
    <2> SUFFICES ASSUME NEW p \in FirstFit(pool, m + 1) PROVE FALSE
      OBVIOUS
    <2>1. p \in Linked(pool) /\ p \in Pgs /\ pool.slab[p].mark # "cut"
          /\ m + 1 <= pool.slab[p].count /\ pool.slab[p].count \in Nat
      BY <1>1, <1>7, FirstFitFree
    <2>2. pool.slab[p].mark = "none" /\ pool.slab[p].count > 0
      <3>1. pool.slab[p].count > 0
        BY <1>7, <2>1
      <3>2. PageInv(pool, n, p) /\ pool.next[p] # NULL
        BY <1>1, <2>1 DEF PoolInv, Linked
      <3> QED
        BY <2>1, <3>1, <3>2 DEF PageInv
    <2>3. pool.slab[p].count \in C
      BY <1>3, <1>6, <2>1, <2>2
    <2> QED
      BY <1>7, <2>1, <2>3
  <1>9. ASSUME m > 0 PROVE FirstFit(pool, m) # {}
    <2>1. PICK p \in R : pool.slab[p].count = m
      BY <1>3, <1>7, <1>9
    <2>2. PICK list : list = Listed(pool, Free)
      OBVIOUS
    <2>3. p \in ToSet(list)
      BY <1>1, <1>2, <1>6, <1>9, <2>1, <2>2 DEF Tiles
    <2>4. PICK k \in Nat : DOMAIN list = 1..k
      <3>1. PICK f, stop : ListWalk(pool, Free, f, stop)
        BY <1>1, ListedWalk, NodesDiffer DEF PoolInv
      <3>2. DOMAIN list = 1..(stop - 1) /\ stop \in 1..(MaxPages + 1)
        BY <2>2, <3>1 DEF ListWalk
      <3>3. stop - 1 \in Nat
        BY <1>1, <3>2
      <3> QED
        BY <3>2, <3>3
    <2> DEFINE J == {j \in DOMAIN list : Fits(pool, list[j], m)}
    <2>5. PICK j \in J : \A i \in J : j <= i
      <3>1. J \in SUBSET Nat
        BY <2>4
      <3>2. J # {}
        BY <1>7, <2>1, <2>3 DEF ToSet, Fits
      <3> HIDE DEF J
      <3> QED
        BY <3>1, <3>2, LowestNumber
    <2>6. \A h \in 1..(j - 1) : ~Fits(pool, list[h], m)
      <3> TAKE h \in 1..(j - 1)
      <3>1. h \in DOMAIN list /\ ~(j <= h)
        BY <2>4, <2>5
      <3> QED
        BY <2>5, <3>1
    <2> QED
      BY <2>2, <2>5, <2>6 DEF FirstFit
  <1> QED
    BY <1>4, <1>8, <1>9
\* The blocks on page p.
Blocks(p) == {b \in live : b[1] \div pagesize = p}

\* A block lies on the page that its address says: a chunk page, or the first of
\* a run that was given out.
LEMMA BlockPage ==
  ASSUME IInv, NEW b \in live
  PROVE  LET p == b[1] \div pagesize
         IN  /\ b \in Nat \X Nat /\ p \in Tiles /\ p \in Pgs /\ Held(pool, b, p)
             /\ b[1] \in 0..(MaxPages * pagesize)
  <1>1. /\ n \in 0..MaxPages /\ PoolInv(pool, n) /\ MaxPages \in Nat /\ n \in Nat
        /\ b \in Nat \X Nat
    BY SlabAssumption DEF IInv, LiveInv
  <1>2. PICK p \in Pgs : Held(pool, b, p)
    BY DEF IInv, LiveInv
  <1>3. PICK k : Extent(pool, b, p, k, n)
    BY <1>1, <1>2, HeldExtent
  <1>4. b[1] \div pagesize = p /\ k \in Nat \ {0} /\ p + k <= n /\ p \in Nat
    BY <1>3 DEF Extent, Pgs
  <1>5. p \in Tiles
    <2>1. p \in 0..(n - 1)
      BY <1>1, <1>4
    <2>2. \/ pool.slab[p].mark = "cut"
          \/ pool.slab[p].mark \in {"none", "start"} /\ pool.slab[p].count > 0
      BY <1>3, <1>4 DEF Extent
    <2> QED
      BY <2>1, <2>2 DEF Tiles
  <1>6. b[1] \in 0..(MaxPages * pagesize)
    <2>1. PICK P : P = pagesize
      OBVIOUS
    <2>2. P \in Nat \ {0} /\ b[1] \in Nat
      BY <1>1, <2>1, SlabAssumption
    <2>3. b[1] < p * P + P
      BY <1>3, <2>1 DEF Extent
    <2>4. (p + 1) * P <= MaxPages * P
      BY <1>1, <1>4, <2>2, Scaled
    <2>5. (p + 1) * P = p * P + P /\ p * P \in Int /\ MaxPages * P \in Int
      BY <1>1, <1>4, <2>2
    <2> QED
      BY <2>1, <2>2, <2>3, <2>4, <2>5
  <1> QED
    BY <1>1, <1>2, <1>4, <1>5, <1>6

\* Only finitely many blocks are held.
LEMMA LiveFinite ==
  ASSUME IInv
  PROVE  IsFiniteSet(live)
  <1>1. PICK k : k = MaxPages * pagesize
    OBVIOUS
  <1>2. k \in Int /\ IsFiniteSet(0..k)
    <2>1. MaxPages \in Nat /\ pagesize \in Nat
      BY SlabAssumption
    <2>2. k \in Int
      BY <1>1, <2>1
    <2> QED
      BY <2>2, FS_Interval
  <1>3. PICK f : f = [b \in live |-> b[1]]
    OBVIOUS
  <1>4. f \in [live -> 0..k]
    <2>1. \A b \in live : b[1] \in 0..k
      BY <1>1, BlockPage
    <2> QED
      BY <1>3, <2>1
  <1>5. \A b, c \in live : f[b] = f[c] => b = c
    BY <1>3 DEF IInv, LiveInv
  <1>6. f \in Injection(live, 0..k)
    BY <1>4, <1>5 DEF Injection, IsInjective
  <1> QED
    BY <1>2, <1>6, FS_Injection

\* What the walk counts for a run that was given out is its block.
LEMMA RunBytes ==
  ASSUME IInv, NEW p \in Tiles, pool.slab[p].mark = "start"
  PROVE  /\ UsedBytes(p) \in Nat /\ UsedBytes(p) = pool.slab[p].count * pagesize
         /\ Cardinality(Blocks(p)) = 1 /\ BitmapBytes(p) = 0
         /\ \A b \in Blocks(p) : Capacity(b) = UsedBytes(p)
  <1>1. p \in Pgs /\ Kind(p) = "taken" /\ pool.slab[p].count \in Nat
    BY TileKinds, Strides
  <1>2. UsedBytes(p) = pool.slab[p].count * pagesize
    BY <1>1 DEF UsedBytes
  <1>3. UsedBytes(p) \in Nat
    <2>1. PICK P, k : P = pagesize /\ k = pool.slab[p].count
      OBVIOUS
    <2>2. P \in Nat /\ k \in Nat
      BY <1>1, <2>1, SlabAssumption
    <2>3. k * P \in Nat
      BY <2>2
    <2> QED
      BY <1>2, <2>1, <2>3
  <1>4. PICK b \in live : PageBlock(pool, b, p)
    BY <1>1 DEF IInv, UsedInv, PageUsed
  <1>5. \A c \in Blocks(p) : c \in live /\ PageBlock(pool, c, p)
    <2> TAKE c \in Blocks(p)
    <2>1. c \in live /\ Held(pool, c, p)
      BY BlockPage DEF Blocks
    <2> QED
      BY <2>1 DEF Held, ChunkBlock
  <1>6. b \in Blocks(p)
    <2>1. Held(pool, b, p) /\ b \in Nat \X Nat /\ n \in 0..MaxPages /\ PoolInv(pool, n)
      BY <1>4 DEF Held, IInv, LiveInv
    <2>2. PICK k : Extent(pool, b, p, k, n)
      BY <1>1, <2>1, HeldExtent
    <2> QED
      BY <2>2 DEF Extent, Blocks
  <1>7. Blocks(p) = {b}
    <2>1. \A c \in Blocks(p) : c[1] = b[1]
      BY <1>4, <1>5 DEF PageBlock
    <2>2. \A c \in Blocks(p) : c = b
      BY <1>4, <1>5, <2>1 DEF IInv, LiveInv
    <2> QED
      BY <1>6, <2>2
  <1>8. Cardinality(Blocks(p)) = 1
    BY <1>7, FS_Singleton
  <1>9. Capacity(b) = UsedBytes(p)
    BY <1>2, <1>4 DEF PageBlock
  <1>10. BitmapBytes(p) = 0
    BY DEF BitmapBytes
  <1> QED
    BY <1>2, <1>3, <1>7, <1>8, <1>9, <1>10
\* What the walk counts for a chunk page is its blocks and its bitmap: the busy
\* chunks are those of the bitmap and one for each block.
LEMMA ChunkBytes ==
  ASSUME IInv, NEW p \in Tiles, pool.slab[p].mark = "cut"
  PROVE  LET shift == pool.slab[p].shift
         IN  /\ 2^shift \in Nat /\ UsedBytes(p) \in Nat /\ BitmapBytes(p) \in Nat
             /\ Cardinality(Blocks(p)) \in Nat
             /\ UsedBytes(p) = Cardinality(Blocks(p)) * 2^shift + BitmapBytes(p)
             /\ \A b \in Blocks(p) : Capacity(b) = 2^shift
  <1>1. /\ p \in Pgs /\ Kind(p) = "cut" /\ n \in 0..MaxPages /\ PoolInv(pool, n)
        /\ PageInv(pool, n, p)
    BY TileKinds DEF IInv, PoolInv
  <1>2. PICK shift, S, R, B :
           shift = pool.slab[p].shift /\ S = 2^shift /\ R = Reserved(shift) /\ B = pool.slab[p].busy
    OBVIOUS
  <1>3. /\ shift \in Shifts /\ B \subseteq 0..(Chunks(shift) - 1) /\ 0..(R - 1) \subseteq B
    BY <1>1, <1>2 DEF PageInv
  <1>4. S \in Nat /\ R \in Nat /\ Chunks(shift) \in Nat
    BY <1>2, <1>3, SlabAssumption
  <1>5. IsFiniteSet(B) /\ Cardinality(B) \in Nat
    <2>1. IsFiniteSet(0..(Chunks(shift) - 1))
      BY <1>4, FS_Interval
    <2> QED
      BY <1>3, <2>1, FS_Subset, FS_CardinalityType
  <1>6. PICK T : T = B \ 0..(R - 1)
    OBVIOUS
  <1>7. IsFiniteSet(T) /\ Cardinality(T) \in Nat /\ Cardinality(B) = Cardinality(T) + R
    <2>1. B \cap 0..(R - 1) = 0..(R - 1)
      BY <1>3
    <2>2. Cardinality(0..(R - 1)) = R
      <3>1. 0 \in Int /\ R - 1 \in Int
        BY <1>4
      <3>2. Cardinality(0..(R - 1)) = IF 0 > R - 1 THEN 0 ELSE (R - 1) - 0 + 1
        BY <3>1, FS_Interval
      <3> QED
        BY <1>4, <3>2
    <2>3. IsFiniteSet(T) /\ Cardinality(T) = Cardinality(B) - Cardinality(B \cap 0..(R - 1))
      BY <1>5, <1>6, FS_Difference
    <2>4. Cardinality(T) \in Nat
      BY <2>3, FS_CardinalityType
    <2>5. Cardinality(T) = Cardinality(B) - R
      BY <2>1, <2>2, <2>3
    <2> QED
      BY <1>4, <1>5, <2>3, <2>4, <2>5
  <1>8. ASSUME NEW b \in Blocks(p)
        PROVE  /\ b \in live /\ Capacity(b) = S
               /\ \E c \in T : /\ ChunkBlock(pool, b, p, c)
                               /\ (b[1] % pagesize) \div S = c
    <2>1. b \in live /\ Held(pool, b, p) /\ b \in Nat \X Nat
      BY BlockPage DEF Blocks
    <2>2. PICK c \in B : ChunkBlock(pool, b, p, c)
      BY <1>2, <2>1 DEF Held, PageBlock
    <2>3. /\ c \in 0..(Chunks(shift) - 1) /\ c >= R /\ (b[1] % pagesize) \div S = c
      BY <1>1, <1>2, <2>1, <2>2, HeldChunk
    <2>4. c \in T
      BY <1>4, <1>6, <2>3
    <2>5. Capacity(b) = S
      BY <1>2, <2>2 DEF ChunkBlock
    <2> QED
      BY <2>1, <2>2, <2>3, <2>4, <2>5
  <1>9. PICK e : e = [b \in Blocks(p) |-> (b[1] % pagesize) \div S]
    OBVIOUS
  <1>10. e \in Injection(Blocks(p), T)
    <2>1. e \in [Blocks(p) -> T]
      BY <1>8, <1>9
    <2>2. ASSUME NEW b \in Blocks(p), NEW c \in Blocks(p), e[b] = e[c] PROVE b = c
      <3>1. b \in live /\ c \in live
        BY DEF Blocks
      <3>2. ChunkBlock(pool, b, p, e[b]) /\ ChunkBlock(pool, c, p, e[c])
        BY <1>8, <1>9
      <3>3. b[1] = c[1]
        BY <2>2, <3>2 DEF ChunkBlock
      <3> QED
        BY <3>1, <3>3 DEF IInv, LiveInv
    <2> QED
      BY <2>1, <2>2 DEF Injection, IsInjective
  <1>11. e \in Surjection(Blocks(p), T)
    <2>1. ASSUME NEW c \in T PROVE \E b \in Blocks(p) : e[b] = c
      <3>1. c \in B /\ c >= R
        BY <1>3, <1>4, <1>6
      <3>2. PICK b \in live : ChunkBlock(pool, b, p, c)
        BY <1>1, <1>2, <3>1 DEF IInv, UsedInv, PageUsed
      <3>3. Held(pool, b, p) /\ b \in Nat \X Nat
        BY <1>2, <3>1, <3>2 DEF Held, IInv, LiveInv
      <3>4. PICK k : Extent(pool, b, p, k, n)
        BY <1>1, <3>3, HeldExtent
      <3>5. b \in Blocks(p)
        BY <3>4 DEF Extent, Blocks
      <3>6. (b[1] % pagesize) \div S = c
        BY <1>1, <1>2, <3>1, <3>2, <3>3, HeldChunk
      <3> QED
        BY <1>9, <3>5, <3>6
    <2>2. e \in [Blocks(p) -> T]
      BY <1>10 DEF Injection
    <2> QED
      BY <2>1, <2>2 DEF Surjection
  <1>12. Cardinality(Blocks(p)) = Cardinality(T)
    BY <1>7, <1>10, <1>11, FS_Injection
  <1>13. UsedBytes(p) = Cardinality(B) * S /\ BitmapBytes(p) = R * S
    BY <1>1, <1>2 DEF UsedBytes, BitmapBytes
  <1>14. PICK t \in Nat : t = Cardinality(T)
    BY <1>7
  <1>15. /\ (t + R) * S = t * S + R * S /\ (t + R) * S \in Nat /\ R * S \in Nat
    BY <1>4
  <1>16. /\ S \in Nat /\ UsedBytes(p) \in Nat /\ BitmapBytes(p) \in Nat
         /\ Cardinality(Blocks(p)) \in Nat
         /\ UsedBytes(p) = Cardinality(Blocks(p)) * S + BitmapBytes(p)
    BY <1>4, <1>7, <1>12, <1>13, <1>14, <1>15
  <1> QED
    BY <1>2, <1>8, <1>16

\* What the walk counts for a page, and what is held there.
PageBytes(p, c) ==
    /\ c \in Nat /\ \A b \in Blocks(p) : Capacity(b) = c
    /\ Cardinality(Blocks(p)) \in Nat /\ UsedBytes(p) \in Nat /\ BitmapBytes(p) \in Nat
    /\ UsedBytes(p) = Cardinality(Blocks(p)) * c + BitmapBytes(p)

\* The walk counts the blocks and the bitmap of each page that it looks at.
LEMMA TileBytes ==
  ASSUME IInv, NEW p \in Tiles
  PROVE  \E c : PageBytes(p, c)
  <1>1. CASE pool.slab[p].mark = "start"
    <2>1. PICK c : c = UsedBytes(p)
      OBVIOUS
    <2>2. /\ c \in Nat /\ Cardinality(Blocks(p)) = 1 /\ BitmapBytes(p) = 0
          /\ \A b \in Blocks(p) : Capacity(b) = c
      BY <1>1, <2>1, RunBytes
    <2>3. c = 1 * c + 0
      BY <2>2
    <2> QED
      BY <2>1, <2>2, <2>3 DEF PageBytes
  <1>2. CASE pool.slab[p].mark = "cut"
    <2>1. PICK c : c = 2^pool.slab[p].shift
      OBVIOUS
    <2> QED
      BY <1>2, <2>1, ChunkBytes DEF PageBytes
  <1>3. CASE pool.slab[p].mark = "none"
    <2>1. Kind(p) = "free" /\ UsedBytes(p) = 0 /\ BitmapBytes(p) = 0
      BY <1>3, TileKinds DEF UsedBytes, BitmapBytes
    <2>2. Blocks(p) = {}
      <3>1. \A b \in Blocks(p) : Held(pool, b, p)
        BY BlockPage DEF Blocks
      <3> QED
        BY <1>3, <3>1 DEF Held, PageBlock, ChunkBlock
    <2>3. Cardinality(Blocks(p)) = 0
      BY <2>2, FS_EmptySet
    <2> QED
      BY <2>1, <2>2, <2>3 DEF PageBytes
  <1> QED
    BY <1>1, <1>2, <1>3 DEF Tiles

\* On the other pages nothing starts.
LEMMA OtherBytes ==
  ASSUME IInv, NEW p \in 0..(n - 1), p \notin Tiles
  PROVE  Blocks(p) = {} /\ BitmapBytes(p) = 0
  <1>1. Blocks(p) = {}
    BY BlockPage DEF Blocks
  <1>2. BitmapBytes(p) = 0
    BY DEF BitmapBytes, Tiles
  <1> QED
    BY <1>1, <1>2
\* The sum of what the walk counts.
LEMMA UsedSum ==
  ASSUME IInv
  PROVE  LET D == Tiles
             f == [x \in D |-> UsedBytes(x)]
         IN  /\ IsFiniteSet(D) /\ f \in [D -> Nat]
             /\ \E g : Adds(f, D, g) /\ MapThenSumSet(UsedBytes, D) = g[D]
  <1> DEFINE D == Tiles
             f == [x \in D |-> UsedBytes(x)]
             Add(g) == [s \in SUBSET D |->
                          IF s = {} THEN 0
                          ELSE UsedBytes(CHOOSE x \in s : TRUE) + g[s \ {CHOOSE x \in s : TRUE}]]
             sum == CHOOSE g : g = Add(g)
  <1>1. MapThenSumSet(UsedBytes, D) = sum[D]
    BY Zenon DEF MapThenSumSet, MapThenFoldSet
  <1>2. IsFiniteSet(D) /\ f \in [D -> Nat]
    <2>1. IsFiniteSet(0..(n - 1))
      <3>1. 0 \in Int /\ n - 1 \in Int
        BY DEF IInv
      <3> QED
        BY <3>1, FS_Interval
    <2>2. IsFiniteSet(D)
      BY <2>1, FS_Subset DEF Tiles
    <2>3. \A p \in Tiles : UsedBytes(p) \in Nat
      BY TileBytes DEF PageBytes
    <2> QED
      BY <2>2, <2>3
  <1>3. ASSUME NEW g PROVE g = Add(g) <=> Solves(f, D, g)
    <2>1. ASSUME NEW s \in SUBSET D, s # {} PROVE f[Pick(s)] = UsedBytes(Pick(s))
      BY <2>1 DEF Pick
    <2>2. Add(g) = [s \in SUBSET D |-> SumStep(f, g, s)]
      BY <2>1 DEF SumStep, Pick
    <2> QED
      BY <2>2, Zenon DEF Solves
  <1> HIDE DEF D, f
  <1>4. sum = Add(sum)
    <2>1. PICK g : Solves(f, D, g)
      BY <1>2, SumExists
    <2>2. g = Add(g)
      BY <1>3, <2>1, Zenon
    <2> QED
      BY <2>2, Zenon
  <1> HIDE DEF sum
  <1>5. Solves(f, D, sum)
    BY <1>3, <1>4, Zenon
  <1> HIDE DEF Add
  <1>6. Adds(f, D, sum)
    BY <1>2, <1>5, SumAdds
  <1> QED
    BY <1>1, <1>2, <1>6 DEF D, f

\* The sum of what is set aside for the blocks.
LEMMA CapacitySum ==
  ASSUME IInv
  PROVE  LET D == live
             f == [x \in D |-> Capacity(x)]
         IN  /\ IsFiniteSet(D) /\ f \in [D -> Nat]
             /\ \E g : Adds(f, D, g) /\ MapThenSumSet(Capacity, D) = g[D]
  <1> DEFINE D == live
             f == [x \in D |-> Capacity(x)]
             Add(g) == [s \in SUBSET D |->
                          IF s = {} THEN 0
                          ELSE Capacity(CHOOSE x \in s : TRUE) + g[s \ {CHOOSE x \in s : TRUE}]]
             sum == CHOOSE g : g = Add(g)
  <1>1. MapThenSumSet(Capacity, D) = sum[D]
    BY Zenon DEF MapThenSumSet, MapThenFoldSet
  <1>2. IsFiniteSet(D) /\ f \in [D -> Nat]
    <2>1. ASSUME NEW b \in live PROVE Capacity(b) \in Nat
      <3>1. PICK p : p \in Tiles /\ b \in Blocks(p)
        BY BlockPage DEF Blocks
      <3>2. PICK c : PageBytes(p, c)
        BY <3>1, TileBytes
      <3> QED
        BY <3>1, <3>2 DEF PageBytes
    <2> QED
      BY <2>1, LiveFinite
  <1>3. ASSUME NEW g PROVE g = Add(g) <=> Solves(f, D, g)
    <2>1. ASSUME NEW s \in SUBSET D, s # {} PROVE f[Pick(s)] = Capacity(Pick(s))
      BY <2>1 DEF Pick
    <2>2. Add(g) = [s \in SUBSET D |-> SumStep(f, g, s)]
      BY <2>1 DEF SumStep, Pick
    <2> QED
      BY <2>2, Zenon DEF Solves
  <1> HIDE DEF D, f
  <1>4. sum = Add(sum)
    <2>1. PICK g : Solves(f, D, g)
      BY <1>2, SumExists
    <2>2. g = Add(g)
      BY <1>3, <2>1, Zenon
    <2> QED
      BY <2>2, Zenon
  <1> HIDE DEF sum
  <1>5. Solves(f, D, sum)
    BY <1>3, <1>4, Zenon
  <1> HIDE DEF Add
  <1>6. Adds(f, D, sum)
    BY <1>2, <1>5, SumAdds
  <1> QED
    BY <1>1, <1>2, <1>6 DEF D, f

\* The sum of what the bitmaps take.
LEMMA BitmapSum ==
  ASSUME IInv
  PROVE  LET D == 0..(n - 1)
             f == [x \in D |-> BitmapBytes(x)]
         IN  /\ IsFiniteSet(D) /\ f \in [D -> Nat]
             /\ \E g : Adds(f, D, g) /\ MapThenSumSet(BitmapBytes, D) = g[D]
  <1> DEFINE D == 0..(n - 1)
             f == [x \in D |-> BitmapBytes(x)]
             Add(g) == [s \in SUBSET D |->
                          IF s = {} THEN 0
                          ELSE BitmapBytes(CHOOSE x \in s : TRUE) + g[s \ {CHOOSE x \in s : TRUE}]]
             sum == CHOOSE g : g = Add(g)
  <1>1. MapThenSumSet(BitmapBytes, D) = sum[D]
    BY Zenon DEF MapThenSumSet, MapThenFoldSet
  <1>2. IsFiniteSet(D) /\ f \in [D -> Nat]
    <2>1. IsFiniteSet(D)
      <3>1. 0 \in Int /\ n - 1 \in Int
        BY DEF IInv
      <3> QED
        BY <3>1, FS_Interval
    <2>2. ASSUME NEW p \in D PROVE BitmapBytes(p) \in Nat
      <3>1. CASE p \in Tiles
        BY <3>1, TileBytes DEF PageBytes
      <3>2. CASE p \notin Tiles
        BY <3>2, OtherBytes
      <3> QED
        BY <3>1, <3>2
    <2> QED
      BY <2>1, <2>2
  <1>3. ASSUME NEW g PROVE g = Add(g) <=> Solves(f, D, g)
    <2>1. ASSUME NEW s \in SUBSET D, s # {} PROVE f[Pick(s)] = BitmapBytes(Pick(s))
      BY <2>1 DEF Pick
    <2>2. Add(g) = [s \in SUBSET D |-> SumStep(f, g, s)]
      BY <2>1 DEF SumStep, Pick
    <2> QED
      BY <2>2, Zenon DEF Solves
  <1> HIDE DEF D, f
  <1>4. sum = Add(sum)
    <2>1. PICK g : Solves(f, D, g)
      BY <1>2, SumExists
    <2>2. g = Add(g)
      BY <1>3, <2>1, Zenon
    <2> QED
      BY <2>2, Zenon
  <1> HIDE DEF sum
  <1>5. Solves(f, D, sum)
    BY <1>3, <1>4, Zenon
  <1> HIDE DEF Add
  <1>6. Adds(f, D, sum)
    BY <1>2, <1>5, SumAdds
  <1> QED
    BY <1>1, <1>2, <1>6 DEF D, f
\* Page by page, the walk counts the blocks that are held and the bitmaps.
LEMMA UsedExact ==
  ASSUME IInv
  PROVE  stat.used_size = MapThenSumSet(Capacity, live) + MapThenSumSet(BitmapBytes, 0..(n - 1))
  <1>1. n \in Nat /\ Tiles \subseteq 0..(n - 1)
    BY SlabAssumption DEF IInv, Tiles
  <1>2. PICK D : D = 0..(n - 1)
    OBVIOUS
  <1>3. PICK fu, fc, fb : /\ fu = [p \in Tiles |-> UsedBytes(p)]
                          /\ fc = [b \in live |-> Capacity(b)]
                          /\ fb = [p \in D |-> BitmapBytes(p)]
    OBVIOUS
  <1>4. PICK gu : Adds(fu, Tiles, gu) /\ stat.used_size = gu[Tiles]
    <2>1. stat.used_size = MapThenSumSet(UsedBytes, Tiles)
      BY VisitedTiles DEF stat
    <2> QED
      BY <1>3, <2>1, UsedSum
  <1>5. PICK gc : Adds(fc, live, gc) /\ MapThenSumSet(Capacity, live) = gc[live]
    BY <1>3, CapacitySum
  <1>6. PICK gb : Adds(fb, D, gb) /\ MapThenSumSet(BitmapBytes, D) = gb[D]
    BY <1>2, <1>3, BitmapSum
  <1>7. IsFiniteSet(live) /\ fc \in [live -> Nat]
    BY <1>3, CapacitySum
  <1>8. PICK page : /\ page \in [live -> D]
                    /\ \A k : Blocks(k) = {b \in live : page[b] = k}
    <2>1. \A b \in live : b[1] \div pagesize \in D
      BY <1>1, <1>2, BlockPage
    <2>2. PICK page : page = [b \in live |-> b[1] \div pagesize]
      OBVIOUS
    <2>3. page \in [live -> D]
      BY <2>1, <2>2
    <2>4. \A k : Blocks(k) = {b \in live : page[b] = k}
      BY <2>2 DEF Blocks
    <2> QED
      BY <2>3, <2>4
  <1>9. \A p \in D : p \in Nat /\ p < n /\ ~(p < 0)
    BY <1>1, <1>2
  <1> DEFINE U(k) == {p \in Tiles : p < k}
             L(k) == {b \in live : page[b] < k}
             M(k) == {p \in D : p < k}
             Exact(k) == gu[U(k)] = gc[L(k)] + gb[M(k)]
             Bad == {k \in 0..n : ~Exact(k)}
  <1>10. Exact(0)
    <2>1. U(0) = {} /\ M(0) = {}
      BY <1>1, <1>2, <1>9
    <2>2. L(0) = {}
      BY <1>8, <1>9
    <2>3. gu[{}] = 0 /\ gc[{}] = 0 /\ gb[{}] = 0
      BY <1>4, <1>5, <1>6 DEF Adds
    <2>4. 0 = 0 + 0
      OBVIOUS
    <2> HIDE DEF U, L, M
    <2> QED
      BY <2>1, <2>2, <2>3, <2>4
  <1>11. ASSUME NEW k \in D, Exact(k) PROVE Exact(k + 1)
    <2>1. k \in Nat /\ ~(k < k) /\ \A p \in D : p < k + 1 <=> p < k \/ p = k
      BY <1>1, <1>2
    <2>2. /\ gu[U(k)] \in Nat /\ gc[L(k)] \in Nat /\ gb[M(k)] \in Nat
      <3>1. U(k) \in SUBSET Tiles /\ L(k) \in SUBSET live /\ M(k) \in SUBSET D
        OBVIOUS
      <3> HIDE DEF U, L, M
      <3> QED
        BY <1>4, <1>5, <1>6, <3>1 DEF Adds
    <2>3. gb[M(k + 1)] = BitmapBytes(k) + gb[M(k)]
      <3>1. PICK s : s = M(k + 1)
        OBVIOUS
      <3>2. s \in SUBSET D /\ k \in s /\ s \ {k} = M(k)
        <4>1. \A p : p \in s <=> p \in D /\ (p < k \/ p = k)
          BY <2>1, <3>1
        <4>2. \A p : p \in M(k) <=> p \in D /\ p < k
          OBVIOUS
        <4> HIDE DEF M
        <4> QED
          BY <2>1, <4>1, <4>2, Zenon
      <3>3. gb[s] = fb[k] + gb[s \ {k}]
        BY <1>6, <3>2 DEF Adds
      <3>4. fb[k] = BitmapBytes(k)
        BY <1>3
      <3> QED
        BY <3>1, <3>2, <3>3, <3>4
    <2>4. L(k + 1) = L(k) \cup Blocks(k) /\ L(k) \cap Blocks(k) = {}
          /\ L(k) \in SUBSET live /\ Blocks(k) \in SUBSET live
      <3>1. \A b : b \in L(k + 1) <=> b \in live /\ (page[b] < k \/ page[b] = k)
        BY <1>8, <2>1
      <3>2. \A b : b \in L(k) <=> b \in live /\ page[b] < k
        OBVIOUS
      <3>3. \A b : b \in Blocks(k) <=> b \in live /\ page[b] = k
        BY <1>8
      <3> HIDE DEF L
      <3> QED
        BY <2>1, <3>1, <3>2, <3>3, Zenon
    <2>5. CASE k \in Tiles
      <3>1. PICK c : PageBytes(k, c)
        BY <2>5, TileBytes
      <3>2. \A b \in Blocks(k) : fc[b] = c
        BY <1>3, <2>4, <3>1 DEF PageBytes
      <3>3. gc[L(k + 1)] = gc[L(k)] + Cardinality(Blocks(k)) * c
        <4>1. PICK s, t : s = L(k) /\ t = Blocks(k)
          OBVIOUS
        <4>2. c \in Nat /\ s \in SUBSET live /\ t \in SUBSET live /\ Level(fc, s, t, c)
          BY <2>4, <3>1, <3>2, <4>1 DEF PageBytes, Level
        <4>3. gc[s \cup t] = gc[s] + Cardinality(t) * c
          BY <1>5, <1>7, <4>2, SumConst
        <4> QED
          BY <2>4, <4>1, <4>3
      <3>4. gu[U(k + 1)] = UsedBytes(k) + gu[U(k)]
        <4>1. PICK s : s = U(k + 1)
          OBVIOUS
        <4>2. s \in SUBSET Tiles /\ k \in s /\ s \ {k} = U(k)
          <5>1. \A p : p \in s <=> p \in Tiles /\ (p < k \/ p = k)
            BY <1>1, <1>2, <2>1, <4>1
          <5>2. \A p : p \in U(k) <=> p \in Tiles /\ p < k
            OBVIOUS
          <5> HIDE DEF U
          <5> QED
            BY <2>1, <2>5, <5>1, <5>2, Zenon
        <4>3. gu[s] = fu[k] + gu[s \ {k}]
          BY <1>4, <4>2 DEF Adds
        <4>4. fu[k] = UsedBytes(k)
          BY <1>3, <2>5
        <4> QED
          BY <4>1, <4>2, <4>3, <4>4
      <3>5. PICK u \in Nat, x \in Nat, y \in Nat, z \in Nat, w \in Nat :
               /\ u = UsedBytes(k) /\ x = Cardinality(Blocks(k)) * c /\ y = BitmapBytes(k)
               /\ z = gc[L(k)] /\ w = gb[M(k)]
        <4>1. UsedBytes(k) \in Nat /\ BitmapBytes(k) \in Nat
          BY <3>1 DEF PageBytes
        <4>2. Cardinality(Blocks(k)) * c \in Nat
          <5>1. PICK i \in Nat : i = Cardinality(Blocks(k))
            BY <3>1 DEF PageBytes
          <5>2. c \in Nat
            BY <3>1 DEF PageBytes
          <5>3. i * c \in Nat
            BY <5>2
          <5> QED
            BY <5>1, <5>3
        <4> HIDE DEF L, M
        <4> QED
          BY <2>2, <4>1, <4>2
      <3>6. u = x + y
        BY <3>1, <3>5 DEF PageBytes
      <3>7. gu[U(k + 1)] = u + (z + w) /\ gc[L(k + 1)] = z + x /\ gb[M(k + 1)] = y + w
        <4> HIDE DEF U, L, M
        <4> QED
          BY <1>11, <2>3, <3>3, <3>4, <3>5
      <3>8. u + (z + w) = (z + x) + (y + w)
        BY <3>6
      <3> HIDE DEF U, L, M
      <3> QED
        BY <3>7, <3>8
    <2>6. CASE k \notin Tiles
      <3>1. Blocks(k) = {} /\ BitmapBytes(k) = 0
        BY <1>2, <2>6, OtherBytes
      <3>2. L(k + 1) = L(k)
        <4> HIDE DEF L
        <4> QED
          BY <2>4, <3>1
      <3>3. U(k + 1) = U(k)
        BY <1>1, <1>2, <2>1, <2>6
      <3>4. gb[M(k + 1)] = gb[M(k)]
        <4> HIDE DEF M
        <4> QED
          BY <2>2, <2>3, <3>1
      <3> HIDE DEF U, L, M
      <3> QED
        BY <1>11, <3>2, <3>3, <3>4
    <2> QED
      BY <2>5, <2>6
  <1>12. Bad = {}
    <2>1. SUFFICES ASSUME Bad # {} PROVE FALSE
      OBVIOUS
    <2> HIDE DEF Exact
    <2>2. PICK k \in Bad : \A i \in Bad : k <= i
      <3>1. Bad \in SUBSET Nat
        BY <1>1
      <3> HIDE DEF Bad
      <3> QED
        BY <2>1, <3>1, LowestNumber
    <2>3. k \in 0..n /\ k # 0 /\ k - 1 \in D
      BY <1>1, <1>2, <1>10, <2>2
    <2>4. Exact(k - 1)
      BY <1>1, <2>2, <2>3
    <2>5. (k - 1) + 1 = k
      BY <2>3
    <2>6. Exact((k - 1) + 1)
      BY <1>11, <2>3, <2>4
    <2> QED
      BY <2>2, <2>5, <2>6
  <1>13. Exact(n)
    <2> HIDE DEF Exact
    <2> QED
      BY <1>1, <1>12
  <1>14. U(n) = Tiles /\ L(n) = live /\ M(n) = D
    BY <1>1, <1>2, <1>8, <1>9
  <1> HIDE DEF U, L, M
  <1> QED
    BY <1>2, <1>4, <1>5, <1>6, <1>13, <1>14

\* The report is a number, and no free run is longer.
LEMMA RunsBounded ==
  ASSUME IInv
  PROVE  /\ stat.max_free_pages \in Nat
         /\ \A p \in FreeRuns : pool.slab[p].count <= stat.max_free_pages
  <1> DEFINE C == {pool.slab[q].count : q \in {r \in Visited : Kind(r) = "free"}} \cup {0}
  <1>1. /\ n \in 0..MaxPages /\ MaxPages \in Nat /\ n \in Nat /\ 0..(n - 1) \subseteq Pgs
        /\ PoolInv(pool, n)
    BY SlabAssumption DEF IInv, Pgs
  <1>2. \A p \in FreeRuns : p \in Tiles /\ pool.slab[p].mark = "none"
    BY DEF FreeRuns, Tiles
  <1>3. \A p \in FreeRuns : pool.slab[p].count \in C
    BY <1>2, VisitedTiles, TileKinds
  <1>4. C \in SUBSET (0..n) /\ C # {}
    <2>1. ASSUME NEW q \in Visited, Kind(q) = "free" PROVE pool.slab[q].count \in 0..n
      <3>1. q \in Tiles /\ pool.slab[q].mark = "none"
        BY <2>1, VisitedTiles, TileKinds
      <3>2. q \in 0..(n - 1) /\ q \in Pgs /\ pool.slab[q].count > 0
        BY <1>1, <3>1 DEF Tiles
      <3>3. q + pool.slab[q].count <= n
        BY <1>1, <3>1, <3>2 DEF PoolInv, PageInv
      <3>4. pool.slab[q].count \in Nat
        BY <3>2, Strides
      <3> QED
        BY <1>1, <3>2, <3>3, <3>4
    <2> QED
      BY <1>1, <2>1
  <1>5. stat.max_free_pages = Max(C)
    BY DEF stat
  <1> HIDE DEF C
  <1>6. Max(C) \in C /\ \A x \in C : x <= Max(C)
    BY <1>1, <1>4, HighestNumber
  <1>7. stat.max_free_pages \in Nat
    <2>1. Max(C) \in 0..n
      BY <1>4, <1>6, Zenon
    <2> QED
      BY <1>1, <1>5, <2>1
  <1>8. \A p \in FreeRuns : pool.slab[p].count <= stat.max_free_pages
    BY <1>3, <1>5, <1>6, Zenon
  <1> QED
    BY <1>7, <1>8

\* A free run starts with its length, and nothing behind its first page does.
LEMMA RunNumbers ==
  ASSUME IInv, NEW x \in FreeRuns
  PROVE  /\ x \in Int /\ pool.slab[x].count \in Int /\ pool.slab[x].count > 0
         /\ \A y \in (x + 1)..(x + pool.slab[x].count - 1) : pool.slab[y].count = 0
  <1>1. /\ n \in 0..MaxPages /\ MaxPages \in Nat /\ 0..(n - 1) \subseteq Pgs
        /\ PoolInv(pool, n)
    BY SlabAssumption DEF IInv, Pgs
  <1>2. x \in 0..(n - 1) /\ x \in Pgs /\ pool.slab[x].mark = "none" /\ pool.slab[x].count > 0
    BY <1>1 DEF FreeRuns
  <1>3. pool.slab[x].count \in Nat
    BY <1>2, Strides
  <1>4. PageInv(pool, n, x)
    BY <1>1, <1>2 DEF PoolInv
  <1> QED
    BY <1>2, <1>3, <1>4 DEF PageInv

\* Free runs do not overlap: the page behind a run is the first of another one if
\* it is usable at all.
LEMMA BehindRun ==
  ASSUME IInv, NEW r \in FreeRuns, r + pool.slab[r].count \in Usable
  PROVE  r + pool.slab[r].count \in FreeRuns
  <1>2. PICK q \in FreeRuns : r + pool.slab[r].count \in q..(q + pool.slab[q].count - 1)
    BY DEF Usable
  <1>3. /\ r \in Int /\ pool.slab[r].count \in Int /\ pool.slab[r].count > 0
        /\ q \in Int /\ pool.slab[q].count \in Int /\ pool.slab[q].count > 0
    BY RunNumbers
  <1>4. PICK c \in Int, d \in Int : c = pool.slab[r].count /\ d = pool.slab[q].count
    BY <1>3
  <1>5. q \notin (r + 1)..(r + c - 1) /\ r \notin (q + 1)..(q + d - 1)
    BY <1>3, <1>4, RunNumbers
  <1>6. q = r + c
    BY <1>2, <1>3, <1>4, <1>5
  <1> QED
    BY <1>4, <1>6

\* Without touching runs a row of usable pages lies in one run.
LEMMA RowsBounded ==
  ASSUME IInv, ~Touching, NEW p \in 0..n, NEW k \in 0..n, p..(p + k - 1) \subseteq Usable
  PROVE  k <= stat.max_free_pages
  <1>1. n \in Nat /\ p \in Int /\ k \in Int
    BY SlabAssumption DEF IInv
  <1>2. stat.max_free_pages \in Int /\ stat.max_free_pages >= 0
    BY RunsBounded
  <1>3. CASE k = 0
    BY <1>2, <1>3
  <1>4. CASE k > 0
    <2>1. PICK r \in FreeRuns : p \in r..(r + pool.slab[r].count - 1)
      BY <1>1, <1>4 DEF Usable
    <2>2. pool.slab[r].count <= stat.max_free_pages
      BY RunsBounded
    <2>3. r \in Int /\ pool.slab[r].count \in Int
      BY RunNumbers
    <2>4. r + pool.slab[r].count \notin p..(p + k - 1)
      BY BehindRun DEF Touching
    <2> QED
      BY <1>1, <1>2, <2>1, <2>2, <2>3, <2>4
  <1> QED
    BY <1>1, <1>3, <1>4

\* What the invariant says about the report.
LEMMA InvStatExact == IInv => StatExact
  BY UsedExact, MaxFreeExact, RowsBounded DEF StatExact

\* What ncx_slab_stat reports is what is held: the walk, which trusts the run
\* lengths it meets, counts each block and each bitmap once, and its largest run
\* is the largest request of pages that ncx_slab_alloc can still meet.
THEOREM StatIsExact == Spec => []StatExact
  BY InvInit, InvNext, InvStatExact, PTL DEF Spec
=============================================================================
