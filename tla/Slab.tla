-------------------------------- MODULE Slab --------------------------------
(***************************************************************************)
(* The slab allocator of src/cc_ncx_slab.c.  The pool is a row of pages,   *)
(* each with a descriptor (slab, next, prev).  A page is free, belongs to  *)
(* a run of pages given out whole, or is cut into chunks of one size; a    *)
(* chunk page with room is on the list of its slot, a full one on none.    *)
(*                                                                         *)
(* The geometry is scaled: bytes have ByteBits bits, words WordBytes       *)
(* bytes, pages 2^pagesize_shift bytes.  Addresses count from pool->start. *)
(* The pool has one user: ncx_shmtx_lock is an empty macro.                *)
(***************************************************************************)
EXTENDS Integers, FiniteSetsExt, SequencesExt

CONSTANTS
    ByteBits, WordBytes, pagesize_shift, min_shift,
    Descriptor,     \* sizeof(ncx_slab_page_t)
    AddressSpace,   \* 2^64: differences of addresses are divided as unsigned numbers
    MaxArea,        \* bound: bytes handed to ncx_slab_init
    MaxPages,       \* bound: pages of a pool that is used
    Sizes           \* bound: request sizes used on a pool of so many pages

pagesize == 2^pagesize_shift
WordBits == WordBytes * ByteBits
ncx_slab_max_size   == pagesize \div 2
ncx_slab_exact_size == pagesize \div WordBits

\* The number of bits of n - 1: the exponent of the next power of two
LogCeil(n)  == CHOOSE k \in 0..n : 2^k >= n /\ (k = 0 \/ 2^(k-1) < n)
exact_shift == LogCeil(ncx_slab_exact_size)
Shifts      == min_shift..(pagesize_shift - 1)

\* the chunk size for a request
ShiftOf(size) == Max({min_shift, LogCeil(size)})

Chunks(shift) == 2^(pagesize_shift - shift)
\* chunks at the front of a small page that hold its bitmap
Reserved(shift) ==
    IF shift < exact_shift
    THEN Max({1, (Chunks(shift) \div ByteBits) \div 2^shift})
    ELSE 0

ASSUME SlabAssumption ==
    /\ {ByteBits, WordBytes, pagesize_shift, Descriptor, MaxPages} \subseteq Nat \ {0}
    /\ min_shift \in Nat /\ min_shift < pagesize_shift
    /\ ncx_slab_exact_size = 2^exact_shift
    /\ \A s \in Shifts : /\ Reserved(s) < WordBits   \* bitmap[0] holds all reserved bits
                         /\ Reserved(s) + 1 < Chunks(s)  \* a page newly cut has room left
    /\ \A k \in 0..MaxPages : Sizes[k] \subseteq Nat
    \* arithmetic of powers of two, which the provers do not know
    /\ pagesize \in Nat \ {0, 1}
    /\ \A s \in Shifts : /\ {2^s, Chunks(s)} \subseteq Nat \ {0} /\ Reserved(s) \in Nat
                         /\ Chunks(s) * 2^s = pagesize
    /\ \A size \in 0..(ncx_slab_max_size - 1) : /\ ShiftOf(size) \in Shifts
                                                /\ size <= 2^ShiftOf(size)

ASSUME WidthAssumption ==
    /\ \A s \in Shifts : Reserved(s) < 30    \* (2 << n) - 1 is an int
    /\ MaxArea \in Nat /\ AddressSpace \in Nat
    /\ (pagesize_shift - min_shift) * Descriptor + pagesize * (MaxArea + 2) <= AddressSpace

-----------------------------------------------------------------------------
(* Descriptors.  A list node is a page (0..MaxPages-1) or a list head.       *)
NULL == -1
Free == MaxPages
Slot(shift) == MaxPages + 1 + shift
Nodes == 0..Slot(pagesize_shift - 1)
Heads == {Free} \cup {Slot(s) : s \in Shifts}

\* The field slab: a run length, alone (0: PAGE_FREE) or with PAGE_START,
\* PAGE_BUSY, or the shift and bitmap of a chunk page.
Run(mark, n)     == [mark |-> mark, count |-> n, shift |-> 0, busy |-> {}]
Cut(shift, busy) == [mark |-> "cut", count |-> 0, shift |-> shift, busy |-> busy]

\* NCX_SLAB_SMALL, _EXACT or _BIG, kept in the low bits of prev
TypeOf(shift) == IF shift < exact_shift THEN "small"
                 ELSE IF shift = exact_shift THEN "exact" ELSE "big"

VARIABLES
    area,   \* memory not yet initialized: [base, size]; <<>> once it is, Outside if
            \* the pages were laid out beyond its end
    n,      \* pages of the pool
    pool,   \* [slab, next, prev]; prev[x] is <<node, type>>
    live    \* blocks the user holds: <<address, size>>

vars == <<area, n, pool, live>>

-----------------------------------------------------------------------------
(* ncx_slab_init                                                             *)
HeaderBytes  == (pagesize_shift - min_shift) * Descriptor
HeaderEnd(a) == a.base + HeaderBytes

AlignUp(x) == ((x + pagesize - 1) \div pagesize) * pagesize

RawPages(a) == a.size \div (pagesize + Descriptor)
Start(a)    == AlignUp(HeaderEnd(a) + RawPages(a) * Descriptor)
End(a)      == a.base + a.size

\* Mutant: pages lost to the alignment are not taken off.
PagesUncorrected(a) == RawPages(a)
\* m = pages - (end-start)/pagesize; if (m > 0) pages -= m.  The divisor is
\* unsigned: where the aligned start lies behind the end the difference wraps, m
\* is far below zero and nothing is taken off.
Pages(a) ==
    LET m == RawPages(a) - ((End(a) - Start(a)) % AddressSpace) \div pagesize
    IN  IF m > 0 THEN RawPages(a) - m ELSE RawPages(a)

Blank(k) ==
    [slab |-> [p \in 0..(MaxPages-1) |-> Run("none", IF p = 0 THEN k ELSE 0)],
     next |-> [x \in Nodes |-> IF x = Free THEN 0 ELSE IF x = 0 THEN Free
                               ELSE IF x \in Heads THEN x ELSE NULL],
     prev |-> [x \in Nodes |-> <<IF x = 0 THEN Free ELSE NULL, "page">>]]

Outside == [outside |-> TRUE]
Waiting == area \notin {<<>>, Outside}

\* Memory of every alignment and size, up to the bound on the pages.
Init ==
    /\ area \in {a \in [base : 0..(pagesize-1), size : 0..MaxArea] : Pages(a) <= MaxPages}
    /\ n = 0 /\ pool = Blank(0) /\ live = {}

\* A pool that lies beyond its memory is not followed any further: its blocks
\* are memory of others, and the page count of ncx_slab_stat wraps too.
ncx_slab_init ==
    /\ Waiting
    /\ n' = Pages(area) /\ pool' = Blank(Pages(area))
    /\ area' = IF Start(area) <= End(area) THEN <<>> ELSE Outside
    /\ UNCHANGED live

-----------------------------------------------------------------------------
(* List surgery on a pool s                                                  *)
\* the nodes behind head h, in order, up to the return to h
Listed(s, h) ==
    LET at[k \in 0..MaxPages+1] ==
            IF k = 0 THEN h ELSE IF at[k-1] = NULL THEN NULL ELSE s.next[at[k-1]]
        stop == Min({k \in 1..MaxPages : at[k] \in {h, NULL}} \cup {MaxPages + 1})
    IN  [k \in 1..(stop - 1) |-> at[k]]

\* prev->next = page->next; page->next->prev = page->prev
Unlink(s, p) == [s EXCEPT !.next[s.prev[p][1]] = s.next[p],
                          !.prev[s.next[p]] = s.prev[p]]

\* Mutant: the page is not taken off the list.
DetachedStill(s, p, type) == s
\* a full page leaves the list of its slot
Detached(s, p, type) == [Unlink(s, p) EXCEPT !.next[p] = NULL,
                                             !.prev[p] = <<NULL, type>>]

\* page->next = head.next; head.next = page; the two prev fields
PushFront(s, h, p, type) ==
    [s EXCEPT !.next[p] = s.next[h], !.next[h] = p,
              !.prev[p] = <<h, type>>, !.prev[s.next[h]] = <<p, type>>]

-----------------------------------------------------------------------------
(* ncx_slab_alloc_pages and ncx_slab_free_pages                              *)
\* page->slab >= pages
Fits(s, p, k) == s.slab[p].count >= k

\* the pages the search may stop at: the first run that fits, if any
FirstFit(s, k) ==
    LET list == Listed(s, Free)
    IN  {list[i] : i \in {j \in DOMAIN list :
            Fits(s, list[j], k) /\ \A h \in 1..(j-1) : ~Fits(s, list[h], k)}}

\* the rest page[pages] takes the place of page in the list
Split(s, p, k) ==
    [s EXCEPT !.slab[p + k] = Run("none", s.slab[p].count - k),
              !.next[p + k] = s.next[p], !.prev[p + k] = s.prev[p],
              !.next[s.prev[p][1]] = p + k, !.prev[s.next[p]] = <<p + k, "page">>]

TakePages(s, p, k) ==
    LET t == IF s.slab[p].count > k THEN Split(s, p, k) ELSE Unlink(s, p)
        mine == p..(p + k - 1)
    IN  [slab |-> [q \in DOMAIN t.slab |-> IF q = p THEN Run("start", k)
                        ELSE IF q \in mine THEN Run("busy", 0) ELSE t.slab[q]],
         next |-> [x \in Nodes |-> IF x \in mine THEN NULL ELSE t.next[x]],
         prev |-> [x \in Nodes |-> IF x \in mine THEN <<NULL, "page">> ELSE t.prev[x]]]

\* ncx_memzero(&page[1], ...)
Cleared(p, k) == (p + 1)..(p + k - 1)

\* Mutant: the page stays on the list it is on.
OffListNot(s, p) == s
\* if (page->next) unlink
OffList(s, p) == IF s.next[p] # NULL THEN Unlink(s, p) ELSE s

ncx_slab_free_pages(s, p, k) ==
    LET t == [slab |-> [q \in DOMAIN s.slab |-> IF q = p THEN Run("none", k)
                          ELSE IF q \in Cleared(p, k) THEN Run("none", 0) ELSE s.slab[q]],
              next |-> [x \in Nodes |-> IF x \in Cleared(p, k) THEN NULL ELSE s.next[x]],
              prev |-> [x \in Nodes |-> IF x \in Cleared(p, k) THEN <<NULL, "page">>
                                        ELSE s.prev[x]]]
    IN  PushFront(OffList(t, p), Free, p, "page")

-----------------------------------------------------------------------------
(* ncx_slab_alloc                                                            *)
Give(s, p, size) ==
    /\ pool' = s
    /\ live' = live \cup {<<p, size>>}

\* size >= ncx_slab_max_size: whole pages
AllocPages(size) ==
    /\ size >= ncx_slab_max_size
    /\ LET k == size \div pagesize + (IF size % pagesize # 0 THEN 1 ELSE 0)
       IN  \/ \E p \in FirstFit(pool, k) : Give(TakePages(pool, p, k), p * pagesize, size)
           \/ FirstFit(pool, k) = {} /\ UNCHANGED <<pool, live>>

\* Mutant: one chunk too many.
RoomOffByOne(s, p) == (0..Chunks(s.slab[p].shift)) \ s.slab[p].busy
\* the clear bits of the page's map
Room(s, p) == (0..(Chunks(s.slab[p].shift) - 1)) \ s.slab[p].busy

\* the lowest free chunk of the first page with room; a page that is now full
\* leaves the list
AllocChunk(size, shift) ==
    LET list == Listed(pool, Slot(shift))
        p == list[Min({i \in DOMAIN list : Room(pool, list[i]) # {}})]
        c == Min(Room(pool, p))
        s == [pool EXCEPT !.slab[p].busy = @ \cup {c}]
    IN  /\ \E i \in DOMAIN list : Room(pool, list[i]) # {}
        /\ Give(IF Room(s, p) = {} THEN Detached(s, p, TypeOf(shift)) ELSE s,
                p * pagesize + c * 2^shift, size)

\* Mutant: the bitmap does not mark the chunks it lies in.
FirstBusyOnly(shift) == {Reserved(shift)}
\* bitmap[0] = (2 << n) - 1, or 1
FirstBusy(shift) == 0..Reserved(shift)

\* no page on the slot's list: cut a new one
AllocNew(size, shift) ==
    /\ Listed(pool, Slot(shift)) = <<>>
    /\ \/ \E p \in FirstFit(pool, 1) :
             LET s == TakePages(pool, p, 1)
             IN  Give([s EXCEPT !.slab[p] = Cut(shift, FirstBusy(shift)),
                                !.next[p] = Slot(shift), !.next[Slot(shift)] = p,
                                !.prev[p] = <<Slot(shift), TypeOf(shift)>>],
                      p * pagesize + Reserved(shift) * 2^shift, size)
       \/ FirstFit(pool, 1) = {} /\ UNCHANGED <<pool, live>>

ncx_slab_alloc(size) ==
    /\ area = <<>>
    /\ \/ AllocPages(size)
       \/ /\ size < ncx_slab_max_size
          /\ AllocChunk(size, ShiftOf(size)) \/ AllocNew(size, ShiftOf(size))
    /\ UNCHANGED <<area, n>>

-----------------------------------------------------------------------------
(* ncx_slab_free                                                             *)
\* a full page returns to the front of its slot's list
Relinked(s, p, shift) ==
    IF IF shift = exact_shift THEN Room(s, p) = {} ELSE s.next[p] = NULL
    THEN PushFront(s, Slot(shift), p, TypeOf(shift)) ELSE s

\* Mutant: only the word-sized bitmaps are tested for being empty.
EmptyNever(shift, busy) == shift >= exact_shift /\ busy = {}
\* nothing but the bitmap's own chunks is busy
Empty(shift, busy) == busy \subseteq 0..(Reserved(shift) - 1)

FreeChunk(s, a) ==
    LET p == a \div pagesize
        shift == IF s.prev[p][2] = "exact" THEN exact_shift ELSE s.slab[p].shift
        c == (a % pagesize) \div 2^shift
        t == [Relinked(s, p, shift) EXCEPT !.slab[p].busy = @ \ {c}]
    IN  IF a % 2^shift # 0 \/ c \notin s.slab[p].busy THEN s  \* wrong chunk, already free
        ELSE IF Empty(shift, t.slab[p].busy) THEN ncx_slab_free_pages(t, p, 1) ELSE t

FreePages(s, a) ==
    LET p == a \div pagesize
        slab == s.slab[p]
    IN  IF a % pagesize # 0 \/ slab = Run("none", 0) \/ slab.mark = "busy" THEN s
        ELSE ncx_slab_free_pages(s, p, slab.count)

Freed(s, a) ==
    IF s.prev[a \div pagesize][2] = "page" THEN FreePages(s, a) ELSE FreeChunk(s, a)

ncx_slab_free(b) ==
    /\ area = <<>> /\ b \in live
    /\ pool' = Freed(pool, b[1])
    /\ live' = live \ {b}
    /\ UNCHANGED <<area, n>>

Next == \/ ncx_slab_init
        \/ \E size \in Sizes[n] : ncx_slab_alloc(size)
        \/ \E b \in live : ncx_slab_free(b)

Spec == Init /\ [][Next]_vars

-----------------------------------------------------------------------------
(* ncx_slab_stat: the walk over the descriptors                              *)
Kind(p) == IF pool.prev[p][2] # "page" THEN "cut"
           ELSE IF pool.prev[p][1] = NULL THEN "taken" ELSE "free"

\* Mutant: the increment of the loop is forgotten.
StrideLong(p) == IF Kind(p) = "cut" THEN 1 ELSE pool.slab[p].count + 1
\* how far the walk moves on from page p
Stride(p) == IF Kind(p) = "cut" THEN 1 ELSE pool.slab[p].count

\* the descriptors the walk looks at
Visited ==
    LET at[k \in 0..MaxPages] == IF k = 0 THEN 0
                                 ELSE IF at[k-1] >= n THEN n ELSE at[k-1] + Stride(at[k-1])
    IN  {at[k] : k \in 0..MaxPages} \cap 0..(n - 1)

UsedBytes(p) ==
    CASE Kind(p) = "cut"   -> Cardinality(pool.slab[p].busy) * 2^pool.slab[p].shift
      [] Kind(p) = "taken" -> pool.slab[p].count * pagesize
      [] OTHER             -> 0

stat == [used_size |-> MapThenSumSet(UsedBytes, Visited),
         free_page |-> MapThenSumSet(LAMBDA p : pool.slab[p].count,
                                     {p \in Visited : Kind(p) = "free"}),
         max_free_pages |-> Max({pool.slab[p].count : p \in {q \in Visited : Kind(q) = "free"}}
                                \cup {0})]

-----------------------------------------------------------------------------
(* Properties.                                                               *)

\* Every variable has its type.
TypeOK ==
    /\ n \in 0..MaxPages
    /\ \A p \in DOMAIN pool.slab :
          /\ pool.slab[p].mark \in {"none", "start", "busy", "cut"}
          /\ pool.slab[p].count \in 0..MaxPages
          /\ pool.slab[p].mark = "cut" =>
                /\ pool.slab[p].shift \in Shifts
                /\ pool.slab[p].busy \subseteq 0..(Chunks(pool.slab[p].shift) - 1)
    /\ pool.next \in [Nodes -> Nodes \cup {NULL}]
    /\ pool.prev \in [Nodes -> (Nodes \cup {NULL}) \X {"page", "small", "exact", "big"}]

Bytes(b) == b[1]..(b[1] + b[2] - 1)

\* The blocks that alloc has returned lie inside the pool, do not overlap one
\* another, and stay clear of the bitmap at the front of a small page.
NoOverlap ==
    /\ \A b, c \in live : b # c => Bytes(b) \cap Bytes(c) = {}
    /\ \A b \in live :
          /\ Bytes(b) \subseteq 0..(n * pagesize - 1)
          /\ LET s == pool.slab[b[1] \div pagesize]
             IN  s.mark = "cut" => b[1] % pagesize >= Reserved(s.shift) * 2^s.shift

\* A list is a ring through its head whose prev fields lead back.
Ring(h) ==
    LET list == <<h>> \o Listed(pool, h)
    IN  /\ pool.next[Last(list)] = h
        /\ \A i \in 2..Len(list) : pool.prev[list[i]][1] = list[i-1]

\* The descriptors are well formed and every list is a proper ring.  A slot's
\* list holds the pages of its chunk size that have room and no others, so the
\* search of alloc always ends at the first page; a full page is on no list.
\* The free list holds the free runs.
ListsSound == TypeOK /\
    (area = <<>> =>
        /\ \A h \in Heads : Ring(h)
        /\ \A s \in Shifts : ToSet(Listed(pool, Slot(s))) =
              {p \in 0..(n-1) : /\ pool.slab[p].mark = "cut" /\ pool.slab[p].shift = s
                                /\ Room(pool, p) # {}}
        /\ n > 0 => ToSet(Listed(pool, Free)) =
              {p \in 0..(n-1) : pool.slab[p].mark = "none" /\ pool.slab[p].count > 0})

\* bytes set aside for a block
Capacity(b) == IF b[2] >= ncx_slab_max_size
               THEN ((b[2] + pagesize - 1) \div pagesize) * pagesize
               ELSE 2^ShiftOf(b[2])
BitmapBytes(p) == IF pool.slab[p].mark = "cut"
                  THEN Reserved(pool.slab[p].shift) * 2^pool.slab[p].shift ELSE 0

\* The free runs, their pages, and two runs side by side
FreeRuns == {p \in 0..(n-1) : pool.slab[p].mark = "none" /\ pool.slab[p].count > 0}
Usable   == UNION {p..(p + pool.slab[p].count - 1) : p \in FreeRuns}
Touching == \E p \in FreeRuns : p + pool.slab[p].count \in FreeRuns

\* The walk of ncx_slab_stat, which trusts the run lengths it meets, counts
\* the blocks that are held and the bitmaps.  max_free_pages is the largest
\* request of pages that alloc can still satisfy.  It is documented as the
\* largest number of contiguous usable pages (cc_ncx_slab.h:38), and no row of
\* usable pages is longer unless two free runs touch: runs are never merged.
StatExact ==
    area = <<>> =>
        /\ stat.used_size = MapThenSumSet(Capacity, live) + MapThenSumSet(BitmapBytes, 0..(n-1))
        /\ FirstFit(pool, stat.max_free_pages + 1) = {}
        /\ stat.max_free_pages > 0 => FirstFit(pool, stat.max_free_pages) # {}
        /\ ~Touching => \A p, k \in 0..n : p..(p + k - 1) \subseteq Usable =>
                                              k <= stat.max_free_pages

\* No page is lost: once every block has been freed, in whatever order, all
\* pages are free again.
AllReturned == area = <<>> /\ live = {} => stat.free_page = n

\* Freeing a block again right after it was freed is recognised, or at most
\* moves a free run to the front of the free list; it never damages a
\* descriptor.
DoubleFreeHarmless ==
    [][\A b \in live \ live' :
          LET again == Freed(pool', b[1])
          IN  /\ again.slab = pool'.slab
              /\ \A h \in Heads : ToSet(Listed(again, h)) = ToSet(Listed(pool', h))]_vars

\* The pages laid out by ncx_slab_init end inside the memory, and leave less
\* than a page of it unused behind them, whatever its alignment and size.  The
\* exception is memory so small that the aligned start lies behind its end: the
\* pages counted for it are then less than the slots' header and one page.
InitFits ==
    [][area' # area =>
          \/ /\ Start(area) + n' * pagesize <= End(area)
             /\ End(area) < Start(area) + (n' + 1) * pagesize
          \/ /\ Start(area) > End(area)
             /\ n' * pagesize < HeaderBytes + pagesize]_vars
=============================================================================
