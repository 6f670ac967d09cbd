\* Pools of up to three pages; request sizes for every kind of slab, one page and
\* two pages.
SPECIFICATION Spec
\* A pool laid out beyond its memory is not followed.
CHECK_DEADLOCK FALSE
CONSTANTS
    ByteBits = 2
    WordBytes = 2
    pagesize_shift = 4
    min_shift = 1
    Descriptor = 3
    AddressSpace = 4096
    MaxArea = 72
    MaxPages = 3
    Sizes <- MCSizes
INVARIANTS NoOverlap ListsSound StatExact AllReturned
PROPERTIES DoubleFreeHarmless InitFits
