-------------------------------- MODULE Pmm ---------------------------------
(***************************************************************************)
(* The physical memory manager, memory/physical/pmm.c: a page frame        *)
(* allocator over a bitmap that pmm_init places in the first usable entry  *)
(* of the memory map that is long enough.                                  *)
(*                                                                         *)
(* A holder stands for a caller's pointer variable: it receives the result *)
(* of pmm_alloc or pmm_allocz and later passes exactly that range to       *)
(* pmm_free, as slab.c, malloc.c and vmm.c do with one page or several.    *)
(***************************************************************************)
EXTENDS PageBitmap, Sequences

CONSTANTS
    Holders,     \* the callers' pointer variables
    MemoryMaps,  \* the memory maps the bootloader may pass
    PageCounts   \* the page counts callers ask for

USABLE == "usable"
RECLAIMABLE == "bootloader_reclaimable"
KERNEL == "kernel_and_modules"
RESERVED == "reserved"      \* stands for every other stivale2 type

MapEntry == [base : Nat, length : Nat, type : {USABLE, RECLAIMABLE, KERNEL, RESERVED}]

EntryPages(entry) ==
    PageRange(PAGE_TO_BIT(entry.base), entry.length \div PAGE_SIZE)

\* What the stivale2 protocol guarantees of a memory map: usable entries are
\* whole pages and overlap nothing.
WellFormedMap(map) ==
    /\ map \in Seq(MapEntry)
    /\ \A i \in DOMAIN map : map[i].type = USABLE =>
           /\ map[i].base % PAGE_SIZE = 0
           /\ map[i].length % PAGE_SIZE = 0
           /\ \A j \in DOMAIN map \ {i} : EntryPages(map[i]) \cap EntryPages(map[j]) = {}

ASSUME MemoryMapsAssumption == \A map \in MemoryMaps : WellFormedMap(map)

ASSUME PageCountsAssumption == PageCounts \subseteq Nat

VARIABLES
    ready,             \* has pmm_init returned?
    memory_map,        \* the bootloader's map, which pmm_init modifies
    highest_page_top,
    used_pages_count,
    bitmap_map,        \* pmm_bitmap.map, as a physical address
    bitmap_size,       \* pmm_bitmap.size, in bytes
    pmm_bitmap,        \* the bits that are 1
    held,              \* held[h]: the range holder h has; pages = 0 if none
    reply              \* the last request: pages asked for, pointer returned,
                       \* and the pages its memset filled with zeros

vars == <<ready, memory_map, highest_page_top, used_pages_count, bitmap_map,
          bitmap_size, pmm_bitmap, held, reply>>

Ranges == [pointer : Nat, pages : Nat]
Replies == [pointer : Nat, pages : Nat, zeroed : SUBSET Nat]

NoRange == [pointer |-> NULL, pages |-> 0]
NoReply == [pointer |-> NULL, pages |-> 0, zeroed |-> {}]

\* The pages of a range [pointer, pages].
PagesOf(range) == PageRange(PAGE_TO_BIT(range.pointer), range.pages)

-----------------------------------------------------------------------------
(* pmm_init *)

\* The end of the highest entry that counts as memory.
HighestPageTop(map) ==
    Max({0} \cup {map[i].base + map[i].length :
                     i \in {j \in DOMAIN map :
                               map[j].type \in {USABLE, RECLAIMABLE, KERNEL}}})

BitmapSize(top) ==
    ALIGN_UP((ALIGN_DOWN(top, PAGE_SIZE) \div PAGE_SIZE) \div 8, PAGE_SIZE)

\* Variant: the first usable entry hosts the bitmap, whatever its length.
HostsOfAnyLength(map, size) == {i \in DOMAIN map : map[i].type = USABLE}

\* The usable entries that are long enough for the bitmap; the first hosts it.
Hosts(map, size) ==
    {i \in DOMAIN map : map[i].type = USABLE /\ map[i].length >= size}

\* Variant: the host entry keeps the pages of the bitmap.
HostedMapUnchanged(map, size) == map

\* The map once the host entry has given up its first size bytes.
HostedMap(map, size) ==
    IF Hosts(map, size) = {}
    THEN map
    ELSE [map EXCEPT ![Min(Hosts(map, size))] =
              [base |-> @.base + size, length |-> @.length - size, type |-> @.type]]

HostAddress(map, size) ==
    IF Hosts(map, size) = {} THEN NULL ELSE map[Min(Hosts(map, size))].base

UsablePages(map) ==
    UNION {EntryPages(map[i]) : i \in {j \in DOMAIN map : map[j].type = USABLE}}

\* Bits at or past 8 * size that the search still looks at: they are bytes of
\* whatever lies behind the bitmap.
BitsBehind(top, size) == (8 * size) .. (PAGE_TO_BIT(top) - 1)

\* Entries do not overlap, so the calls of pmm_free for the usable entries
\* subtract the number of usable pages from the counter.
pmm_init(map) ==
    LET top  == HighestPageTop(map)
        size == BitmapSize(top)
        hosted == HostedMap(map, size)
    IN  /\ ~ready
        /\ ready' = TRUE
        /\ memory_map' = hosted
        /\ highest_page_top' = top
        /\ bitmap_size' = size
        /\ bitmap_map' = HostAddress(map, size)
        /\ \E behind \in SUBSET BitsBehind(top, size) :
               pmm_bitmap' = (((0 .. 8 * size - 1) \cup behind)
                                  \ UsablePages(hosted)) \cup {0}
        /\ used_pages_count' = KB_TO_PAGES(top) - Cardinality(UsablePages(hosted))
        /\ UNCHANGED <<held, reply>>

-----------------------------------------------------------------------------
(* pmm_alloc, pmm_allocz, pmm_free *)

\* The pointer pmm_alloc returns.
AllocResult(page_count) ==
    IF used_pages_count <= 0
    THEN NULL
    ELSE pmm_find_first_free_page_range(pmm_bitmap, highest_page_top, page_count)

pmm_alloc_with(h, page_count, zeroed) ==
    LET pointer == AllocResult(page_count)
    IN  /\ ready
        /\ held[h] = NoRange
        /\ reply' = [pointer |-> pointer, pages |-> page_count, zeroed |-> zeroed]
        /\ IF pointer = NULL
           THEN UNCHANGED <<pmm_bitmap, used_pages_count, held>>
           ELSE /\ pmm_bitmap' = SetBits(pmm_bitmap, PAGE_TO_BIT(pointer), page_count)
                /\ used_pages_count' = used_pages_count + page_count
                /\ held' = [held EXCEPT ![h] = [pointer |-> pointer, pages |-> page_count]]
        /\ UNCHANGED <<ready, memory_map, highest_page_top, bitmap_map, bitmap_size>>

pmm_alloc(h, page_count) == pmm_alloc_with(h, page_count, {})

\* The memset of pmm_allocz follows whatever pointer pmm_alloc returned.
pmm_allocz(h, page_count) ==
    pmm_alloc_with(h, page_count,
                   PageRange(PAGE_TO_BIT(AllocResult(page_count)), page_count))

pmm_free(h) ==
    /\ ready
    /\ held[h] # NoRange
    /\ pmm_bitmap' = UnsetBits(pmm_bitmap, PAGE_TO_BIT(held[h].pointer), held[h].pages)
    /\ used_pages_count' = used_pages_count - held[h].pages
    /\ held' = [held EXCEPT ![h] = NoRange]
    /\ reply' = NoReply
    /\ UNCHANGED <<ready, memory_map, highest_page_top, bitmap_map, bitmap_size>>

\* The owner of the memory behind the bitmap writes to it.
WriteBehind ==
    /\ ready
    /\ BitsBehind(highest_page_top, bitmap_size) # {}
    /\ \E behind \in SUBSET BitsBehind(highest_page_top, bitmap_size) :
           pmm_bitmap' = (pmm_bitmap \ BitsBehind(highest_page_top, bitmap_size)) \cup behind
    /\ reply' = NoReply
    /\ UNCHANGED <<ready, memory_map, highest_page_top, used_pages_count,
                   bitmap_map, bitmap_size, held>>

-----------------------------------------------------------------------------

Init ==
    /\ ready = FALSE
    /\ memory_map = <<>>
    /\ highest_page_top = 0
    /\ used_pages_count = 0
    /\ bitmap_map = NULL
    /\ bitmap_size = 0
    /\ pmm_bitmap = {}
    /\ held = [h \in Holders |-> NoRange]
    /\ reply = NoReply

Next ==
    \/ \E map \in MemoryMaps : pmm_init(map)
    \/ \E h \in Holders, n \in PageCounts : pmm_alloc(h, n) \/ pmm_allocz(h, n)
    \/ \E h \in Holders : pmm_free(h)
    \/ WriteBehind

Spec == Init /\ [][Next]_vars
-----------------------------------------------------------------------------
(* Properties *)

TypeOK ==
    /\ ready \in BOOLEAN
    /\ memory_map \in Seq(MapEntry)
    /\ highest_page_top \in Nat
    /\ used_pages_count \in Int
    /\ bitmap_map \in Nat
    /\ bitmap_size \in Nat
    /\ pmm_bitmap \subseteq Nat
    /\ held \in [Holders -> Ranges]
    /\ reply \in Replies

FreePages == (0 .. PAGE_TO_BIT(highest_page_top) - 1) \ pmm_bitmap

HeldPages == UNION {PagesOf(held[h]) : h \in Holders}

\* Page 0, whose address is the NULL that pmm_alloc returns on failure, stays
\* marked used and is never part of a range somebody holds, for requests of
\* any length (pmm.c:133-134).  Were its bit ever cleared, the search would
\* return 0 for ever after and every allocation would fail.
NullPageReserved ==
    ready /\ bitmap_size > 0 =>
        /\ 0 \in pmm_bitmap
        /\ 0 \notin HeldPages

\* No page is part of the ranges of two holders (pmm_alloc, pmm_free).
SingleOwner ==
    \A g, h \in Holders : g # h => PagesOf(held[g]) \cap PagesOf(held[h]) = {}

\* The bitmap is exact: the free pages and the held pages are together the
\* usable pages the map left after the bitmap was hosted, page 0 excepted, and
\* no page is both.  So nothing is lost and the kernel's pages are never handed
\* out (pmm_init, pmm_alloc, pmm_free).
NoPageLost ==
    ready => /\ FreePages \cup HeldPages = UsablePages(memory_map) \ {0}
             /\ FreePages \cap HeldPages = {}

\* The pages that hold the bitmap itself are never handed out, whichever entry
\* of the map hosts it (pmm.c:108-111).
BitmapPagesReserved ==
    HeldPages \cap PageRange(PAGE_TO_BIT(bitmap_map), bitmap_size \div PAGE_SIZE) = {}

\* A request for one page is refused only when no page is free: neither the
\* test of used_pages_count at pmm.c:142 nor the bound of the search loop hides
\* a free page.
RefusalMeansExhausted ==
    reply.pages = 1 /\ reply.pointer = NULL => FreePages = {}

\* Taken as a pool of pages, the allocator implements the abstract one: a
\* granted range was free and a returned range becomes free.
Pool == INSTANCE PagePool WITH
            Pages <- Nat,
            open  <- ready,
            free  <- FreePages,
            owned <- [h \in Holders |-> PagesOf(held[h])]

\* [Next]_vars of the pool with the pages named, so that no set of all sets of
\* pages is enumerated; it implies [Pool!Next]_(Pool!vars).
PoolStep ==
    \/ Pool!Fill(FreePages')
    \/ \E h \in Holders : Pool!Take(h, PagesOf(held'[h])) \/ Pool!Return(h)
    \/ UNCHANGED <<ready, FreePages, [h \in Holders |-> PagesOf(held[h])]>>

\* Every step of the allocator is a step of the abstract pool or leaves it
\* alone (pmm_init, pmm_alloc, pmm_allocz, pmm_free).
ImplementsPool == Pool!Init /\ [][PoolStep]_vars

\* A range that is handed out was free, all of it (pmm.c:139, pmm.c:225).
GrantedRangeWasFree ==
    [][\A h \in Holders :
           held'[h] \notin {held[h], NoRange} =>
               PagesOf(held'[h]) \cap pmm_bitmap = {}]_vars

\* The zeros of pmm_allocz go to the range it returns (pmm.c:166-167).
ZeroedPagesAreGranted ==
    reply.zeroed # {} => \E h \in Holders : PagesOf(held[h]) = reply.zeroed

\* The bitmap has a bit for every page the search looks at (pmm.c:23).
EveryPageHasABit ==
    ready => BitsBehind(highest_page_top, bitmap_size) = {}
=============================================================================
