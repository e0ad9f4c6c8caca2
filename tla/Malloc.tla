------------------------------- MODULE Malloc -------------------------------
(***************************************************************************)
(* The kernel heap, libk/malloc/malloc.c: malloc, realloc and free over    *)
(* six slab caches and the page allocator.                                 *)
(*                                                                         *)
(* A heap cache has one slab, without its page-aligned buffer, for ever:   *)
(* malloc calls slab_cache_alloc without SLAB_AUTO_GROW, so a cache is a   *)
(* list from which buffers are popped and on which they are pushed (module *)
(* Slab, run slab_many).  Sizes are those of the code; only the number of  *)
(* buffers of a slab is smaller.                                           *)
(*                                                                         *)
(* A caller is taken to fill the bytes it asked for.  Writing outside a    *)
(* block destroys the metadata or the link next to it, after which         *)
(* anything may happen: status becomes "corrupted" and the model stops.    *)
(***************************************************************************)
EXTENDS PageBitmap, SequencesExt

CONSTANTS
    TopPage,       \* the number of pages of memory
    HEADER_SIZE,   \* sizeof(slab_t)
    MaxBuffers,    \* bound: the slab of a cache has no more buffers than this
    METADATA_RANGE,\* the values of malloc_metadata_t's field, 65536 in the code
    SIZE_RANGE,    \* the values of a size_t, 2^64 in the code
    Sizes,         \* the sizes callers pass
    MaxBlocks      \* how many blocks callers keep at a time

ASSUME MallocAssumption ==
    /\ TopPage \in Nat \ {0}
    /\ HEADER_SIZE \in Nat /\ HEADER_SIZE + 512 <= PAGE_SIZE
    /\ MaxBuffers \in Nat
    /\ METADATA_RANGE \in Nat \ (0 .. 5)
    /\ SIZE_RANGE \in Nat /\ SIZE_RANGE > PAGE_SIZE /\ SIZE_RANGE % PAGE_SIZE = 0
    /\ Sizes \subseteq 0 .. SIZE_RANGE - 1
    /\ MaxBlocks \in Nat

Caches == 0 .. 5
METADATA_SIZE == 2  \* sizeof(malloc_metadata_t)

VARIABLES
    status,  \* "boot", "ready", "panicked" or "corrupted"
    heap,    \* heap.bitmap: the used pages; heap.caches[i]: the free buffers
    blocks,  \* the blocks callers have
    reply    \* what the last call of malloc or realloc did

vars == <<status, heap, blocks, reply>>

NoReply == [op |-> "none"]

-----------------------------------------------------------------------------
(* Utility functions *)

\* A number as the set of its bits; those that round_alloc_size passes have ten.
Bits(n) == {k \in 0 .. 9 : (n \div 2 ^ k) % 2 = 1}
Number(bits) == CHOOSE n \in 0 .. 1023 : Bits(n) = bits

\* n |= n >> shift
Smear(bits, shift) == bits \cup {k - shift : k \in {b \in bits : b >= shift}}
Smeared(n) == Number(Smear(Smear(Smear(Smear(Smear(Bits(n), 1), 2), 4), 8), 16))

\* Variant: without n--, a power of two is rounded to the next one.
next_power_of_two_above(n) == IF n <= 16 THEN 16 ELSE Smeared(n) + 1

next_power_of_two(n) == IF n <= 16 THEN 16 ELSE Smeared(n - 1) + 1

\* Its values for the arguments round_alloc_size passes, computed once.
PowersOfTwo == [n \in 0 .. 512 |-> next_power_of_two(n)]

\* The sum in ALIGN_UP is a size_t.
round_alloc_size(size) ==
    IF size <= 512 THEN PowersOfTwo[size] ELSE ALIGN_UP(size, PAGE_SIZE) % SIZE_RANGE

slab_cache_index_to_size(index) ==
    IF index \in Caches THEN <<16, 32, 64, 128, 256, 512>>[index + 1] ELSE -1

size_to_slab_cache_index(size) ==
    IF \E i \in Caches : slab_cache_index_to_size(i) = size
    THEN CHOOSE i \in Caches : slab_cache_index_to_size(i) = size
    ELSE -1

-----------------------------------------------------------------------------
(* malloc_heap_init: each slab_cache_create takes a page for the cache and *)
(* one for its slab.                                                       *)

FreePages == (0 .. TopPage - 1) \ heap.bitmap

\* The page the k-th request for a single page is given.
HeapPage(k) == CHOOSE p \in FreePages : Cardinality({q \in FreePages : q <= p}) = k

\* The buffers of a slab; the first place of the page is left out (SLAB_NO_ALIGN).
CacheBuffers(index) ==
    LET count == (PAGE_SIZE - HEADER_SIZE) \div slab_cache_index_to_size(index) - 1
    IN  IF count < MaxBuffers THEN count ELSE MaxBuffers

Buffers(page, index) ==
    [k \in 1 .. CacheBuffers(index) |-> BIT_TO_PAGE(page) + slab_cache_index_to_size(index) * k]

malloc_heap_init ==
    /\ status = "boot"
    /\ IF Cardinality(FreePages) < 12
       THEN status' = "panicked" /\ UNCHANGED heap
       ELSE /\ status' = "ready"
            /\ heap' = [bitmap |-> heap.bitmap \cup {HeapPage(k) : k \in 1 .. 12},
                        caches |-> [i \in Caches |-> Buffers(HeapPage(2 * i + 2), i)]]
    /\ UNCHANGED <<blocks, reply>>

-----------------------------------------------------------------------------
(* malloc and free, on a value of heap *)

IsPaged(at) == at % PAGE_SIZE = 0

\* malloc's new_size.  The sum is a size_t too, and wraps for the largest sizes.
AllocSize(size) == round_alloc_size((size + METADATA_SIZE) % SIZE_RANGE)

\* The block malloc makes: where it is, its metadata, the bytes asked for and
\* the bytes taken.  Its address is NULL if pmm_allocz has no pages or the size
\* has no cache.
NewBlock(h, size) ==
    LET new_size   == AllocSize(size)
        index      == size_to_slab_cache_index(new_size)
        page_count == new_size \div PAGE_SIZE
    IN  IF new_size <= 512
        THEN [at |-> IF index = -1 THEN NULL ELSE Head(h.caches[index]), size |-> index,
              asked |-> size, bytes |-> new_size]
        ELSE [at |-> pmm_find_first_free_page_range(h.bitmap, BIT_TO_PAGE(TopPage), page_count),
              size |-> page_count % METADATA_RANGE,
              asked |-> size, bytes |-> new_size]

\* slab_cache_alloc stops the machine when the slab of the cache is used up.
AllocPanics(h, size) ==
    LET new_size == AllocSize(size)
        index    == size_to_slab_cache_index(new_size)
    IN  new_size <= 512 /\ index # -1 /\ h.caches[index] = <<>>

Taken(h, block) ==
    IF IsPaged(block.at)
    THEN [h EXCEPT !.bitmap = SetBits(@, PAGE_TO_BIT(block.at), block.bytes \div PAGE_SIZE)]
    ELSE [h EXCEPT !.caches[block.size] = Tail(@)]

\* slab_cache_free stops the machine when no spot of the cache is open.
FreePanics(h, block) ==
    ~IsPaged(block.at) /\ Len(h.caches[block.size]) >= CacheBuffers(block.size)

Freed(h, block) ==
    IF IsPaged(block.at)
    THEN [h EXCEPT !.bitmap = UnsetBits(@, PAGE_TO_BIT(block.at), block.size)]
    ELSE [h EXCEPT !.caches[block.size] = Cons(block.at, @)]

Room(block) == block.bytes - METADATA_SIZE

-----------------------------------------------------------------------------
(* The operations *)

malloc(size) ==
    /\ status = "ready"
    /\ Cardinality(blocks) < MaxBlocks
    /\ IF AllocPanics(heap, size)
       THEN status' = "panicked" /\ UNCHANGED <<heap, blocks, reply>>
       ELSE LET block == NewBlock(heap, size)
            IN  IF block.at = NULL
                THEN reply' = NoReply /\ UNCHANGED <<status, heap, blocks>>
                ELSE /\ heap' = Taken(heap, block)
                     /\ blocks' = blocks \cup {block}
                     /\ reply' = [op |-> "malloc", asked |-> size, room |-> Room(block)]
                     /\ status' = IF Room(block) < size THEN "corrupted" ELSE status

free(block) ==
    /\ status = "ready"
    /\ IF FreePanics(heap, block)
       THEN status' = "panicked" /\ UNCHANGED heap
       ELSE heap' = Freed(heap, block) /\ UNCHANGED status
    /\ blocks' = blocks \ {block}
    /\ reply' = NoReply

\* The size realloc takes the old block to have; a page count divided by the
\* page size in the case of pages.
OldSize(block) ==
    IF IsPaged(block.at)
    THEN block.size \div PAGE_SIZE
    ELSE slab_cache_index_to_size(block.size)

\* The block stays where it is; the caller now uses new_size bytes of it.
ReallocInPlace(block, new_size) ==
    LET grown == [block EXCEPT !.asked = new_size]
    IN  /\ blocks' = (blocks \ {block}) \cup {grown}
        /\ reply' = [op |-> "realloc", asked |-> new_size, room |-> Room(block),
                     copied |-> 0, kept |-> block.asked, before |-> block.asked]
        /\ status' = IF Room(block) < new_size THEN "corrupted" ELSE status
        /\ UNCHANGED heap

\* malloc, memcpy of the smaller size and free.
ReallocMoves(block, new_size) ==
    LET rounded_new_size == round_alloc_size(new_size)
        copied == Min({OldSize(block), rounded_new_size})
        new    == NewBlock(heap, new_size)
    IN  IF AllocPanics(heap, new_size)
        THEN status' = "panicked" /\ UNCHANGED <<heap, blocks, reply>>
        ELSE IF new.at = NULL
        THEN reply' = NoReply /\ UNCHANGED <<status, heap, blocks>>
        ELSE /\ heap' = Freed(Taken(heap, new), block)
             /\ blocks' = (blocks \ {block}) \cup {new}
             /\ reply' = [op |-> "realloc", asked |-> new_size, room |-> Room(new),
                          copied |-> copied, kept |-> Min({copied, block.asked}),
                          before |-> block.asked]
             /\ status' = CASE Room(new) < Max({copied, new_size}) -> "corrupted"
                            [] FreePanics(Taken(heap, new), block) -> "panicked"
                            [] OTHER -> status

\* realloc of a null pointer is malloc, realloc to no bytes is free.
realloc(block, new_size) ==
    /\ status = "ready"
    /\ IF new_size = 0
       THEN free(block)
       ELSE IF OldSize(block) = round_alloc_size(new_size)
       THEN ReallocInPlace(block, new_size)
       ELSE ReallocMoves(block, new_size)

-----------------------------------------------------------------------------

Init ==
    /\ status = "boot"
    /\ heap = [bitmap |-> {0}, caches |-> [i \in Caches |-> <<>>]]
    /\ blocks = {}
    /\ reply = NoReply

Next ==
    \/ malloc_heap_init
    \/ \E size \in Sizes : malloc(size)
    \/ \E block \in blocks :
           \/ free(block)
           \/ \E size \in Sizes : realloc(block, size)

Spec == Init /\ [][Next]_vars

-----------------------------------------------------------------------------
(* Properties *)

Block == [at : Nat, size : 0 .. METADATA_RANGE - 1, asked : Nat, bytes : Nat]

TypeOK ==
    /\ status \in {"boot", "ready", "panicked", "corrupted"}
    /\ heap.bitmap \subseteq 0 .. TopPage - 1
    /\ \A i \in Caches : heap.caches[i] \in Seq(Nat) /\ Len(heap.caches[i]) <= CacheBuffers(i)
    /\ blocks \subseteq Block
    /\ reply.op \in {"none", "malloc", "realloc"}

\* The first and the last byte of a block, its metadata included.
FirstByte(b) == b.at
LastByte(b) == b.at + b.bytes - 1

\* The blocks callers have share no byte, whether they come from slabs or from
\* pages and however often they were reallocated (malloc, realloc, free).
BlocksDisjoint ==
    \A b, c \in blocks : b # c => LastByte(b) < FirstByte(c) \/ LastByte(c) < FirstByte(b)

\* Nothing is lost or given back twice: the buffers of a cache are those on its
\* list and those of blocks, each in one place, and the used pages are those of
\* the caches and those of page blocks, as long as its metadata can hold the
\* number of pages of a block.  So free finds the cache or the page
\* count a block was made with, from its address and its metadata alone
\* (malloc.c:104, malloc.c:133, malloc.c:195).
HeapAccountedFor ==
    LET paged == {b \in blocks : IsPaged(b.at)}
        pages == UNION {PageRange(PAGE_TO_BIT(b.at), b.bytes \div PAGE_SIZE) : b \in paged}
        lent(i) == {b.at : b \in {c \in blocks \ paged : c.bytes = slab_cache_index_to_size(i)}}
    IN  status = "ready" =>
            /\ heap.bitmap = (0 .. 12) \cup pages
            /\ \A i \in Caches :
                   /\ ToSet(heap.caches[i]) \cup lent(i) = ToSet(Buffers(2 * i + 2, i))
                   /\ Len(heap.caches[i]) + Cardinality(lent(i)) = CacheBuffers(i)

\* malloc gives at least the bytes asked for, beside its metadata, and takes
\* them from the smallest cache that has room, at every boundary of the size
\* classes (malloc.c:65, round_alloc_size, next_power_of_two), except for the
\* largest sizes of all, to which the metadata cannot be added.
MallocHoldsRequest ==
    reply.op = "malloc" /\ reply.asked + METADATA_SIZE < SIZE_RANGE =>
        /\ reply.room >= reply.asked
        /\ \A i \in Caches : slab_cache_index_to_size(i) >= reply.asked + METADATA_SIZE =>
               reply.room + METADATA_SIZE <= slab_cache_index_to_size(i)

\* malloc gives at least the bytes asked for, whatever the size.  The code does not
\* have this property: the sum of malloc.c:65 wraps, and a block of the smallest
\* cache is returned.
MallocHoldsEverySize == reply.op = "malloc" => reply.room >= reply.asked

\* A block holds the bytes asked for after realloc too ("round size so that it
\* can be used properly without having to care about rounding",
\* malloc.c:213-214).
ReallocHoldsRequest == reply.op = "realloc" => reply.room >= reply.asked

\* realloc writes inside the block it returns (malloc.c:173, malloc.c:177).
CopyFitsBlock == reply.op = "realloc" => reply.copied <= reply.room

\* realloc keeps what the caller had written, up to the smaller of the two
\* sizes ("try to reallocate memory", malloc.c:112).
ReallocKeepsData ==
    reply.op = "realloc" => reply.kept >= Min({reply.before, reply.asked})

-----------------------------------------------------------------------------
(* What the theorems about the heap ask of the callers.                     *)

\* No block is larger than a page: pmm_find_first_free_page_range looks at the
\* first page of a range only (run pmm_range_overlap).
SinglePages == \A size \in Sizes : AllocSize(size) <= PAGE_SIZE
=============================================================================
