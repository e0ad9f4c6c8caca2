-------------------------------- MODULE Slab --------------------------------
(***************************************************************************)
(* The slab allocator, memory/dynamic/slab.c, on top of the page bitmap of *)
(* the physical memory manager: one cache, its list of slabs, each slab a  *)
(* page of buffers with the slab structure at its end.                     *)
(*                                                                         *)
(* The linked list of slabs is a sequence, and so is each free list; this  *)
(* is exact as long as the pages they live in are not given to someone     *)
(* else, which is what SlabPagesAllocated states.                          *)
(*                                                                         *)
(* Operations run one at a time (slab.c takes no lock).  The loops of      *)
(* slab_cache_grow and slab_cache_reap and the recursion of                *)
(* slab_cache_alloc are steps of their own, kept apart from other          *)
(* operations by "call".                                                   *)
(***************************************************************************)
EXTENDS PageBitmap, SequencesExt, Functions

CONSTANTS
    TopPage,      \* the number of pages; page 0 is reserved
    HEADER_SIZE,  \* sizeof(slab_cache_t) = sizeof(slab_t)
    SLAB_SIZE,    \* slab_size, the size of a buffer
    FlagSets,     \* the flags callers pass
    GrowCounts,   \* the counts callers pass to slab_cache_grow
    MaxSlabs,     \* callers grow only while the list is shorter
    Reclaim       \* may callers use slab_cache_reap and slab_cache_destroy?

SLAB_PANIC == "SLAB_PANIC"
SLAB_AUTO_GROW == "SLAB_AUTO_GROW"
SLAB_NO_ALIGN == "SLAB_NO_ALIGN"

\* slab_cache_create asserts it of slab_size.
is_power_of_two(num) == \E k \in 0 .. num : num = 2 ^ k

ASSUME SlabAssumption ==
    /\ TopPage \in Nat \ {0}
    /\ SLAB_SIZE \in Nat \ {0} /\ is_power_of_two(SLAB_SIZE)
    /\ HEADER_SIZE \in 1 .. PAGE_SIZE
    /\ FlagSets \subseteq SUBSET {SLAB_PANIC, SLAB_AUTO_GROW, SLAB_NO_ALIGN}
    /\ GrowCounts \subseteq Nat
    /\ MaxSlabs \in Nat
    /\ Reclaim \in BOOLEAN

VARIABLES
    pmm_bitmap,        \* the used pages
    cache,             \* the address of the cache structure, or NULL
    bufctl_count_max,  \* cache->bufctl_count_max
    slabs,             \* the list from cache->slabs_head on
    call,              \* the operation under way, or Idle
    panicked,          \* has log(PANIC, ...) stopped the machine?
    live               \* the buffers callers have

vars == <<pmm_bitmap, cache, bufctl_count_max, slabs, call, panicked, live>>

Idle == [op |-> "idle"]

\* slab_cache_grow with "left" slabs to go; "fresh" until the first is added;
\* "then" is the operation that called it.
Growing(left, fresh, then, flags) ==
    [op |-> "grow", left |-> left, fresh |-> fresh, then |-> then, flags |-> flags]

\* slab_cache_alloc about to look for a buffer again.
Allocating(flags) == [op |-> "alloc", flags |-> flags]

\* slab_cache_reap at the slab with this position in the list.
Reaping(at) == [op |-> "reap", at |-> at]

Ready == call = Idle /\ ~panicked

\* The page a single-page pmm_allocz returns, as an address.
NewPage == pmm_find_first_free_page_range(pmm_bitmap, BIT_TO_PAGE(TopPage), 1)

\* A failure the code reports with log(PANIC, ...) if asked to, and by
\* returning otherwise.
Fail(flags) ==
    /\ panicked' = (SLAB_PANIC \in flags)
    /\ call' = Idle

-----------------------------------------------------------------------------
(* slab_cache_create and slab_cache_grow *)

\* Variant: no room is left for the slab structure.
BufctlCountOfWholePage == PAGE_SIZE \div SLAB_SIZE

BufctlCountMax == (PAGE_SIZE - HEADER_SIZE) \div SLAB_SIZE

slab_cache_create(flags) ==
    /\ Ready
    /\ cache = NULL
    /\ IF NewPage = NULL
       THEN /\ Fail(flags)
            /\ UNCHANGED <<pmm_bitmap, cache, bufctl_count_max, slabs>>
       ELSE /\ cache' = NewPage
            /\ pmm_bitmap' = SetBits(pmm_bitmap, PAGE_TO_BIT(NewPage), 1)
            /\ bufctl_count_max' = BufctlCountMax
            /\ slabs' = <<>>
            /\ call' = Growing(1, TRUE, "return", flags)
            /\ UNCHANGED panicked
    /\ UNCHANGED live

slab_cache_grow(count, flags) ==
    /\ Ready
    /\ cache # NULL
    /\ Len(slabs) + count <= MaxSlabs
    /\ call' = Growing(count, TRUE, "return", flags)
    /\ UNCHANGED <<pmm_bitmap, cache, bufctl_count_max, slabs, panicked, live>>

\* The buffers that slab_init_bufctls leaves out, the ones with a page-aligned
\* address if SLAB_NO_ALIGN is given: the one at the start of the page.
\* bufctl_count_max and bufctl_count are decremented for each.
LeftOut(flags) ==
    IF SLAB_NO_ALIGN \in flags /\ bufctl_count_max > 0 THEN 1 ELSE 0

\* The free list of a new slab, in the order of the addresses.
InitBufctls(page, flags) ==
    [j \in 1 .. bufctl_count_max - LeftOut(flags) |-> page + SLAB_SIZE * (j - 1 + LeftOut(flags))]

NewSlab(page, flags) ==
    [page         |-> page,
     bufctl_count |-> bufctl_count_max - LeftOut(flags),
     freelist     |-> InitBufctls(page, flags)]

\* slab_create_slab links the slab behind cache->slabs, which slab_cache_grow
\* set to the head of the list before the first one.
LinkSlab(slab, fresh) ==
    IF fresh /\ slabs # <<>> THEN <<Head(slabs), slab>> ELSE Append(slabs, slab)

\* Variant: a failed allocation is not reported.
GrowOnceInSilence ==
    /\ call.op = "grow" /\ call.left > 0
    /\ IF NewPage = NULL
       THEN /\ call' = IF call.then = "alloc" THEN Allocating(call.flags) ELSE Idle
            /\ UNCHANGED <<pmm_bitmap, bufctl_count_max, slabs>>
       ELSE /\ pmm_bitmap' = SetBits(pmm_bitmap, PAGE_TO_BIT(NewPage), 1)
            /\ slabs' = LinkSlab(NewSlab(NewPage, call.flags), call.fresh)
            /\ bufctl_count_max' = bufctl_count_max - LeftOut(call.flags)
            /\ call' = Growing(call.left - 1, FALSE, call.then, call.flags)
    /\ UNCHANGED <<cache, live, panicked>>

GrowOnce ==
    /\ call.op = "grow" /\ call.left > 0
    /\ IF NewPage = NULL
       THEN /\ panicked' = (SLAB_PANIC \in call.flags)
            /\ call' = IF call.then = "alloc" /\ ~panicked'
                       THEN Allocating(call.flags) ELSE Idle
            /\ UNCHANGED <<pmm_bitmap, bufctl_count_max, slabs>>
       ELSE /\ pmm_bitmap' = SetBits(pmm_bitmap, PAGE_TO_BIT(NewPage), 1)
            /\ slabs' = LinkSlab(NewSlab(NewPage, call.flags), call.fresh)
            /\ bufctl_count_max' = bufctl_count_max - LeftOut(call.flags)
            /\ call' = Growing(call.left - 1, FALSE, call.then, call.flags)
            /\ UNCHANGED panicked
    /\ UNCHANGED <<cache, live>>

GrowReturns ==
    /\ call.op = "grow" /\ call.left = 0
    /\ call' = IF call.then = "alloc" THEN Allocating(call.flags) ELSE Idle
    /\ UNCHANGED <<pmm_bitmap, cache, bufctl_count_max, slabs, panicked, live>>

-----------------------------------------------------------------------------
(* slab_cache_alloc and slab_cache_free *)

\* The first slab with a free list, or with an open spot; 0 if there is none.
SlabWithBuffer == SelectInSeq(slabs, LAMBDA s : s.freelist # <<>>)
\* Variant: the last spot does not count.
SlabWithTwoSpots == SelectInSeq(slabs, LAMBDA s : s.bufctl_count + 1 < bufctl_count_max)

SlabWithSpot == SelectInSeq(slabs, LAMBDA s : s.bufctl_count < bufctl_count_max)

\* The list after slab s has got another free list, with its count.
WithFreelist(s, count, list) ==
    [slabs EXCEPT ![s] = [page |-> slabs[s].page, bufctl_count |-> count, freelist |-> list]]

\* One activation of slab_cache_alloc; without a buffer it fails, or grows the
\* cache and calls itself.
AllocBody(flags) ==
    /\ IF SlabWithBuffer # 0
       THEN LET s == SlabWithBuffer
            IN  /\ live' = live \cup {Head(slabs[s].freelist)}
                /\ slabs' = WithFreelist(s, slabs[s].bufctl_count - 1, Tail(slabs[s].freelist))
                /\ call' = Idle
                /\ UNCHANGED panicked
       ELSE /\ UNCHANGED <<live, slabs>>
            /\ IF SLAB_AUTO_GROW \in flags
               THEN call' = Growing(1, TRUE, "alloc", flags) /\ UNCHANGED panicked
               ELSE Fail(flags)
    /\ UNCHANGED <<pmm_bitmap, cache, bufctl_count_max>>

slab_cache_alloc(flags) ==
    /\ Ready
    /\ cache # NULL
    /\ AllocBody(flags)

AllocAgain ==
    /\ call.op = "alloc"
    /\ AllocBody(call.flags)

slab_cache_free(pointer, flags) ==
    /\ Ready
    /\ cache # NULL
    /\ live' = live \ {pointer}
    /\ IF SlabWithSpot # 0
       THEN LET s == SlabWithSpot
            IN  /\ slabs' = WithFreelist(s, slabs[s].bufctl_count + 1,
                                         Cons(pointer, slabs[s].freelist))
                /\ UNCHANGED <<call, panicked>>
       ELSE Fail(flags) /\ UNCHANGED slabs
    /\ UNCHANGED <<pmm_bitmap, cache, bufctl_count_max>>

\* Any operation, slab_cache_dump excepted, on a cache that slab_cache_create
\* could not make.
OperationOnNullCache(flags) ==
    /\ Ready
    /\ cache = NULL
    /\ Fail(flags)
    /\ UNCHANGED <<pmm_bitmap, cache, bufctl_count_max, slabs, live>>

\* slab_cache_dump only prints, but takes a cache without slabs for a failure.
slab_cache_dump(flags) ==
    /\ Ready
    /\ cache # NULL
    /\ slabs = <<>>
    /\ Fail(flags)
    /\ UNCHANGED <<pmm_bitmap, cache, bufctl_count_max, slabs, live>>

-----------------------------------------------------------------------------
(* slab_cache_reap and slab_cache_destroy *)

\* Variant: a slab with a free buffer counts as unused.
IsPartlyFree(slab) == slab.bufctl_count > 0

IsUnused(slab) == slab.bufctl_count = bufctl_count_max

slab_cache_reap ==
    /\ Ready
    /\ cache # NULL
    /\ call' = Reaping(1)
    /\ UNCHANGED <<pmm_bitmap, cache, bufctl_count_max, slabs, panicked, live>>

ReapOnce ==
    /\ call.op = "reap" /\ call.at <= Len(slabs)
    /\ IF IsUnused(slabs[call.at])
       THEN /\ pmm_bitmap' = UnsetBits(pmm_bitmap, PAGE_TO_BIT(slabs[call.at].page), 1)
            /\ slabs' = RemoveAt(slabs, call.at)
            /\ UNCHANGED call
       ELSE /\ call' = Reaping(call.at + 1)
            /\ UNCHANGED <<pmm_bitmap, slabs>>
    /\ UNCHANGED <<cache, bufctl_count_max, panicked, live>>

ReapReturns ==
    /\ call.op = "reap" /\ call.at > Len(slabs)
    /\ call' = Idle
    /\ UNCHANGED <<pmm_bitmap, cache, bufctl_count_max, slabs, panicked, live>>

\* Variant: freelist, which slab_cache_dump leaves null, for freelist_head.
TailPage(slab) == NULL

\* The page that destroy frees for a slab is the one of its first free buffer.
FreelistPage(slab) ==
    IF slab.freelist = <<>> THEN NULL ELSE PAGE_TO_BIT(Head(slab.freelist))

\* The loop stops at the first slab in use, after it freed those before it.
slab_cache_destroy(flags) ==
    LET stop == SelectInSeq(slabs, LAMBDA s : ~IsUnused(s))
        done == IF stop = 0 THEN slabs ELSE SubSeq(slabs, 1, stop - 1)
        freed == {FreelistPage(s) : s \in ToSet(done)}
    IN  /\ Ready
        /\ cache # NULL
        /\ IF stop # 0
           THEN /\ pmm_bitmap' = pmm_bitmap \ freed
                /\ Fail(flags)
                /\ UNCHANGED <<cache, bufctl_count_max, slabs>>
           ELSE /\ pmm_bitmap' = pmm_bitmap \ (freed \cup {PAGE_TO_BIT(cache)})
                /\ cache' = NULL
                /\ bufctl_count_max' = 0
                /\ slabs' = <<>>
                /\ UNCHANGED <<call, panicked>>
        /\ UNCHANGED live

-----------------------------------------------------------------------------

Init ==
    /\ pmm_bitmap = {0}
    /\ cache = NULL
    /\ bufctl_count_max = 0
    /\ slabs = <<>>
    /\ call = Idle
    /\ panicked = FALSE
    /\ live = {}

Next ==
    \/ \E flags \in FlagSets :
           \/ slab_cache_create(flags)
           \/ \E count \in GrowCounts : slab_cache_grow(count, flags)
           \/ slab_cache_alloc(flags)
           \/ \E pointer \in live : slab_cache_free(pointer, flags)
           \/ slab_cache_dump(flags)
           \/ OperationOnNullCache(flags)
           \/ Reclaim /\ slab_cache_destroy(flags)
    \/ Reclaim /\ slab_cache_reap
    \/ GrowOnce \/ GrowReturns \/ AllocAgain \/ ReapOnce \/ ReapReturns

\* A call under way goes on: nothing interrupts it.
Fairness == WF_vars(GrowOnce \/ GrowReturns \/ AllocAgain \/ ReapOnce \/ ReapReturns)

Spec == Init /\ [][Next]_vars /\ Fairness

-----------------------------------------------------------------------------
(* Properties *)

Address == 0 .. BIT_TO_PAGE(TopPage)

TypeOK ==
    /\ pmm_bitmap \subseteq 0 .. TopPage - 1
    /\ cache \in Address
    /\ bufctl_count_max \in 0 .. BufctlCountMax
    /\ slabs \in Seq([page : Address, bufctl_count : 0 .. BufctlCountMax,
                      freelist : Seq(Address)])
    /\ call.op \in {"idle", "grow", "alloc", "reap"}
    /\ panicked \in BOOLEAN
    /\ live \subseteq Address

FreeBuffers == UNION {ToSet(slabs[s].freelist) : s \in DOMAIN slabs}

\* A buffer is in one place: it is not on two free lists, not twice on one, and
\* not free while a caller has it.  So no buffer is handed out twice, although
\* slab_cache_free puts it on the list of whichever slab has a spot
\* (slab_cache_alloc, slab_cache_free).
BufferInOnePlace ==
    /\ FreeBuffers \cap live = {}
    /\ \A s \in DOMAIN slabs : IsInjective(slabs[s].freelist)
    /\ \A s, t \in DOMAIN slabs :
           s # t => ToSet(slabs[s].freelist) \cap ToSet(slabs[t].freelist) = {}

\* bufctl_count is the length of the free list, through grow with buffers left
\* out, alloc and free (slab_init_bufctls, slab_cache_alloc, slab_cache_free).
CountMatchesFreelist ==
    \A s \in DOMAIN slabs : slabs[s].bufctl_count = Len(slabs[s].freelist)

\* A buffer that is free or live lies below the slab structure at the end of its
\* page, so writing it damages no slab_t; with SLAB_NO_ALIGN none has a
\* page-aligned address, by which malloc.c's free tells a buffer from pages
\* (slab.c:70, slab.c:367, slab.c:397-398, malloc.c:195).
BuffersWellPlaced ==
    \A b \in FreeBuffers \cup live :
        /\ (b % PAGE_SIZE) + SLAB_SIZE <= PAGE_SIZE - HEADER_SIZE
        /\ (\A flags \in FlagSets : SLAB_NO_ALIGN \in flags) => b % PAGE_SIZE # 0

\* The page of a buffer a caller has is allocated (slab_cache_reap,
\* slab_cache_destroy: slab.c:160 "find and delete all unused slabs").
LiveBuffersBacked == \A b \in live : PAGE_TO_BIT(b) \in pmm_bitmap

\* The page of every slab on the list is allocated, and no page is on the list
\* twice (slab_cache_reap, slab_cache_destroy).
SlabPagesAllocated ==
    /\ \A s \in DOMAIN slabs : PAGE_TO_BIT(slabs[s].page) \in pmm_bitmap
    /\ \A s, t \in DOMAIN slabs : s # t => slabs[s].page # slabs[t].page

\* Besides, between calls the used pages are page 0, the page of the cache and
\* the pages of its slabs: what create and grow took, reap and destroy give back
\* (slab.c:79 "try to delete all slabs in a cache + delete cache itself").
PagesAccountedFor ==
    /\ SlabPagesAllocated
    /\ Ready => pmm_bitmap = {0, PAGE_TO_BIT(cache)}
                              \cup {PAGE_TO_BIT(slabs[s].page) : s \in DOMAIN slabs}

\* A live buffer that is freed reaches a free list: the search for an open spot
\* never fails for a pointer the allocator gave out (slab.c:255-256).
FreeFindsASpot ==
    [][\A b \in live \ live' : \E s \in DOMAIN slabs' : b \in ToSet(slabs'[s].freelist)]_vars

\* slab_cache_grow adds a slab to the list and drops none (slab.c:364).
GrowKeepsSlabs ==
    [][call.op = "grow" =>
           {slabs[s].page : s \in DOMAIN slabs} \subseteq {slabs'[s].page : s \in DOMAIN slabs'}]_vars

\* Every call ends: it returns, or stops the machine (the loops of
\* slab_cache_grow and slab_cache_reap, the recursion of slab_cache_alloc,
\* slab.c:205).
CallsReturn == (call # Idle) ~> (call = Idle)
=============================================================================
