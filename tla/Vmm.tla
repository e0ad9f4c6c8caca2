--------------------------------- MODULE Vmm ---------------------------------
(***************************************************************************)
(* Virtual memory management, memory/virtual/vmm.c: four levels of page    *)
(* tables whose pages come from the physical memory manager.               *)
(*                                                                         *)
(* A virtual page is the tuple of its four table indices, the first being  *)
(* the index into the root table; a table has Entries entries.  An entry   *)
(* has a frame and flags; it is present if PRESENT is among them.          *)
(* memory[p] is page p read as a table.  An entry of the last level also   *)
(* has the bits that choose an entry of the page attribute table, which    *)
(* has the caching type (hardware/cpu.h).                                  *)
(*                                                                         *)
(* Every CPU remembers translations in its translation lookaside buffer.   *)
(* "wanted" is a history variable: the mappings callers asked for.         *)
(***************************************************************************)
EXTENDS PageBitmap, Sequences

CONSTANTS
    CPUs,
    BootCpu,       \* the one that calls vmm_init
    TopPage,       \* the number of pages of memory
    BootBitmap,    \* the used pages when vmm_init is called
    Entries,       \* the number of entries of a table
    MappedPages,   \* the number of pages of 4 GiB, which vmm_init maps
    MapEntries,    \* the memory map: a sequence of [base, length] in pages
    Frames,        \* the frames callers map
    VirtualPages,  \* the virtual pages callers map, unmap and use
    CallerRanges,  \* the ranges they map and unmap, as [region, page, left]
    FlagSets,      \* the privileges callers ask for
    CacheTypes,    \* the caching types callers ask for
    UnmapAnything  \* do callers unmap pages that are not mapped, too?

PRESENT == "present"
READ_WRITE == "read_write"
USER == "user_supervisor"
KERNEL_READ == {PRESENT}
KERNEL_READ_WRITE == {PRESENT, READ_WRITE}
USER_READ == {PRESENT, USER}
USER_READ_WRITE == {PRESENT, READ_WRITE, USER}

\* pat_cache_t, whose values are the processor's names of the types.
PAT_UNCACHEABLE == 0
PAT_WRITE_COMBINING == 1
PAT_WRITE_THROUGH == 4
PAT_WRITE_PROTECTED == 5
PAT_WRITE_BACK == 6
PAT_UNCACHED == 7

PWT == 1  \* PTE_WRITE_THROUGH, PTE_CACHE_DISABLED and PTE_PAT by the weight
PCD == 2  \* they have in the number of an entry of the page attribute table
PAT == 4

\* The regions vmm_init uses, by their index in the root table.  Each starts at the first
\* page below that index (HIGHER_HALF_CODE starts 2 GiB before the end of the last).
IDENTITY == 0
HIGHER_HALF_DATA == 1
HEAP_START_ADDR == 2
HIGHER_HALF_CODE == 3

Index == 0 .. Entries - 1
VirtualPage == Index \X Index \X Index \X Index

\* The pages below one entry of the root table, 512 GiB.
RegionPages == Entries * Entries * Entries

ASSUME VmmAssumption ==
    /\ BootCpu \in CPUs
    /\ TopPage \in Nat \ {0}
    /\ BootBitmap \subseteq 0 .. TopPage - 1
    /\ Entries \in Nat /\ HIGHER_HALF_CODE \in Index
    /\ MappedPages \in 0 .. RegionPages
    /\ MapEntries \in Seq([base : Nat, length : 0 .. RegionPages])
    /\ Frames \subseteq Nat
    /\ VirtualPages \subseteq VirtualPage
    /\ CallerRanges \subseteq [region : Index, page : Nat, left : Nat]
    /\ \A r \in CallerRanges : r.page + r.left <= RegionPages
    /\ FlagSets \subseteq {KERNEL_READ, KERNEL_READ_WRITE, USER_READ, USER_READ_WRITE}
    /\ CacheTypes \subseteq {PAT_UNCACHEABLE, PAT_WRITE_COMBINING, PAT_WRITE_THROUGH,
                             PAT_WRITE_PROTECTED, PAT_WRITE_BACK, PAT_UNCACHED}
    /\ UnmapAnything \in BOOLEAN

VARIABLES
    phase,       \* "start", "mapping" in vmm_init, "done" once it has returned
    next,        \* the number of the next range vmm_init maps
    work,        \* the range being mapped or unmapped, of which work.left pages are left
    root,        \* root_page_table, as a page; cr3 of every CPU
    pmm_bitmap,  \* the used pages
    memory,      \* memory[p]: page p, read as a table
    pat,         \* the page attribute table: the types of its eight entries
    tlb,         \* tlb[c][v]: what CPU c remembers of v, or NoEntry
    wanted       \* wanted[v]: how v was last mapped, its type for the bits, or NoEntry

vars == <<phase, next, work, root, pmm_bitmap, memory, pat, tlb, wanted>>

ready == phase = "done"

NoEntry == [frame |-> 0, flags |-> {}, cache |-> 0]
ZeroPage == [i \in Index |-> NoEntry]

\* m with an entry of the table in page p replaced.
WithEntry(m, p, index, entry) == [m EXCEPT ![p] = [m[p] EXCEPT ![index] = entry]]

\* The tables as a value that the functions below change step by step.
Tables == [bitmap |-> pmm_bitmap, memory |-> memory]

-----------------------------------------------------------------------------
(* vmm_get_or_create_pml and vmm_set_pt_value *)

\* pmm_allocz(1): the page and the state after it.  NULL is page 0, which its
\* memset clears as it would any other.
AllocatedPage(t) ==
    PAGE_TO_BIT(pmm_find_first_free_page_range(t.bitmap, BIT_TO_PAGE(TopPage), 1))

AfterAlloc(t) ==
    LET page == AllocatedPage(t)
    IN  [bitmap |-> IF page = NULL THEN t.bitmap ELSE SetBits(t.bitmap, page, 1),
         memory |-> [t.memory EXCEPT ![page] = ZeroPage]]

\* Variant: a table is created although there is one.
vmm_create_pml(t, pml, index, flags) ==
    [bitmap |-> AfterAlloc(t).bitmap,
     memory |-> WithEntry(AfterAlloc(t).memory, pml, index,
                          [frame |-> AllocatedPage(t), flags |-> flags, cache |-> 0])]

\* The tables once the entry at "index" of table pml leads somewhere.
vmm_get_or_create_pml(t, pml, index, flags) ==
    IF PRESENT \in t.memory[pml][index].flags
    THEN t
    ELSE [bitmap |-> AfterAlloc(t).bitmap,
          memory |-> WithEntry(AfterAlloc(t).memory, pml, index,
                               [frame |-> AllocatedPage(t), flags |-> flags, cache |-> 0])]

\* Going down from "pml" and creating the three tables on the way.
Descend(t, pml, index, flags) ==
    LET created == vmm_get_or_create_pml(t, pml, index, flags)
    IN  [tables |-> created, pml |-> created.memory[pml][index].frame]

\* Variant: the bits PCD and PWT are exchanged.
vmm_pat_cache_to_flags_swapped(type) ==
    CASE type = PAT_UNCACHEABLE     -> 0
      [] type = PAT_WRITE_COMBINING -> PCD
      [] type = PAT_WRITE_THROUGH   -> PAT
      [] type = PAT_WRITE_PROTECTED -> PAT + PCD
      [] type = PAT_WRITE_BACK      -> PAT + PWT
      [] type = PAT_UNCACHED        -> PAT + PCD + PWT

vmm_pat_cache_to_flags(type) ==
    CASE type = PAT_UNCACHEABLE     -> 0
      [] type = PAT_WRITE_COMBINING -> PWT
      [] type = PAT_WRITE_THROUGH   -> PAT
      [] type = PAT_WRITE_PROTECTED -> PAT + PWT
      [] type = PAT_WRITE_BACK      -> PAT + PCD
      [] type = PAT_UNCACHED        -> PAT + PCD + PWT

vmm_set_pt_value(t, table, v, frame, flags, type) ==
    LET pdpt == Descend(t, table, v[1], flags)
        pd   == Descend(pdpt.tables, pdpt.pml, v[2], flags)
        pt   == Descend(pd.tables, pd.pml, v[3], flags)
    IN  [bitmap |-> pt.tables.bitmap,
         memory |-> WithEntry(pt.tables.memory, pt.pml, v[4],
                              [frame |-> frame, flags |-> flags,
                               cache |-> vmm_pat_cache_to_flags(type)])]

MapPage(t, table, frame, v, flags, type) == vmm_set_pt_value(t, table, v, frame, flags, type)
UnmapPage(t, table, v) == vmm_set_pt_value(t, table, v, 0, {}, PAT_UNCACHEABLE)

\* The virtual page at which page number n of a region starts whose first table
\* index is "region".
InRegion(region, n) ==
    LET pt == n \div Entries
        pd == pt \div Entries
    IN  <<region + pd \div Entries, pd % Entries, pt % Entries, n % Entries>>

-----------------------------------------------------------------------------
(* The operations *)

\* enable_pat writes the types at the places that vmm_pat_cache_to_flags selects,
\* and 0 to the two others.
enable_pat ==
    [n \in 0 .. 7 |-> IF n \in {2, 3} THEN PAT_UNCACHEABLE ELSE n]

\* What the processor starts with.
DefaultPat == <<6, 4, 7, 0, 6, 4, 7, 0>>

\* No range is being worked on.
Idle == [cpu |-> BootCpu, map |-> FALSE, frame |-> 0, region |-> 0, page |-> 0, left |-> 0,
         flags |-> {}, type |-> PAT_UNCACHEABLE]
idle == work = Idle

\* vmm_map_range over the frames 0 .. pages - 1.
FromZero(pages, region, flags) ==
    [cpu |-> BootCpu, map |-> TRUE, frame |-> 0, region |-> region, page |-> 0, left |-> pages,
     flags |-> flags, type |-> PAT_UNCACHEABLE]

\* The ranges vmm_init maps.  The loop over the memory map passes 0 and the entry's
\* length as the range.
InitialRanges == 4 + Len(MapEntries)

InitialRange(k) ==
    CASE k = 1 -> FromZero(MappedPages, IDENTITY, KERNEL_READ_WRITE)
      [] k = 2 -> FromZero(MappedPages, HIGHER_HALF_DATA, KERNEL_READ_WRITE)
      [] k = 3 -> FromZero(MappedPages, HEAP_START_ADDR, KERNEL_READ_WRITE)
      [] k = 4 -> FromZero(MappedPages \div 2, HIGHER_HALF_CODE, KERNEL_READ)
      [] OTHER -> FromZero(MapEntries[k - 4].length, HIGHER_HALF_DATA, KERNEL_READ_WRITE)

\* A processor that has come to the table w.frame takes the entry at "index": every
\* level must be present, and it grants what all levels grant.
Through(m, w, index) ==
    LET entry == m[w.frame][index]
    IN  IF PRESENT \in w.flags \cap entry.flags
        THEN [frame |-> entry.frame, flags |-> w.flags \cap entry.flags, cache |-> entry.cache]
        ELSE NoEntry

FromRoot(r) == [frame |-> r, flags |-> {PRESENT, READ_WRITE, USER}, cache |-> 0]

WalkIn(m, r, v) ==
    Through(m, Through(m, Through(m, Through(m, FromRoot(r), v[1]), v[2]), v[3]), v[4])

Walk(v) == WalkIn(memory, root, v)

\* The mappings vmm_init is there to make: the comments at its calls.  The frame
\* is the address without the start of its region.
Offset(v) == (v[2] * Entries + v[3]) * Entries + v[4]

Listed == UNION {PageRange(MapEntries[k].base, MapEntries[k].length) : k \in DOMAIN MapEntries}

InitialMappings ==
    LET asked(region) ==
            CASE region \in {IDENTITY, HEAP_START_ADDR} -> 0 .. MappedPages - 1
              [] region = HIGHER_HALF_DATA -> (0 .. MappedPages - 1) \cup Listed
              [] region = HIGHER_HALF_CODE -> 0 .. MappedPages \div 2 - 1
              [] OTHER -> {}
    IN  [v \in VirtualPage |->
            IF Offset(v) \in asked(v[1])
            THEN [frame |-> Offset(v), cache |-> PAT_UNCACHEABLE,
                  flags |-> IF v[1] = HIGHER_HALF_CODE THEN KERNEL_READ ELSE KERNEL_READ_WRITE]
            ELSE NoEntry]

vmm_init ==
    /\ phase = "start"
    /\ phase' = "mapping"
    /\ next' = 1
    /\ pat' = enable_pat
    /\ root' = AllocatedPage(Tables)
    /\ pmm_bitmap' = AfterAlloc(Tables).bitmap
    /\ memory' = AfterAlloc(Tables).memory
    /\ UNCHANGED <<work, tlb, wanted>>

InitMapsRange ==
    /\ phase = "mapping" /\ idle /\ next <= InitialRanges
    /\ next' = next + 1
    /\ work' = IF InitialRange(next).left = 0 THEN Idle ELSE InitialRange(next)
    /\ UNCHANGED <<phase, root, pmm_bitmap, memory, pat, tlb, wanted>>

\* The new tables are used from here on.
vmm_load_page_table ==
    /\ phase = "mapping" /\ idle /\ next > InitialRanges
    /\ phase' = "done"
    /\ wanted' = InitialMappings
    /\ UNCHANGED <<next, work, root, pmm_bitmap, memory, pat, tlb>>

\* Variant: without invlpg.
ChangeUnflushed(c, t, v) ==
    /\ pmm_bitmap' = t.bitmap
    /\ memory' = t.memory
    /\ UNCHANGED <<phase, next, root, pat, tlb>>

\* The tables are t after a change at v made by CPU c, whose invlpg drops what it
\* remembers of v.
Change(c, t, v) ==
    /\ pmm_bitmap' = t.bitmap
    /\ memory' = t.memory
    /\ tlb' = [tlb EXCEPT ![c] = [tlb[c] EXCEPT ![v] = NoEntry]]
    /\ UNCHANGED <<phase, next, root, pat>>

vmm_map_page(c, frame, v, flags, type) ==
    /\ ready /\ idle
    /\ Change(c, MapPage(Tables, root, frame, v, flags, type), v)
    /\ wanted' = [wanted EXCEPT ![v] = [frame |-> frame, flags |-> flags, cache |-> type]]
    /\ UNCHANGED work

vmm_unmap_page(c, v) ==
    /\ ready /\ idle
    /\ UnmapAnything \/ wanted[v] # NoEntry
    /\ Change(c, UnmapPage(Tables, root, v), v)
    /\ wanted' = [wanted EXCEPT ![v] = NoEntry]
    /\ UNCHANGED work

\* A caller starts to map or to unmap a range; the loop is RangePage below.
vmm_map_range(c, frame, range, flags, type) ==
    /\ ready /\ idle
    /\ range.left > 0
    /\ work' = [cpu |-> c, map |-> TRUE, frame |-> frame, region |-> range.region,
                page |-> range.page, left |-> range.left, flags |-> flags, type |-> type]
    /\ UNCHANGED <<phase, next, root, pmm_bitmap, memory, pat, tlb, wanted>>

vmm_unmap_range(c, range) ==
    /\ ready /\ idle
    /\ range.left > 0
    /\ UnmapAnything \/ \A n \in PageRange(range.page, range.left) :
                            wanted[InRegion(range.region, n)] # NoEntry
    /\ work' = [cpu |-> c, map |-> FALSE, frame |-> 0, region |-> range.region,
                page |-> range.page, left |-> range.left, flags |-> {},
                type |-> PAT_UNCACHEABLE]
    /\ UNCHANGED <<phase, next, root, pmm_bitmap, memory, pat, tlb, wanted>>

\* One turn of the loop of vmm_map_range or vmm_unmap_range.
RangePage ==
    LET v == InRegion(work.region, work.page)
    IN  /\ ~idle
        /\ work' = IF work.left = 1 THEN Idle
                   ELSE [work EXCEPT !.frame = work.frame + 1, !.page = work.page + 1,
                                     !.left = work.left - 1]
        /\ Change(work.cpu,
                  IF work.map
                  THEN MapPage(Tables, root, work.frame, v, work.flags, work.type)
                  ELSE UnmapPage(Tables, root, v),
                  v)
        /\ wanted' = [wanted EXCEPT ![v] =
                         IF work.map
                         THEN [frame |-> work.frame, flags |-> work.flags, cache |-> work.type]
                         ELSE NoEntry]

\* CPU c uses v and remembers its translation.
Access(c, v) ==
    /\ ready
    /\ tlb[c][v] = NoEntry
    /\ Walk(v) # NoEntry
    /\ tlb' = [tlb EXCEPT ![c] = [tlb[c] EXCEPT ![v] = Walk(v)]]
    /\ UNCHANGED <<phase, next, work, root, pmm_bitmap, memory, pat, wanted>>

-----------------------------------------------------------------------------

Init ==
    /\ phase = "start"
    /\ next = 0
    /\ work = Idle
    /\ root = NULL
    /\ pmm_bitmap = BootBitmap
    /\ memory = [p \in 0 .. TopPage - 1 |-> ZeroPage]
    /\ pat = [n \in 0 .. 7 |-> DefaultPat[n + 1]]
    /\ tlb = [c \in CPUs |-> [v \in VirtualPage |-> NoEntry]]
    /\ wanted = [v \in VirtualPage |-> NoEntry]

Next ==
    \/ vmm_init \/ InitMapsRange \/ RangePage \/ vmm_load_page_table
    \/ \E c \in CPUs :
           \/ \E frame \in Frames, v \in VirtualPages, flags \in FlagSets, type \in CacheTypes :
                  vmm_map_page(c, frame, v, flags, type)
           \/ \E v \in VirtualPages : vmm_unmap_page(c, v) \/ Access(c, v)
           \/ \E frame \in Frames, range \in CallerRanges, flags \in FlagSets,
                 type \in CacheTypes : vmm_map_range(c, frame, range, flags, type)
           \/ \E range \in CallerRanges : vmm_unmap_range(c, range)

Spec == Init /\ [][Next]_vars

-----------------------------------------------------------------------------
(* Properties *)

Flags == SUBSET {PRESENT, READ_WRITE, USER}
Entry == [frame : Nat, flags : Flags, cache : 0 .. 7]

TypeOK ==
    /\ phase \in {"start", "mapping", "done"}
    /\ next \in 0 .. InitialRanges + 1
    /\ work \in [cpu : CPUs, map : BOOLEAN, frame : Nat, region : Index, page : Nat, left : Nat,
                 flags : Flags, type : 0 .. 7]
    /\ root \in 0 .. TopPage - 1
    /\ pmm_bitmap \subseteq 0 .. TopPage - 1
    /\ memory \in [0 .. TopPage - 1 -> [Index -> Entry]]
    /\ pat \in [0 .. 7 -> 0 .. 7]
    /\ tlb \in [CPUs -> [VirtualPage -> Entry]]
    /\ wanted \in [VirtualPage -> Entry]

\* The entries of tables that lead somewhere, as pairs of a page and an index, and the
\* tables that they lead to.
Slots(m, tables) == {s \in tables \X Index : PRESENT \in m[s[1]][s[2]].flags}
Below(m, tables) == {m[s[1]][s[2]].frame : s \in Slots(m, tables)}

Pdpts == Below(memory, {root})
Pds == Below(memory, Pdpts)
Pts == Below(memory, Pds)

\* The processor sees the mappings callers asked for and no others: a change at
\* one page leaves the translation of every other page alone, those that share
\* its tables included (vmm_map_page, vmm_unmap_page, vmm_set_pt_value).
TranslationAsAsked ==
    ready => \A v \in VirtualPage :
        /\ Walk(v).frame = wanted[v].frame
        /\ (Walk(v) = NoEntry) = (wanted[v] = NoEntry)

\* No table is reached by two paths, none is page 0, and all are pages the
\* physical memory manager has marked used (vmm_get_or_create_pml).
TablesNotShared ==
    ready =>
        /\ \A s1, s2 \in Slots(memory, {root} \cup Pdpts \cup Pds) :
               memory[s1[1]][s1[2]].frame = memory[s2[1]][s2[2]].frame => s1 = s2
        /\ root \notin Pdpts \cup Pds \cup Pts
        /\ NULL \notin {root} \cup Pdpts \cup Pds \cup Pts
        /\ {root} \cup Pdpts \cup Pds \cup Pts \subseteq pmm_bitmap \ BootBitmap

\* The pages taken from the physical memory manager are the tables in use:
\* mapping and unmapping lose none (vmm_set_pt_value, vmm_unmap_page).
TablePagesAccountedFor ==
    ready => pmm_bitmap = BootBitmap \cup {root} \cup Pdpts \cup Pds \cup Pts

\* Both: however pages are mapped and unmapped, the tables in use are pages of
\* their own, and no page is lost or taken twice (vmm_get_or_create_pml,
\* vmm_set_pt_value).
TablesAccountedFor == TablesNotShared /\ TablePagesAccountedFor

\* The processor caches a page the way its last mapping asked for: the bits in
\* the table select an entry of the page attribute table that has the type
\* (vmm_pat_cache_to_flags with enable_pat; "Layout that needs to be used
\* according to custom_pat_config", vmm.c:184).
CachingAsAsked ==
    ready => \A v \in VirtualPage :
        Walk(v) # NoEntry => pat[Walk(v).cache] = wanted[v].cache

\* A CPU remembers no translation that the tables do not have any more ("for
\* changes to apply, the translation lookaside buffers need to be flushed",
\* vmm.c:174).
NoStaleTranslation ==
    \A c \in CPUs, v \in VirtualPages : tlb[c][v] \in {NoEntry, Walk(v)}

\* A page can be used with the privilege it was mapped with (vmm.c:89, and
\* "types of virtual memory mapping privileges", vmm.h:36).
PrivilegeAsAsked ==
    ready => \A v \in VirtualPages : Walk(v).flags = wanted[v].flags
=============================================================================
