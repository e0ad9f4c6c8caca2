------------------------------ MODULE PmmProof ------------------------------
(***************************************************************************)
(* Proofs about the physical memory manager for every memory map the       *)
(* protocol allows, every page size and every number of holders.           *)
(***************************************************************************)
EXTENDS Pmm, PageBitmapProof, FiniteSetTheorems, SequenceTheorems

-----------------------------------------------------------------------------
(* The sizes pmm_init computes. *)

\* The size of the bitmap is a number (pmm.c:89).
LEMMA SizeType ==
    ASSUME NEW top \in Nat
    PROVE  BitmapSize(top) \in Nat
<1> DEFINE pages == ALIGN_DOWN(top, PAGE_SIZE) \div PAGE_SIZE
<1>1. ALIGN_DOWN(top, PAGE_SIZE) \in Nat
  BY PageSizeAssumption DEF ALIGN_DOWN
<1>2. pages \in Nat
  BY <1>1, PageSizeAssumption
<1>3. pages \div 8 \in Nat
  BY <1>2
<1> HIDE DEF pages
<1>4. ALIGN_UP(pages \div 8, PAGE_SIZE) \in Nat
  <2> DEFINE n == pages \div 8 + PAGE_SIZE - 1
  <2>1. n \in Nat
    BY <1>3, PageSizeAssumption
  <2> HIDE DEF n
  <2>2. n \div PAGE_SIZE \in Nat
    BY <2>1, PageSizeAssumption
  <2>3. (n \div PAGE_SIZE) * PAGE_SIZE \in Nat
    BY <2>2, PageSizeAssumption
  <2> QED BY <2>3 DEF ALIGN_UP, n
<1> QED BY <1>4 DEF BitmapSize, pages

\* KB_TO_PAGES of an address is a number (pmm.c:87).
LEMMA KbType ==
    ASSUME NEW top \in Nat
    PROVE  KB_TO_PAGES(top) \in Nat
<1>1. top * 1024 \in Nat
  OBVIOUS
<1> QED BY <1>1, PageSizeAssumption DEF KB_TO_PAGES

-----------------------------------------------------------------------------
(* The memory map. *)

\* highest_page_top is a number no memory entry reaches beyond.
LEMMA TopIsHighest ==
    ASSUME NEW map, WellFormedMap(map)
    PROVE  /\ HighestPageTop(map) \in Nat
           /\ \A i \in DOMAIN map : map[i].type = USABLE =>
                  map[i].base + map[i].length <= HighestPageTop(map)
<1> DEFINE I == {j \in DOMAIN map : map[j].type \in {USABLE, RECLAIMABLE, KERNEL}}
           S == {0} \cup {map[i].base + map[i].length : i \in I}
           f == [i \in 1 .. Len(map) |-> map[i].base + map[i].length]
<1>1. map \in Seq(MapEntry) /\ DOMAIN map = 1 .. Len(map) /\ Len(map) \in Nat
  BY DEF WellFormedMap
<1>2. \A i \in DOMAIN map : map[i] \in MapEntry
  BY <1>1
<1>3. \A i \in DOMAIN map : map[i].base + map[i].length \in Nat
  BY <1>2 DEF MapEntry
<1>4. f \in [1 .. Len(map) -> Nat]
  BY <1>1, <1>3
<1>5. PICK b \in Nat : \A i \in 1 .. Len(map) : f[i] <= b
  BY <1>1, <1>4, SequenceIsBounded
<1>6. \A i \in DOMAIN map : map[i].base + map[i].length <= b
  BY <1>1, <1>5
<1>7. S \subseteq Nat /\ S # {} /\ \A x \in S : x <= b
  BY <1>3, <1>6
<1>8. Max(S) \in S /\ \A x \in S : x <= Max(S)
  <2> HIDE DEF S
  <2> QED BY <1>7, MaxIsGreatest
<1>9. HighestPageTop(map) = Max(S)
  BY DEF HighestPageTop
<1>10. \A i \in DOMAIN map : map[i].type = USABLE => map[i].base + map[i].length \in S
  BY DEF S
<1> HIDE DEF S
<1> QED BY <1>7, <1>8, <1>9, <1>10

\* Hosting the bitmap moves the start of one usable entry and nothing else.
LEMMA HostedMapShape ==
    ASSUME NEW map, WellFormedMap(map), NEW size \in Nat
    PROVE  /\ HostedMap(map, size) \in Seq(MapEntry)
           /\ DOMAIN HostedMap(map, size) = DOMAIN map
           /\ \A i \in DOMAIN map :
                  /\ HostedMap(map, size)[i].type = map[i].type
                  /\ HostedMap(map, size)[i].base + HostedMap(map, size)[i].length
                         = map[i].base + map[i].length
           /\ HostAddress(map, size) \in Nat
<1>1. map \in Seq(MapEntry) /\ DOMAIN map = 1 .. Len(map) /\ Len(map) \in Nat
  BY DEF WellFormedMap
<1>2. \A i \in DOMAIN map : map[i] \in MapEntry
  BY <1>1
<1>3. CASE Hosts(map, size) = {}
  BY <1>1, <1>3 DEF HostedMap, HostAddress, NULL
<1>4. CASE Hosts(map, size) # {}
  <2> DEFINE h == Min(Hosts(map, size))
             e == [base |-> map[h].base + size, length |-> map[h].length - size,
                   type |-> map[h].type]
  <2>1. h \in Hosts(map, size)
    BY <1>1, <1>4, MinIsLeast DEF Hosts
  <2>2. h \in DOMAIN map /\ map[h].length >= size
    BY <2>1 DEF Hosts
  <2>3. HostedMap(map, size) = [map EXCEPT ![h] = e]
    BY <1>4 DEF HostedMap
  <2>4. HostAddress(map, size) = map[h].base
    BY <1>4 DEF HostAddress
  <2> HIDE DEF h
  <2>5. /\ map[h].base \in Nat
        /\ map[h].length \in Nat
        /\ map[h].type \in {USABLE, RECLAIMABLE, KERNEL, RESERVED}
    BY <1>2, <2>2 DEF MapEntry
  <2>6. /\ e \in MapEntry
        /\ e.type = map[h].type
        /\ e.base + e.length = map[h].base + map[h].length
    BY <2>2, <2>5 DEF MapEntry
  <2> HIDE DEF e
  <2>7. [map EXCEPT ![h] = e] \in Seq(MapEntry)
    BY <1>1, <2>2, <2>6, ExceptSeq
  <2>8. \A i \in DOMAIN map : [map EXCEPT ![h] = e][i] = IF i = h THEN e ELSE map[i]
    BY <2>2
  <2> QED BY <2>2, <2>3, <2>4, <2>5, <2>6, <2>7, <2>8
<1> QED BY <1>3, <1>4

\* The usable pages are finitely many and below the top, so that the counter
\* of used pages is a number.
LEMMA UsablePagesFinite ==
    ASSUME NEW map, WellFormedMap(map), NEW size \in Nat
    PROVE  /\ UsablePages(HostedMap(map, size)) \subseteq Nat
           /\ Cardinality(UsablePages(HostedMap(map, size))) \in Nat
<1> DEFINE hosted == HostedMap(map, size)
           top == HighestPageTop(map)
<1>1. hosted \in Seq(MapEntry) /\ DOMAIN hosted = DOMAIN map
  BY HostedMapShape
<1>2. \A i \in DOMAIN map : hosted[i] \in MapEntry
  BY <1>1
<1>3. top \in Nat
  BY TopIsHighest
<1>4. \A i \in DOMAIN map : hosted[i].type = USABLE =>
          hosted[i].base + hosted[i].length <= top
  BY HostedMapShape, TopIsHighest
<1> HIDE DEF hosted, top
<1>5. ASSUME NEW i \in DOMAIN map, hosted[i].type = USABLE
      PROVE  EntryPages(hosted[i]) \subseteq 0 .. top
  <2>1. hosted[i].base \in Nat /\ hosted[i].length \in Nat
    BY <1>2 DEF MapEntry
  <2>2. /\ PAGE_TO_BIT(hosted[i].base) \in Nat
        /\ PAGE_TO_BIT(hosted[i].base) <= hosted[i].base
        /\ PAGE_TO_BIT(hosted[i].length) \in Nat
        /\ PAGE_TO_BIT(hosted[i].length) <= hosted[i].length
    BY <2>1, BitType
  <2>3. EntryPages(hosted[i]) =
            PAGE_TO_BIT(hosted[i].base) ..
                (PAGE_TO_BIT(hosted[i].base) + PAGE_TO_BIT(hosted[i].length) - 1)
    BY DEF EntryPages, PageRange, PAGE_TO_BIT
  <2>4. hosted[i].base + hosted[i].length <= top
    BY <1>4, <1>5
  <2> QED BY <1>3, <2>1, <2>2, <2>3, <2>4
<1>6. UsablePages(hosted) \subseteq 0 .. top
  BY <1>1, <1>5 DEF UsablePages
<1>7. IsFiniteSet(0 .. top)
  BY <1>3, FS_Interval
<1>8. IsFiniteSet(UsablePages(hosted))
  BY <1>6, <1>7, FS_Subset
<1> QED BY <1>3, <1>6, <1>8, FS_CardinalityType DEF hosted

-----------------------------------------------------------------------------
(* What pmm_alloc returns. *)

\* A pointer other than NULL is the address of a page below the top whose own
\* bit was clear.
LEMMA AllocResultShape ==
    ASSUME TypeOK, NEW n \in Nat
    PROVE  /\ AllocResult(n) \in Nat
           /\ PAGE_TO_BIT(AllocResult(n)) \in Nat
           /\ AllocResult(n) # NULL =>
                  /\ n > 0
                  /\ PAGE_TO_BIT(AllocResult(n)) \in 0 .. PAGE_TO_BIT(highest_page_top) - 1
                  /\ PAGE_TO_BIT(AllocResult(n)) \notin pmm_bitmap
<1>1. highest_page_top \in Nat
  BY DEF TypeOK
<1>2. CASE AllocResult(n) = NULL
  BY <1>2, BitType DEF NULL
<1>3. CASE AllocResult(n) # NULL
  <2>1. AllocResult(n) = pmm_find_first_free_page_range(pmm_bitmap, highest_page_top, n)
    BY <1>3 DEF AllocResult
  <2> QED BY <1>1, <1>3, <2>1, SearchResult
<1> QED BY <1>2, <1>3

-----------------------------------------------------------------------------
(* Type correctness. *)

\* "No range" and "no reply" are values of the right kind.
LEMMA NothingType == NoRange \in Ranges /\ NoReply \in Replies
BY DEF NoRange, NoReply, Ranges, Replies, NULL

\* Before pmm_init every variable has its type.
LEMMA InitTypeOK == Init => TypeOK
<1> SUFFICES ASSUME Init PROVE TypeOK
  OBVIOUS
<1>1. memory_map \in Seq(MapEntry)
  BY EmptySeq DEF Init
<1>2. held \in [Holders -> Ranges] /\ reply \in Replies
  BY NothingType DEF Init
<1>3. ready \in BOOLEAN
  BY Zenon DEF Init
<1>4. /\ highest_page_top \in Nat /\ used_pages_count \in Int
      /\ bitmap_map \in Nat /\ bitmap_size \in Nat /\ pmm_bitmap \subseteq Nat
  BY DEF Init, NULL
<1> QED BY <1>1, <1>2, <1>3, <1>4 DEF TypeOK

\* pmm_init leaves every variable in its type, whatever well-formed map it is
\* given.
LEMMA pmm_initTypeOK ==
    ASSUME TypeOK, NEW map \in MemoryMaps, pmm_init(map)
    PROVE  TypeOK'
<1> DEFINE top == HighestPageTop(map)
           size == BitmapSize(top)
           hosted == HostedMap(map, size)
<1>1. WellFormedMap(map)
  BY MemoryMapsAssumption
<1>2. top \in Nat /\ size \in Nat
  BY <1>1, TopIsHighest, SizeType
<1>3. hosted \in Seq(MapEntry) /\ HostAddress(map, size) \in Nat
  BY <1>1, <1>2, HostedMapShape
<1>4. Cardinality(UsablePages(hosted)) \in Nat
  BY <1>1, <1>2, UsablePagesFinite
<1>5. KB_TO_PAGES(top) - Cardinality(UsablePages(hosted)) \in Int
  BY <1>2, <1>4, KbType
<1> HIDE DEF top
<1>6. BitsBehind(top, size) \subseteq Nat /\ 0 .. 8 * size - 1 \subseteq Nat
  <2> HIDE DEF size
  <2>1. PAGE_TO_BIT(top) \in Nat /\ 8 * size \in Nat
    BY <1>2, BitType
  <2> QED BY <2>1 DEF BitsBehind
<1>7. /\ ready' = TRUE /\ memory_map' = hosted /\ highest_page_top' = top
      /\ bitmap_size' = size /\ bitmap_map' = HostAddress(map, size)
      /\ used_pages_count' = KB_TO_PAGES(top) - Cardinality(UsablePages(hosted))
      /\ held' = held /\ reply' = reply
  BY DEF pmm_init, top
<1>8. PICK behind \in SUBSET BitsBehind(top, size) :
          pmm_bitmap' = (((0 .. 8 * size - 1) \cup behind) \ UsablePages(hosted)) \cup {0}
  BY DEF pmm_init, top
<1> HIDE DEF size, hosted
<1>9. pmm_bitmap' \subseteq Nat
  BY <1>6, <1>8
<1> QED BY <1>2, <1>3, <1>5, <1>7, <1>9 DEF TypeOK

\* So do pmm_alloc and pmm_allocz, refused or not.
LEMMA pmm_allocTypeOK ==
    ASSUME TypeOK, NEW h \in Holders, NEW n \in PageCounts,
           NEW zeroed \in SUBSET Nat, pmm_alloc_with(h, n, zeroed)
    PROVE  TypeOK'
<1>1. n \in Nat
  BY PageCountsAssumption
<1>2. AllocResult(n) \in Nat /\ PAGE_TO_BIT(AllocResult(n)) \in Nat
  BY <1>1, AllocResultShape
<1>3. reply' \in Replies
  BY <1>1, <1>2 DEF pmm_alloc_with, Replies
<1>4. CASE AllocResult(n) = NULL
  BY <1>3, <1>4 DEF pmm_alloc_with, TypeOK
<1>5. CASE AllocResult(n) # NULL
  <2>1. pmm_bitmap' \subseteq Nat
    BY <1>1, <1>2, <1>5, PageRangeType DEF pmm_alloc_with, SetBits, TypeOK
  <2>2. used_pages_count' \in Int
    BY <1>1, <1>5 DEF pmm_alloc_with, TypeOK
  <2>3. held' \in [Holders -> Ranges]
    <3>1. [pointer |-> AllocResult(n), pages |-> n] \in Ranges
      BY <1>1, <1>2 DEF Ranges
    <3>2. held' = [held EXCEPT ![h] = [pointer |-> AllocResult(n), pages |-> n]]
      BY <1>5 DEF pmm_alloc_with
    <3> QED BY <3>1, <3>2 DEF TypeOK
  <2> QED BY <1>3, <2>1, <2>2, <2>3 DEF pmm_alloc_with, TypeOK
<1> QED BY <1>4, <1>5

\* Every step keeps the types.
LEMMA NextTypeOK == TypeOK /\ [Next]_vars => TypeOK'
<1> SUFFICES ASSUME TypeOK, [Next]_vars PROVE TypeOK'
  OBVIOUS
<1>1. ASSUME NEW map \in MemoryMaps, pmm_init(map) PROVE TypeOK'
  BY <1>1, pmm_initTypeOK
<1>2. ASSUME NEW h \in Holders, NEW n \in PageCounts, pmm_alloc(h, n) PROVE TypeOK'
  BY <1>2, pmm_allocTypeOK DEF pmm_alloc
<1>3. ASSUME NEW h \in Holders, NEW n \in PageCounts, pmm_allocz(h, n) PROVE TypeOK'
  <2>1. PageRange(PAGE_TO_BIT(AllocResult(n)), n) \in SUBSET Nat
    BY AllocResultShape, PageRangeType, PageCountsAssumption
  <2> QED BY <1>3, <2>1, pmm_allocTypeOK DEF pmm_allocz
<1>4. ASSUME NEW h \in Holders, pmm_free(h) PROVE TypeOK'
  <2>1. pmm_bitmap' \subseteq Nat
    BY <1>4 DEF pmm_free, TypeOK, UnsetBits
  <2>2. used_pages_count' \in Int
    BY <1>4 DEF pmm_free, TypeOK, Ranges
  <2>3. held' \in [Holders -> Ranges] /\ reply' \in Replies
    BY <1>4, NothingType DEF pmm_free, TypeOK
  <2> QED BY <1>4, <2>1, <2>2, <2>3 DEF pmm_free, TypeOK
<1>5. ASSUME WriteBehind PROVE TypeOK'
  <2>1. BitsBehind(highest_page_top, bitmap_size) \subseteq Nat
    BY BitType DEF BitsBehind, TypeOK
  <2> QED BY <1>5, <2>1, NothingType DEF WriteBehind, TypeOK
<1>6. ASSUME UNCHANGED vars PROVE TypeOK'
  BY <1>6 DEF vars, TypeOK
<1> QED BY <1>1, <1>2, <1>3, <1>4, <1>5, <1>6 DEF Next

\* Every reachable state of the physical memory manager has its type, for any
\* memory maps, page counts and page size; in particular every pointer that
\* pmm_alloc returns is an address and the arithmetic of pmm_init stays in the
\* natural numbers.
THEOREM TypeCorrect == Spec => []TypeOK
BY InitTypeOK, NextTypeOK, PTL DEF Spec

-----------------------------------------------------------------------------
(* Page 0 is never handed out. *)

\* NullPageReserved is not inductive as it stands: before pmm_init a holder
\* must have nothing.
NullInv ==
    /\ TypeOK
    /\ ~ready => \A h \in Holders : held[h] = NoRange
    /\ ready /\ bitmap_size > 0 =>
           /\ 0 \in pmm_bitmap
           /\ \A h \in Holders : 0 \notin PagesOf(held[h])

\* Nothing has no pages.
LEMMA NoRangePages == PagesOf(NoRange) = {}
BY BitType DEF PagesOf, NoRange, PageRange, NULL

\* Every step keeps bit 0 set and page 0 out of every range.
LEMMA NullInvNext == NullInv /\ [Next]_vars => NullInv'
<1> SUFFICES ASSUME NullInv, [Next]_vars PROVE NullInv'
  OBVIOUS
<1> USE DEF NullInv
<1>1. TypeOK'
  BY NextTypeOK
<1>2. ASSUME NEW map \in MemoryMaps, pmm_init(map) PROVE NullInv'
  <2>1. 0 \in pmm_bitmap' /\ ready' /\ held' = held /\ ~ready
    BY <1>2 DEF pmm_init
  <2> QED BY <1>1, <2>1, NoRangePages DEF PagesOf
<1>3. ASSUME NEW h \in Holders, NEW n \in PageCounts, NEW z, pmm_alloc_with(h, n, z)
      PROVE  NullInv'
  <2>1. n \in Nat
    BY PageCountsAssumption
  <2>2. CASE AllocResult(n) = NULL
    BY <1>1, <1>3, <2>2 DEF pmm_alloc_with, PagesOf
  <2>3. CASE AllocResult(n) # NULL /\ bitmap_size > 0
    <3> DEFINE p == PAGE_TO_BIT(AllocResult(n))
               range == [pointer |-> AllocResult(n), pages |-> n]
    <3>1. ready /\ ready' /\ bitmap_size' = bitmap_size
             /\ pmm_bitmap' = SetBits(pmm_bitmap, p, n)
             /\ held' = [held EXCEPT ![h] = range]
      BY <1>3, <2>3 DEF pmm_alloc_with
    <3>2. p \in Nat /\ p # 0
      BY <2>1, <2>3, <3>1, AllocResultShape
    <3>3. 0 \notin PagesOf(range)
      <4>1. PagesOf(range) = PageRange(p, n)
        BY DEF PagesOf
      <4> HIDE DEF p, range
      <4> QED BY <2>1, <3>2, <4>1 DEF PageRange
    <3>4. 0 \in pmm_bitmap'
      BY <2>3, <3>1 DEF SetBits
    <3> HIDE DEF range, p
    <3>5. ASSUME NEW g \in Holders PROVE 0 \notin PagesOf(held'[g])
      <4>1. held'[g] = IF g = h THEN range ELSE held[g]
        BY <3>1 DEF TypeOK
      <4>2. 0 \notin PagesOf(held[g])
        BY <2>3, <3>1
      <4> QED BY <3>3, <4>1, <4>2
    <3>6. \A g \in Holders : 0 \notin PagesOf(held[g])'
      BY <3>5 DEF PagesOf
    <3> QED BY <1>1, <3>1, <3>4, <3>6
  <2>4. CASE AllocResult(n) # NULL /\ ~(bitmap_size > 0)
    <3>1. ready' /\ bitmap_size' = bitmap_size
      BY <1>3 DEF pmm_alloc_with
    <3> QED BY <1>1, <2>4, <3>1
  <2> QED BY <2>2, <2>3, <2>4
<1>4. ASSUME NEW h \in Holders, pmm_free(h) PROVE NullInv'
  <2>1. /\ ready /\ ready' /\ bitmap_size' = bitmap_size
        /\ pmm_bitmap' = pmm_bitmap \ PagesOf(held[h])
        /\ held' = [held EXCEPT ![h] = NoRange]
    BY <1>4 DEF pmm_free, UnsetBits, PagesOf
  <2>2. CASE bitmap_size > 0
    <3>1. 0 \in pmm_bitmap'
      BY <2>1, <2>2
    <3>2. ASSUME NEW g \in Holders PROVE 0 \notin PagesOf(held'[g])
      <4>1. held'[g] = IF g = h THEN NoRange ELSE held[g]
        BY <2>1 DEF TypeOK
      <4>2. 0 \notin PagesOf(held[g])
        BY <2>1, <2>2
      <4> QED BY <4>1, <4>2, NoRangePages
    <3>3. \A g \in Holders : 0 \notin PagesOf(held[g])'
      BY <3>2 DEF PagesOf
    <3> QED BY <1>1, <2>1, <3>1, <3>3
  <2> QED BY <1>1, <2>1, <2>2
<1>5. ASSUME WriteBehind PROVE NullInv'
  <2>1. /\ ready /\ ready' /\ bitmap_size' = bitmap_size /\ held' = held
        /\ pmm_bitmap \ BitsBehind(highest_page_top, bitmap_size) \subseteq pmm_bitmap'
    BY <1>5 DEF WriteBehind
  <2>2. bitmap_size > 0 => 0 \notin BitsBehind(highest_page_top, bitmap_size)
    BY BitType DEF BitsBehind, TypeOK
  <2> QED BY <1>1, <2>1, <2>2 DEF PagesOf
<1>6. ASSUME UNCHANGED vars PROVE NullInv'
  BY <1>1, <1>6 DEF vars, PagesOf
<1> QED BY <1>2, <1>3, <1>4, <1>5, <1>6 DEF Next, pmm_alloc, pmm_allocz

\* For requests of any length and any memory map, page 0 stays marked used and
\* is in nobody's range: pmm_alloc never confuses a page with its failure
\* value, and the search never gets stuck on address 0 (pmm.c:134).
THEOREM NullPageNeverGranted == Spec => []NullPageReserved
<1>1. Init => NullInv
  BY InitTypeOK DEF Init, NullInv
<1>2. NullInv => NullPageReserved
  BY DEF NullInv, NullPageReserved, HeldPages
<1> QED BY <1>1, <1>2, NullInvNext, PTL DEF Spec

-----------------------------------------------------------------------------
(***************************************************************************)
(* The rest of the module: when callers ask for single pages (slab.c and   *)
(* vmm.c never ask for more) and the bitmap has a bit for every page, the  *)
(* physical memory manager implements the abstract pool of pages: no page  *)
(* has two owners and none is lost.                                        *)
(***************************************************************************)

\* What the theorems below assume of the callers and of the memory maps.
SinglePages ==
    /\ PageCounts = {1}
    /\ \A map \in MemoryMaps :
           BitsBehind(HighestPageTop(map), BitmapSize(HighestPageTop(map))) = {}

-----------------------------------------------------------------------------
(* Whole pages. *)

\* A multiple of the page size is the page size times its page number.
LEMMA DivisionTwice ==
    ASSUME NEW n \in Nat, n % PAGE_SIZE = 0
    PROVE  n = PAGE_SIZE * PAGE_TO_BIT(n)
BY PageSizeAssumption DEF PAGE_TO_BIT

\* An address lies below the end of its page.
LEMMA DivisionBound ==
    ASSUME NEW n \in Nat
    PROVE  n < PAGE_SIZE * (PAGE_TO_BIT(n) + 1)
BY PageSizeAssumption DEF PAGE_TO_BIT

\* Whole pages that end below an address are pages below its page number.
LEMMA WholePages ==
    ASSUME NEW a \in Nat, NEW b \in Nat, NEW t \in Nat,
           a % PAGE_SIZE = 0, b % PAGE_SIZE = 0, a + b <= t
    PROVE  PAGE_TO_BIT(a) + PAGE_TO_BIT(b) <= PAGE_TO_BIT(t)
<1> DEFINE x == PAGE_TO_BIT(a)
           y == PAGE_TO_BIT(b)
           q == PAGE_TO_BIT(t)
<1>1. x \in Nat /\ y \in Nat /\ q \in Nat
  BY BitType
<1>2. a = PAGE_SIZE * x /\ b = PAGE_SIZE * y /\ t < PAGE_SIZE * (q + 1)
  BY DivisionTwice, DivisionBound
<1> HIDE DEF x, y, q
<1>3. PAGE_SIZE * (x + y) < PAGE_SIZE * (q + 1)
  BY <1>1, <1>2, PageSizeAssumption
<1>4. x + y < q + 1
  BY <1>1, <1>3, PageSizeAssumption
<1> QED BY <1>1, <1>4 DEF x, y, q

\* Hosting the bitmap keeps the entries whole: its size is a number of pages.
LEMMA SizeIsWhole ==
    ASSUME NEW top \in Nat
    PROVE  BitmapSize(top) % PAGE_SIZE = 0
<1> DEFINE pages == (ALIGN_DOWN(top, PAGE_SIZE) \div PAGE_SIZE) \div 8
           n == (pages + PAGE_SIZE - 1) \div PAGE_SIZE
<1>1. ALIGN_DOWN(top, PAGE_SIZE) \in Nat
  BY PageSizeAssumption DEF ALIGN_DOWN
<1>2. ALIGN_DOWN(top, PAGE_SIZE) \div PAGE_SIZE \in Nat
  BY <1>1, PageSizeAssumption
<1>3. pages \in Nat
  BY <1>2
<1> HIDE DEF pages
<1>4. pages + PAGE_SIZE - 1 \in Nat
  BY <1>3, PageSizeAssumption
<1>5. n \in Nat
  BY <1>4, PageSizeAssumption
<1>6. BitmapSize(top) = n * PAGE_SIZE
  BY DEF BitmapSize, ALIGN_UP, n, pages
<1> HIDE DEF n
<1>7. (n * PAGE_SIZE) % PAGE_SIZE = 0
  BY <1>5, PageSizeAssumption
<1> QED BY <1>6, <1>7

\* The sum of whole pages is whole.
LEMMA SumIsWhole ==
    ASSUME NEW a \in Nat, NEW b \in Nat, a % PAGE_SIZE = 0, b % PAGE_SIZE = 0
    PROVE  /\ (a + b) % PAGE_SIZE = 0
           /\ a >= b => (a - b) % PAGE_SIZE = 0
<1> DEFINE x == PAGE_TO_BIT(a)
           y == PAGE_TO_BIT(b)
<1>1. x \in Nat /\ y \in Nat /\ a = PAGE_SIZE * x /\ b = PAGE_SIZE * y
  BY BitType, DivisionTwice
<1> HIDE DEF x, y
<1>2. a + b = (x + y) * PAGE_SIZE /\ a - b = (x - y) * PAGE_SIZE
  BY <1>1, PageSizeAssumption
<1>3. ((x + y) * PAGE_SIZE) % PAGE_SIZE = 0
  BY <1>1, PageSizeAssumption
<1>4. a >= b => x - y \in Nat
  BY <1>1, PageSizeAssumption
<1>5. a >= b => ((x - y) * PAGE_SIZE) % PAGE_SIZE = 0
  <2> DEFINE z == x - y
  <2>1. z \in Nat => (z * PAGE_SIZE) % PAGE_SIZE = 0
    <3> HIDE DEF z
    <3> QED BY PageSizeAssumption
  <2> QED BY <1>4, <2>1
<1> QED BY <1>2, <1>3, <1>5

\* The usable pages of the hosted map lie below the page number of the top.
LEMMA UsableBelowTop ==
    ASSUME NEW map, WellFormedMap(map)
    PROVE  LET top == HighestPageTop(map)
           IN  UsablePages(HostedMap(map, BitmapSize(top))) \subseteq 0 .. PAGE_TO_BIT(top) - 1
<1> DEFINE top == HighestPageTop(map)
           size == BitmapSize(top)
           hosted == HostedMap(map, size)
<1>1. top \in Nat /\ size \in Nat /\ size % PAGE_SIZE = 0
  BY TopIsHighest, SizeType, SizeIsWhole
<1>2. /\ hosted \in Seq(MapEntry) /\ DOMAIN hosted = DOMAIN map
      /\ \A i \in DOMAIN map : hosted[i].type = map[i].type
      /\ \A i \in DOMAIN map : hosted[i].type = USABLE =>
             hosted[i].base + hosted[i].length <= top
  BY <1>1, HostedMapShape, TopIsHighest
<1>3. map \in Seq(MapEntry) /\ DOMAIN map = 1 .. Len(map) /\ Len(map) \in Nat
  BY DEF WellFormedMap
<1>4. ASSUME NEW i \in DOMAIN map, map[i].type = USABLE
      PROVE  hosted[i].base % PAGE_SIZE = 0 /\ hosted[i].length % PAGE_SIZE = 0
  <2> HIDE DEF size
  <2>1. /\ map[i].base \in Nat /\ map[i].length \in Nat
        /\ map[i].base % PAGE_SIZE = 0 /\ map[i].length % PAGE_SIZE = 0
    <3>1. map[i] \in MapEntry
      BY <1>3
    <3> QED BY <1>4, <3>1 DEF WellFormedMap, MapEntry
  <2>2. CASE Hosts(map, size) = {} \/ i # Min(Hosts(map, size))
    <3>1. hosted[i] = map[i]
      BY <1>3, <2>2 DEF HostedMap
    <3> QED BY <2>1, <3>1
  <2>3. CASE Hosts(map, size) # {} /\ i = Min(Hosts(map, size))
    <3>1. i \in Hosts(map, size)
      BY <1>3, <2>3, MinIsLeast DEF Hosts
    <3>2. map[i].length >= size
      BY <3>1 DEF Hosts
    <3>3. hosted[i].base = map[i].base + size /\ hosted[i].length = map[i].length - size
      BY <1>3, <2>3 DEF HostedMap
    <3> QED BY <1>1, <2>1, <3>2, <3>3, SumIsWhole
  <2> QED BY <2>2, <2>3
<1> HIDE DEF top, size, hosted
<1>5. ASSUME NEW i \in DOMAIN map, hosted[i].type = USABLE
      PROVE  EntryPages(hosted[i]) \subseteq 0 .. PAGE_TO_BIT(top) - 1
  <2>1. hosted[i].base \in Nat /\ hosted[i].length \in Nat
    <3>1. hosted[i] \in MapEntry
      BY <1>2
    <3> QED BY <3>1 DEF MapEntry
  <2> DEFINE x == PAGE_TO_BIT(hosted[i].base)
             y == PAGE_TO_BIT(hosted[i].length)
             q == PAGE_TO_BIT(top)
  <2>2. x \in Nat /\ y \in Nat /\ q \in Nat
    BY <1>1, <2>1, BitType
  <2>3. x + y <= q
    BY <1>1, <1>2, <1>4, <1>5, <2>1, WholePages
  <2>4. EntryPages(hosted[i]) = x .. (x + y - 1)
    BY DEF EntryPages, PageRange, PAGE_TO_BIT
  <2> HIDE DEF x, y, q
  <2>5. EntryPages(hosted[i]) \subseteq 0 .. q - 1
    BY <2>2, <2>3, <2>4
  <2> QED BY <2>5 DEF q
<1>6. UsablePages(hosted) \subseteq 0 .. PAGE_TO_BIT(top) - 1
  BY <1>2, <1>5 DEF UsablePages
<1> QED BY <1>6 DEF hosted, size, top

-----------------------------------------------------------------------------
(* The inductive invariant. *)

\* SingleOwner and NoPageLost need to know besides that the usable pages are
\* among those the search looks at, so that a freed page can be found again,
\* that every bit the search looks at is the bitmap's own, and that a range
\* is one page.
PoolInv ==
    /\ TypeOK
    /\ ~ready => highest_page_top = 0 /\ \A h \in Holders : held[h] = NoRange
    /\ ready => /\ BitsBehind(highest_page_top, bitmap_size) = {}
                /\ UsablePages(memory_map) \subseteq 0 .. PAGE_TO_BIT(highest_page_top) - 1
    /\ \A h \in Holders : held[h] # NoRange => held[h].pages = 1
    /\ SingleOwner
    /\ NoPageLost

\* The invariant holds before pmm_init.
LEMMA PoolInvInit == Init => PoolInv
<1> SUFFICES ASSUME Init PROVE PoolInv
  OBVIOUS
<1>1. TypeOK
  BY InitTypeOK
<1>2. ~ready /\ highest_page_top = 0 /\ \A h \in Holders : held[h] = NoRange
  BY DEF Init
<1>3. SingleOwner
  BY <1>2, NoRangePages DEF SingleOwner
<1> QED BY <1>1, <1>2, <1>3 DEF PoolInv, NoPageLost

\* What pmm_init leaves: everything usable is free and nothing is held.
LEMMA InitStep ==
    ASSUME SinglePages, PoolInv, NEW map \in MemoryMaps, pmm_init(map)
    PROVE  /\ PoolInv'
           /\ ~ready /\ ready' /\ held' = held
<1> DEFINE top == HighestPageTop(map)
           size == BitmapSize(top)
           hosted == HostedMap(map, size)
           U == UsablePages(hosted)
<1>1. TypeOK'
  BY NextTypeOK DEF PoolInv, Next
<1>2. WellFormedMap(map)
  BY MemoryMapsAssumption
<1>3. top \in Nat /\ size \in Nat /\ PAGE_TO_BIT(top) \in Nat
  BY <1>2, TopIsHighest, SizeType, BitType
<1>4. U \subseteq 0 .. PAGE_TO_BIT(top) - 1
  BY <1>2, UsableBelowTop
<1>5. BitsBehind(top, size) = {}
  BY DEF SinglePages
<1>6. /\ ~ready /\ ready' /\ held' = held
      /\ memory_map' = hosted /\ highest_page_top' = top /\ bitmap_size' = size
  BY Zenon DEF pmm_init, top
<1>7. pmm_bitmap' = ((0 .. 8 * size - 1) \ U) \cup {0}
  <2>1. PICK behind \in SUBSET BitsBehind(top, size) :
            pmm_bitmap' = (((0 .. 8 * size - 1) \cup behind) \ U) \cup {0}
    BY DEF pmm_init, top
  <2>2. behind = {}
    BY <1>5
  <2> QED BY <2>1, <2>2
<1> HIDE DEF top, size, hosted, U
<1>8. 0 .. PAGE_TO_BIT(top) - 1 \subseteq 0 .. 8 * size - 1
  BY <1>3, <1>5 DEF BitsBehind
<1>9. FreePages' = U \ {0}
  <2>1. FreePages' = (0 .. PAGE_TO_BIT(top) - 1) \ pmm_bitmap'
    BY <1>6 DEF FreePages, PAGE_TO_BIT
  <2> QED BY <1>4, <1>7, <1>8, <2>1
<1>10. \A h \in Holders : held'[h] = NoRange
  BY <1>6 DEF PoolInv
<1>11. \A h \in Holders : PagesOf(held[h])' = {}
  BY <1>10, NoRangePages DEF PagesOf
<1>12. HeldPages' = {} /\ SingleOwner'
  BY <1>11 DEF HeldPages, SingleOwner
<1>13. UsablePages(memory_map)' = U
  BY <1>6 DEF U, UsablePages, EntryPages, PageRange, PAGE_TO_BIT
<1>14. NoPageLost'
  BY <1>9, <1>12, <1>13 DEF NoPageLost
<1>15. BitsBehind(highest_page_top, bitmap_size)' = {}
  BY <1>5, <1>6 DEF BitsBehind, PAGE_TO_BIT
<1>16. UsablePages(memory_map)' \subseteq (0 .. PAGE_TO_BIT(highest_page_top) - 1)'
  BY <1>4, <1>6, <1>13 DEF PAGE_TO_BIT
<1> QED BY <1>1, <1>6, <1>10, <1>12, <1>14, <1>15, <1>16 DEF PoolInv

\* A granted page was free and is now held by the caller alone.
LEMMA AllocStep ==
    ASSUME SinglePages, PoolInv, NEW h \in Holders, NEW n \in PageCounts, NEW z,
           pmm_alloc_with(h, n, z), TypeOK'
    PROVE  /\ PoolInv'
           /\ ready' = ready
           /\ \/ FreePages' = FreePages /\ held' = held
              \/ /\ ready /\ PagesOf(held[h]) = {}
                 /\ PagesOf(held[h])' \subseteq FreePages
                 /\ FreePages' = FreePages \ PagesOf(held[h])'
                 /\ \A g \in Holders \ {h} : PagesOf(held[g])' = PagesOf(held[g])
                 /\ HeldPages' = HeldPages \cup {PAGE_TO_BIT(AllocResult(n))}
                 /\ PAGE_TO_BIT(AllocResult(n)) \notin HeldPages
<1>1. n = 1
  BY DEF SinglePages
<1>2. /\ ready /\ ready' /\ ready' = ready /\ held[h] = NoRange /\ memory_map' = memory_map
      /\ highest_page_top' = highest_page_top /\ bitmap_size' = bitmap_size
  <2>1. ready' = ready
    BY Zenon DEF pmm_alloc_with
  <2> QED BY <2>1 DEF pmm_alloc_with
<1>3. PagesOf(held[h]) = {}
  BY <1>2, NoRangePages
<1>4. /\ UsablePages(memory_map)' = UsablePages(memory_map)
      /\ BitsBehind(highest_page_top, bitmap_size)' = BitsBehind(highest_page_top, bitmap_size)
      /\ PAGE_TO_BIT(highest_page_top)' = PAGE_TO_BIT(highest_page_top)
  BY <1>2 DEF UsablePages, EntryPages, PageRange, PAGE_TO_BIT, BitsBehind
<1>5. CASE AllocResult(n) = NULL
  <2>1. pmm_bitmap' = pmm_bitmap /\ held' = held
    BY <1>5 DEF pmm_alloc_with
  <2>2. FreePages' = FreePages /\ \A g \in Holders : PagesOf(held[g])' = PagesOf(held[g])
    BY <1>4, <2>1 DEF FreePages, PagesOf
  <2>3. HeldPages' = HeldPages /\ SingleOwner'
    BY <2>2 DEF HeldPages, SingleOwner, PoolInv
  <2>4. NoPageLost'
    BY <1>2, <1>4, <2>2, <2>3 DEF NoPageLost, PoolInv
  <2>5. PoolInv'
    BY <1>2, <1>4, <2>1, <2>3, <2>4 DEF PoolInv
  <2> QED BY <1>2, <2>1, <2>2, <2>5
<1>6. CASE AllocResult(n) # NULL
  <2> DEFINE b == PAGE_TO_BIT(AllocResult(n))
             range == [pointer |-> AllocResult(n), pages |-> n]
  <2>1. pmm_bitmap' = SetBits(pmm_bitmap, b, n) /\ held' = [held EXCEPT ![h] = range]
    BY <1>6 DEF pmm_alloc_with
  <2>2. b \in Nat /\ b \in FreePages
    BY <1>1, <1>6, AllocResultShape DEF PoolInv, FreePages
  <2>3. PageRange(b, 1) = {b}
    BY <2>2 DEF PageRange
  <2>4. PagesOf(range) = {b} /\ range.pages = 1
    BY <1>1, <2>3 DEF PagesOf
  <2> HIDE DEF b, range
  <2>5. \A g \in Holders : held'[g] = IF g = h THEN range ELSE held[g]
    BY <2>1 DEF PoolInv, TypeOK
  <2>6. PagesOf(held[h])' = {b} /\ \A g \in Holders \ {h} : PagesOf(held[g])' = PagesOf(held[g])
    <3>1. PagesOf(held'[h]) = {b} /\ \A g \in Holders \ {h} : PagesOf(held'[g]) = PagesOf(held[g])
      BY <2>4, <2>5
    <3> QED BY <3>1 DEF PagesOf
  <2>7. pmm_bitmap' = pmm_bitmap \cup {b}
    BY <1>1, <2>1, <2>3 DEF SetBits
  <2>8. FreePages' = FreePages \ {b}
    BY <1>4, <2>7 DEF FreePages
  <2>9. HeldPages' = HeldPages \cup {b}
    BY <1>3, <2>6 DEF HeldPages
  <2>10. b \notin HeldPages
    BY <1>2, <2>2 DEF PoolInv, NoPageLost
  <2>11. SingleOwner'
    <3>1. \A g \in Holders : b \notin PagesOf(held[g])
      BY <2>10 DEF HeldPages
    <3> QED BY <2>6, <3>1 DEF SingleOwner, PoolInv
  <2>12. NoPageLost'
    <3>1. /\ FreePages \cup HeldPages = UsablePages(memory_map) \ {0}
          /\ FreePages \cap HeldPages = {}
      BY <1>2 DEF PoolInv, NoPageLost
    <3>2. /\ FreePages' \cup HeldPages' = UsablePages(memory_map) \ {0}
          /\ FreePages' \cap HeldPages' = {}
      BY <2>2, <2>8, <2>9, <3>1
    <3> QED BY <1>4, <3>2 DEF NoPageLost
  <2>13. \A g \in Holders : held'[g] # NoRange => held'[g].pages = 1
    BY <2>4, <2>5 DEF PoolInv
  <2>14. PoolInv'
    BY <1>2, <1>4, <2>11, <2>12, <2>13 DEF PoolInv
  <2>15. HeldPages' = HeldPages \cup {PAGE_TO_BIT(AllocResult(n))}
         /\ PAGE_TO_BIT(AllocResult(n)) \notin HeldPages
    BY <2>9, <2>10 DEF b
  <2> QED BY <1>2, <1>3, <2>2, <2>6, <2>8, <2>14, <2>15
<1> QED BY <1>5, <1>6

\* A freed range becomes free and can be found by the search again.
LEMMA FreeStep ==
    ASSUME PoolInv, NEW h \in Holders, pmm_free(h), TypeOK'
    PROVE  /\ PoolInv'
           /\ ready /\ ready' = ready
           /\ FreePages' = FreePages \cup PagesOf(held[h])
           /\ PagesOf(held[h])' = {}
           /\ \A g \in Holders \ {h} : PagesOf(held[g])' = PagesOf(held[g])
           /\ HeldPages' = HeldPages \ PagesOf(held[h])
<1>1. /\ ready /\ ready' /\ ready' = ready /\ memory_map' = memory_map
      /\ highest_page_top' = highest_page_top /\ bitmap_size' = bitmap_size
  <2>1. ready' = ready
    BY Zenon DEF pmm_free
  <2> QED BY <2>1 DEF pmm_free
<1>2. pmm_bitmap' = pmm_bitmap \ PagesOf(held[h]) /\ held' = [held EXCEPT ![h] = NoRange]
  BY DEF pmm_free, UnsetBits, PagesOf
<1>3. /\ UsablePages(memory_map)' = UsablePages(memory_map)
      /\ BitsBehind(highest_page_top, bitmap_size)' = BitsBehind(highest_page_top, bitmap_size)
      /\ PAGE_TO_BIT(highest_page_top)' = PAGE_TO_BIT(highest_page_top)
  BY <1>1 DEF UsablePages, EntryPages, PageRange, PAGE_TO_BIT, BitsBehind
<1>4. \A g \in Holders : held'[g] = IF g = h THEN NoRange ELSE held[g]
  BY <1>2 DEF PoolInv, TypeOK
<1>5. PagesOf(held[h])' = {} /\ \A g \in Holders \ {h} : PagesOf(held[g])' = PagesOf(held[g])
  <2>1. PagesOf(held'[h]) = {} /\ \A g \in Holders \ {h} : PagesOf(held'[g]) = PagesOf(held[g])
    BY <1>4, NoRangePages
  <2> QED BY <2>1 DEF PagesOf
<1>6. /\ FreePages \cup HeldPages = UsablePages(memory_map) \ {0}
      /\ FreePages \cap HeldPages = {}
      /\ UsablePages(memory_map) \subseteq 0 .. PAGE_TO_BIT(highest_page_top) - 1
  BY <1>1 DEF PoolInv, NoPageLost
<1>7. PagesOf(held[h]) \subseteq HeldPages
  BY DEF HeldPages
<1>8. FreePages' = FreePages \cup PagesOf(held[h])
  BY <1>2, <1>3, <1>6, <1>7 DEF FreePages
<1>9. HeldPages' = HeldPages \ PagesOf(held[h])
  BY <1>5 DEF HeldPages, PoolInv, SingleOwner
<1>10. SingleOwner'
  BY <1>5 DEF SingleOwner, PoolInv
<1>11. NoPageLost'
  BY <1>3, <1>6, <1>7, <1>8, <1>9 DEF NoPageLost
<1>12. \A g \in Holders : held'[g] # NoRange => held'[g].pages = 1
  BY <1>4 DEF PoolInv
<1>13. PoolInv'
  BY <1>1, <1>3, <1>10, <1>11, <1>12 DEF PoolInv
<1> QED BY <1>1, <1>5, <1>8, <1>9, <1>13

\* A step that changes nothing keeps everything.
LEMMA StutterStep ==
    ASSUME PoolInv, UNCHANGED vars
    PROVE  /\ PoolInv'
           /\ ready' = ready /\ FreePages' = FreePages /\ held' = held
<1>1. TypeOK'
  BY NextTypeOK DEF PoolInv
<1>2. /\ ready' = ready /\ memory_map' = memory_map /\ highest_page_top' = highest_page_top
      /\ bitmap_size' = bitmap_size /\ pmm_bitmap' = pmm_bitmap /\ held' = held
  BY Zenon DEF vars
<1>3. FreePages' = FreePages
  BY <1>2 DEF FreePages, PAGE_TO_BIT
<1>4. SingleOwner' /\ NoPageLost'
  BY <1>2, <1>3 DEF PoolInv, SingleOwner, NoPageLost, HeldPages, PagesOf, PageRange,
                     PAGE_TO_BIT, UsablePages, EntryPages
<1>5. PoolInv'
  BY <1>1, <1>2, <1>4 DEF PoolInv, BitsBehind, UsablePages, EntryPages, PageRange, PAGE_TO_BIT
<1> QED BY <1>2, <1>3, <1>5

\* The invariant holds after every step; with the bitmap complete there is
\* nothing behind it to be written.
LEMMA PoolInvNext ==
    ASSUME SinglePages
    PROVE  PoolInv /\ [Next]_vars => PoolInv'
<1> SUFFICES ASSUME PoolInv, [Next]_vars PROVE PoolInv'
  OBVIOUS
<1>1. TypeOK'
  BY NextTypeOK DEF PoolInv
<1>2. ASSUME NEW map \in MemoryMaps, pmm_init(map) PROVE PoolInv'
  BY <1>2, InitStep
<1>3. ASSUME NEW h \in Holders, NEW n \in PageCounts, pmm_alloc(h, n) \/ pmm_allocz(h, n)
      PROVE  PoolInv'
  BY <1>1, <1>3, AllocStep DEF pmm_alloc, pmm_allocz
<1>4. ASSUME NEW h \in Holders, pmm_free(h) PROVE PoolInv'
  BY <1>1, <1>4, FreeStep
<1>5. ~WriteBehind
  BY DEF WriteBehind, PoolInv
<1>6. CASE UNCHANGED vars
  BY <1>6, StutterStep
<1> QED BY <1>2, <1>3, <1>4, <1>5, <1>6 DEF Next

\* Callers that ask for single pages never share a page, and the bitmap is
\* exact: free and held pages are together the usable ones (pmm_alloc,
\* pmm_allocz and pmm_free on any memory map whose bitmap covers it).
THEOREM SinglePagesExact ==
    ASSUME SinglePages
    PROVE  Spec => [](SingleOwner /\ NoPageLost)
<1>1. PoolInv => SingleOwner /\ NoPageLost
  BY DEF PoolInv
<1>2. PoolInv /\ [Next]_vars => PoolInv'
  BY PoolInvNext
<1> QED BY <1>1, <1>2, PoolInvInit, PTL DEF Spec

\* Nothing is lost and the kernel's pages are never handed out: the free and
\* the held pages are together the usable ones, page 0 excepted (pmm_init,
\* pmm_alloc, pmm_free).
THEOREM NoPageIsLost ==
    ASSUME SinglePages
    PROVE  Spec => []NoPageLost
<1>1. [](SingleOwner /\ NoPageLost) => []NoPageLost
  BY PTL
<1> QED BY <1>1, SinglePagesExact, PTL

-----------------------------------------------------------------------------
(* The pages of the bitmap. *)

\* The pages that hold the bitmap.
BitmapPages == PageRange(PAGE_TO_BIT(bitmap_map), bitmap_size \div PAGE_SIZE)

\* Whatever map the bootloader passes, some usable entry can hold the bitmap.
EveryMapHosts ==
    \A map \in MemoryMaps : Hosts(map, BitmapSize(HighestPageTop(map))) # {}

\* The usable pages that the host entry keeps follow the pages of the bitmap,
\* and those are part of the host alone.
LEMMA HostGivesUpPages ==
    ASSUME NEW map, WellFormedMap(map), NEW size \in Nat, size % PAGE_SIZE = 0,
           Hosts(map, size) # {}
    PROVE  UsablePages(HostedMap(map, size)) \cap
               PageRange(PAGE_TO_BIT(HostAddress(map, size)), size \div PAGE_SIZE) = {}
<1> DEFINE k == Min(Hosts(map, size))
           hosted == HostedMap(map, size)
           B == PageRange(PAGE_TO_BIT(HostAddress(map, size)), size \div PAGE_SIZE)
<1>1. map \in Seq(MapEntry) /\ DOMAIN map = 1 .. Len(map) /\ Len(map) \in Nat
  BY DEF WellFormedMap
<1>2. k \in Hosts(map, size)
  <2>1. Hosts(map, size) \subseteq Nat
    BY <1>1 DEF Hosts
  <2> QED BY <2>1, MinIsLeast
<1>3. k \in DOMAIN map /\ map[k].type = USABLE /\ map[k].length >= size
  BY <1>2 DEF Hosts
<1>4. /\ map[k].base \in Nat /\ map[k].length \in Nat
      /\ map[k].base % PAGE_SIZE = 0 /\ map[k].length % PAGE_SIZE = 0
      /\ \A j \in DOMAIN map \ {k} : EntryPages(map[k]) \cap EntryPages(map[j]) = {}
  <2>1. map[k] \in MapEntry
    BY <1>1, <1>3
  <2> HIDE DEF k
  <2> QED BY <1>3, <2>1 DEF WellFormedMap, MapEntry
<1>5. HostAddress(map, size) = map[k].base
  BY DEF HostAddress
<1>6. /\ hosted[k].base = map[k].base + size
      /\ hosted[k].length = map[k].length - size
      /\ \A j \in DOMAIN map \ {k} : hosted[j] = map[j]
  BY <1>1, <1>3 DEF HostedMap
<1>7. DOMAIN hosted = DOMAIN map /\ \A j \in DOMAIN map : hosted[j].type = map[j].type
  BY HostedMapShape
<1> HIDE DEF k, hosted
<1> DEFINE x == PAGE_TO_BIT(map[k].base)
           y == PAGE_TO_BIT(map[k].length)
           z == PAGE_TO_BIT(size)
<1>8. x \in Nat /\ y \in Nat /\ z \in Nat /\ z <= y
  <2>1. z + PAGE_TO_BIT(0) <= y
    <3>1. 0 \in Nat /\ 0 % PAGE_SIZE = 0 /\ size + 0 <= map[k].length
      BY <1>3, <1>4, PageSizeAssumption
    <3> QED BY <1>4, <3>1, WholePages
  <2> QED BY <1>4, <2>1, BitType
<1>9. PAGE_TO_BIT(map[k].base + size) = x + z
  <2>1. map[k].base = PAGE_SIZE * x /\ size = PAGE_SIZE * z
    BY <1>4, DivisionTwice
  <2> HIDE DEF x, z
  <2>2. map[k].base + size = BIT_TO_PAGE(x + z)
    BY <1>8, <2>1, PageSizeAssumption DEF BIT_TO_PAGE
  <2> QED BY <1>8, <2>2, BitOfPage
<1>10. B = x .. (x + z - 1) /\ EntryPages(map[k]) = x .. (x + y - 1)
  BY <1>5 DEF PageRange, EntryPages, PAGE_TO_BIT
<1>11. EntryPages(hosted[k]) = (x + z) .. (x + z + PAGE_TO_BIT(map[k].length - size) - 1)
  BY <1>6, <1>9 DEF PageRange, EntryPages, PAGE_TO_BIT
<1>12. PAGE_TO_BIT(map[k].length - size) \in Nat
  BY <1>3, <1>4, BitType
<1> HIDE DEF x, y, z, B
<1>13. EntryPages(hosted[k]) \cap B = {} /\ B \subseteq EntryPages(map[k])
  BY <1>8, <1>10, <1>11, <1>12
<1>14. ASSUME NEW j \in DOMAIN map PROVE EntryPages(hosted[j]) \cap B = {}
  BY <1>4, <1>6, <1>13
<1>15. UsablePages(hosted) \cap B = {}
  BY <1>7, <1>14 DEF UsablePages
<1> QED BY <1>15 DEF hosted, B

\* The pages of the bitmap are never usable ones; with NoPageLost, they are
\* never handed out.
BitmapInv ==
    /\ PoolInv
    /\ ready => UsablePages(memory_map) \cap BitmapPages = {}

\* pmm_init establishes that, and nothing afterwards moves the bitmap or
\* changes the map.
LEMMA BitmapInvNext ==
    ASSUME SinglePages, EveryMapHosts
    PROVE  BitmapInv /\ [Next]_vars => BitmapInv'
<1> SUFFICES ASSUME BitmapInv, [Next]_vars PROVE BitmapInv'
  OBVIOUS
<1>1. PoolInv'
  BY PoolInvNext DEF BitmapInv
<1>2. ASSUME NEW map \in MemoryMaps, pmm_init(map) PROVE BitmapInv'
  <2> DEFINE size == BitmapSize(HighestPageTop(map))
  <2>1. WellFormedMap(map)
    BY MemoryMapsAssumption
  <2>2. size \in Nat /\ size % PAGE_SIZE = 0
    BY <2>1, TopIsHighest, SizeType, SizeIsWhole
  <2>3. Hosts(map, size) # {}
    BY DEF EveryMapHosts
  <2>4. /\ memory_map' = HostedMap(map, size) /\ bitmap_size' = size
        /\ bitmap_map' = HostAddress(map, size)
    BY <1>2 DEF pmm_init
  <2> HIDE DEF size
  <2>5. UsablePages(HostedMap(map, size)) \cap
            PageRange(PAGE_TO_BIT(HostAddress(map, size)), size \div PAGE_SIZE) = {}
    BY <2>1, <2>2, <2>3, HostGivesUpPages
  <2>6. UsablePages(memory_map') \cap
            PageRange(PAGE_TO_BIT(bitmap_map'), bitmap_size' \div PAGE_SIZE) = {}
    BY <2>4, <2>5
  <2>7. (UsablePages(memory_map) \cap BitmapPages)' = {}
    BY <2>6 DEF UsablePages, EntryPages, BitmapPages, PageRange, PAGE_TO_BIT
  <2> QED BY <1>1, <2>7 DEF BitmapInv
<1>3. ASSUME ready' = ready, memory_map' = memory_map,
             bitmap_map' = bitmap_map, bitmap_size' = bitmap_size
      PROVE  BitmapInv'
  BY <1>1, <1>3 DEF BitmapInv, UsablePages, EntryPages, BitmapPages, PageRange, PAGE_TO_BIT
<1>4. ASSUME NEW h \in Holders, NEW n \in PageCounts, NEW z, pmm_alloc_with(h, n, z)
      PROVE  BitmapInv'
  BY <1>3, <1>4, Zenon DEF pmm_alloc_with
<1>5. ASSUME NEW h \in Holders, pmm_free(h) PROVE BitmapInv'
  BY <1>3, <1>5, Zenon DEF pmm_free
<1>6. CASE WriteBehind
  BY <1>3, <1>6, Zenon DEF WriteBehind
<1>7. CASE UNCHANGED vars
  BY <1>3, <1>7, Zenon DEF vars
<1> QED BY <1>2, <1>4, <1>5, <1>6, <1>7 DEF Next, pmm_alloc, pmm_allocz

\* The pages that hold the bitmap are never handed out, whichever entry of the
\* map hosts it and however many pages it takes (pmm.c:94-111).
THEOREM BitmapNeverGranted ==
    ASSUME SinglePages, EveryMapHosts
    PROVE  Spec => []BitmapPagesReserved
<1>1. Init => BitmapInv
  BY PoolInvInit DEF BitmapInv, Init
<1>2. BitmapInv /\ [Next]_vars => BitmapInv'
  BY BitmapInvNext
<1>3. BitmapInv => BitmapPagesReserved
  <2> SUFFICES ASSUME BitmapInv PROVE HeldPages \cap BitmapPages = {}
    BY DEF BitmapPagesReserved, BitmapPages
  <2>1. CASE ready
    BY <2>1 DEF BitmapInv, PoolInv, NoPageLost
  <2>2. CASE ~ready
    BY <2>2, NoRangePages DEF BitmapInv, PoolInv, HeldPages
  <2> QED BY <2>1, <2>2
<1> QED BY <1>1, <1>2, <1>3, PTL DEF Spec

-----------------------------------------------------------------------------
(* Refused requests. *)

\* What pmm_init leaves in the counter, which starts 1024 times too high.
CountAtStart == KB_TO_PAGES(highest_page_top) - Cardinality(UsablePages(memory_map))

\* The counter moves with the held pages, and a refusal is still true.  The
\* start value is what keeps the test at pmm.c:142 from refusing early.
CountInv ==
    /\ PoolInv
    /\ ~ready => reply.pages = 0
    /\ ready => used_pages_count = CountAtStart + Cardinality(HeldPages)
    /\ RefusalMeansExhausted

\* KB_TO_PAGES of an address is far more than the pages below it.
LEMMA KbBound ==
    ASSUME NEW top \in Nat, PAGE_TO_BIT(top) > 0
    PROVE  KB_TO_PAGES(top) > PAGE_TO_BIT(top)
<1> DEFINE q == PAGE_TO_BIT(top)
           r == KB_TO_PAGES(top)
<1>1. q \in Nat /\ r \in Nat
  BY BitType, KbType
<1>2. PAGE_SIZE * q <= top
  BY PageSizeAssumption DEF PAGE_TO_BIT
<1>3. top * 1024 < PAGE_SIZE * (r + 1)
  <2>1. top * 1024 \in Nat /\ r = PAGE_TO_BIT(top * 1024)
    BY DEF KB_TO_PAGES, PAGE_TO_BIT
  <2> QED BY <2>1, DivisionBound
<1>4. q > 0
  OBVIOUS
<1> HIDE DEF q, r
<1>5. PAGE_SIZE * (1024 * q) < PAGE_SIZE * (r + 1)
  <2>1. (PAGE_SIZE * q) * 1024 <= top * 1024
    BY <1>1, <1>2, PageSizeAssumption
  <2>2. (PAGE_SIZE * q) * 1024 = PAGE_SIZE * (1024 * q)
    BY <1>1, PageSizeAssumption
  <2> QED BY <1>1, <1>3, <2>1, <2>2, PageSizeAssumption
<1>6. 1024 * q < r + 1
  BY <1>1, <1>5, PageSizeAssumption
<1>7. r > q
  BY <1>1, <1>4, <1>6
<1> QED BY <1>7 DEF q, r

\* The pages somebody holds are finitely many.
LEMMA HeldFinite ==
    ASSUME PoolInv
    PROVE  IsFiniteSet(HeldPages) /\ Cardinality(HeldPages) \in Nat
<1>1. PAGE_TO_BIT(highest_page_top) \in Nat
  BY BitType DEF PoolInv, TypeOK
<1>2. HeldPages \subseteq 0 .. PAGE_TO_BIT(highest_page_top)
  <2>1. CASE ready
    BY <1>1, <2>1 DEF PoolInv, NoPageLost
  <2>2. CASE ~ready
    BY <2>2, NoRangePages DEF PoolInv, HeldPages
  <2> QED BY <2>1, <2>2
<1>3. IsFiniteSet(0 .. PAGE_TO_BIT(highest_page_top))
  BY <1>1, FS_Interval
<1> QED BY <1>2, <1>3, FS_Subset, FS_CardinalityType

\* The usable pages are no more than the pages the search looks at.
LEMMA UsableCounted ==
    ASSUME PoolInv, ready
    PROVE  /\ Cardinality(UsablePages(memory_map)) \in Nat
           /\ Cardinality(UsablePages(memory_map)) <= PAGE_TO_BIT(highest_page_top)
<1> DEFINE q == PAGE_TO_BIT(highest_page_top)
           U == UsablePages(memory_map)
<1>1. q \in Nat
  BY BitType DEF PoolInv, TypeOK
<1>2. U \subseteq 0 .. q - 1
  BY DEF PoolInv
<1> HIDE DEF q, U
<1>3. IsFiniteSet(0 .. q - 1) /\ Cardinality(0 .. q - 1) = q
  <2>1. CASE q = 0
    <3>1. 0 .. q - 1 = {}
      BY <2>1
    <3> QED BY <2>1, <3>1, FS_EmptySet
  <2>2. CASE q > 0
    <3>1. 0 \in Int /\ q - 1 \in Int /\ 0 <= q - 1
      BY <1>1, <2>2
    <3>2. IsFiniteSet(0 .. q - 1) /\ Cardinality(0 .. q - 1) = q - 1 - 0 + 1
      BY <1>1, <2>2, <3>1, FS_Interval
    <3> QED BY <1>1, <3>2
  <2> QED BY <1>1, <2>1, <2>2
<1>4. Cardinality(U) \in Nat /\ Cardinality(U) <= q
  BY <1>2, <1>3, FS_Subset, FS_CardinalityType
<1> QED BY <1>4 DEF q, U

\* The value the counter starts from is a number.
LEMMA StartType ==
    ASSUME PoolInv, ready
    PROVE  CountAtStart \in Int
<1>1. KB_TO_PAGES(highest_page_top) \in Nat
  BY KbType DEF PoolInv, TypeOK
<1>2. Cardinality(UsablePages(memory_map)) \in Nat
  BY UsableCounted
<1> QED BY <1>1, <1>2 DEF CountAtStart

\* While a page is free the counter is positive: the test at pmm.c:142 refuses
\* nothing that the search would grant.
LEMMA CounterPositive ==
    ASSUME CountInv, ready, FreePages # {}
    PROVE  used_pages_count > 0
<1> DEFINE q == PAGE_TO_BIT(highest_page_top)
           U == UsablePages(memory_map)
<1>1. highest_page_top \in Nat /\ q \in Nat
  BY BitType DEF CountInv, PoolInv, TypeOK
<1>2. q > 0
  BY <1>1 DEF FreePages
<1>3. KB_TO_PAGES(highest_page_top) > q /\ KB_TO_PAGES(highest_page_top) \in Nat
  BY <1>1, <1>2, KbBound, KbType
<1>4. Cardinality(U) \in Nat /\ Cardinality(U) <= q
  BY UsableCounted DEF CountInv
<1> HIDE DEF q, U
<1>5. Cardinality(HeldPages) \in Nat
  BY HeldFinite DEF CountInv
<1>6. used_pages_count = KB_TO_PAGES(highest_page_top) - Cardinality(U) + Cardinality(HeldPages)
  BY DEF CountInv, CountAtStart, U
<1> QED BY <1>1, <1>3, <1>4, <1>5, <1>6

\* A refused request for one page found nothing free.
LEMMA RefusedForNothing ==
    ASSUME CountInv, ready, AllocResult(1) = NULL
    PROVE  FreePages = {}
<1>1. SUFFICES ASSUME FreePages # {} PROVE FALSE
  OBVIOUS
<1>2. highest_page_top \in Nat /\ PAGE_TO_BIT(highest_page_top) \in Nat
      /\ used_pages_count \in Int
  BY BitType DEF CountInv, PoolInv, TypeOK
<1>3. used_pages_count > 0
  BY <1>1, CounterPositive
<1>4. pmm_find_first_free_page_range(pmm_bitmap, highest_page_top, 1) = NULL
  BY <1>2, <1>3 DEF AllocResult
<1>5. 0 \in pmm_bitmap
  <2>1. 0 \notin FreePages
    BY DEF CountInv, PoolInv, NoPageLost
  <2>2. 0 \in 0 .. PAGE_TO_BIT(highest_page_top) - 1
    BY <1>1, <1>2 DEF FreePages
  <2> QED BY <2>1, <2>2 DEF FreePages
<1> QED BY <1>1, <1>2, <1>4, <1>5, NothingFound DEF FreePages

\* The value the counter started from never changes again.
LEMMA StartStays ==
    ASSUME memory_map' = memory_map, highest_page_top' = highest_page_top
    PROVE  CountAtStart' = CountAtStart
BY DEF CountAtStart, KB_TO_PAGES, UsablePages, EntryPages, PageRange, PAGE_TO_BIT

\* Every step keeps the count; a step that is not a request forgets the reply.
LEMMA CountInvNext ==
    ASSUME SinglePages
    PROVE  CountInv /\ [Next]_vars => CountInv'
<1> SUFFICES ASSUME CountInv, [Next]_vars PROVE CountInv'
  OBVIOUS
<1>1. PoolInv /\ PoolInv' /\ TypeOK'
  BY PoolInvNext DEF CountInv, PoolInv
<1>2. HeldPages \subseteq Nat /\ IsFiniteSet(HeldPages) /\ Cardinality(HeldPages) \in Nat
  <2>1. \A h \in Holders : PagesOf(held[h]) \subseteq Nat
    BY BitType, PageRangeType DEF PagesOf, PoolInv, TypeOK, Ranges, CountInv
  <2> QED BY <2>1, HeldFinite DEF HeldPages, CountInv
<1>3. ASSUME NEW map \in MemoryMaps, pmm_init(map) PROVE CountInv'
  <2>1. ~ready /\ ready' /\ held' = held /\ reply' = reply
    BY <1>3 DEF pmm_init
  <2>2. reply'.pages = 0
    BY <2>1 DEF CountInv
  <2>3. HeldPages' = {}
    <3>1. \A h \in Holders : held'[h] = NoRange
      BY <2>1 DEF CountInv, PoolInv
    <3>2. \A h \in Holders : PagesOf(held[h])' = {}
      BY <3>1, NoRangePages DEF PagesOf
    <3> QED BY <3>2 DEF HeldPages
  <2>4. used_pages_count' = CountAtStart'
    BY <1>3 DEF pmm_init, CountAtStart, KB_TO_PAGES, UsablePages, EntryPages, PageRange,
                PAGE_TO_BIT
  <2>5. used_pages_count' \in Int /\ Cardinality({}) = 0
    BY <1>1, FS_EmptySet DEF TypeOK
  <2>6. used_pages_count' = CountAtStart' + Cardinality(HeldPages)'
    BY <2>3, <2>4, <2>5
  <2> QED BY <1>1, <2>1, <2>2, <2>6 DEF CountInv, RefusalMeansExhausted
<1>4. ASSUME NEW h \in Holders, NEW n \in PageCounts, NEW z, pmm_alloc_with(h, n, z)
      PROVE  CountInv'
  <2>1. n = 1
    BY DEF SinglePages
  <2>2. /\ ready /\ ready' /\ memory_map' = memory_map
        /\ highest_page_top' = highest_page_top
        /\ reply' = [pointer |-> AllocResult(1), pages |-> 1, zeroed |-> z]
    BY <1>4, <2>1 DEF pmm_alloc_with
  <2>3. CountAtStart' = CountAtStart
    BY <2>2, StartStays
  <2>4. CASE AllocResult(1) = NULL
    <3>1. /\ pmm_bitmap' = pmm_bitmap /\ used_pages_count' = used_pages_count
          /\ held' = held
      BY <1>4, <2>1, <2>4 DEF pmm_alloc_with
    <3>2. FreePages' = FreePages /\ HeldPages' = HeldPages
      BY <2>2, <3>1 DEF FreePages, HeldPages, PagesOf, PageRange, PAGE_TO_BIT
    <3>3. FreePages = {}
      BY <2>2, <2>4, RefusedForNothing
    <3> QED BY <1>1, <2>2, <2>3, <3>1, <3>2, <3>3 DEF CountInv, RefusalMeansExhausted
  <2>5. CASE AllocResult(1) # NULL
    <3> DEFINE b == PAGE_TO_BIT(AllocResult(1))
    <3>1. used_pages_count' = used_pages_count + 1 /\ held' # held
      <4>1. /\ used_pages_count' = used_pages_count + 1
            /\ held' = [held EXCEPT ![h] = [pointer |-> AllocResult(1), pages |-> 1]]
            /\ held[h] = NoRange
        BY <1>4, <2>1, <2>5 DEF pmm_alloc_with
      <4>2. held'[h] = [pointer |-> AllocResult(1), pages |-> 1]
        BY <1>1, <4>1 DEF PoolInv, TypeOK
      <4>3. held'[h].pages = 1 /\ held[h].pages = 0
        BY <4>1, <4>2 DEF NoRange
      <4> QED BY <4>1, <4>3
    <3>2. HeldPages' = HeldPages \cup {b} /\ b \notin HeldPages
      BY <1>1, <1>4, <2>1, <3>1, AllocStep
    <3> HIDE DEF b
    <3>3. Cardinality(HeldPages') = Cardinality(HeldPages) + 1
      BY <1>2, <3>2, FS_AddElement
    <3>4. used_pages_count' = CountAtStart + Cardinality(HeldPages) + 1
      BY <2>2, <3>1 DEF CountInv
    <3>5. CountAtStart \in Int
      BY <1>1, <2>2, StartType
    <3>6. used_pages_count' = CountAtStart' + Cardinality(HeldPages)'
      BY <1>2, <2>3, <3>3, <3>4, <3>5
    <3>7. RefusalMeansExhausted'
      BY <2>2, <2>5 DEF RefusalMeansExhausted
    <3> QED BY <1>1, <2>2, <3>6, <3>7 DEF CountInv
  <2> QED BY <2>4, <2>5
<1>5. ASSUME NEW h \in Holders, pmm_free(h) PROVE CountInv'
  <2>1. /\ ready /\ ready' /\ memory_map' = memory_map
        /\ highest_page_top' = highest_page_top
        /\ reply' = NoReply /\ held[h] # NoRange
        /\ used_pages_count' = used_pages_count - held[h].pages
    BY <1>5 DEF pmm_free
  <2>2. CountAtStart' = CountAtStart
    BY <2>1, StartStays
  <2>3. HeldPages' = HeldPages \ PagesOf(held[h])
    BY <1>1, <1>5, FreeStep
  <2>4. held[h].pages = 1 /\ PAGE_TO_BIT(held[h].pointer) \in Nat
    BY <1>1, <2>1, BitType DEF PoolInv, TypeOK, Ranges
  <2> DEFINE b == PAGE_TO_BIT(held[h].pointer)
  <2>5. PagesOf(held[h]) = {b} /\ b \in HeldPages
    <3>1. PagesOf(held[h]) = {b}
      BY <2>4 DEF PagesOf, PageRange
    <3> QED BY <3>1 DEF HeldPages
  <2> HIDE DEF b
  <2>6. Cardinality(HeldPages') = Cardinality(HeldPages) - 1
    BY <1>2, <2>3, <2>5, FS_RemoveElement
  <2>7. used_pages_count' = (CountAtStart + Cardinality(HeldPages)) - 1
    <3>1. used_pages_count = CountAtStart + Cardinality(HeldPages)
      BY <2>1 DEF CountInv
    <3>2. used_pages_count' = used_pages_count - 1
      BY <2>1, <2>4
    <3> QED BY <3>1, <3>2
  <2>8. CountAtStart \in Int
    BY <1>1, <2>1, StartType
  <2>9. used_pages_count' = CountAtStart' + Cardinality(HeldPages)'
    BY <1>2, <2>2, <2>6, <2>7, <2>8
  <2>10. RefusalMeansExhausted'
    BY <2>1 DEF RefusalMeansExhausted, NoReply
  <2> QED BY <1>1, <2>1, <2>9, <2>10 DEF CountInv
<1>6. ~WriteBehind
  BY <1>1 DEF WriteBehind, PoolInv
<1>7. CASE UNCHANGED vars
  <2>1. /\ ready' = ready /\ memory_map' = memory_map /\ highest_page_top' = highest_page_top
        /\ used_pages_count' = used_pages_count /\ held' = held /\ reply' = reply
        /\ pmm_bitmap' = pmm_bitmap
    BY <1>7, Zenon DEF vars
  <2>2. CountAtStart' = CountAtStart
    BY <2>1, StartStays
  <2>3. HeldPages' = HeldPages /\ FreePages' = FreePages
    BY <2>1 DEF HeldPages, PagesOf, PageRange, PAGE_TO_BIT, FreePages
  <2> QED BY <1>1, <2>1, <2>2, <2>3 DEF CountInv, RefusalMeansExhausted
<1> QED BY <1>3, <1>4, <1>5, <1>6, <1>7 DEF Next, pmm_alloc, pmm_allocz

\* A request for one page is refused only when no page is free: the counter,
\* though it counts kibibytes as pages at the start, never reaches 0 while one
\* is, and the search looks at every page (pmm.c:87, pmm.c:142, pmm.c:228).
THEOREM RefusedOnlyWhenExhausted ==
    ASSUME SinglePages
    PROVE  Spec => []RefusalMeansExhausted
<1>1. Init => CountInv
  BY PoolInvInit DEF CountInv, RefusalMeansExhausted, Init, NoReply
<1>2. CountInv /\ [Next]_vars => CountInv'
  BY CountInvNext
<1>3. CountInv => RefusalMeansExhausted
  BY DEF CountInv
<1> QED BY <1>1, <1>2, <1>3, PTL DEF Spec

-----------------------------------------------------------------------------
(* Refinement. *)

\* The owned pages of the pool, as a function of the holder.
Owned == [h \in Holders |-> PagesOf(held[h])]

\* What all holders own, when the range of one changes.
LEMMA OwnedExcept ==
    ASSUME NEW h \in Holders,
           \A g \in Holders \ {h} : PagesOf(held[g])' = PagesOf(held[g])
    PROVE  Owned' = [Owned EXCEPT ![h] = PagesOf(held[h])']
BY DEF Owned

\* Before pmm_init the pool is closed and empty.
LEMMA PoolInitImplemented == Init => Pool!Init
<1> SUFFICES ASSUME Init PROVE Pool!Init
  OBVIOUS
<1>1. ready = FALSE
  BY DEF Init
<1>2. FreePages = {}
  BY BitType DEF Init, FreePages
<1>3. Owned = [h \in Holders |-> {}]
  BY NoRangePages DEF Owned, Init
<1> QED BY <1>1, <1>2, <1>3, Zenon DEF Pool!Init, Owned

\* A step from a state of the invariant is a step of the pool.
LEMMA PoolStepImplemented ==
    ASSUME SinglePages
    PROVE  PoolInv /\ [Next]_vars => PoolStep
<1> SUFFICES ASSUME PoolInv, [Next]_vars PROVE PoolStep
  OBVIOUS
<1>1. TypeOK'
  BY NextTypeOK DEF PoolInv
<1>2. ASSUME ready' = ready, FreePages' = FreePages, held' = held
      PROVE  PoolStep
  BY <1>2 DEF PoolStep, PagesOf, PageRange, PAGE_TO_BIT
<1>3. ASSUME NEW map \in MemoryMaps, pmm_init(map) PROVE PoolStep
  <2>1. ~ready /\ ready' /\ held' = held
    BY <1>3, InitStep
  <2>2. Owned' = Owned
    BY <2>1 DEF Owned, PagesOf, PageRange, PAGE_TO_BIT
  <2>3. Pool!Fill(FreePages')
    BY <2>1, <2>2 DEF Pool!Fill, Owned, PoolInv, TypeOK
  <2> QED BY <2>3 DEF PoolStep
<1>4. ASSUME NEW h \in Holders, NEW n \in PageCounts, NEW z, pmm_alloc_with(h, n, z)
      PROVE  PoolStep
  <2>1. CASE FreePages' = FreePages /\ held' = held /\ ready' = ready
    BY <1>2, <2>1
  <2>2. CASE /\ ready /\ ready' = ready /\ PagesOf(held[h]) = {}
             /\ PagesOf(held[h])' \subseteq FreePages
             /\ FreePages' = FreePages \ PagesOf(held[h])'
             /\ \A g \in Holders \ {h} : PagesOf(held[g])' = PagesOf(held[g])
    <3>1. Owned' = [Owned EXCEPT ![h] = PagesOf(held[h])'] /\ Owned[h] = {}
      BY <2>2, OwnedExcept DEF Owned
    <3>2. PagesOf(held[h])' = PagesOf(held'[h])
      BY DEF PagesOf, PageRange, PAGE_TO_BIT
    <3>3. Pool!Take(h, PagesOf(held'[h]))
      BY <2>2, <3>1, <3>2 DEF Pool!Take, Owned
    <3> QED BY <3>3 DEF PoolStep
  <2> QED BY <1>1, <1>4, <2>1, <2>2, AllocStep
<1>5. ASSUME NEW h \in Holders, pmm_free(h) PROVE PoolStep
  <2>1. /\ ready /\ ready' = ready
        /\ FreePages' = FreePages \cup PagesOf(held[h])
        /\ PagesOf(held[h])' = {}
        /\ \A g \in Holders \ {h} : PagesOf(held[g])' = PagesOf(held[g])
    BY <1>1, <1>5, FreeStep
  <2>2. Owned' = [Owned EXCEPT ![h] = {}] /\ Owned[h] = PagesOf(held[h])
    BY <2>1, OwnedExcept DEF Owned
  <2>3. Pool!Return(h)
    BY <2>1, <2>2 DEF Pool!Return, Owned
  <2> QED BY <2>3 DEF PoolStep
<1>6. ~WriteBehind
  BY DEF WriteBehind, PoolInv
<1>7. CASE UNCHANGED vars
  BY <1>2, <1>7, StutterStep
<1> QED BY <1>3, <1>4, <1>5, <1>6, <1>7 DEF Next, pmm_alloc, pmm_allocz

\* Single pages: every step of pmm_init, pmm_alloc, pmm_allocz and pmm_free is
\* a step of the abstract pool of pages, or leaves the pool alone.
THEOREM PmmImplementsPool ==
    ASSUME SinglePages
    PROVE  Spec => ImplementsPool
<1>1. PoolInv /\ [Next]_vars => PoolInv'
  BY PoolInvNext
<1>2. PoolInv /\ [Next]_vars => [PoolStep]_vars
  BY PoolStepImplemented
<1> QED BY <1>1, <1>2, PoolInvInit, PoolInitImplemented, PTL DEF Spec, ImplementsPool

\* The same as a refinement in the usual form: single-page callers see the
\* specification PagePool, for every memory map the bitmap covers.
THEOREM PmmRefinesPagePool ==
    ASSUME SinglePages
    PROVE  Spec => Pool!Spec
<1>1. PoolInv /\ [Next]_vars => PoolInv'
  BY PoolInvNext
<1>2. PoolInv /\ PoolInv' /\ [Next]_vars => [Pool!Next]_(Pool!vars)
  <2> SUFFICES ASSUME PoolInv, PoolInv', [Next]_vars PROVE [Pool!Next]_(Pool!vars)
    OBVIOUS
  <2>1. PoolStep
    BY PoolStepImplemented
  <2>2. FreePages' \in SUBSET Nat
    BY BitType DEF FreePages, PoolInv, TypeOK
  <2>3. ASSUME NEW h \in Holders PROVE PagesOf(held'[h]) \in SUBSET Nat
    <3>1. held'[h] \in Ranges
      BY DEF PoolInv, TypeOK
    <3>2. held'[h].pages \in Nat /\ PAGE_TO_BIT(held'[h].pointer) \in Nat
      BY <3>1, BitType DEF Ranges
    <3> QED BY <3>2, PageRangeType DEF PagesOf
  <2>4. CASE Pool!Fill(FreePages')
    BY <2>2, <2>4, Zenon DEF Pool!Next
  <2>5. CASE \E h \in Holders : Pool!Take(h, PagesOf(held'[h]))
    BY <2>3, <2>5, Zenon DEF Pool!Next
  <2>6. CASE \E h \in Holders : Pool!Return(h)
    BY <2>6, Zenon DEF Pool!Next
  <2>7. CASE UNCHANGED <<ready, FreePages, [h \in Holders |-> PagesOf(held[h])]>>
    BY <2>7 DEF Pool!vars
  <2> QED BY <2>1, <2>4, <2>5, <2>6, <2>7 DEF PoolStep
<1> QED BY <1>1, <1>2, PoolInvInit, PoolInitImplemented, PTL DEF Spec, Pool!Spec
=============================================================================
