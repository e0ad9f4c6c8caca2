----------------------------- MODULE SlabProof ------------------------------
(***************************************************************************)
(* The slab allocator for every page, buffer and header size and any       *)
(* number of slabs: the free lists and their counts agree, buffers lie     *)
(* where they do no harm, none is handed out twice, and, in the setting    *)
(* where its callers can rely on it, pages are given back exactly.         *)
(***************************************************************************)
EXTENDS Slab, PageBitmapProof, FiniteSetTheorems, SequenceTheorems

\* The addresses of the pages that pmm_allocz can give out.
Pages == {BIT_TO_PAGE(k) : k \in 1 .. TopPage - 1}

\* The addresses BuffersWellPlaced allows.
Buffers ==
    {b \in Address :
        /\ (b % PAGE_SIZE) + SLAB_SIZE <= PAGE_SIZE - HEADER_SIZE
        /\ (\A flags \in FlagSets : SLAB_NO_ALIGN \in flags) => b % PAGE_SIZE # 0}

Slabs == [page : Pages, bufctl_count : 0 .. BufctlCountMax, freelist : Seq(Buffers)]

Calls ==
    [op : {"idle"}]
        \cup [op : {"grow"}, left : Nat, fresh : BOOLEAN, then : {"return", "alloc"}, flags : FlagSets]
        \cup [op : {"alloc"}, flags : FlagSets]
        \cup [op : {"reap"}, at : Nat \ {0}]

\* TypeOK, with what is on the free lists and what a call under way works on.
SlabTypes ==
    /\ pmm_bitmap \subseteq 0 .. TopPage - 1
    /\ cache \in Pages \cup {NULL}
    /\ bufctl_count_max \in 0 .. BufctlCountMax
    /\ slabs \in Seq(Slabs)
    /\ call \in Calls
    /\ panicked \in BOOLEAN
    /\ live \subseteq Buffers

SlabInv == SlabTypes /\ CountMatchesFreelist

\* BufferInOnePlace in terms of places on free lists.
OnePlace ==
    /\ \A s, t \in DOMAIN slabs :
           \A m \in DOMAIN slabs[s].freelist : \A n \in DOMAIN slabs[t].freelist :
               slabs[s].freelist[m] = slabs[t].freelist[n] => s = t /\ m = n
    /\ \A s \in DOMAIN slabs : \A m \in DOMAIN slabs[s].freelist : slabs[s].freelist[m] \notin live

\* Every buffer, free or live, lies in an allocated page, which the next slab
\* will therefore not get.
Backed ==
    /\ \A s \in DOMAIN slabs : \A m \in DOMAIN slabs[s].freelist :
           PAGE_TO_BIT(slabs[s].freelist[m]) \in pmm_bitmap
    /\ \A b \in live : PAGE_TO_BIT(b) \in pmm_bitmap

\* The setting of run slab_one: a cache of one slab that has room for a buffer;
\* no caller asks for anything but a panic.
OneSlab ==
    /\ FlagSets \subseteq SUBSET {SLAB_PANIC}
    /\ MaxSlabs <= 1
    /\ BufctlCountMax > 0

\* What holds of a cache with one slab: all of its buffers are in that slab's
\* page, and the slab is unused exactly when no caller has one.
OneSlabInv ==
    /\ call.op # "alloc"
    /\ call.op = "grow" => /\ call.left <= 1 /\ call.then = "return" /\ cache # NULL
                           /\ call.left = 1 => slabs = <<>>
    /\ call.op = "reap" => cache # NULL
    /\ cache # NULL => bufctl_count_max = BufctlCountMax
    /\ cache = NULL => slabs = <<>>
    /\ slabs = <<>> => live = {} /\ pmm_bitmap = {0, PAGE_TO_BIT(cache)}
    /\ slabs # <<>> =>
           /\ Len(slabs) = 1
           /\ slabs[1].page # cache
           /\ pmm_bitmap = {0, PAGE_TO_BIT(cache), PAGE_TO_BIT(slabs[1].page)}
           /\ IsFiniteSet(live)
           /\ Cardinality(live) + Len(slabs[1].freelist) = BufctlCountMax
           /\ \A m \in DOMAIN slabs[1].freelist :
                  PAGE_TO_BIT(slabs[1].freelist[m]) = PAGE_TO_BIT(slabs[1].page)
           /\ \A b \in live : PAGE_TO_BIT(b) = PAGE_TO_BIT(slabs[1].page)


-----------------------------------------------------------------------------
(* Preliminaries: sizes, addresses and what the searches find. *)

\* The buffers of a slab leave room for its slab_t.
LEMMA Sizes ==
    /\ PAGE_SIZE \in Nat \ {0} /\ SLAB_SIZE \in Nat \ {0} /\ TopPage \in Nat \ {0}
    /\ HEADER_SIZE \in 1 .. PAGE_SIZE
    /\ BufctlCountMax \in Nat /\ SLAB_SIZE * BufctlCountMax <= PAGE_SIZE - HEADER_SIZE
<1>1. /\ PAGE_SIZE \in Nat \ {0} /\ SLAB_SIZE \in Nat \ {0} /\ TopPage \in Nat \ {0}
      /\ HEADER_SIZE \in 1 .. PAGE_SIZE
  BY PageSizeAssumption, SlabAssumption
<1>2. \A a \in Nat : \A d \in Nat \ {0} : a \div d \in Nat /\ d * (a \div d) <= a
  OBVIOUS
<1>3. PAGE_SIZE - HEADER_SIZE \in Nat
  BY <1>1
<1> QED BY <1>1, <1>2, <1>3 DEF BufctlCountMax

\* Where the buffers of a page are.
LEMMA BufferPlace ==
    ASSUME NEW k \in 1 .. TopPage - 1, NEW j \in 0 .. BufctlCountMax - 1
    PROVE  LET b == BIT_TO_PAGE(k) + SLAB_SIZE * j
           IN  /\ b \in Address
               /\ b % PAGE_SIZE = SLAB_SIZE * j
               /\ PAGE_TO_BIT(b) = k
               /\ SLAB_SIZE * j + SLAB_SIZE <= PAGE_SIZE - HEADER_SIZE
               /\ j # 0 => SLAB_SIZE * j # 0
<1> DEFINE r == SLAB_SIZE * j
           b == k * PAGE_SIZE + r
<1> USE Sizes
<1>1. SLAB_SIZE * (j + 1) <= SLAB_SIZE * BufctlCountMax /\ SLAB_SIZE * (j + 1) = r + SLAB_SIZE
  <2>1. \A n \in Nat : \A x, y \in Nat : x <= y => n * x <= n * y
    OBVIOUS
  <2>2. j + 1 \in Nat /\ j + 1 <= BufctlCountMax
    OBVIOUS
  <2> QED BY <2>1, <2>2
<1>2. r \in Nat /\ r + SLAB_SIZE <= PAGE_SIZE - HEADER_SIZE
  <2>1. r \in Nat
    OBVIOUS
  <2> HIDE DEF r
  <2> QED BY <1>1, <2>1
<1>3. j # 0 => r # 0
  OBVIOUS
<1>4. r < PAGE_SIZE
  <2> HIDE DEF r
  <2> QED BY <1>2
<1>5. b \in Nat /\ b % PAGE_SIZE = r /\ b \div PAGE_SIZE = k
  <2> HIDE DEF r
  <2>1. \A p \in Nat \ {0} : \A q \in Nat : \A x \in 0 .. p - 1 :
            q * p + x \in Nat /\ (q * p + x) % p = x /\ (q * p + x) \div p = q
    OBVIOUS
  <2> QED BY <1>2, <1>4, <2>1
<1>6. b <= TopPage * PAGE_SIZE
  <2>1. (k + 1) * PAGE_SIZE <= TopPage * PAGE_SIZE
    <3>1. \A n \in Nat : \A x, y \in Nat : x <= y => x * n <= y * n
      OBVIOUS
    <3>2. k + 1 \in Nat /\ k + 1 <= TopPage
      OBVIOUS
    <3> QED BY <3>1, <3>2
  <2>2. (k + 1) * PAGE_SIZE = k * PAGE_SIZE + PAGE_SIZE
    OBVIOUS
  <2> HIDE DEF r
  <2>3. k * PAGE_SIZE \in Nat /\ TopPage * PAGE_SIZE \in Nat
    OBVIOUS
  <2> QED BY <1>2, <1>4, <2>1, <2>2, <2>3
<1>7. b \in Address
  <2>1. TopPage * PAGE_SIZE \in Nat
    OBVIOUS
  <2> HIDE DEF b
  <2> QED BY <1>5, <1>6, <2>1 DEF Address, BIT_TO_PAGE
<1> QED BY <1>2, <1>3, <1>5, <1>7 DEF BIT_TO_PAGE, PAGE_TO_BIT

\* A page that can be given out is a multiple of PAGE_SIZE, and not NULL.
LEMMA PageFacts ==
    ASSUME NEW page \in Pages
    PROVE  /\ PAGE_TO_BIT(page) \in 1 .. TopPage - 1 /\ page = BIT_TO_PAGE(PAGE_TO_BIT(page))
           /\ page # NULL /\ page \in Address
<1>1. PICK k \in 1 .. TopPage - 1 : page = BIT_TO_PAGE(k)
  BY DEF Pages
<1>2. k \in Nat /\ PAGE_TO_BIT(page) = k /\ page # NULL
  BY <1>1, BitOfPage
<1>3. page \in Address
  <2>1. \A n \in Nat : \A x, y \in Nat : x <= y => x * n <= y * n /\ x * n \in Nat /\ y * n \in Nat
    OBVIOUS
  <2> QED BY <1>1, <2>1, Sizes DEF Address, BIT_TO_PAGE
<1> QED BY <1>1, <1>2, <1>3

\* A page that pmm_allocz(1) returns was free and is marked.
LEMMA PageFound ==
    ASSUME SlabTypes, NewPage # NULL
    PROVE  /\ NewPage \in Pages
           /\ PAGE_TO_BIT(NewPage) \notin pmm_bitmap
           /\ SetBits(pmm_bitmap, PAGE_TO_BIT(NewPage), 1) = pmm_bitmap \cup {PAGE_TO_BIT(NewPage)}
<1> DEFINE b == PAGE_TO_BIT(NewPage)
           top == BIT_TO_PAGE(TopPage)
<1>1. top \in Nat /\ PAGE_TO_BIT(top) = TopPage
  BY Sizes, BitOfPage
<1>2. b \in 0 .. TopPage - 1 /\ NewPage = BIT_TO_PAGE(b) /\ b \notin pmm_bitmap
  <2>1. NewPage = pmm_find_first_free_page_range(pmm_bitmap, top, 1)
    BY DEF NewPage
  <2> HIDE DEF top
  <2> QED BY <1>1, <2>1, SearchResult
<1>3. b # 0
  <2> HIDE DEF b
  <2> QED BY <1>2, BitOfPage
<1> HIDE DEF b
<1>4. b \in 1 .. TopPage - 1
  BY <1>2, <1>3, Sizes
<1>5. PageRange(b, 1) = {b}
  BY <1>4, Sizes DEF PageRange
<1> QED BY <1>2, <1>4, <1>5 DEF Pages, SetBits, b

\* A new slab is well formed: its free list holds different buffers of its own page.
LEMMA NewSlabIsGood ==
    ASSUME SlabTypes, NEW page \in Pages, NEW flags \in FlagSets
    PROVE  LET new == NewSlab(page, flags)
           IN  /\ new \in Slabs
               /\ new.page = page /\ new.bufctl_count = Len(new.freelist)
               /\ new.bufctl_count = bufctl_count_max - LeftOut(flags)
               /\ \A m \in DOMAIN new.freelist : PAGE_TO_BIT(new.freelist[m]) = PAGE_TO_BIT(page)
               /\ \A m, n \in DOMAIN new.freelist : new.freelist[m] = new.freelist[n] => m = n
               /\ bufctl_count_max - LeftOut(flags) \in 0 .. BufctlCountMax
<1> DEFINE k == PAGE_TO_BIT(page)
           out == LeftOut(flags)
           len == bufctl_count_max - out
           list == InitBufctls(page, flags)
<1>1. k \in 1 .. TopPage - 1 /\ page = BIT_TO_PAGE(k)
  BY PageFacts
<1>2. /\ bufctl_count_max \in 0 .. BufctlCountMax /\ BufctlCountMax \in Nat
      /\ out \in 0 .. 1 /\ len \in 0 .. BufctlCountMax
      /\ (\A f \in FlagSets : SLAB_NO_ALIGN \in f) /\ len > 0 => out = 1
  BY Sizes DEF SlabTypes, LeftOut
<1>3. /\ list = [j \in 1 .. len |-> page + SLAB_SIZE * (j - 1 + out)]
      /\ DOMAIN list = 1 .. len
  BY DEF InitBufctls
<1> HIDE DEF k, out, list
<1>4. ASSUME NEW j \in 1 .. len
      PROVE  /\ list[j] = BIT_TO_PAGE(k) + SLAB_SIZE * (j - 1 + out)
             /\ list[j] \in Buffers /\ PAGE_TO_BIT(list[j]) = k
  <2> DEFINE x == j - 1 + out
  <2>1. x \in 0 .. BufctlCountMax - 1 /\ x < bufctl_count_max
    BY <1>2
  <2>2. list[j] = BIT_TO_PAGE(k) + SLAB_SIZE * x
    BY <1>1, <1>3
  <2>3. (\A f \in FlagSets : SLAB_NO_ALIGN \in f) => x # 0
    BY <1>2
  <2> HIDE DEF x
  <2>4. /\ list[j] \in Address /\ PAGE_TO_BIT(list[j]) = k
        /\ (list[j] % PAGE_SIZE) + SLAB_SIZE <= PAGE_SIZE - HEADER_SIZE
        /\ x # 0 => list[j] % PAGE_SIZE # 0
    BY <1>1, <2>1, <2>2, BufferPlace
  <2> QED BY <2>2, <2>3, <2>4 DEF Buffers, x
<1>5. \A m, n \in 1 .. len : list[m] = list[n] => m = n
  <2> SUFFICES ASSUME NEW m \in 1 .. len, NEW n \in 1 .. len, list[m] = list[n] PROVE m = n
    OBVIOUS
  <2> DEFINE x == m - 1 + out
             y == n - 1 + out
  <2>1. x \in Int /\ y \in Int /\ (x = y => m = n)
    BY <1>2
  <2>2. BIT_TO_PAGE(k) + SLAB_SIZE * x = BIT_TO_PAGE(k) + SLAB_SIZE * y
    BY <1>4
  <2> HIDE DEF x, y
  <2>3. SLAB_SIZE * x = SLAB_SIZE * y
    <3>1. \A u, v, w \in Int : w + u = w + v => u = v
      OBVIOUS
    <3>2. SLAB_SIZE * x \in Int /\ SLAB_SIZE * y \in Int /\ BIT_TO_PAGE(k) \in Int
      BY <1>1, <2>1, Sizes DEF BIT_TO_PAGE
    <3> QED BY <2>2, <3>1, <3>2, Zenon
  <2>4. \A d \in Nat \ {0} : \A u, v \in Int : d * u = d * v => u = v
    OBVIOUS
  <2> QED BY <2>1, <2>3, <2>4, Sizes
<1>6. list \in Seq(Buffers) /\ Len(list) = len
  <2> HIDE DEF len
  <2>1. len \in Nat
    BY <1>2
  <2>2. list \in [1 .. len -> Buffers]
    BY <1>3, <1>4
  <2> QED BY <2>1, <2>2
<1> HIDE DEF len
<1>7. NewSlab(page, flags) = [page |-> page, bufctl_count |-> len, freelist |-> list]
  BY DEF NewSlab, len, out, list
<1> QED BY <1>2, <1>3, <1>4, <1>5, <1>6, <1>7 DEF Slabs, k, len, out

\* The search of slab_cache_alloc.
LEMMA BufferFound ==
    ASSUME SlabTypes
    PROVE  /\ SlabWithBuffer # 0 => /\ SlabWithBuffer \in DOMAIN slabs
                                    /\ slabs[SlabWithBuffer].freelist # <<>>
           /\ SlabWithBuffer = 0 => \A s \in DOMAIN slabs : slabs[s].freelist = <<>>
<1> DEFINE I == {s \in 1 .. Len(slabs) : slabs[s].freelist # <<>>}
<1>1. SlabWithBuffer = IF I # {} THEN Min(I) ELSE 0
  BY DEF SlabWithBuffer, SelectInSeq
<1>2. DOMAIN slabs = 1 .. Len(slabs) /\ Len(slabs) \in Nat
  BY DEF SlabTypes
<1>3. I # {} => Min(I) \in I
  <2>1. I \subseteq Nat
    BY <1>2
  <2> HIDE DEF I
  <2> QED BY <2>1, MinIsLeast
<1> QED BY <1>1, <1>2, <1>3

\* The search of slab_cache_free.
LEMMA SpotFound ==
    ASSUME SlabTypes
    PROVE  /\ SlabWithSpot # 0 => /\ SlabWithSpot \in DOMAIN slabs
                                  /\ slabs[SlabWithSpot].bufctl_count < bufctl_count_max
           /\ SlabWithSpot = 0 =>
                  \A s \in DOMAIN slabs : ~(slabs[s].bufctl_count < bufctl_count_max)
<1> DEFINE I == {s \in 1 .. Len(slabs) : slabs[s].bufctl_count < bufctl_count_max}
<1>1. SlabWithSpot = IF I # {} THEN Min(I) ELSE 0
  BY DEF SlabWithSpot, SelectInSeq
<1>2. DOMAIN slabs = 1 .. Len(slabs) /\ Len(slabs) \in Nat
  BY DEF SlabTypes
<1>3. I # {} => Min(I) \in I
  <2>1. I \subseteq Nat
    BY <1>2
  <2> HIDE DEF I
  <2> QED BY <2>1, MinIsLeast
<1> QED BY <1>1, <1>2, <1>3

-----------------------------------------------------------------------------
(* What the operations do to a slab. *)

\* An activation of slab_cache_alloc takes the first buffer of a free list, or changes no
\* list.
LEMMA AllocEffect ==
    ASSUME SlabTypes, NEW flags \in FlagSets, AllocBody(flags)
    PROVE  /\ UNCHANGED <<pmm_bitmap, cache, bufctl_count_max>>
           /\ \/ \E s \in DOMAIN slabs :
                     /\ slabs[s].freelist # <<>>
                     /\ live' = live \cup {Head(slabs[s].freelist)}
                     /\ slabs' = WithFreelist(s, slabs[s].bufctl_count - 1, Tail(slabs[s].freelist))
                     /\ call' = Idle /\ panicked' = panicked
              \/ /\ UNCHANGED <<live, slabs>>
                 /\ call' \in Calls /\ panicked' \in BOOLEAN
                 /\ SLAB_AUTO_GROW \notin flags => call' = Idle
<1>1. CASE SlabWithBuffer # 0
  <2> DEFINE s == SlabWithBuffer
  <2>1. s \in DOMAIN slabs /\ slabs[s].freelist # <<>>
    BY <1>1, BufferFound
  <2>2. /\ live' = live \cup {Head(slabs[s].freelist)}
        /\ slabs' = WithFreelist(s, slabs[s].bufctl_count - 1, Tail(slabs[s].freelist))
        /\ call' = Idle /\ panicked' = panicked
    BY <1>1 DEF AllocBody
  <2> HIDE DEF s
  <2> QED BY <2>1, <2>2 DEF AllocBody
<1>2. CASE SlabWithBuffer = 0
  <2>1. UNCHANGED <<live, slabs, pmm_bitmap, cache, bufctl_count_max>>
    BY <1>2 DEF AllocBody
  <2>2. CASE SLAB_AUTO_GROW \in flags
    <3>1. call' = Growing(1, TRUE, "alloc", flags) /\ panicked' = panicked
      BY <1>2, <2>2 DEF AllocBody
    <3>2. call' \in Calls
      BY <3>1 DEF Calls, Growing
    <3> QED BY <2>1, <2>2, <3>1, <3>2 DEF SlabTypes
  <2>3. CASE SLAB_AUTO_GROW \notin flags
    <3>1. Fail(flags)
      BY <1>2, <2>3 DEF AllocBody
    <3>2. call' = Idle /\ panicked' \in BOOLEAN
      BY <3>1 DEF Fail
    <3>3. call' \in Calls
      BY <3>2 DEF Calls, Idle
    <3> QED BY <2>1, <3>2, <3>3
  <2> QED BY <2>2, <2>3
<1> QED BY <1>1, <1>2

\* slab_cache_free puts the pointer in front of a free list with a spot, or drops it.
LEMMA FreeEffect ==
    ASSUME SlabTypes, NEW flags \in FlagSets, NEW pointer \in live, slab_cache_free(pointer, flags)
    PROVE  /\ UNCHANGED <<pmm_bitmap, cache, bufctl_count_max>>
           /\ cache # NULL
           /\ live' = live \ {pointer}
           /\ call' = Idle /\ panicked' \in BOOLEAN
           /\ \/ \E s \in DOMAIN slabs :
                     /\ slabs[s].bufctl_count < bufctl_count_max
                     /\ slabs' = WithFreelist(s, slabs[s].bufctl_count + 1,
                                              <<pointer>> \o slabs[s].freelist)
              \/ /\ slabs' = slabs
                 /\ \A s \in DOMAIN slabs : ~(slabs[s].bufctl_count < bufctl_count_max)
<1>1. /\ UNCHANGED <<pmm_bitmap, cache, bufctl_count_max>> /\ cache # NULL
      /\ live' = live \ {pointer} /\ call = Idle
  BY DEF slab_cache_free, Ready
<1>2. CASE SlabWithSpot # 0
  <2> DEFINE s == SlabWithSpot
  <2>1. s \in DOMAIN slabs /\ slabs[s].bufctl_count < bufctl_count_max
    BY <1>2, SpotFound
  <2>2. /\ slabs' = WithFreelist(s, slabs[s].bufctl_count + 1, <<pointer>> \o slabs[s].freelist)
        /\ UNCHANGED <<call, panicked>>
    BY <1>2 DEF slab_cache_free, Cons
  <2>3. panicked' \in BOOLEAN
    BY <2>2 DEF SlabTypes
  <2> HIDE DEF s
  <2> QED BY <1>1, <2>1, <2>2, <2>3
<1>3. CASE SlabWithSpot = 0
  <2>1. slabs' = slabs /\ Fail(flags)
    BY <1>3 DEF slab_cache_free
  <2>2. call' = Idle /\ panicked' \in BOOLEAN
    BY <2>1 DEF Fail
  <2> QED BY <1>1, <1>3, <2>1, <2>2, SpotFound
<1> QED BY <1>2, <1>3

\* A step of slab_cache_grow links one new slab, or gives up.
LEMMA GrowEffect ==
    ASSUME SlabTypes, GrowOnce
    PROVE  /\ UNCHANGED <<cache, live>>
           /\ call.op = "grow" /\ call.left > 0
           /\ \/ /\ UNCHANGED <<pmm_bitmap, bufctl_count_max, slabs>>
                 /\ panicked' \in BOOLEAN
                 /\ call' \in Calls
                 /\ call.then # "alloc" => call' = Idle
              \/ \E flags \in FlagSets :
                     /\ flags = call.flags
                     /\ NewPage # NULL
                     /\ pmm_bitmap' = pmm_bitmap \cup {PAGE_TO_BIT(NewPage)}
                     /\ slabs' = LinkSlab(NewSlab(NewPage, flags), call.fresh)
                     /\ bufctl_count_max' = bufctl_count_max - LeftOut(flags)
                     /\ call' = Growing(call.left - 1, FALSE, call.then, flags)
                     /\ call' \in Calls
                     /\ panicked' = panicked
<1>1. UNCHANGED <<cache, live>> /\ call.op = "grow" /\ call.left > 0
  BY DEF GrowOnce
<1> DEFINE left == call.left
           fresh == call.fresh
           then == call.then
           flags == call.flags
<1>2. left \in Nat /\ fresh \in BOOLEAN /\ then \in {"return", "alloc"} /\ flags \in FlagSets
  BY <1>1 DEF SlabTypes, Calls
<1>4. CASE NewPage = NULL
  <2>1. /\ UNCHANGED <<pmm_bitmap, bufctl_count_max, slabs>>
        /\ panicked' = (SLAB_PANIC \in flags)
        /\ call' = IF then = "alloc" /\ ~panicked' THEN Allocating(flags) ELSE Idle
    BY <1>4 DEF GrowOnce
  <2> HIDE DEF flags, then
  <2>2. panicked' \in BOOLEAN
    BY <2>1
  <2>3. call' \in Calls /\ (then # "alloc" => call' = Idle)
    BY <1>2, <2>1 DEF Calls, Allocating, Idle
  <2> QED BY <1>1, <2>1, <2>2, <2>3 DEF then
<1>5. CASE NewPage # NULL
  <2>1. /\ pmm_bitmap' = pmm_bitmap \cup {PAGE_TO_BIT(NewPage)}
        /\ slabs' = LinkSlab(NewSlab(NewPage, flags), fresh)
        /\ bufctl_count_max' = bufctl_count_max - LeftOut(flags)
        /\ call' = Growing(left - 1, FALSE, then, flags)
        /\ panicked' = panicked
    BY <1>5, PageFound DEF GrowOnce
  <2>2. call' \in Calls
    <3>1. left - 1 \in Nat
      BY <1>1, <1>2
    <3> HIDE DEF left, then, flags
    <3> QED BY <1>2, <2>1, <3>1 DEF Calls, Growing
  <2> QED BY <1>1, <1>2, <1>5, <2>1, <2>2
<1> QED BY <1>4, <1>5

\* The list after a new slab has been linked: old slabs, in their order, and the new one.
LEMMA LinkEffect ==
    ASSUME SlabTypes, NEW new \in Slabs, NEW fresh \in BOOLEAN
    PROVE  LET list == LinkSlab(new, fresh)
           IN  /\ list \in Seq(Slabs)
               /\ Len(list) > 0 /\ list[Len(list)] = new
               /\ \A s \in 1 .. Len(list) - 1 : s \in DOMAIN slabs /\ list[s] = slabs[s]
               /\ slabs = <<>> => list = <<new>>
<1>1. CASE fresh /\ slabs # <<>>
  <2> DEFINE two == <<Head(slabs), new>>
  <2>1. LinkSlab(new, fresh) = two
    BY <1>1 DEF LinkSlab
  <2>2. Head(slabs) = slabs[1] /\ 1 \in DOMAIN slabs /\ slabs[1] \in Slabs
    BY <1>1 DEF SlabTypes
  <2>3. two \in Seq(Slabs) /\ Len(two) = 2 /\ two[1] = slabs[1] /\ two[2] = new
    BY <2>2
  <2> HIDE DEF two
  <2>4. \A s \in 1 .. 2 - 1 : s = 1
    OBVIOUS
  <2>5. \A s \in 1 .. Len(two) - 1 : s \in DOMAIN slabs /\ two[s] = slabs[s]
    BY <2>2, <2>3, <2>4
  <2>6. Len(two) > 0 /\ two[Len(two)] = new
    BY <2>3
  <2> QED BY <1>1, <2>1, <2>3, <2>5, <2>6
<1>2. CASE ~(fresh /\ slabs # <<>>)
  <2>1. LinkSlab(new, fresh) = Append(slabs, new)
    BY <1>2 DEF LinkSlab
  <2>2. slabs \in Seq(Slabs) /\ Len(slabs) \in Nat
    BY DEF SlabTypes
  <2>3. /\ Append(slabs, new) \in Seq(Slabs) /\ Len(Append(slabs, new)) = Len(slabs) + 1
        /\ Append(slabs, new)[Len(slabs) + 1] = new
        /\ \A s \in 1 .. Len(slabs) : Append(slabs, new)[s] = slabs[s]
    BY <2>2
  <2>4. slabs = <<>> => Append(slabs, new) = <<new>>
    OBVIOUS
  <2> QED BY <2>1, <2>2, <2>3, <2>4
<1> QED BY <1>1, <1>2

\* A step of slab_cache_reap takes a slab that is unused off the list, or goes on.
LEMMA ReapEffect ==
    ASSUME SlabTypes, ReapOnce
    PROVE  /\ UNCHANGED <<cache, bufctl_count_max, panicked, live>>
           /\ call' \in Calls /\ call.op = "reap" /\ call'.op = "reap"
           /\ \/ UNCHANGED <<pmm_bitmap, slabs>>
              \/ \E k \in DOMAIN slabs :
                     /\ IsUnused(slabs[k])
                     /\ pmm_bitmap' = pmm_bitmap \ {PAGE_TO_BIT(slabs[k].page)}
                     /\ Len(slabs') = Len(slabs) - 1
                     /\ slabs' \in Seq(Slabs)
                     /\ \A s \in DOMAIN slabs' : \E t \in DOMAIN slabs : slabs'[s] = slabs[t]
<1> DEFINE at == call.at
<1>1. at \in Nat \ {0} /\ call \in Calls /\ call.op = "reap"
  BY DEF SlabTypes, ReapOnce, Calls
<1>2. at \in DOMAIN slabs /\ UNCHANGED <<cache, bufctl_count_max, panicked, live>>
  BY <1>1 DEF ReapOnce, SlabTypes
<1>3. CASE IsUnused(slabs[at])
  <2> DEFINE bit == PAGE_TO_BIT(slabs[at].page)
  <2>1. pmm_bitmap' = UnsetBits(pmm_bitmap, bit, 1) /\ slabs' = RemoveAt(slabs, at) /\ call' = call
    BY <1>2, <1>3 DEF ReapOnce
  <2>2. bit \in Nat
    <3>1. slabs[at] \in Slabs
      BY <1>2 DEF SlabTypes
    <3> QED BY <3>1, PageFacts, Sizes DEF Slabs
  <2>3. pmm_bitmap' = pmm_bitmap \ {bit}
    <3> HIDE DEF bit
    <3>1. PageRange(bit, 1) = {bit}
      BY <2>2 DEF PageRange
    <3> QED BY <2>1, <3>1 DEF UnsetBits
  <2>4. slabs' = SubSeq(slabs, 1, at - 1) \o SubSeq(slabs, at + 1, Len(slabs))
    BY <2>1 DEF RemoveAt
  <2>5. /\ slabs' \in Seq(Slabs) /\ Len(slabs') = Len(slabs) - 1
        /\ \A s \in 1 .. Len(slabs) - 1 : slabs'[s] = IF s < at THEN slabs[s] ELSE slabs[s + 1]
    <3> DEFINE a == SubSeq(slabs, 1, at - 1)
               b == SubSeq(slabs, at + 1, Len(slabs))
    <3>1. Len(slabs) \in Nat /\ at \in 1 .. Len(slabs) /\ slabs \in Seq(Slabs)
      BY <1>2 DEF SlabTypes
    <3>2. a \in Seq(Slabs) /\ Len(a) = at - 1 /\ \A s \in 1 .. at - 1 : a[s] = slabs[s]
      BY <3>1, SubSeqProperties
    <3>3. /\ b \in Seq(Slabs) /\ Len(b) = Len(slabs) - at
          /\ \A s \in 1 .. Len(slabs) - at : b[s] = slabs[at + s]
      BY <3>1, SubSeqProperties
    <3> HIDE DEF a, b
    <3>4. slabs' = a \o b
      BY <2>4 DEF a, b
    <3>5. /\ a \o b \in Seq(Slabs) /\ Len(a \o b) = Len(slabs) - 1
          /\ \A s \in 1 .. Len(slabs) - 1 : (a \o b)[s] = IF s <= at - 1 THEN a[s] ELSE b[s - (at - 1)]
      <4>1. Len(a) + Len(b) = Len(slabs) - 1
        BY <3>1, <3>2, <3>3
      <4> QED BY <3>2, <3>3, <4>1, ConcatProperties
    <3>6. ASSUME NEW s \in 1 .. Len(slabs) - 1
          PROVE  (a \o b)[s] = IF s < at THEN slabs[s] ELSE slabs[s + 1]
      <4>1. CASE s < at
        BY <3>1, <3>2, <3>5, <4>1
      <4>2. CASE ~(s < at)
        <5>1. s - (at - 1) \in 1 .. Len(slabs) - at /\ at + (s - (at - 1)) = s + 1 /\ ~(s <= at - 1)
          BY <3>1, <4>2
        <5> QED BY <3>3, <3>5, <4>2, <5>1
      <4> QED BY <4>1, <4>2
    <3> QED BY <3>4, <3>5, <3>6
  <2>6. \A s \in DOMAIN slabs' : \E t \in DOMAIN slabs : slabs'[s] = slabs[t]
    BY <2>5, <1>2 DEF SlabTypes
  <2> QED BY <1>1, <1>2, <1>3, <2>1, <2>3, <2>5, <2>6
<1>4. CASE ~IsUnused(slabs[at])
  <2>1. call' = Reaping(at + 1) /\ UNCHANGED <<pmm_bitmap, slabs>>
    BY <1>2, <1>4 DEF ReapOnce
  <2>2. call' \in Calls /\ call'.op = "reap"
    BY <1>1, <2>1 DEF Calls, Reaping
  <2> QED BY <1>1, <1>2, <2>1, <2>2
<1> QED BY <1>3, <1>4

-----------------------------------------------------------------------------
(* Types, and that the counts are those of the free lists. *)

\* A slab on the list.
LEMMA SlabFacts ==
    ASSUME SlabTypes, NEW s \in DOMAIN slabs
    PROVE  /\ slabs[s] \in Slabs /\ slabs[s].page \in Pages
           /\ slabs[s].bufctl_count \in 0 .. BufctlCountMax
           /\ slabs[s].freelist \in Seq(Buffers) /\ Len(slabs[s].freelist) \in Nat
           /\ DOMAIN slabs[s].freelist = 1 .. Len(slabs[s].freelist)
           /\ \A m \in DOMAIN slabs[s].freelist : slabs[s].freelist[m] \in Buffers
<1>1. slabs[s] \in Slabs
  BY DEF SlabTypes
<1>2. slabs[s].freelist \in Seq(Buffers)
  BY <1>1 DEF Slabs
<1> QED BY <1>1, <1>2 DEF Slabs

\* Replacing a free list.
LEMMA WithFreelistIsGood ==
    ASSUME SlabTypes, NEW s \in DOMAIN slabs, NEW count \in 0 .. BufctlCountMax,
           NEW list \in Seq(Buffers)
    PROVE  LET new == WithFreelist(s, count, list)
           IN  /\ new \in Seq(Slabs) /\ DOMAIN new = DOMAIN slabs /\ Len(new) = Len(slabs)
               /\ new[s].page = slabs[s].page
               /\ new[s].bufctl_count = count /\ new[s].freelist = list
               /\ \A t \in DOMAIN slabs \ {s} : new[t] = slabs[t]
<1> DEFINE record == [page |-> slabs[s].page, bufctl_count |-> count, freelist |-> list]
<1>1. slabs \in Seq(Slabs) /\ slabs[s] \in Slabs
  BY DEF SlabTypes
<1>2. record \in Slabs
  BY <1>1 DEF Slabs
<1>3. record.page = slabs[s].page /\ record.bufctl_count = count /\ record.freelist = list
  OBVIOUS
<1>4. WithFreelist(s, count, list) = [slabs EXCEPT ![s] = record]
  BY DEF WithFreelist
<1> HIDE DEF record
<1> QED BY <1>1, <1>2, <1>3, <1>4

\* The first allocation finds no cache.
LEMMA SlabInvInit == Init => SlabInv
<1> SUFFICES ASSUME Init PROVE SlabInv
  OBVIOUS
<1>1. pmm_bitmap \subseteq 0 .. TopPage - 1 /\ bufctl_count_max \in 0 .. BufctlCountMax
  BY Sizes DEF Init
<1>2. slabs \in Seq(Slabs) /\ call \in Calls /\ DOMAIN slabs = {}
  BY DEF Init, Calls, Idle
<1>3. cache \in Pages \cup {NULL} /\ live \subseteq Buffers /\ panicked \in BOOLEAN
  BY DEF Init
<1> QED BY <1>1, <1>2, <1>3 DEF SlabInv, SlabTypes, CountMatchesFreelist

\* Taking a buffer from a free list.
LEMMA AllocKeepsInv ==
    ASSUME SlabInv, NEW flags \in FlagSets, AllocBody(flags)
    PROVE  SlabInv'
<1> USE DEF SlabInv
<1>1. CASE UNCHANGED <<live, slabs>> /\ call' \in Calls /\ panicked' \in BOOLEAN
  BY <1>1, AllocEffect DEF SlabTypes, CountMatchesFreelist
<1>2. ASSUME NEW s \in DOMAIN slabs,
             slabs[s].freelist # <<>>,
             live' = live \cup {Head(slabs[s].freelist)},
             slabs' = WithFreelist(s, slabs[s].bufctl_count - 1, Tail(slabs[s].freelist)),
             call' = Idle, panicked' = panicked
      PROVE  SlabInv'
  <2> DEFINE list == Tail(slabs[s].freelist)
             count == slabs[s].bufctl_count - 1
  <2>1. /\ Head(slabs[s].freelist) \in Buffers
        /\ list \in Seq(Buffers) /\ count = Len(list) /\ count \in 0 .. BufctlCountMax
    <3>1. /\ slabs[s].freelist \in Seq(Buffers) /\ slabs[s].bufctl_count = Len(slabs[s].freelist)
          /\ slabs[s].bufctl_count \in 0 .. BufctlCountMax
      BY SlabFacts DEF CountMatchesFreelist
    <3> QED BY <1>2, <3>1, Sizes
  <2>2. slabs' = WithFreelist(s, count, list)
    BY <1>2
  <2> HIDE DEF list, count
  <2>3. /\ slabs' \in Seq(Slabs) /\ DOMAIN slabs' = DOMAIN slabs
        /\ slabs'[s].bufctl_count = count /\ slabs'[s].freelist = list
        /\ \A t \in DOMAIN slabs \ {s} : slabs'[t] = slabs[t]
    BY <2>1, <2>2, WithFreelistIsGood
  <2>4. CountMatchesFreelist'
    BY <2>1, <2>3 DEF CountMatchesFreelist
  <2>5. call' \in Calls
    BY <1>2 DEF Calls, Idle
  <2> QED BY <1>2, <2>1, <2>3, <2>4, <2>5, AllocEffect DEF SlabTypes
<1> QED BY <1>1, <1>2, AllocEffect

\* Putting a buffer in front of a free list.
LEMMA FreeKeepsInv ==
    ASSUME SlabInv, NEW flags \in FlagSets, NEW pointer \in live, slab_cache_free(pointer, flags)
    PROVE  SlabInv'
<1> USE DEF SlabInv
<1>1. /\ UNCHANGED <<pmm_bitmap, cache, bufctl_count_max>>
      /\ live' \subseteq Buffers /\ call' \in Calls /\ panicked' \in BOOLEAN
  <2>1. Idle \in Calls
    BY DEF Calls, Idle
  <2> QED BY <2>1, FreeEffect DEF SlabTypes
<1>2. CASE slabs' = slabs
  BY <1>1, <1>2 DEF SlabTypes, CountMatchesFreelist
<1>3. ASSUME NEW s \in DOMAIN slabs, slabs[s].bufctl_count < bufctl_count_max,
             slabs' = WithFreelist(s, slabs[s].bufctl_count + 1, <<pointer>> \o slabs[s].freelist)
      PROVE  SlabInv'
  <2> DEFINE list == <<pointer>> \o slabs[s].freelist
             count == slabs[s].bufctl_count + 1
  <2>1. list \in Seq(Buffers) /\ count = Len(list) /\ count \in 0 .. BufctlCountMax
    <3>1. /\ slabs[s].freelist \in Seq(Buffers) /\ slabs[s].bufctl_count = Len(slabs[s].freelist)
          /\ slabs[s].bufctl_count \in 0 .. BufctlCountMax /\ pointer \in Buffers
      BY SlabFacts DEF SlabTypes, CountMatchesFreelist
    <3>2. count \in 0 .. BufctlCountMax
      BY <1>3, <3>1, Sizes DEF SlabTypes
    <3> QED BY <3>1, <3>2
  <2>2. slabs' = WithFreelist(s, count, list)
    BY <1>3
  <2> HIDE DEF list, count
  <2>3. /\ slabs' \in Seq(Slabs) /\ DOMAIN slabs' = DOMAIN slabs
        /\ slabs'[s].bufctl_count = count /\ slabs'[s].freelist = list
        /\ \A t \in DOMAIN slabs \ {s} : slabs'[t] = slabs[t]
    BY <2>1, <2>2, WithFreelistIsGood
  <2>4. CountMatchesFreelist'
    BY <2>1, <2>3 DEF CountMatchesFreelist
  <2> QED BY <1>1, <2>3, <2>4 DEF SlabTypes
<1> QED BY <1>2, <1>3, FreeEffect

\* Adding a slab.
LEMMA GrowKeepsInv ==
    ASSUME SlabInv, GrowOnce
    PROVE  SlabInv'
<1> USE DEF SlabInv
<1>1. CASE /\ UNCHANGED <<pmm_bitmap, bufctl_count_max, slabs>>
           /\ panicked' \in BOOLEAN /\ call' \in Calls
  BY <1>1, GrowEffect DEF SlabTypes, CountMatchesFreelist
<1>2. ASSUME NEW flags \in FlagSets, flags = call.flags, NewPage # NULL,
             pmm_bitmap' = pmm_bitmap \cup {PAGE_TO_BIT(NewPage)},
             slabs' = LinkSlab(NewSlab(NewPage, flags), call.fresh),
             bufctl_count_max' = bufctl_count_max - LeftOut(flags),
             call' \in Calls, panicked' = panicked
      PROVE  SlabInv'
  <2> DEFINE new == NewSlab(NewPage, flags)
  <2>1. NewPage \in Pages /\ PAGE_TO_BIT(NewPage) \in 0 .. TopPage - 1
    BY <1>2, PageFound, PageFacts, Sizes
  <2>2. /\ new \in Slabs /\ new.bufctl_count = Len(new.freelist)
        /\ bufctl_count_max' \in 0 .. BufctlCountMax
    BY <1>2, <2>1, NewSlabIsGood
  <2>3. call.fresh \in BOOLEAN
    BY GrowEffect DEF SlabTypes, Calls
  <2> HIDE DEF new
  <2>4. /\ slabs' \in Seq(Slabs) /\ Len(slabs') > 0 /\ slabs'[Len(slabs')] = new
        /\ \A s \in 1 .. Len(slabs') - 1 : s \in DOMAIN slabs /\ slabs'[s] = slabs[s]
    BY <1>2, <2>2, <2>3, LinkEffect DEF new
  <2>5. CountMatchesFreelist'
    <3> SUFFICES ASSUME NEW s \in DOMAIN slabs'
                 PROVE  slabs'[s].bufctl_count = Len(slabs'[s].freelist)
      BY DEF CountMatchesFreelist
    <3>1. s = Len(slabs') \/ s \in 1 .. Len(slabs') - 1
      BY <2>4
    <3> QED BY <2>2, <2>4, <3>1 DEF CountMatchesFreelist
  <2> QED BY <1>2, <2>1, <2>2, <2>4, <2>5, GrowEffect DEF SlabTypes
<1> QED BY <1>1, <1>2, GrowEffect

\* Giving slabs back.
LEMMA ReclaimKeepsInv ==
    ASSUME SlabInv, \/ slab_cache_reap \/ ReapOnce \/ ReapReturns
                    \/ \E flags \in FlagSets : slab_cache_destroy(flags)
    PROVE  SlabInv'
<1> USE DEF SlabInv
<1>1. CASE slab_cache_reap \/ ReapReturns
  <2>1. UNCHANGED <<pmm_bitmap, cache, bufctl_count_max, slabs, panicked, live>> /\ call' \in Calls
    BY <1>1 DEF slab_cache_reap, ReapReturns, Calls, Idle, Reaping
  <2> QED BY <2>1 DEF SlabTypes, CountMatchesFreelist
<1>2. CASE ReapOnce
  <2>1. pmm_bitmap' \subseteq pmm_bitmap /\ slabs' \in Seq(Slabs)
    BY <1>2, ReapEffect DEF SlabTypes
  <2>2. \A s \in DOMAIN slabs' : \E t \in DOMAIN slabs : slabs'[s] = slabs[t]
    BY <1>2, ReapEffect
  <2>3. CountMatchesFreelist'
    BY <2>2 DEF CountMatchesFreelist
  <2> QED BY <1>2, <2>1, <2>3, ReapEffect DEF SlabTypes
<1>3. ASSUME NEW flags \in FlagSets, slab_cache_destroy(flags) PROVE SlabInv'
  <2>1. pmm_bitmap' \subseteq pmm_bitmap /\ live' = live
    BY <1>3 DEF slab_cache_destroy
  <2>2. CASE Fail(flags) /\ UNCHANGED <<cache, bufctl_count_max, slabs>>
    <3>1. call' \in Calls /\ panicked' \in BOOLEAN
      BY <2>2 DEF Fail, Calls, Idle
    <3> QED BY <2>1, <2>2, <3>1 DEF SlabTypes, CountMatchesFreelist
  <2>3. CASE /\ cache' = NULL /\ bufctl_count_max' = 0 /\ slabs' = <<>>
             /\ UNCHANGED <<call, panicked>>
    <3>1. slabs' \in Seq(Slabs) /\ DOMAIN slabs' = {} /\ 0 \in 0 .. BufctlCountMax
      BY <2>3, Sizes
    <3> QED BY <2>1, <2>3, <3>1 DEF SlabTypes, CountMatchesFreelist
  <2> QED BY <1>3, <2>2, <2>3 DEF slab_cache_destroy
<1> QED BY <1>1, <1>2, <1>3

\* Every step keeps the types and the counts.
LEMMA SlabInvNext == SlabInv /\ [Next]_vars => SlabInv'
<1> SUFFICES ASSUME SlabInv, [Next]_vars PROVE SlabInv'
  OBVIOUS
<1>1. ASSUME NEW flags \in FlagSets, slab_cache_create(flags) PROVE SlabInv'
  <2>1. CASE NewPage = NULL
    <3>1. UNCHANGED <<pmm_bitmap, cache, bufctl_count_max, slabs, live>> /\ Fail(flags)
      BY <1>1, <2>1 DEF slab_cache_create
    <3>2. call' \in Calls /\ panicked' \in BOOLEAN
      BY <3>1 DEF Fail, Calls, Idle
    <3> QED BY <3>1, <3>2 DEF SlabInv, SlabTypes, CountMatchesFreelist
  <2>2. CASE NewPage # NULL
    <3>1. /\ cache' = NewPage /\ pmm_bitmap' = pmm_bitmap \cup {PAGE_TO_BIT(NewPage)}
          /\ bufctl_count_max' = BufctlCountMax /\ slabs' = <<>>
          /\ call' = Growing(1, TRUE, "return", flags) /\ UNCHANGED <<panicked, live>>
      BY <1>1, <2>2, PageFound DEF slab_cache_create, SlabInv
    <3>2. NewPage \in Pages /\ PAGE_TO_BIT(NewPage) \in 0 .. TopPage - 1
      BY <2>2, PageFound, PageFacts, Sizes DEF SlabInv
    <3>3. call' \in Calls
      BY <3>1 DEF Calls, Growing
    <3>4. slabs' \in Seq(Slabs) /\ DOMAIN slabs' = {}
      BY <3>1
    <3>5. bufctl_count_max' \in 0 .. BufctlCountMax
      BY <3>1, Sizes
    <3>6. CountMatchesFreelist'
      BY <3>4 DEF CountMatchesFreelist
    <3> QED BY <3>1, <3>2, <3>3, <3>4, <3>5, <3>6 DEF SlabInv, SlabTypes
  <2> QED BY <2>1, <2>2
<1>2. ASSUME NEW flags \in FlagSets, NEW count \in GrowCounts, slab_cache_grow(count, flags)
      PROVE  SlabInv'
  <2>1. count \in Nat
    BY SlabAssumption
  <2>2. /\ call' \in Calls
        /\ UNCHANGED <<pmm_bitmap, cache, bufctl_count_max, slabs, panicked, live>>
    BY <1>2, <2>1 DEF slab_cache_grow, Growing, Calls
  <2> QED BY <2>2 DEF SlabInv, SlabTypes, CountMatchesFreelist
<1>3. ASSUME NEW flags \in FlagSets, slab_cache_dump(flags) \/ OperationOnNullCache(flags)
      PROVE  SlabInv'
  <2>1. UNCHANGED <<pmm_bitmap, cache, bufctl_count_max, slabs, live>> /\ Fail(flags)
    BY <1>3 DEF slab_cache_dump, OperationOnNullCache
  <2>2. call' \in Calls /\ panicked' \in BOOLEAN
    BY <2>1 DEF Fail, Calls, Idle
  <2> QED BY <2>1, <2>2 DEF SlabInv, SlabTypes, CountMatchesFreelist
<1>4. CASE GrowReturns
  <2>1. UNCHANGED <<pmm_bitmap, cache, bufctl_count_max, slabs, panicked, live>>
    BY <1>4 DEF GrowReturns
  <2>2. call' \in Calls
    <3>1. call.flags \in FlagSets
      BY <1>4 DEF GrowReturns, SlabInv, SlabTypes, Calls
    <3> QED BY <1>4, <3>1 DEF GrowReturns, Calls, Allocating, Idle
  <2> QED BY <2>1, <2>2 DEF SlabInv, SlabTypes, CountMatchesFreelist
<1>5. CASE AllocAgain
  <2>1. call.flags \in FlagSets
    BY <1>5 DEF AllocAgain, SlabInv, SlabTypes, Calls
  <2> QED BY <1>5, <2>1, AllocKeepsInv DEF AllocAgain
<1>6. CASE UNCHANGED vars
  BY <1>6 DEF vars, SlabInv, SlabTypes, CountMatchesFreelist
<1> QED BY <1>1, <1>2, <1>3, <1>4, <1>5, <1>6, AllocKeepsInv, FreeKeepsInv, GrowKeepsInv,
           ReclaimKeepsInv DEF Next, slab_cache_alloc

\* The variables of slab.c keep their types, and bufctl_count is the length of the free
\* list, whatever callers do.
THEOREM CountsAreExact == Spec => [](TypeOK /\ CountMatchesFreelist)
<1>1. SlabInv => TypeOK /\ CountMatchesFreelist
  <2> SUFFICES ASSUME SlabInv PROVE TypeOK /\ CountMatchesFreelist
    OBVIOUS
  <2>1. Buffers \subseteq Address /\ Pages \subseteq Address /\ NULL \in Address
    <3>1. NULL \in Address
      BY Sizes, BitOfPage DEF NULL, Address
    <3> QED BY <3>1, PageFacts DEF Buffers
  <2>2. slabs \in Seq([page : Address, bufctl_count : 0 .. BufctlCountMax, freelist : Seq(Address)])
    <3> DEFINE R == [page : Address, bufctl_count : 0 .. BufctlCountMax, freelist : Seq(Address)]
    <3>1. Slabs \subseteq R
      BY <2>1 DEF Slabs
    <3>2. slabs \in Seq(Slabs)
      BY DEF SlabInv, SlabTypes
    <3> HIDE DEF R
    <3>3. slabs \in Seq(R)
      BY <3>1, <3>2
    <3> QED BY <3>3 DEF R
  <2>3. call.op \in {"idle", "grow", "alloc", "reap"}
    BY DEF SlabInv, SlabTypes, Calls
  <2> QED BY <2>1, <2>2, <2>3 DEF TypeOK, SlabInv, SlabTypes
<1> QED BY <1>1, SlabInvInit, SlabInvNext, PTL DEF Spec

\* No buffer reaches into the slab_t at the end of its page, and with SLAB_NO_ALIGN none
\* is taken for a page by free of malloc.c, whatever callers do (slab_init_bufctls).
THEOREM BuffersAreWellPlaced == Spec => []BuffersWellPlaced
<1>1. SlabInv => BuffersWellPlaced
  <2> SUFFICES ASSUME SlabInv PROVE BuffersWellPlaced
    OBVIOUS
  <2>1. \A s \in DOMAIN slabs : ToSet(slabs[s].freelist) \subseteq Buffers
    BY SlabFacts DEF SlabInv, ToSet
  <2>2. FreeBuffers \cup live \subseteq Buffers
    BY <2>1 DEF SlabInv, SlabTypes, FreeBuffers
  <2> QED BY <2>2 DEF BuffersWellPlaced, Buffers
<1> QED BY <1>1, SlabInvInit, SlabInvNext, PTL DEF Spec

-----------------------------------------------------------------------------
(* No buffer is handed out twice.  A new slab lies in a page that was      *)
(* free, and every buffer that exists lies in an allocated page, as long   *)
(* as no page of a slab is given back.                                     *)

\* The buffer that alloc takes leaves its free list and nothing else moves.
LEMMA AllocKeepsPlaces ==
    ASSUME SlabInv, OnePlace, Backed, NEW flags \in FlagSets, AllocBody(flags)
    PROVE  OnePlace' /\ Backed'
<1> USE DEF SlabInv
<1>1. CASE UNCHANGED <<live, slabs>>
  BY <1>1, AllocEffect DEF OnePlace, Backed
<1>2. ASSUME NEW s \in DOMAIN slabs,
             slabs[s].freelist # <<>>,
             live' = live \cup {Head(slabs[s].freelist)},
             slabs' = WithFreelist(s, slabs[s].bufctl_count - 1, Tail(slabs[s].freelist))
      PROVE  OnePlace' /\ Backed'
  <2> DEFINE old == slabs[s].freelist
             list == Tail(old)
             count == slabs[s].bufctl_count - 1
  <2>1. old \in Seq(Buffers) /\ count = Len(old) - 1 /\ slabs[s].bufctl_count \in 0 .. BufctlCountMax
    BY SlabFacts DEF CountMatchesFreelist
  <2>2. /\ list \in Seq(Buffers) /\ count \in 0 .. BufctlCountMax /\ DOMAIN list = 1 .. Len(old) - 1
        /\ \A m \in DOMAIN list : m + 1 \in DOMAIN old /\ m + 1 # 1 /\ list[m] = old[m + 1]
        /\ Head(old) = old[1] /\ 1 \in DOMAIN old
    <3>1. old # <<>>
      BY <1>2
    <3>2. count \in 0 .. BufctlCountMax
      <4>1. Len(old) > 0 /\ Len(old) \in Nat
        BY <2>1, <3>1
      <4> QED BY <2>1, <4>1, Sizes
    <3> HIDE DEF old, count
    <3>3. list \in Seq(Buffers) /\ Len(list) = Len(old) - 1 /\ Len(old) \in Nat \ {0}
      BY <2>1, <3>1
    <3>4. \A m \in 1 .. Len(old) - 1 : list[m] = old[m + 1]
      BY <2>1, <3>1
    <3>5. DOMAIN old = 1 .. Len(old) /\ DOMAIN list = 1 .. Len(old) - 1 /\ Head(old) = old[1]
      BY <2>1, <3>1, <3>3
    <3> HIDE DEF list
    <3> QED BY <3>2, <3>3, <3>4, <3>5
  <2>3. slabs' = WithFreelist(s, count, list) /\ live' = live \cup {old[1]}
    BY <1>2, <2>2
  <2> HIDE DEF list, count
  <2>4. /\ DOMAIN slabs' = DOMAIN slabs /\ slabs'[s].freelist = list
        /\ \A t \in DOMAIN slabs \ {s} : slabs'[t] = slabs[t]
    BY <2>2, <2>3, WithFreelistIsGood
  <2> DEFINE from(t, m) == IF t = s THEN m + 1 ELSE m
  <2>5. \A t \in DOMAIN slabs' : \A m \in DOMAIN slabs'[t].freelist :
            /\ t \in DOMAIN slabs /\ from(t, m) \in DOMAIN slabs[t].freelist
            /\ slabs'[t].freelist[m] = slabs[t].freelist[from(t, m)]
            /\ t = s => from(t, m) # 1
    BY <2>2, <2>4
  <2>6. \A t \in DOMAIN slabs' : \A m, n \in DOMAIN slabs'[t].freelist : from(t, m) = from(t, n) => m = n
    BY <2>2, <2>4
  <2> HIDE DEF from, old
  <2>7. \A t, u \in DOMAIN slabs' :
            \A m \in DOMAIN slabs'[t].freelist : \A n \in DOMAIN slabs'[u].freelist :
                slabs'[t].freelist[m] = slabs'[u].freelist[n] => t = u /\ m = n
    BY <2>5, <2>6 DEF OnePlace
  <2>8. \A t \in DOMAIN slabs' : \A m \in DOMAIN slabs'[t].freelist : slabs'[t].freelist[m] \notin live'
    BY <2>2, <2>3, <2>5 DEF OnePlace, old
  <2>9. Backed'
    <3>1. pmm_bitmap' = pmm_bitmap
      BY AllocEffect
    <3>2. PAGE_TO_BIT(old[1]) \in pmm_bitmap
      BY <2>2 DEF Backed, old
    <3> QED BY <2>3, <2>5, <3>1, <3>2 DEF Backed
  <2> QED BY <2>7, <2>8, <2>9 DEF OnePlace
<1> QED BY <1>1, <1>2, AllocEffect

\* A freed buffer was on no free list, and is put on one.
LEMMA FreeKeepsPlaces ==
    ASSUME SlabInv, OnePlace, Backed, NEW flags \in FlagSets, NEW pointer \in live,
           slab_cache_free(pointer, flags)
    PROVE  OnePlace' /\ Backed'
<1> USE DEF SlabInv
<1>1. live' = live \ {pointer} /\ pmm_bitmap' = pmm_bitmap
  BY FreeEffect
<1>2. CASE slabs' = slabs
  BY <1>1, <1>2 DEF OnePlace, Backed
<1>3. ASSUME NEW s \in DOMAIN slabs, slabs[s].bufctl_count < bufctl_count_max,
             slabs' = WithFreelist(s, slabs[s].bufctl_count + 1, <<pointer>> \o slabs[s].freelist)
      PROVE  OnePlace' /\ Backed'
  <2> DEFINE old == slabs[s].freelist
             list == <<pointer>> \o old
             count == slabs[s].bufctl_count + 1
  <2>1. /\ old \in Seq(Buffers) /\ pointer \in Buffers
        /\ slabs[s].bufctl_count \in 0 .. BufctlCountMax
    BY SlabFacts DEF SlabTypes
  <2>2. count \in 0 .. BufctlCountMax
    BY <1>3, <2>1, Sizes DEF SlabTypes
  <2> HIDE DEF count
  <2>3. /\ list \in Seq(Buffers) /\ DOMAIN list = 1 .. Len(old) + 1 /\ list[1] = pointer
        /\ \A m \in DOMAIN list \ {1} : m - 1 \in DOMAIN old /\ m \in Nat /\ list[m] = old[m - 1]
    <3> HIDE DEF old
    <3> QED BY <2>1
  <2>4. slabs' = WithFreelist(s, count, list)
    BY <1>3 DEF count
  <2> HIDE DEF list
  <2>5. /\ DOMAIN slabs' = DOMAIN slabs /\ slabs'[s].freelist = list
        /\ \A t \in DOMAIN slabs \ {s} : slabs'[t] = slabs[t]
    BY <2>2, <2>3, <2>4, WithFreelistIsGood
  <2> DEFINE from(t, m) == IF t = s THEN m - 1 ELSE m
  <2>6. \A t \in DOMAIN slabs' : \A m \in DOMAIN slabs'[t].freelist :
            \/ t = s /\ m = 1 /\ slabs'[t].freelist[m] = pointer
            \/ /\ t \in DOMAIN slabs /\ from(t, m) \in DOMAIN slabs[t].freelist
               /\ slabs'[t].freelist[m] = slabs[t].freelist[from(t, m)]
    BY <2>3, <2>5
  <2>7. \A t \in DOMAIN slabs' : \A m, n \in DOMAIN slabs'[t].freelist : from(t, m) = from(t, n) => m = n
    BY <2>1, <2>3, <2>5
  <2> HIDE DEF from, old
  <2>8. \A t, u \in DOMAIN slabs' :
            \A m \in DOMAIN slabs'[t].freelist : \A n \in DOMAIN slabs'[u].freelist :
                slabs'[t].freelist[m] = slabs'[u].freelist[n] => t = u /\ m = n
    BY <2>6, <2>7 DEF OnePlace
  <2>9. \A t \in DOMAIN slabs' : \A m \in DOMAIN slabs'[t].freelist : slabs'[t].freelist[m] \notin live'
    BY <1>1, <2>6 DEF OnePlace
  <2>10. Backed'
    BY <1>1, <2>6 DEF Backed
  <2> QED BY <2>8, <2>9, <2>10 DEF OnePlace
<1> QED BY <1>2, <1>3, FreeEffect

\* The buffers of a new slab are new.
LEMMA GrowKeepsPlaces ==
    ASSUME SlabInv, OnePlace, Backed, GrowOnce
    PROVE  OnePlace' /\ Backed'
<1> USE DEF SlabInv
<1>1. CASE UNCHANGED <<pmm_bitmap, slabs>>
  BY <1>1, GrowEffect DEF OnePlace, Backed
<1>2. ASSUME NEW flags \in FlagSets, NewPage # NULL,
             pmm_bitmap' = pmm_bitmap \cup {PAGE_TO_BIT(NewPage)},
             slabs' = LinkSlab(NewSlab(NewPage, flags), call.fresh)
      PROVE  OnePlace' /\ Backed'
  <2> DEFINE new == NewSlab(NewPage, flags)
             bit == PAGE_TO_BIT(NewPage)
             len == Len(slabs')
  <2>1. NewPage \in Pages /\ bit \notin pmm_bitmap
    BY <1>2, PageFound
  <2>2. /\ new \in Slabs
        /\ \A m \in DOMAIN new.freelist : PAGE_TO_BIT(new.freelist[m]) = bit
        /\ \A m, n \in DOMAIN new.freelist : new.freelist[m] = new.freelist[n] => m = n
    BY <1>2, <2>1, NewSlabIsGood
  <2>3. call.fresh \in BOOLEAN /\ live' = live
    BY GrowEffect DEF SlabTypes, Calls
  <2> HIDE DEF new
  <2>4. /\ slabs' \in Seq(Slabs) /\ slabs'[len] = new
        /\ \A s \in 1 .. len - 1 : s \in DOMAIN slabs /\ slabs'[s] = slabs[s]
    BY <1>2, <2>2, <2>3, LinkEffect DEF new
  <2>5. \A s \in DOMAIN slabs' : s = len \/ (s \in DOMAIN slabs /\ slabs'[s] = slabs[s])
    <3>1. DOMAIN slabs' = 1 .. len /\ len \in Nat
      BY <2>4
    <3> HIDE DEF len
    <3>2. \A s \in 1 .. len : s = len \/ s \in 1 .. len - 1
      BY <3>1
    <3> QED BY <2>4, <3>1, <3>2
  <2> HIDE DEF bit, len
  <2>6. \A t, u \in DOMAIN slabs' :
            \A m \in DOMAIN slabs'[t].freelist : \A n \in DOMAIN slabs'[u].freelist :
                slabs'[t].freelist[m] = slabs'[u].freelist[n] => t = u /\ m = n
    BY <2>1, <2>2, <2>4, <2>5 DEF OnePlace, Backed
  <2>7. \A t \in DOMAIN slabs' : \A m \in DOMAIN slabs'[t].freelist : slabs'[t].freelist[m] \notin live'
    BY <2>1, <2>2, <2>3, <2>4, <2>5 DEF OnePlace, Backed
  <2>8. Backed'
    BY <1>2, <2>2, <2>3, <2>4, <2>5 DEF Backed, bit
  <2> QED BY <2>6, <2>7, <2>8 DEF OnePlace
<1> QED BY <1>1, <1>2, GrowEffect

\* Only reap and destroy can disturb it.
LEMMA PlacesNext ==
    ASSUME SlabInv, OnePlace, Backed, [Next]_vars
    PROVE  \/ OnePlace' /\ Backed'
           \/ ReapOnce
           \/ Reclaim /\ \E flags \in FlagSets : slab_cache_destroy(flags)
<1>1. ASSUME NEW flags \in FlagSets, slab_cache_create(flags) PROVE OnePlace' /\ Backed'
  <2>1. live' = live /\ pmm_bitmap \subseteq pmm_bitmap'
    BY <1>1 DEF slab_cache_create, SetBits
  <2>2. slabs' = slabs \/ slabs' = <<>>
    BY <1>1 DEF slab_cache_create
  <2>3. slabs' = <<>> => DOMAIN slabs' = {}
    OBVIOUS
  <2> QED BY <2>1, <2>2, <2>3 DEF OnePlace, Backed
<1>2. CASE UNCHANGED <<pmm_bitmap, slabs, live>>
  BY <1>2 DEF OnePlace, Backed
<1>3. CASE AllocAgain
  <2>1. call.flags \in FlagSets
    BY <1>3 DEF AllocAgain, SlabInv, SlabTypes, Calls
  <2> QED BY <1>3, <2>1, AllocKeepsPlaces DEF AllocAgain
<1> QED BY <1>1, <1>2, <1>3, AllocKeepsPlaces, FreeKeepsPlaces, GrowKeepsPlaces
        DEF Next, vars, slab_cache_alloc, slab_cache_grow, slab_cache_dump, OperationOnNullCache,
            GrowReturns, ReapReturns, slab_cache_reap

\* What the places mean for the free lists as sets.
LEMMA PlacesAreOne ==
    ASSUME SlabInv, OnePlace
    PROVE  BufferInOnePlace
<1>1. \A s \in DOMAIN slabs : \A b \in ToSet(slabs[s].freelist) :
          \E m \in DOMAIN slabs[s].freelist : b = slabs[s].freelist[m]
  BY SlabFacts DEF SlabInv, ToSet
<1>2. FreeBuffers \cap live = {}
  BY <1>1 DEF OnePlace, FreeBuffers
<1>3. \A s \in DOMAIN slabs : IsInjective(slabs[s].freelist)
  BY DEF OnePlace, IsInjective
<1>4. \A s, t \in DOMAIN slabs : s # t => ToSet(slabs[s].freelist) \cap ToSet(slabs[t].freelist) = {}
  BY <1>1 DEF OnePlace
<1> QED BY <1>2, <1>3, <1>4 DEF BufferInOnePlace

\* A call of slab_cache_reap is under way only if callers may use it.
LEMMA NoReaping ==
    ASSUME Reclaim = FALSE, call.op # "reap", [Next]_vars
    PROVE  call'.op # "reap"
<1>1. ASSUME NEW flags \in FlagSets, Fail(flags) PROVE call'.op # "reap"
  BY <1>1 DEF Fail, Idle
<1>2. ASSUME NEW flags \in FlagSets, AllocBody(flags) PROVE call'.op # "reap"
  BY <1>2 DEF AllocBody, Fail, Idle, Growing
<1>3. CASE AllocAgain
  BY <1>3 DEF AllocAgain, AllocBody, Fail, Idle, Growing
<1>4. ASSUME NEW flags \in FlagSets, slab_cache_create(flags) PROVE call'.op # "reap"
  BY <1>4 DEF slab_cache_create, Fail, Idle, Growing
<1>5. ASSUME NEW flags \in FlagSets, NEW count \in GrowCounts, slab_cache_grow(count, flags)
      PROVE  call'.op # "reap"
  BY <1>5 DEF slab_cache_grow, Growing
<1>6. ASSUME NEW flags \in FlagSets, NEW pointer \in live, slab_cache_free(pointer, flags)
      PROVE  call'.op # "reap"
  BY <1>1, <1>6 DEF slab_cache_free
<1>7. CASE GrowOnce \/ GrowReturns
  BY <1>7 DEF GrowOnce, GrowReturns, Idle, Growing, Allocating
<1>8. CASE UNCHANGED vars
  BY <1>8 DEF vars
<1>9. ~ReapOnce /\ ~ReapReturns
  BY DEF ReapOnce, ReapReturns
<1> QED BY <1>1, <1>2, <1>3, <1>4, <1>5, <1>6, <1>7, <1>8, <1>9
        DEF Next, slab_cache_alloc, slab_cache_dump, OperationOnNullCache

\* Callers that neither reap nor destroy get buffers that nobody else has, from any number
\* of slabs and whichever free list a buffer came back to (slab_cache_alloc,
\* slab_cache_free, slab_cache_grow).
THEOREM NoBufferTwice == Reclaim = FALSE /\ Spec => []BufferInOnePlace
<1> SUFFICES ASSUME Reclaim = FALSE PROVE Spec => []BufferInOnePlace
  OBVIOUS
<1> DEFINE Inv == SlabInv /\ OnePlace /\ Backed /\ call.op # "reap"
<1>1. Init => Inv
  <2> SUFFICES ASSUME Init PROVE Inv
    OBVIOUS
  <2>1. DOMAIN slabs = {} /\ live = {} /\ call.op # "reap"
    BY DEF Init, Idle
  <2> QED BY <2>1, SlabInvInit DEF OnePlace, Backed
<1>2. Inv /\ [Next]_vars => Inv'
  <2> SUFFICES ASSUME Inv, [Next]_vars PROVE Inv'
    OBVIOUS
  <2>1. ~ReapOnce
    BY DEF ReapOnce
  <2>2. OnePlace' /\ Backed'
    BY <2>1, PlacesNext
  <2> QED BY <2>2, SlabInvNext, NoReaping
<1>3. Inv => BufferInOnePlace
  BY PlacesAreOne
<1> HIDE DEF Inv
<1> QED BY <1>1, <1>2, <1>3, PTL DEF Spec

-----------------------------------------------------------------------------
(* A cache of one slab gives its pages back exactly.                       *)

CacheInv == SlabInv /\ OnePlace /\ Backed /\ OneSlabInv

\* Without slabs there are no buffers.
LEMMA NoSlabs ==
    ASSUME slabs = <<>>, live = {}
    PROVE  OnePlace /\ Backed
<1>1. DOMAIN slabs = {}
  OBVIOUS
<1> QED BY <1>1 DEF OnePlace, Backed

\* The only slab, its page and the number of its buffers in use.
LEMMA OnlySlab ==
    ASSUME CacheInv, slabs # <<>>
    PROVE  /\ cache \in Pages /\ bufctl_count_max = BufctlCountMax
           /\ DOMAIN slabs = {1} /\ Len(slabs) = 1
           /\ slabs[1].page \in Pages
           /\ PAGE_TO_BIT(slabs[1].page) # PAGE_TO_BIT(cache)
           /\ PAGE_TO_BIT(slabs[1].page) # 0 /\ PAGE_TO_BIT(cache) # 0
           /\ slabs[1].bufctl_count = Len(slabs[1].freelist)
           /\ slabs[1].bufctl_count \in 0 .. BufctlCountMax
           /\ Cardinality(live) \in Nat
           /\ Cardinality(live) + slabs[1].bufctl_count = BufctlCountMax
           /\ live = {} <=> slabs[1].bufctl_count = BufctlCountMax
<1> USE DEF CacheInv, OneSlabInv, SlabInv
<1>1. Len(slabs) = 1 /\ DOMAIN slabs = {1}
  BY DEF SlabTypes
<1>2. cache \in Pages /\ slabs[1].page \in Pages /\ slabs[1].page # cache
  BY <1>1, SlabFacts DEF SlabTypes
<1>3. /\ PAGE_TO_BIT(slabs[1].page) # PAGE_TO_BIT(cache)
      /\ PAGE_TO_BIT(slabs[1].page) # 0 /\ PAGE_TO_BIT(cache) # 0
  <2>1. /\ slabs[1].page = BIT_TO_PAGE(PAGE_TO_BIT(slabs[1].page))
        /\ cache = BIT_TO_PAGE(PAGE_TO_BIT(cache))
        /\ PAGE_TO_BIT(slabs[1].page) \in 1 .. TopPage - 1 /\ PAGE_TO_BIT(cache) \in 1 .. TopPage - 1
    BY <1>2, PageFacts
  <2> QED BY <1>2, <2>1, Sizes
<1>4. slabs[1].bufctl_count = Len(slabs[1].freelist) /\ slabs[1].bufctl_count \in 0 .. BufctlCountMax
  BY <1>1, SlabFacts DEF CountMatchesFreelist
<1>5. IsFiniteSet(live) /\ Cardinality(live) + slabs[1].bufctl_count = BufctlCountMax
  BY <1>4
<1>6. Cardinality(live) \in Nat /\ (Cardinality(live) = 0 <=> live = {})
  BY <1>5, FS_CardinalityType, FS_EmptySet
<1>7. bufctl_count_max = BufctlCountMax
  OBVIOUS
<1>8. live = {} <=> slabs[1].bufctl_count = BufctlCountMax
  BY <1>4, <1>5, <1>6, Sizes
<1> QED BY <1>1, <1>2, <1>3, <1>4, <1>5, <1>6, <1>7, <1>8

\* In this setting nobody asks for growth or for unaligned buffers.
LEMMA OneSlabFlags ==
    ASSUME OneSlab, NEW flags \in FlagSets
    PROVE  SLAB_AUTO_GROW \notin flags /\ SLAB_NO_ALIGN \notin flags
BY DEF OneSlab, SLAB_AUTO_GROW, SLAB_NO_ALIGN, SLAB_PANIC

\* Steps that leave the slabs alone and end or begin a call of reap.
LEMMA QuietStep ==
    ASSUME OneSlabInv, UNCHANGED <<pmm_bitmap, cache, bufctl_count_max, slabs, live>>,
           call' = Idle \/ (call'.op = "reap" /\ cache # NULL) \/ call' = call
    PROVE  OneSlabInv'
<1>1. Idle.op = "idle"
  BY DEF Idle
<1> QED BY <1>1 DEF OneSlabInv

\* The first free page becomes the cache.
LEMMA CreateOneSlab ==
    ASSUME OneSlab, CacheInv, NEW flags \in FlagSets, slab_cache_create(flags)
    PROVE  OneSlabInv'
<1>1. CASE NewPage = NULL
  BY <1>1, QuietStep DEF CacheInv, slab_cache_create, Fail
<1>2. CASE NewPage # NULL
  <2>1. cache = NULL /\ slabs = <<>> /\ live = {} /\ pmm_bitmap = {0}
    <3>1. PAGE_TO_BIT(NULL) = 0
      BY BitType DEF NULL
    <3> QED BY <3>1 DEF CacheInv, OneSlabInv, slab_cache_create
  <2>2. /\ cache' = NewPage /\ pmm_bitmap' = pmm_bitmap \cup {PAGE_TO_BIT(NewPage)}
        /\ bufctl_count_max' = BufctlCountMax /\ slabs' = <<>>
        /\ call' = Growing(1, TRUE, "return", flags) /\ live' = {}
    BY <1>2, <2>1, PageFound DEF slab_cache_create, CacheInv, SlabInv
  <2>3. call'.op = "grow" /\ call'.left = 1 /\ call'.left <= 1 /\ call'.then = "return"
    BY <2>2 DEF Growing
  <2>4. pmm_bitmap' = {0, PAGE_TO_BIT(cache')}
    BY <2>1, <2>2
  <2>5. cache' # NULL /\ bufctl_count_max' = BufctlCountMax /\ slabs' = <<>> /\ live' = {}
    BY <1>2, <2>2
  <2> QED BY <2>3, <2>4, <2>5, Zenon DEF OneSlabInv
<1> QED BY <1>1, <1>2

\* The slab is made when there is none.
LEMMA GrowOneSlab ==
    ASSUME OneSlab, CacheInv, GrowOnce
    PROVE  OneSlabInv'
<1>1. /\ call.left = 1 /\ call.then = "return" /\ cache # NULL /\ slabs = <<>>
      /\ live = {} /\ pmm_bitmap = {0, PAGE_TO_BIT(cache)} /\ bufctl_count_max = BufctlCountMax
      /\ cache' = cache /\ live' = {}
  <2>1. /\ UNCHANGED <<cache, live>> /\ call.op = "grow" /\ call.left > 0
    BY GrowEffect DEF CacheInv, SlabInv
  <2>2. call.left \in Nat
    BY <2>1 DEF CacheInv, SlabInv, SlabTypes, Calls
  <2> QED BY <2>1, <2>2 DEF CacheInv, OneSlabInv
<1>2. CASE UNCHANGED <<pmm_bitmap, bufctl_count_max, slabs>> /\ call' = Idle
  BY <1>1, <1>2, QuietStep DEF CacheInv
<1>3. ASSUME NEW flags \in FlagSets, NewPage # NULL,
             pmm_bitmap' = pmm_bitmap \cup {PAGE_TO_BIT(NewPage)},
             slabs' = LinkSlab(NewSlab(NewPage, flags), call.fresh),
             bufctl_count_max' = bufctl_count_max - LeftOut(flags),
             call' = Growing(call.left - 1, FALSE, call.then, flags)
      PROVE  OneSlabInv'
  <2> DEFINE new == NewSlab(NewPage, flags)
  <2>1. SlabTypes /\ NewPage \in Pages /\ PAGE_TO_BIT(NewPage) \notin pmm_bitmap
    BY <1>3, PageFound DEF CacheInv, SlabInv
  <2>2. LeftOut(flags) = 0
    BY OneSlabFlags DEF LeftOut
  <2>3. /\ new \in Slabs /\ new.page = NewPage /\ Len(new.freelist) = BufctlCountMax
        /\ \A m \in DOMAIN new.freelist : PAGE_TO_BIT(new.freelist[m]) = PAGE_TO_BIT(NewPage)
    BY <1>1, <2>1, <2>2, NewSlabIsGood, Sizes
  <2>4. slabs' = <<new>>
    <3>1. call.fresh \in BOOLEAN
      BY DEF GrowOnce, CacheInv, SlabInv, SlabTypes, Calls
    <3> QED BY <1>1, <1>3, <2>1, <2>3, <3>1, LinkEffect
  <2>5. bufctl_count_max' = BufctlCountMax
    BY <1>1, <1>3, <2>2, Sizes
  <2>6. call'.op = "grow" /\ call'.left = 0 /\ call'.then = "return"
    BY <1>1, <1>3 DEF Growing
  <2> HIDE DEF new
  <2>7. slabs' # <<>> /\ Len(slabs') = 1 /\ slabs'[1] = new
    BY <2>4
  <2>8. new.page # cache
    BY <1>1, <2>1, <2>3
  <2>9. IsFiniteSet({}) /\ Cardinality({}) = 0
    BY FS_EmptySet
  <2>10. Cardinality(live') + Len(slabs'[1].freelist) = BufctlCountMax
    BY <1>1, <2>3, <2>7, <2>9, Sizes
  <2>11. pmm_bitmap' = {0, PAGE_TO_BIT(cache'), PAGE_TO_BIT(slabs'[1].page)}
    BY <1>1, <1>3, <2>3, <2>7
  <2> QED BY <1>1, <2>3, <2>5, <2>6, <2>7, <2>8, <2>9, <2>10, <2>11 DEF OneSlabInv
<1>4. call.then # "alloc"
  BY <1>1
<1> QED BY <1>2, <1>3, <1>4, GrowEffect DEF CacheInv, SlabInv

\* A buffer more in use is one less on the free list.
LEMMA AllocOneSlab ==
    ASSUME OneSlab, CacheInv, call = Idle, NEW flags \in FlagSets, AllocBody(flags)
    PROVE  OneSlabInv'
<1> USE DEF CacheInv, SlabInv
<1>1. CASE UNCHANGED <<live, slabs>> /\ call' = Idle
  BY <1>1, AllocEffect, QuietStep
<1>2. ASSUME NEW s \in DOMAIN slabs,
             slabs[s].freelist # <<>>,
             live' = live \cup {Head(slabs[s].freelist)},
             slabs' = WithFreelist(s, slabs[s].bufctl_count - 1, Tail(slabs[s].freelist)),
             call' = Idle
      PROVE  OneSlabInv'
  <2>1. slabs # <<>>
    OBVIOUS
  <2>2. s = 1
    BY <2>1, OnlySlab
  <2> DEFINE old == slabs[1].freelist
             list == Tail(old)
             count == slabs[1].bufctl_count - 1
             page == PAGE_TO_BIT(slabs[1].page)
  <2>3. old \in Seq(Buffers) /\ old # <<>> /\ slabs[1].bufctl_count = Len(old)
    BY <1>2, <2>1, <2>2, OnlySlab, SlabFacts
  <2> HIDE DEF old
  <2>4. /\ list \in Seq(Buffers) /\ Len(list) = Len(old) - 1 /\ Len(old) \in Nat \ {0}
        /\ \A m \in DOMAIN list : m + 1 \in DOMAIN old /\ list[m] = old[m + 1]
        /\ Head(old) = old[1] /\ 1 \in DOMAIN old
    <3>1. /\ list \in Seq(Buffers) /\ Len(list) = Len(old) - 1 /\ Len(old) \in Nat \ {0}
          /\ Head(old) = old[1]
      BY <2>3
    <3>2. DOMAIN old = 1 .. Len(old) /\ DOMAIN list = 1 .. Len(old) - 1
      BY <2>3, <3>1
    <3>3. \A m \in 1 .. Len(old) - 1 : list[m] = old[m + 1]
      BY <2>3
    <3> HIDE DEF list
    <3> QED BY <3>1, <3>2, <3>3
  <2>5. count \in 0 .. BufctlCountMax
    <3>1. slabs[1].bufctl_count \in 0 .. BufctlCountMax
      BY <2>1, OnlySlab
    <3> QED BY <2>3, <2>4, <3>1, Sizes
  <2>6. slabs' = WithFreelist(1, count, list) /\ live' = live \cup {old[1]}
    BY <1>2, <2>2, <2>4 DEF old
  <2> HIDE DEF list
  <2>7. /\ Len(slabs') = 1 /\ slabs' # <<>>
        /\ slabs'[1].page = slabs[1].page /\ slabs'[1].freelist = list
    <3> HIDE DEF count
    <3>1. /\ slabs' \in Seq(Slabs) /\ Len(slabs') = Len(slabs)
          /\ slabs'[1].page = slabs[1].page /\ slabs'[1].freelist = list
      BY <1>2, <2>2, <2>4, <2>5, <2>6, WithFreelistIsGood
    <3>2. Len(slabs) = 1
      BY <2>1, OnlySlab
    <3> QED BY <3>1, <3>2
  <2>8. /\ \A m \in DOMAIN old : PAGE_TO_BIT(old[m]) = page
        /\ \A b \in live : PAGE_TO_BIT(b) = page
        /\ IsFiniteSet(live) /\ old[1] \notin live
        /\ Cardinality(live) + Len(old) = BufctlCountMax
        /\ slabs[1].page # cache /\ pmm_bitmap = {0, PAGE_TO_BIT(cache), page}
        /\ cache # NULL /\ bufctl_count_max = BufctlCountMax
    BY <1>2, <2>1, <2>2, <2>4 DEF OneSlabInv, OnePlace, old
  <2>9. IsFiniteSet(live') /\ Cardinality(live') = Cardinality(live) + 1 /\ Cardinality(live) \in Nat
    BY <2>6, <2>8, FS_AddElement, FS_CardinalityType
  <2>10. Cardinality(live') + Len(list) = BufctlCountMax
    BY <2>4, <2>8, <2>9, Sizes
  <2>11. UNCHANGED <<pmm_bitmap, cache, bufctl_count_max>> /\ call'.op = "idle"
    BY <1>2, AllocEffect DEF Idle
  <2>12. \A m \in DOMAIN list : PAGE_TO_BIT(list[m]) = page
    BY <2>4, <2>8
  <2>13. \A b \in live' : PAGE_TO_BIT(b) = page
    BY <2>4, <2>6, <2>8
  <2> QED BY <2>7, <2>8, <2>9, <2>10, <2>11, <2>12, <2>13 DEF OneSlabInv
<1> QED BY <1>1, <1>2, AllocEffect, OneSlabFlags

\* A buffer less in use is one more on the free list, which always has a spot for it.
LEMMA FreeOneSlab ==
    ASSUME OneSlab, CacheInv, NEW flags \in FlagSets, NEW pointer \in live,
           slab_cache_free(pointer, flags)
    PROVE  OneSlabInv' /\ slabs' # <<>> /\ slabs'[1].freelist = <<pointer>> \o slabs[1].freelist
<1> USE DEF CacheInv, SlabInv
<1>1. slabs # <<>>
  BY DEF OneSlabInv
<1>2. slabs[1].bufctl_count < bufctl_count_max
  BY <1>1, OnlySlab
<1> DEFINE old == slabs[1].freelist
           list == <<pointer>> \o old
           count == slabs[1].bufctl_count + 1
           page == PAGE_TO_BIT(slabs[1].page)
<1>3. slabs' = WithFreelist(1, count, list)
  BY <1>1, <1>2, FreeEffect, OnlySlab
<1>4. old \in Seq(Buffers) /\ pointer \in Buffers /\ slabs[1].bufctl_count = Len(old)
  BY <1>1, OnlySlab, SlabFacts DEF SlabTypes
<1>5. count \in 0 .. BufctlCountMax
  BY <1>1, <1>2, OnlySlab, Sizes
<1> HIDE DEF old, count
<1>6. /\ list \in Seq(Buffers) /\ Len(list) = Len(old) + 1 /\ Len(old) \in Nat /\ list[1] = pointer
      /\ \A m \in DOMAIN list \ {1} : m - 1 \in DOMAIN old /\ list[m] = old[m - 1]
  BY <1>4
<1> HIDE DEF list
<1>7. /\ Len(slabs') = 1 /\ slabs' # <<>>
      /\ slabs'[1].page = slabs[1].page /\ slabs'[1].freelist = list
  <2>1. 1 \in DOMAIN slabs /\ Len(slabs) = 1
    BY <1>1, OnlySlab
  <2>2. /\ slabs' \in Seq(Slabs) /\ Len(slabs') = Len(slabs)
        /\ slabs'[1].page = slabs[1].page /\ slabs'[1].freelist = list
    BY <1>3, <1>5, <1>6, <2>1, WithFreelistIsGood
  <2> QED BY <2>1, <2>2
<1>8. /\ \A m \in DOMAIN old : PAGE_TO_BIT(old[m]) = page
      /\ \A b \in live : PAGE_TO_BIT(b) = page
      /\ IsFiniteSet(live) /\ Cardinality(live) + Len(old) = BufctlCountMax
      /\ slabs[1].page # cache /\ pmm_bitmap = {0, PAGE_TO_BIT(cache), page}
      /\ cache # NULL /\ bufctl_count_max = BufctlCountMax
  <2>1. cache # NULL /\ bufctl_count_max = BufctlCountMax
    BY <1>1 DEF OneSlabInv
  <2> QED BY <1>1, <2>1 DEF OneSlabInv, old
<1>9. /\ UNCHANGED <<pmm_bitmap, cache, bufctl_count_max>> /\ call'.op = "idle"
      /\ live' = live \ {pointer}
  <2>1. UNCHANGED <<pmm_bitmap, cache, bufctl_count_max>> /\ call' = Idle /\ live' = live \ {pointer}
    BY FreeEffect
  <2> QED BY <2>1 DEF Idle
<1>10. IsFiniteSet(live') /\ Cardinality(live') = Cardinality(live) - 1 /\ Cardinality(live) \in Nat
  BY <1>8, <1>9, FS_RemoveElement, FS_CardinalityType
<1>11. Cardinality(live') + Len(list) = BufctlCountMax
  BY <1>6, <1>8, <1>10, Sizes
<1>12. \A m \in DOMAIN list : PAGE_TO_BIT(list[m]) = page
  BY <1>6, <1>8
<1>13. OneSlabInv'
  BY <1>7, <1>8, <1>9, <1>10, <1>11, <1>12 DEF OneSlabInv
<1> QED BY <1>7, <1>13 DEF list, old

\* reap takes the slab only if nobody has a buffer of it.
LEMMA ReapOneSlab ==
    ASSUME OneSlab, CacheInv, ReapOnce
    PROVE  OneSlabInv' /\ OnePlace' /\ Backed'
<1> USE DEF CacheInv, SlabInv
<1>1. /\ UNCHANGED <<cache, bufctl_count_max, live>> /\ call'.op = "reap" /\ call.op = "reap"
      /\ cache # NULL
  BY ReapEffect DEF OneSlabInv
<1>2. CASE UNCHANGED <<pmm_bitmap, slabs>>
  BY <1>1, <1>2, QuietStep DEF OnePlace, Backed
<1>3. ASSUME NEW k \in DOMAIN slabs, IsUnused(slabs[k]),
             pmm_bitmap' = pmm_bitmap \ {PAGE_TO_BIT(slabs[k].page)},
             Len(slabs') = Len(slabs) - 1, slabs' \in Seq(Slabs)
      PROVE  OneSlabInv' /\ OnePlace' /\ Backed'
  <2>1. slabs # <<>>
    OBVIOUS
  <2>2. k = 1 /\ Len(slabs) = 1
    BY <2>1, OnlySlab
  <2>3. live' = {}
    <3>1. slabs[1].bufctl_count = BufctlCountMax
      BY <1>3, <2>1, <2>2, OnlySlab DEF IsUnused
    <3> QED BY <1>1, <2>1, <3>1, OnlySlab
  <2>4. slabs' = <<>>
    BY <1>3, <2>2
  <2>5. pmm_bitmap' = {0, PAGE_TO_BIT(cache')}
    <3>1. pmm_bitmap = {0, PAGE_TO_BIT(cache), PAGE_TO_BIT(slabs[1].page)}
      BY <2>1 DEF OneSlabInv
    <3>2. /\ PAGE_TO_BIT(slabs[1].page) # PAGE_TO_BIT(cache)
          /\ PAGE_TO_BIT(slabs[1].page) # 0
      BY <2>1, OnlySlab
    <3> QED BY <1>1, <1>3, <2>2, <3>1, <3>2
  <2>6. bufctl_count_max' = BufctlCountMax
    BY <1>1 DEF OneSlabInv
  <2>7. OneSlabInv'
    BY <1>1, <2>3, <2>4, <2>5, <2>6 DEF OneSlabInv
  <2>8. DOMAIN slabs' = {}
    BY <2>4
  <2> QED BY <2>3, <2>7, <2>8 DEF OnePlace, Backed
<1> QED BY <1>2, <1>3, ReapEffect

\* destroy gives back the slab's page and the cache's, or, if the slab is in use, nothing.
LEMMA DestroyOneSlab ==
    ASSUME OneSlab, CacheInv, NEW flags \in FlagSets, slab_cache_destroy(flags)
    PROVE  OneSlabInv' /\ OnePlace' /\ Backed'
<1> USE DEF CacheInv, SlabInv
<1> DEFINE I == {s \in 1 .. Len(slabs) : ~IsUnused(slabs[s])}
           stop == SelectInSeq(slabs, LAMBDA s : ~IsUnused(s))
           done == IF stop = 0 THEN slabs ELSE SubSeq(slabs, 1, stop - 1)
           freed == {FreelistPage(s) : s \in ToSet(done)}
<1>1. stop = IF I # {} THEN Min(I) ELSE 0
  BY DEF SelectInSeq
<1>2. /\ cache # NULL /\ live' = live /\ call = Idle
      /\ IF stop # 0
         THEN /\ pmm_bitmap' = pmm_bitmap \ freed
              /\ Fail(flags)
              /\ UNCHANGED <<cache, bufctl_count_max, slabs>>
         ELSE /\ pmm_bitmap' = pmm_bitmap \ (freed \cup {PAGE_TO_BIT(cache)})
              /\ cache' = NULL /\ bufctl_count_max' = 0 /\ slabs' = <<>>
              /\ UNCHANGED <<call, panicked>>
  BY DEF slab_cache_destroy, Ready
<1>3. cache \in Pages /\ PAGE_TO_BIT(cache) # 0 /\ PAGE_TO_BIT(NULL) = 0 /\ Idle.op = "idle"
  BY <1>2, PageFacts, BitType, Sizes DEF SlabTypes, NULL, Idle
<1>4. CASE slabs = <<>>
  <2>1. Len(slabs) = 0 /\ ToSet(slabs) = {}
    BY <1>4 DEF ToSet
  <2>2. stop = 0
    <3>1. I = {}
      BY <2>1
    <3> HIDE DEF I, stop
    <3> QED BY <1>1, <3>1
  <2>3. freed = {}
    <3> HIDE DEF stop
    <3> QED BY <2>1, <2>2
  <2>4. live = {} /\ pmm_bitmap = {0, PAGE_TO_BIT(cache)}
    BY <1>4 DEF OneSlabInv
  <2> HIDE DEF stop, freed
  <2>5. pmm_bitmap' = {0, PAGE_TO_BIT(cache')}
    BY <1>2, <1>3, <2>2, <2>3, <2>4
  <2>6. slabs' = <<>> /\ cache' = NULL /\ live' = {} /\ call'.op = "idle" /\ DOMAIN slabs' = {}
    BY <1>2, <1>3, <2>2, <2>4
  <2>7. OneSlabInv'
    BY <2>5, <2>6 DEF OneSlabInv
  <2> QED BY <2>6, <2>7 DEF OnePlace, Backed
<1>5. CASE slabs # <<>> /\ ~IsUnused(slabs[1])
  <2>1. stop = 1
    <3>1. I = {1}
      <4>1. DOMAIN slabs = {1} /\ 1 .. Len(slabs) = DOMAIN slabs
        BY <1>5, OnlySlab DEF SlabTypes
      <4> HIDE DEF stop
      <4> QED BY <1>5, <4>1
    <3>2. Min(I) \in I
      <4>1. I \subseteq Nat /\ I # {}
        BY <3>1
      <4> HIDE DEF I
      <4> QED BY <4>1, MinIsLeast
    <3> HIDE DEF I, stop
    <3> QED BY <1>1, <3>1, <3>2
  <2>2. freed = {}
    <3> HIDE DEF stop
    <3>1. DOMAIN SubSeq(slabs, 1, 0) = {}
      BY <1>5, OnlySlab DEF SlabTypes
    <3>2. done = SubSeq(slabs, 1, 0)
      BY <2>1
    <3> HIDE DEF done
    <3>3. ToSet(done) = {}
      BY <3>1, <3>2 DEF ToSet
    <3> QED BY <3>3
  <2> HIDE DEF stop, freed
  <2>3. UNCHANGED <<pmm_bitmap, cache, bufctl_count_max, slabs, live>> /\ call' = Idle
    BY <1>2, <2>1, <2>2 DEF Fail
  <2> QED BY <2>3, QuietStep DEF OnePlace, Backed
<1>6. CASE slabs # <<>> /\ IsUnused(slabs[1])
  <2>1. stop = 0
    <3>1. I = {}
      <4>1. DOMAIN slabs = {1} /\ 1 .. Len(slabs) = DOMAIN slabs
        BY <1>6, OnlySlab DEF SlabTypes
      <4> HIDE DEF stop
      <4> QED BY <1>6, <4>1
    <3> HIDE DEF I, stop
    <3> QED BY <1>1, <3>1
  <2>2. slabs[1].bufctl_count = BufctlCountMax
    BY <1>6, OnlySlab DEF IsUnused
  <2>3. live = {}
    BY <1>6, <2>2, OnlySlab
  <2>4. FreelistPage(slabs[1]) = PAGE_TO_BIT(slabs[1].page)
    <3> DEFINE list == slabs[1].freelist
    <3>1. list \in Seq(Buffers) /\ Len(list) > 0
      <4>1. 1 \in DOMAIN slabs /\ Len(list) = BufctlCountMax
        BY <1>6, <2>2, OnlySlab
      <4> QED BY <4>1, SlabFacts DEF OneSlab
    <3>2. \A m \in DOMAIN list : PAGE_TO_BIT(list[m]) = PAGE_TO_BIT(slabs[1].page)
      BY <1>6 DEF OneSlabInv
    <3> HIDE DEF list
    <3>3. list # <<>> /\ Head(list) = list[1] /\ 1 \in DOMAIN list
      BY <3>1
    <3> QED BY <3>2, <3>3 DEF FreelistPage, list
  <2>5. freed = {PAGE_TO_BIT(slabs[1].page)}
    <3>1. done = slabs
      <4> HIDE DEF stop
      <4> QED BY <2>1
    <3>2. ToSet(slabs) = {slabs[1]}
      <4>1. DOMAIN slabs = {1}
        BY <1>6, OnlySlab
      <4> QED BY <4>1 DEF ToSet
    <3> HIDE DEF done
    <3> QED BY <2>4, <3>1, <3>2
  <2>6. pmm_bitmap = {0, PAGE_TO_BIT(cache), PAGE_TO_BIT(slabs[1].page)}
    BY <1>6 DEF OneSlabInv
  <2>7. PAGE_TO_BIT(slabs[1].page) # 0
    BY <1>6, OnlySlab
  <2> HIDE DEF stop, freed
  <2>8. pmm_bitmap' = {0, PAGE_TO_BIT(cache')}
    BY <1>2, <1>3, <2>1, <2>5, <2>6, <2>7
  <2>9. slabs' = <<>> /\ cache' = NULL /\ live' = {} /\ call'.op = "idle" /\ DOMAIN slabs' = {}
    BY <1>2, <1>3, <2>1, <2>3
  <2>10. OneSlabInv'
    BY <2>8, <2>9 DEF OneSlabInv
  <2> QED BY <2>9, <2>10 DEF OnePlace, Backed
<1> QED BY <1>4, <1>5, <1>6

\* Every step of callers that keep to one slab.
LEMMA CacheInvNext ==
    ASSUME OneSlab, CacheInv, [Next]_vars
    PROVE  CacheInv'
<1>1. SlabInv'
  BY SlabInvNext DEF CacheInv
<1>2. OnePlace' /\ Backed'
  BY PlacesNext, ReapOneSlab, DestroyOneSlab DEF CacheInv
<1>3. OneSlabInv'
  <2>1. ASSUME NEW flags \in FlagSets, NEW count \in GrowCounts, slab_cache_grow(count, flags)
        PROVE  OneSlabInv'
    <3>1. /\ UNCHANGED <<pmm_bitmap, cache, bufctl_count_max, slabs, live>> /\ cache # NULL
          /\ call' = Growing(count, TRUE, "return", flags) /\ Len(slabs) + count <= MaxSlabs
      BY <2>1 DEF slab_cache_grow
    <3>2. call'.op = "grow" /\ call'.left = count /\ call'.then = "return"
      BY <3>1 DEF Growing
    <3>3. count <= 1 /\ (count = 1 => slabs = <<>>)
      <4>1. count \in Nat /\ MaxSlabs \in Nat /\ MaxSlabs <= 1 /\ Len(slabs) \in Nat
            /\ slabs \in Seq(Slabs)
        BY SlabAssumption DEF OneSlab, CacheInv, SlabInv, SlabTypes
      <4>2. count = 1 => Len(slabs) = 0
        BY <3>1, <4>1
      <4> QED BY <3>1, <4>1, <4>2
    <3> QED BY <3>1, <3>2, <3>3 DEF CacheInv, OneSlabInv
  <2>2. ASSUME NEW flags \in FlagSets, slab_cache_dump(flags) \/ OperationOnNullCache(flags)
        PROVE  OneSlabInv'
    BY <2>2, QuietStep DEF slab_cache_dump, OperationOnNullCache, Fail, CacheInv
  <2>3. CASE slab_cache_reap \/ ReapReturns \/ UNCHANGED vars
    BY <2>3, QuietStep DEF slab_cache_reap, ReapReturns, Reaping, vars, CacheInv
  <2>4. CASE GrowReturns
    <3>1. call.then = "return"
      BY <2>4 DEF GrowReturns, CacheInv, OneSlabInv
    <3> QED BY <2>4, <3>1, QuietStep DEF GrowReturns, CacheInv
  <2>5. CASE AllocAgain
    BY <2>5 DEF AllocAgain, CacheInv, OneSlabInv
  <2>6. ASSUME NEW flags \in FlagSets, slab_cache_alloc(flags) PROVE OneSlabInv'
    BY <2>6, AllocOneSlab DEF slab_cache_alloc, Ready
  <2> QED BY <2>1, <2>2, <2>3, <2>4, <2>5, <2>6, CreateOneSlab, GrowOneSlab, FreeOneSlab,
             ReapOneSlab, DestroyOneSlab DEF Next
<1> QED BY <1>1, <1>2, <1>3 DEF CacheInv

\* At first there is no cache.
LEMMA CacheInvInit == Init => CacheInv
<1> SUFFICES ASSUME Init PROVE CacheInv
  OBVIOUS
<1>1. slabs = <<>> /\ live = {} /\ cache = NULL /\ pmm_bitmap = {0} /\ call = Idle
  BY DEF Init
<1>2. PAGE_TO_BIT(NULL) = 0 /\ Idle.op = "idle"
  BY BitType DEF NULL, Idle
<1>3. OneSlabInv
  BY <1>1, <1>2 DEF OneSlabInv
<1> QED BY <1>1, <1>3, SlabInvInit, NoSlabs DEF CacheInv

\* With one slab, reap and destroy included, exactly the pages of the cache and its slab
\* are used, and the page of a buffer that a caller has is one of them.
THEOREM OneSlabIsExact == OneSlab /\ Spec => [](PagesAccountedFor /\ LiveBuffersBacked)
<1> SUFFICES ASSUME OneSlab PROVE Spec => [](PagesAccountedFor /\ LiveBuffersBacked)
  OBVIOUS
<1>1. CacheInv /\ [Next]_vars => CacheInv'
  BY CacheInvNext
<1>2. CacheInv => PagesAccountedFor /\ LiveBuffersBacked
  <2> SUFFICES ASSUME CacheInv PROVE PagesAccountedFor /\ LiveBuffersBacked
    OBVIOUS
  <2> DEFINE pages == {PAGE_TO_BIT(slabs[s].page) : s \in DOMAIN slabs}
  <2>1. LiveBuffersBacked
    BY DEF CacheInv, Backed, LiveBuffersBacked
  <2>2. pmm_bitmap = {0, PAGE_TO_BIT(cache)} \cup pages
    <3>1. CASE slabs = <<>>
      <4>1. DOMAIN slabs = {}
        BY <3>1
      <4> QED BY <3>1, <4>1 DEF CacheInv, OneSlabInv
    <3>2. CASE slabs # <<>>
      <4>1. DOMAIN slabs = {1}
        BY <3>2, OnlySlab
      <4>2. pages = {PAGE_TO_BIT(slabs[1].page)}
        BY <4>1
      <4> QED BY <3>2, <4>2 DEF CacheInv, OneSlabInv
    <3> QED BY <3>1, <3>2
  <2>3. \A s, t \in DOMAIN slabs : s = t
    <3>1. slabs # <<>> => DOMAIN slabs = {1}
      BY OnlySlab
    <3>2. slabs = <<>> => DOMAIN slabs = {}
      OBVIOUS
    <3> QED BY <3>1, <3>2
  <2>4. SlabPagesAllocated
    BY <2>2, <2>3 DEF SlabPagesAllocated
  <2> QED BY <2>1, <2>2, <2>4 DEF PagesAccountedFor
<1> QED BY <1>1, <1>2, CacheInvInit, PTL DEF Spec

\* With one slab, the page of a buffer that a caller has is never given back, neither by
\* reap nor by destroy: a slab is unused only when all its buffers are on its list
\* (slab.c:106, slab.c:184).
THEOREM LiveBuffersStayBacked == OneSlab /\ Spec => []LiveBuffersBacked
<1>1. [](PagesAccountedFor /\ LiveBuffersBacked) => []LiveBuffersBacked
  BY PTL
<1> QED BY <1>1, OneSlabIsExact, PTL

\* With one slab, every buffer that is freed reaches the free list (slab_cache_free).
THEOREM OneSlabTakesBack == OneSlab /\ Spec => FreeFindsASpot
<1> SUFFICES ASSUME OneSlab PROVE Spec => FreeFindsASpot
  OBVIOUS
<1> DEFINE Found == \A b \in live \ live' : \E s \in DOMAIN slabs' : b \in ToSet(slabs'[s].freelist)
<1>1. CacheInv /\ [Next]_vars => CacheInv'
  BY CacheInvNext
<1>2. CacheInv /\ [Next]_vars => [Found]_vars
  <2> SUFFICES ASSUME CacheInv, [Next]_vars PROVE Found
    OBVIOUS
  <2>1. ASSUME NEW flags \in FlagSets, NEW pointer \in live, slab_cache_free(pointer, flags)
        PROVE  Found
    <3>1. live \ live' \subseteq {pointer}
      BY <2>1 DEF slab_cache_free
    <3>2. CacheInv' /\ slabs' # <<>> /\ slabs'[1].freelist = <<pointer>> \o slabs[1].freelist
      BY <2>1, CacheInvNext, FreeOneSlab
    <3>3. 1 \in DOMAIN slabs'
      BY <3>2 DEF CacheInv, SlabInv, SlabTypes
    <3>4. pointer \in ToSet(slabs'[1].freelist)
      <4>1. slabs # <<>>
        BY DEF CacheInv, OneSlabInv
      <4>2. slabs[1].freelist \in Seq(Buffers) /\ pointer \in Buffers
        BY <4>1, OnlySlab, SlabFacts DEF CacheInv, SlabInv, SlabTypes
      <4> DEFINE list == <<pointer>> \o slabs[1].freelist
      <4>3. 1 \in DOMAIN list /\ list[1] = pointer
        BY <4>2
      <4> HIDE DEF list
      <4>4. pointer \in ToSet(list)
        BY <4>3 DEF ToSet
      <4> QED BY <3>2, <4>4 DEF list
    <3> QED BY <3>1, <3>3, <3>4
  <2>2. CASE live \subseteq live'
    BY <2>2
  <2>3. live \subseteq live' \/ \E flags \in FlagSets : \E pointer \in live :
                                   slab_cache_free(pointer, flags)
    BY DEF Next, vars, slab_cache_create, slab_cache_grow, slab_cache_alloc, AllocBody, AllocAgain,
           slab_cache_dump, OperationOnNullCache, slab_cache_destroy, slab_cache_reap, ReapOnce,
           ReapReturns, GrowOnce, GrowReturns
  <2> QED BY <2>1, <2>2, <2>3
<1> QED BY <1>1, <1>2, CacheInvInit, PTL DEF Spec, FreeFindsASpot

=============================================================================
