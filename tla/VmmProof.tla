------------------------------ MODULE VmmProof ------------------------------
(***************************************************************************)
(* The page tables, for tables of any size, any memory and any sequence of *)
(* mappings: as long as a page is left, the four levels are a forest below *)
(* the root, each page is translated as it was last asked for, and no page *)
(* of memory is lost.                                                      *)
(***************************************************************************)
EXTENDS Vmm, PageBitmapProof

Pages == 0 .. TopPage - 1
Memories == [Pages -> [Index -> Entry]]
Types == {PAT_UNCACHEABLE, PAT_WRITE_COMBINING, PAT_WRITE_THROUGH, PAT_WRITE_PROTECTED,
          PAT_WRITE_BACK, PAT_UNCACHED}

\* A page is free; the assumption under which no allocation has been refused.
SomeFree(b) == \E p \in Pages : p \notin b
PagesLeft == SomeFree(pmm_bitmap)

\* The tables of the second, third and last level below root r.
L2(m, r) == Below(m, {r})
L3(m, r) == Below(m, L2(m, r))
L4(m, r) == Below(m, L3(m, r))

\* No two entries of these tables lead to the same table.
OneParent(m, tables) ==
    \A p, q \in tables : \A i, j \in Index :
        /\ PRESENT \in m[p][i].flags
        /\ PRESENT \in m[q][j].flags
        /\ m[p][i].frame = m[q][j].frame
        => p = q /\ i = j

\* The tables in m below r are a tree of four levels, made of the pages that have been
\* taken since the boot.
Tree(b, m, r) ==
    /\ m \in Memories
    /\ BootBitmap \subseteq b /\ b \subseteq Pages
    /\ r \notin L2(m, r) \cup L3(m, r) \cup L4(m, r)
    /\ L2(m, r) \cap L3(m, r) = {}
    /\ L2(m, r) \cap L4(m, r) = {}
    /\ L3(m, r) \cap L4(m, r) = {}
    /\ OneParent(m, {r} \cup L2(m, r) \cup L3(m, r))
    /\ b = BootBitmap \cup {r} \cup L2(m, r) \cup L3(m, r) \cup L4(m, r)
    /\ BootBitmap \cap ({r} \cup L2(m, r) \cup L3(m, r) \cup L4(m, r)) = {}

\* What the tables have agrees with what was asked for.
Agrees(found, asked) ==
    IF asked = NoEntry
    THEN found = NoEntry
    ELSE /\ PRESENT \in found.flags
         /\ found.frame = asked.frame
         /\ asked.cache \in Types
         /\ found.cache = vmm_pat_cache_to_flags(asked.cache)

AsAsked == \A v \in VirtualPage : Agrees(Walk(v), wanted[v])

\* The range being worked on.
WorkInv ==
    idle \/ /\ phase # "start"
            /\ work.left > 0
            /\ work.page + work.left <= RegionPages
            /\ work.map => PRESENT \in work.flags /\ work.type \in Types
            /\ ~work.map =>
                   \A n \in PageRange(work.page, work.left) :
                       wanted[InRegion(work.region, n)] # NoEntry

\* How many pages of the k-th range vmm_init has mapped.
Mapped(k) ==
    IF k >= next THEN 0
    ELSE IF k = next - 1 /\ ~idle THEN work.page
    ELSE InitialRange(k).left

InitialMapping(v) ==
    [frame |-> Offset(v), cache |-> PAT_UNCACHEABLE,
     flags |-> IF v[1] = HIGHER_HALF_CODE THEN KERNEL_READ ELSE KERNEL_READ_WRITE]

\* w is what is left of range r.
PartOf(w, r) ==
    /\ w.map
    /\ w.region = r.region
    /\ w.flags = r.flags
    /\ w.type = PAT_UNCACHEABLE
    /\ w.frame = w.page
    /\ w.page + w.left = r.left

MappedAtBoot(v) ==
    \E k \in 1 .. InitialRanges : InitialRange(k).region = v[1] /\ Offset(v) < Mapped(k)

\* vmm_init has mapped the ranges before "next" and as much of the one it is at.
BootInv ==
    /\ next >= 1
    /\ ~idle => next >= 2 /\ PartOf(work, InitialRange(next - 1))
    /\ \A v \in VirtualPage :
           wanted[v] = IF MappedAtBoot(v) THEN InitialMapping(v) ELSE NoEntry

TlbEmpty == \A c \in CPUs, v \in VirtualPage : tlb[c][v] = NoEntry

VmmInv ==
    /\ TypeOK
    /\ phase = "start" => pmm_bitmap = BootBitmap /\ idle /\ wanted = [v \in VirtualPage |-> NoEntry]
    /\ phase # "start" => Tree(pmm_bitmap, memory, root) /\ AsAsked /\ pat = enable_pat
    /\ phase = "mapping" => BootInv
    /\ WorkInv
    /\ ~ready => TlbEmpty

-----------------------------------------------------------------------------
(* Entries and levels. *)

\* The constants, as the lemmas use them.
LEMMA Constants ==
    /\ TopPage \in Nat \ {0} /\ 0 \in Pages
    /\ Entries \in Nat /\ Entries >= 4 /\ 0 \in Index
    /\ Pages \subseteq Nat /\ Index \subseteq Nat
    /\ BootBitmap \subseteq Pages
BY VmmAssumption DEF Pages, Index, HIGHER_HALF_CODE

\* NoEntry is an entry, not present.
LEMMA NoEntryFacts ==
    /\ NoEntry \in Entry /\ PRESENT \notin NoEntry.flags
    /\ NoEntry.frame = 0 /\ NoEntry.flags = {} /\ NoEntry.cache = 0
    /\ ZeroPage \in [Index -> Entry]
    /\ \A i \in Index : ZeroPage[i] = NoEntry
BY DEF NoEntry, Entry, ZeroPage, PRESENT, Flags

\* The tables below a set of tables are what their present entries lead to.
LEMMA BelowIs ==
    ASSUME NEW m, NEW T, NEW x
    PROVE  x \in Below(m, T) <=>
               \E p \in T : \E i \in Index : PRESENT \in m[p][i].flags /\ x = m[p][i].frame
<1>1. ASSUME x \in Below(m, T)
      PROVE  \E p \in T : \E i \in Index : PRESENT \in m[p][i].flags /\ x = m[p][i].frame
  <2>1. PICK s \in Slots(m, T) : x = m[s[1]][s[2]].frame
    BY <1>1 DEF Below
  <2>2. s[1] \in T /\ s[2] \in Index /\ PRESENT \in m[s[1]][s[2]].flags
    BY DEF Slots
  <2> QED BY <2>1, <2>2
<1>2. ASSUME NEW p \in T, NEW i \in Index, PRESENT \in m[p][i].flags, x = m[p][i].frame
      PROVE  x \in Below(m, T)
  <2>1. <<p, i>> \in Slots(m, T)
    BY <1>2 DEF Slots
  <2> QED BY <1>2, <2>1 DEF Below
<1> QED BY <1>1, <1>2

\* Replacing an entry changes that entry.
LEMMA WithEntryIs ==
    ASSUME NEW m \in Memories, NEW p \in Pages, NEW i \in Index, NEW e \in Entry
    PROVE  /\ WithEntry(m, p, i, e) \in Memories
           /\ WithEntry(m, p, i, e)[p][i] = e
           /\ \A q \in Pages, j \in Index :
                  q # p \/ j # i => WithEntry(m, p, i, e)[q][j] = m[q][j]
BY DEF WithEntry, Memories

\* Tables whose entries are the same lead to the same tables.
LEMMA BelowSame ==
    ASSUME NEW m, NEW m2, NEW T, \A q \in T, j \in Index : m2[q][j] = m[q][j]
    PROVE  Below(m2, T) = Below(m, T)
<1>1. ASSUME NEW x PROVE x \in Below(m2, T) <=> x \in Below(m, T)
  BY BelowIs
<1> QED BY <1>1

-----------------------------------------------------------------------------
(* A new table. *)

\* A free page is found while there is one, and marked.
LEMMA PageAllocated ==
    ASSUME NEW t, 0 \in t.bitmap, SomeFree(t.bitmap)
    PROVE  LET n == AllocatedPage(t)
           IN  /\ n \in Pages /\ n \notin t.bitmap
               /\ AfterAlloc(t).bitmap = t.bitmap \cup {n}
               /\ AfterAlloc(t).memory = [t.memory EXCEPT ![n] = ZeroPage]
<1> DEFINE top == BIT_TO_PAGE(TopPage)
           page == pmm_find_first_free_page_range(t.bitmap, top, 1)
           n == PAGE_TO_BIT(page)
<1>1. TopPage \in Nat /\ top \in Nat /\ PAGE_TO_BIT(top) = TopPage
  BY Constants, BitOfPage
<1>2. page # NULL
  <2>1. (0 .. PAGE_TO_BIT(top) - 1) \ t.bitmap # {}
    BY <1>1 DEF SomeFree, Pages
  <2> HIDE DEF top
  <2> QED BY <1>1, <2>1, NothingFound
<1>3. n \in 0 .. TopPage - 1 /\ n \notin t.bitmap
  <2> HIDE DEF top
  <2> QED BY <1>1, <1>2, SearchResult
<1>4. n # NULL
  BY <1>3 DEF NULL
<1>5. SetBits(t.bitmap, n, 1) = t.bitmap \cup {n}
  <2> HIDE DEF n
  <2>1. PageRange(n, 1) = {n}
    BY <1>1, <1>3 DEF PageRange
  <2> QED BY <2>1 DEF SetBits
<1>6. AllocatedPage(t) = n
  BY DEF AllocatedPage
<1> HIDE DEF n
<1> QED BY <1>3, <1>4, <1>5, <1>6 DEF AfterAlloc, Pages

\* m with the empty table n put into entry i of table p.
Created(m, n, p, i, flags) ==
    WithEntry([m EXCEPT ![n] = ZeroPage], p, i, [frame |-> n, flags |-> flags, cache |-> 0])

\* What memory has after that.
LEMMA CreatedIs ==
    ASSUME NEW m \in Memories, NEW n \in Pages, NEW p \in Pages, n # p,
           NEW i \in Index, NEW flags \in Flags, NEW m2, m2 = Created(m, n, p, i, flags)
    PROVE  /\ m2 \in Memories
           /\ m2[p][i].frame = n /\ m2[p][i].flags = flags
           /\ \A j \in Index : m2[n][j] = NoEntry
           /\ \A q \in Pages, j \in Index :
                  q # n /\ (q # p \/ j # i) => m2[q][j] = m[q][j]
<1> DEFINE e == [frame |-> n, flags |-> flags, cache |-> 0]
           z == [m EXCEPT ![n] = ZeroPage]
<1>1. e \in Entry
  BY Constants DEF Entry, Pages
<1>2. /\ z \in Memories
      /\ \A q \in Pages : q # n => z[q] = m[q]
      /\ \A j \in Index : z[n][j] = NoEntry
  BY NoEntryFacts DEF Memories
<1>3. e.frame = n /\ e.flags = flags
  OBVIOUS
<1> HIDE DEF e, z
<1>4. /\ WithEntry(z, p, i, e) \in Memories
      /\ WithEntry(z, p, i, e)[p][i] = e
      /\ \A q \in Pages, j \in Index : q # p \/ j # i => WithEntry(z, p, i, e)[q][j] = z[q][j]
  BY <1>1, <1>2, WithEntryIs
<1>5. Created(m, n, p, i, flags) = WithEntry(z, p, i, e)
  BY DEF Created, z, e
<1>6. \A j \in Index : WithEntry(z, p, i, e)[n][j] = NoEntry
  BY <1>2, <1>4
<1>7. \A q \in Pages, j \in Index :
          q # n /\ (q # p \/ j # i) => WithEntry(z, p, i, e)[q][j] = m[q][j]
  BY <1>2, <1>4
<1> QED BY <1>3, <1>4, <1>5, <1>6, <1>7

\* What a set of tables leads to after a table has been created: one table more if p is
\* in the set, and nothing more through the new table, which is empty.
LEMMA BelowCreated ==
    ASSUME NEW m \in Memories, NEW n \in Pages, NEW p \in Pages, n # p,
           NEW i \in Index, NEW flags \in Flags, NEW m2, m2 = Created(m, n, p, i, flags),
           PRESENT \in flags, PRESENT \notin m[p][i].flags,
           NEW T \in SUBSET Pages, n \notin T
    PROVE  /\ p \notin T => Below(m2, T) = Below(m, T)
           /\ p \notin T => Below(m2, T \cup {n}) = Below(m, T)
           /\ p \in T => Below(m2, T) = Below(m, T) \cup {n}
<1>1. /\ m2[p][i].frame = n /\ m2[p][i].flags = flags
      /\ \A j \in Index : m2[n][j] = NoEntry
      /\ \A q \in Pages, j \in Index : q # n /\ (q # p \/ j # i) => m2[q][j] = m[q][j]
  BY CreatedIs
<1>2. ASSUME p \notin T PROVE Below(m2, T) = Below(m, T)
  BY <1>1, <1>2, BelowSame
<1>3. ASSUME p \notin T, NEW x PROVE x \in Below(m2, T \cup {n}) <=> x \in Below(m, T)
  BY <1>1, <1>3, BelowIs, NoEntryFacts
<1>4. ASSUME p \in T, NEW x PROVE x \in Below(m2, T) <=> x \in Below(m, T) \cup {n}
  <2>1. ASSUME x \in Below(m2, T) PROVE x \in Below(m, T) \cup {n}
    <3>1. PICK q \in T : \E j \in Index : PRESENT \in m2[q][j].flags /\ x = m2[q][j].frame
      BY <2>1, BelowIs
    <3>2. PICK j \in Index : PRESENT \in m2[q][j].flags /\ x = m2[q][j].frame
      BY <3>1
    <3>3. CASE q = p /\ j = i
      BY <1>1, <3>2, <3>3
    <3>4. CASE q # p \/ j # i
      BY <1>1, <3>2, <3>4, BelowIs
    <3> QED BY <3>3, <3>4
  <2>2. ASSUME x \in Below(m, T) PROVE x \in Below(m2, T)
    <3>1. PICK q \in T : \E j \in Index : PRESENT \in m[q][j].flags /\ x = m[q][j].frame
      BY <2>2, BelowIs
    <3>2. PICK j \in Index : PRESENT \in m[q][j].flags /\ x = m[q][j].frame
      BY <3>1
    <3>3. m2[q][j] = m[q][j]
      BY <1>1, <3>2
    <3> QED BY <3>2, <3>3, BelowIs
  <2>3. n \in Below(m2, T)
    BY <1>1, <1>4, BelowIs
  <2> QED BY <2>1, <2>2, <2>3
<1> QED BY <1>2, <1>3, <1>4

\* A table is put below one of the first three levels: the level below it has one table
\* more, the others are as they were.
LEMMA LevelsCreated ==
    ASSUME NEW b, NEW m, NEW r, Tree(b, m, r), NEW n \in Pages, n \notin b,
           NEW p \in {r} \cup L2(m, r) \cup L3(m, r), NEW i \in Index, NEW flags \in Flags,
           PRESENT \in flags, PRESENT \notin m[p][i].flags,
           NEW m2, m2 = Created(m, n, p, i, flags)
    PROVE  /\ p \in Pages /\ n # p /\ m \in Memories
           /\ L2(m2, r) = IF p = r THEN L2(m, r) \cup {n} ELSE L2(m, r)
           /\ L3(m2, r) = IF p \in L2(m, r) THEN L3(m, r) \cup {n} ELSE L3(m, r)
           /\ L4(m2, r) = IF p \in L3(m, r) THEN L4(m, r) \cup {n} ELSE L4(m, r)
<1> DEFINE A == {r}  B == L2(m, r)  C == L3(m, r)  D == L4(m, r)
<1>1. /\ m \in Memories /\ p \in Pages /\ n # p
      /\ A \in SUBSET Pages /\ B \in SUBSET Pages /\ C \in SUBSET Pages
      /\ n \notin A /\ n \notin B /\ n \notin C
      /\ r \notin B /\ r \notin C /\ B \cap C = {}
      /\ p \in A \cup B \cup C
  BY DEF Tree
<1>2. B = Below(m, A) /\ C = Below(m, B) /\ D = Below(m, C)
  BY DEF L2, L3, L4
<1>3. L2(m2, r) = Below(m2, A) /\ L3(m2, r) = Below(m2, L2(m2, r)) /\ L4(m2, r) = Below(m2, L3(m2, r))
  BY DEF L2, L3, L4
<1> HIDE DEF A, B, C, D
<1>a. /\ p \notin A => Below(m2, A) = Below(m, A)
      /\ p \notin A => Below(m2, A \cup {n}) = Below(m, A)
      /\ p \in A => Below(m2, A) = Below(m, A) \cup {n}
  BY <1>1, BelowCreated
<1>b. /\ p \notin B => Below(m2, B) = Below(m, B)
      /\ p \notin B => Below(m2, B \cup {n}) = Below(m, B)
      /\ p \in B => Below(m2, B) = Below(m, B) \cup {n}
  BY <1>1, BelowCreated
<1>c. /\ p \notin C => Below(m2, C) = Below(m, C)
      /\ p \notin C => Below(m2, C \cup {n}) = Below(m, C)
      /\ p \in C => Below(m2, C) = Below(m, C) \cup {n}
  BY <1>1, BelowCreated
<1>4. CASE p \in A
  <2>1. p = r /\ p \notin B /\ p \notin C
    BY <1>1, <1>4 DEF A
  <2>2. L2(m2, r) = B \cup {n} /\ L3(m2, r) = C /\ L4(m2, r) = D
    BY <1>2, <1>3, <1>4, <1>a, <1>b, <1>c, <2>1
  <2> QED BY <1>1, <2>1, <2>2 DEF A, B, C, D
<1>5. CASE p \in B
  <2>1. p # r /\ p \notin A /\ p \notin C
    BY <1>1, <1>5 DEF A
  <2>2. L2(m2, r) = B /\ L3(m2, r) = C \cup {n} /\ L4(m2, r) = D
    BY <1>2, <1>3, <1>5, <1>a, <1>b, <1>c, <2>1
  <2> QED BY <1>1, <1>5, <2>1, <2>2 DEF A, B, C, D
<1>6. CASE p \in C
  <2>1. p # r /\ p \notin A /\ p \notin B
    BY <1>1, <1>6 DEF A
  <2>2. L2(m2, r) = B /\ L3(m2, r) = C /\ L4(m2, r) = D \cup {n}
    BY <1>2, <1>3, <1>6, <1>a, <1>b, <1>c, <2>1
  <2> QED BY <1>1, <1>6, <2>1, <2>2 DEF A, B, C, D
<1> QED BY <1>1, <1>4, <1>5, <1>6

\* It is still a tree.
LEMMA TreeCreated ==
    ASSUME NEW b, NEW m, NEW r, Tree(b, m, r), NEW n \in Pages, n \notin b,
           NEW p \in {r} \cup L2(m, r) \cup L3(m, r), NEW i \in Index, NEW flags \in Flags,
           PRESENT \in flags, PRESENT \notin m[p][i].flags,
           NEW m2, m2 = Created(m, n, p, i, flags)
    PROVE  Tree(b \cup {n}, m2, r)
<1> DEFINE A == {r}  B == L2(m, r)  C == L3(m, r)  D == L4(m, r)
           B2 == L2(m2, r)  C2 == L3(m2, r)  D2 == L4(m2, r)
<1>1. /\ p \in Pages /\ n # p /\ m \in Memories
      /\ B2 = IF p = r THEN B \cup {n} ELSE B
      /\ C2 = IF p \in B THEN C \cup {n} ELSE C
      /\ D2 = IF p \in C THEN D \cup {n} ELSE D
  BY LevelsCreated
<1>2. /\ BootBitmap \subseteq b /\ b \subseteq Pages
      /\ b = BootBitmap \cup A \cup B \cup C \cup D
      /\ r \notin B \cup C \cup D /\ B \cap C = {} /\ B \cap D = {} /\ C \cap D = {}
      /\ BootBitmap \cap (A \cup B \cup C \cup D) = {}
      /\ OneParent(m, A \cup B \cup C)
      /\ p \in A \cup B \cup C
  BY DEF Tree
<1>3. B = Below(m, A) /\ C = Below(m, B) /\ D = Below(m, C)
  BY DEF L2, L3, L4
<1>4. /\ m2 \in Memories
      /\ m2[p][i].frame = n /\ m2[p][i].flags = flags
      /\ \A j \in Index : m2[n][j] = NoEntry
      /\ \A q \in Pages, j \in Index : q # n /\ (q # p \/ j # i) => m2[q][j] = m[q][j]
  BY <1>1, CreatedIs
<1>5. r = p => p \notin B /\ p \notin C
  BY <1>2
<1> HIDE DEF B, C, D, B2, C2, D2
<1>6. A \cup B2 \cup C2 \cup D2 = A \cup B \cup C \cup D \cup {n}
  BY <1>1, <1>2
<1>7. /\ r \notin B2 \cup C2 \cup D2 /\ B2 \cap C2 = {} /\ B2 \cap D2 = {} /\ C2 \cap D2 = {}
  BY <1>1, <1>2
<1>8. /\ b \cup {n} = BootBitmap \cup A \cup B2 \cup C2 \cup D2
      /\ BootBitmap \cap (A \cup B2 \cup C2 \cup D2) = {}
      /\ BootBitmap \subseteq b \cup {n} /\ b \cup {n} \subseteq Pages
  BY <1>2, <1>6
<1>9. OneParent(m2, A \cup B2 \cup C2)
  <2>1. SUFFICES ASSUME NEW q1 \in A \cup B2 \cup C2, NEW q2 \in A \cup B2 \cup C2,
                        NEW j1 \in Index, NEW j2 \in Index,
                        PRESENT \in m2[q1][j1].flags, PRESENT \in m2[q2][j2].flags,
                        m2[q1][j1].frame = m2[q2][j2].frame
                 PROVE  q1 = q2 /\ j1 = j2
    BY DEF OneParent
  <2>2. ASSUME NEW q \in A \cup B2 \cup C2, NEW j \in Index, PRESENT \in m2[q][j].flags
        PROVE  \/ q = p /\ j = i /\ m2[q][j].frame = n
               \/ /\ q \in A \cup B \cup C /\ m2[q][j] = m[q][j]
                  /\ m[q][j].frame # n
    <3>1. q # n
      BY <1>4, <2>2, NoEntryFacts
    <3>2. q \in A \cup B \cup C /\ q \in Pages
      BY <1>1, <1>2, <3>1
    <3>3. CASE q = p /\ j = i
      BY <1>4, <3>3
    <3>4. CASE q # p \/ j # i
      <4>1. m2[q][j] = m[q][j]
        BY <1>4, <3>1, <3>2, <3>4
      <4>2. m[q][j].frame \in B \cup C \cup D
        BY <1>3, <2>2, <3>2, <4>1, BelowIs
      <4> QED BY <1>2, <3>2, <4>1, <4>2
    <3> QED BY <3>3, <3>4
  <2>3. \/ q1 = p /\ j1 = i /\ m2[q1][j1].frame = n
        \/ q1 \in A \cup B \cup C /\ m2[q1][j1] = m[q1][j1] /\ m[q1][j1].frame # n
    BY <2>1, <2>2
  <2>4. \/ q2 = p /\ j2 = i /\ m2[q2][j2].frame = n
        \/ q2 \in A \cup B \cup C /\ m2[q2][j2] = m[q2][j2] /\ m[q2][j2].frame # n
    BY <2>1, <2>2
  <2> QED BY <1>2, <2>1, <2>3, <2>4 DEF OneParent
<1> QED BY <1>4, <1>7, <1>8, <1>9 DEF Tree, B2, C2, D2

-----------------------------------------------------------------------------
(* Walks through the tables. *)

\* A virtual page is four indices.
LEMMA VirtualPageIs ==
    ASSUME NEW v \in VirtualPage
    PROVE  /\ v[1] \in Index /\ v[2] \in Index /\ v[3] \in Index /\ v[4] \in Index
           /\ v = <<v[1], v[2], v[3], v[4]>>
BY DEF VirtualPage

\* A step of the processor through a table ends in NoEntry or takes the entry.
LEMMA ThroughIs ==
    ASSUME NEW m, NEW w, NEW j
    PROVE  LET x == Through(m, w, j)
           IN  /\ PRESENT \notin w.flags => x = NoEntry
               /\ PRESENT \notin m[w.frame][j].flags => x = NoEntry
               /\ PRESENT \in w.flags /\ PRESENT \in m[w.frame][j].flags =>
                      /\ PRESENT \in x.flags
                      /\ x.frame = m[w.frame][j].frame
                      /\ x.cache = m[w.frame][j].cache
               /\ PRESENT \in x.flags \/ x = NoEntry
BY DEF Through

\* Walks before and after the creation of table n, when they have come to a level with
\* the tables T: the same, or one ends while the other is at the new table.
Similar(w, w2, T, n) ==
    \/ w2 = w /\ (PRESENT \in w.flags => w.frame \in T)
    \/ w = NoEntry /\ w2.frame = n

\* One level further down they are still alike.
LEMMA SimilarThrough ==
    ASSUME NEW m \in Memories, NEW n \in Pages, NEW p \in Pages, n # p,
           NEW i \in Index, NEW flags \in Flags, NEW m2, m2 = Created(m, n, p, i, flags),
           PRESENT \notin m[p][i].flags, NEW T \in SUBSET Pages, n \notin T,
           NEW w, NEW w2, Similar(w, w2, T, n), NEW j \in Index
    PROVE  /\ Similar(Through(m, w, j), Through(m2, w2, j), Below(m, T), n)
           /\ p \notin T => Through(m2, w2, j) = Through(m, w, j)
<1> DEFINE x == Through(m, w, j)  y == Through(m2, w2, j)
<1>1. /\ m2[p][i].frame = n
      /\ \A k \in Index : m2[n][k] = NoEntry
      /\ \A q \in Pages, k \in Index : q # n /\ (q # p \/ k # i) => m2[q][k] = m[q][k]
  BY CreatedIs
<1>2. CASE w = NoEntry /\ w2.frame = n
  <2>1. x = NoEntry
    BY <1>2, ThroughIs, NoEntryFacts
  <2>2. y = NoEntry
    BY <1>1, <1>2, ThroughIs, NoEntryFacts
  <2> QED BY <2>1, <2>2, NoEntryFacts DEF Similar
<1>3. CASE w2 = w /\ PRESENT \notin w.flags
  <2>1. x = NoEntry /\ y = NoEntry
    BY <1>3, ThroughIs
  <2> QED BY <2>1, NoEntryFacts DEF Similar
<1>4. CASE w2 = w /\ PRESENT \in w.flags /\ w.frame \in T
  <2>1. CASE w.frame = p /\ j = i
    <3>1. x = NoEntry
      BY <2>1, ThroughIs
    <3>2. y = NoEntry \/ y.frame = n
      BY <1>1, <1>4, <2>1, ThroughIs
    <3> QED BY <1>4, <2>1, <3>1, <3>2, NoEntryFacts DEF Similar
  <2>2. CASE ~(w.frame = p /\ j = i)
    <3>1. m2[w.frame][j] = m[w.frame][j]
      BY <1>1, <1>4, <2>2
    <3>2. y = x
      BY <1>4, <3>1 DEF Through
    <3>3. PRESENT \in x.flags => x.frame \in Below(m, T)
      BY <1>4, ThroughIs, NoEntryFacts, BelowIs
    <3> QED BY <3>2, <3>3 DEF Similar
  <2> QED BY <2>1, <2>2
<1> QED BY <1>2, <1>3, <1>4 DEF Similar

\* Creating a table changes no translation.
LEMMA WalkCreated ==
    ASSUME NEW b, NEW m, NEW r, Tree(b, m, r), NEW n \in Pages, n \notin b,
           NEW p \in {r} \cup L2(m, r) \cup L3(m, r), NEW i \in Index, NEW flags \in Flags,
           PRESENT \in flags, PRESENT \notin m[p][i].flags,
           NEW m2, m2 = Created(m, n, p, i, flags), NEW v \in VirtualPage
    PROVE  WalkIn(m2, r, v) = WalkIn(m, r, v)
<1> DEFINE A == {r}  B == L2(m, r)  C == L3(m, r)  D == L4(m, r)
           w0 == FromRoot(r)
           w1 == Through(m, w0, v[1])  w2 == Through(m, w1, v[2])  w3 == Through(m, w2, v[3])
           y1 == Through(m2, w0, v[1])  y2 == Through(m2, y1, v[2])  y3 == Through(m2, y2, v[3])
<1>1. /\ m \in Memories /\ p \in Pages /\ n # p
      /\ A \in SUBSET Pages /\ B \in SUBSET Pages /\ C \in SUBSET Pages /\ D \in SUBSET Pages
      /\ n \notin A /\ n \notin B /\ n \notin C /\ n \notin D /\ p \notin D
  BY DEF Tree
<1>2. B = Below(m, A) /\ C = Below(m, B) /\ D = Below(m, C)
  BY DEF L2, L3, L4
<1>3. v[1] \in Index /\ v[2] \in Index /\ v[3] \in Index /\ v[4] \in Index
  BY VirtualPageIs
<1>4. Similar(w0, w0, A, n)
  BY DEF FromRoot, Similar
<1>5. WalkIn(m, r, v) = Through(m, w3, v[4]) /\ WalkIn(m2, r, v) = Through(m2, y3, v[4])
  BY DEF WalkIn
<1> HIDE DEF A, B, C, D, w0
<1>6. Similar(w1, y1, B, n)
  BY <1>1, <1>2, <1>3, <1>4, SimilarThrough
<1> HIDE DEF w1, y1
<1>7. Similar(w2, y2, C, n)
  BY <1>1, <1>2, <1>3, <1>6, SimilarThrough
<1> HIDE DEF w2, y2
<1>8. Similar(w3, y3, D, n)
  BY <1>1, <1>2, <1>3, <1>7, SimilarThrough
<1> HIDE DEF w3, y3
<1>9. Through(m2, y3, v[4]) = Through(m, w3, v[4])
  BY <1>1, <1>3, <1>8, SimilarThrough
<1> QED BY <1>5, <1>9

-----------------------------------------------------------------------------
(* The entry of the last level. *)

\* The tables on the way to v, and that all of them are there.
P1(m, r, v) == m[r][v[1]].frame
P2(m, r, v) == m[P1(m, r, v)][v[2]].frame
P3(m, r, v) == m[P2(m, r, v)][v[3]].frame

HasPath(m, r, v) ==
    /\ PRESENT \in m[r][v[1]].flags
    /\ PRESENT \in m[P1(m, r, v)][v[2]].flags
    /\ PRESENT \in m[P2(m, r, v)][v[3]].flags

\* The tables on the way are of their levels.
LEMMA PathLevels ==
    ASSUME NEW m, NEW r, NEW v \in VirtualPage, HasPath(m, r, v)
    PROVE  P1(m, r, v) \in L2(m, r) /\ P2(m, r, v) \in L3(m, r) /\ P3(m, r, v) \in L4(m, r)
<1>1. v[1] \in Index /\ v[2] \in Index /\ v[3] \in Index
  BY VirtualPageIs
<1>2. P1(m, r, v) \in L2(m, r)
  BY <1>1, BelowIs DEF HasPath, P1, L2
<1>3. P2(m, r, v) \in L3(m, r)
  BY <1>1, <1>2, BelowIs DEF HasPath, P2, L3
<1>4. P3(m, r, v) \in L4(m, r)
  BY <1>1, <1>3, BelowIs DEF HasPath, P3, L4
<1> QED BY <1>2, <1>3, <1>4

\* The last table decides the walk if there is a way to it, and otherwise the walk ends.
LEMMA WalkIs ==
    ASSUME NEW m, NEW r, NEW v
    PROVE  /\ ~HasPath(m, r, v) => WalkIn(m, r, v) = NoEntry
           /\ HasPath(m, r, v) =>
                  LET e == m[P3(m, r, v)][v[4]]
                      x == WalkIn(m, r, v)
                  IN  IF PRESENT \in e.flags
                      THEN PRESENT \in x.flags /\ x.frame = e.frame /\ x.cache = e.cache
                      ELSE x = NoEntry
<1> DEFINE w0 == FromRoot(r)
           w1 == Through(m, w0, v[1])  w2 == Through(m, w1, v[2])  w3 == Through(m, w2, v[3])
           x == Through(m, w3, v[4])
<1>1. w0.frame = r /\ PRESENT \in w0.flags
  BY DEF FromRoot
<1>2. WalkIn(m, r, v) = x
  BY DEF WalkIn
<1> HIDE DEF w0
<1>3. /\ PRESENT \in m[r][v[1]].flags => PRESENT \in w1.flags /\ w1.frame = P1(m, r, v)
      /\ PRESENT \notin m[r][v[1]].flags => w1 = NoEntry
  BY <1>1, ThroughIs DEF P1
<1> HIDE DEF w1
<1>4. /\ w1 = NoEntry => w2 = NoEntry
      /\ PRESENT \in w1.flags /\ w1.frame = P1(m, r, v) /\ PRESENT \in m[P1(m, r, v)][v[2]].flags
             => PRESENT \in w2.flags /\ w2.frame = P2(m, r, v)
      /\ w1.frame = P1(m, r, v) /\ PRESENT \notin m[P1(m, r, v)][v[2]].flags => w2 = NoEntry
  BY ThroughIs, NoEntryFacts DEF P2
<1> HIDE DEF w2
<1>5. /\ w2 = NoEntry => w3 = NoEntry
      /\ PRESENT \in w2.flags /\ w2.frame = P2(m, r, v) /\ PRESENT \in m[P2(m, r, v)][v[3]].flags
             => PRESENT \in w3.flags /\ w3.frame = P3(m, r, v)
      /\ w2.frame = P2(m, r, v) /\ PRESENT \notin m[P2(m, r, v)][v[3]].flags => w3 = NoEntry
  BY ThroughIs, NoEntryFacts DEF P3
<1> HIDE DEF w3
<1>6. w3 = NoEntry => x = NoEntry
  BY ThroughIs, NoEntryFacts
<1>7. PRESENT \in w3.flags /\ w3.frame = P3(m, r, v) =>
          LET e == m[P3(m, r, v)][v[4]]
          IN  IF PRESENT \in e.flags
              THEN PRESENT \in x.flags /\ x.frame = e.frame /\ x.cache = e.cache
              ELSE x = NoEntry
  BY ThroughIs
<1> HIDE DEF x
<1>8. ~HasPath(m, r, v) => w3 = NoEntry
  BY <1>3, <1>4, <1>5 DEF HasPath
<1>9. HasPath(m, r, v) => PRESENT \in w3.flags /\ w3.frame = P3(m, r, v)
  BY <1>3, <1>4, <1>5 DEF HasPath
<1> QED BY <1>2, <1>6, <1>7, <1>8, <1>9

\* In a tree two pages do not share an entry of the last level.
LEMMA PathsDiffer ==
    ASSUME NEW b, NEW m, NEW r, Tree(b, m, r), NEW u \in VirtualPage, NEW v \in VirtualPage,
           HasPath(m, r, u), HasPath(m, r, v),
           P3(m, r, u) = P3(m, r, v), u[4] = v[4]
    PROVE  u = v
<1> DEFINE S == {r} \cup L2(m, r) \cup L3(m, r)
<1>1. /\ v[1] \in Index /\ v[2] \in Index /\ v[3] \in Index
      /\ u[1] \in Index /\ u[2] \in Index /\ u[3] \in Index
      /\ u = <<u[1], u[2], u[3], u[4]>> /\ v = <<v[1], v[2], v[3], v[4]>>
  BY VirtualPageIs
<1>2. /\ P1(m, r, u) \in S /\ P2(m, r, u) \in S /\ P1(m, r, v) \in S /\ P2(m, r, v) \in S /\ r \in S
  BY PathLevels
<1>3. OneParent(m, S)
  BY DEF Tree
<1> HIDE DEF S
<1>4. P2(m, r, u) = P2(m, r, v) /\ u[3] = v[3]
  BY <1>1, <1>2, <1>3 DEF HasPath, P3, OneParent
<1>5. P1(m, r, u) = P1(m, r, v) /\ u[2] = v[2]
  BY <1>1, <1>2, <1>3, <1>4 DEF HasPath, P2, OneParent
<1>6. u[1] = v[1]
  BY <1>1, <1>2, <1>3, <1>5 DEF HasPath, P1, OneParent
<1> QED BY <1>1, <1>4, <1>5, <1>6

\* Writing an entry of the last level keeps the tree and changes the walk to v only.
LEMMA LeafWritten ==
    ASSUME NEW b, NEW m, NEW r, Tree(b, m, r), NEW v \in VirtualPage, HasPath(m, r, v),
           NEW e \in Entry, NEW m2, m2 = WithEntry(m, P3(m, r, v), v[4], e)
    PROVE  /\ Tree(b, m2, r)
           /\ \A u \in VirtualPage : u # v => WalkIn(m2, r, u) = WalkIn(m, r, u)
           /\ IF PRESENT \in e.flags
              THEN /\ PRESENT \in WalkIn(m2, r, v).flags
                   /\ WalkIn(m2, r, v).frame = e.frame
                   /\ WalkIn(m2, r, v).cache = e.cache
              ELSE WalkIn(m2, r, v) = NoEntry
<1> DEFINE p == P3(m, r, v)
           A == {r}  B == L2(m, r)  C == L3(m, r)  D == L4(m, r)
<1>1. /\ m \in Memories /\ p \in D /\ p \in Pages /\ v[4] \in Index
      /\ A \subseteq Pages /\ B \subseteq Pages /\ C \subseteq Pages /\ D \subseteq Pages
      /\ p \notin A /\ p \notin B /\ p \notin C
  BY PathLevels, VirtualPageIs DEF Tree
<1>2. /\ m2 \in Memories /\ m2[p][v[4]] = e
      /\ \A q \in Pages, j \in Index : q # p \/ j # v[4] => m2[q][j] = m[q][j]
  <2> HIDE DEF p
  <2>1. m2 = WithEntry(m, p, v[4], e)
    BY DEF p
  <2> QED BY <1>1, <2>1, WithEntryIs
<1>3. \A q \in A \cup B \cup C, j \in Index : m2[q][j] = m[q][j]
  BY <1>1, <1>2
<1>4. L2(m2, r) = B /\ L3(m2, r) = C /\ L4(m2, r) = D
  <2>1. L2(m2, r) = B
    BY <1>3, BelowSame DEF L2
  <2>2. L3(m2, r) = C
    <3>1. L3(m2, r) = Below(m2, B) /\ C = Below(m, B)
      BY <2>1 DEF L3
    <3> HIDE DEF A, B, C, D
    <3> QED BY <1>3, <3>1, BelowSame
  <2>3. L4(m2, r) = Below(m2, C) /\ D = Below(m, C)
    BY <2>2 DEF L4
  <2> HIDE DEF A, B, C, D
  <2> QED BY <1>3, <2>1, <2>2, <2>3, BelowSame
<1>5. Tree(b, m2, r)
  <2>1. OneParent(m2, A \cup B \cup C)
    <3>1. OneParent(m, A \cup B \cup C)
      BY DEF Tree
    <3> HIDE DEF A, B, C, D
    <3> QED BY <1>3, <3>1 DEF OneParent
  <2> QED BY <1>2, <1>4, <2>1 DEF Tree
<1>6. ASSUME NEW u \in VirtualPage
      PROVE  /\ HasPath(m2, r, u) <=> HasPath(m, r, u)
             /\ HasPath(m, r, u) => P3(m2, r, u) = P3(m, r, u)
  <2>1. u[1] \in Index /\ u[2] \in Index /\ u[3] \in Index
    BY VirtualPageIs
  <2>2. m2[r][u[1]] = m[r][u[1]] /\ P1(m2, r, u) = P1(m, r, u)
    BY <1>3, <2>1 DEF P1
  <2>3. PRESENT \in m[r][u[1]].flags =>
            /\ m2[P1(m, r, u)][u[2]] = m[P1(m, r, u)][u[2]]
            /\ P2(m2, r, u) = P2(m, r, u)
    <3>1. PRESENT \in m[r][u[1]].flags => P1(m, r, u) \in B
      BY <2>1, BelowIs DEF P1, L2
    <3> QED BY <1>3, <2>1, <2>2, <3>1 DEF P2
  <2>4. PRESENT \in m[r][u[1]].flags /\ PRESENT \in m[P1(m, r, u)][u[2]].flags =>
            /\ m2[P2(m, r, u)][u[3]] = m[P2(m, r, u)][u[3]]
            /\ P3(m2, r, u) = P3(m, r, u)
    <3>1. PRESENT \in m[r][u[1]].flags => P1(m, r, u) \in B
      BY <2>1, BelowIs DEF P1, L2
    <3>2. PRESENT \in m[r][u[1]].flags /\ PRESENT \in m[P1(m, r, u)][u[2]].flags =>
              P2(m, r, u) \in C
      BY <2>1, <3>1, BelowIs DEF P2, L3
    <3> QED BY <1>3, <2>1, <2>3, <3>2 DEF P3
  <2> QED BY <2>2, <2>3, <2>4 DEF HasPath
<1>7. ASSUME NEW u \in VirtualPage, u # v PROVE WalkIn(m2, r, u) = WalkIn(m, r, u)
  <2>1. CASE ~HasPath(m, r, u)
    BY <1>6, <2>1, WalkIs
  <2>2. CASE HasPath(m, r, u)
    <3> DEFINE w0 == FromRoot(r)
               w1 == Through(m, w0, u[1])  w2 == Through(m, w1, u[2])
               w3 == Through(m, w2, u[3])
               y1 == Through(m2, w0, u[1])  y2 == Through(m2, y1, u[2])
               y3 == Through(m2, y2, u[3])
    <3>1. u[1] \in Index /\ u[2] \in Index /\ u[3] \in Index /\ u[4] \in Index
      BY VirtualPageIs
    <3>2. P1(m, r, u) \in B /\ P2(m, r, u) \in C /\ P3(m, r, u) \in D
      BY <2>2, PathLevels
    <3>3. w0.frame = r /\ PRESENT \in w0.flags
      BY DEF FromRoot
    <3>4. WalkIn(m, r, u) = Through(m, w3, u[4]) /\ WalkIn(m2, r, u) = Through(m2, y3, u[4])
      BY DEF WalkIn
    <3> HIDE DEF w0
    <3>5. w1.frame = P1(m, r, u) /\ PRESENT \in w1.flags
      BY <2>2, <3>3, ThroughIs DEF HasPath, P1
    <3>6. y1 = w1
      <4>1. m2[r][u[1]] = m[r][u[1]]
        BY <1>3, <3>1
      <4> QED BY <3>3, <4>1 DEF Through
    <3> HIDE DEF w1, y1
    <3>7. w2.frame = P2(m, r, u) /\ PRESENT \in w2.flags
      BY <2>2, <3>5, ThroughIs DEF HasPath, P2
    <3>8. y2 = w2
      <4>1. m2[w1.frame][u[2]] = m[w1.frame][u[2]]
        BY <1>3, <3>1, <3>2, <3>5
      <4> QED BY <3>6, <4>1 DEF Through
    <3> HIDE DEF w2, y2
    <3>9. w3.frame = P3(m, r, u)
      BY <2>2, <3>7, ThroughIs DEF HasPath, P3
    <3>10. y3 = w3
      <4>1. m2[w2.frame][u[3]] = m[w2.frame][u[3]]
        BY <1>3, <3>1, <3>2, <3>7
      <4> QED BY <3>8, <4>1 DEF Through
    <3> HIDE DEF w3, y3
    <3>11. m2[w3.frame][u[4]] = m[w3.frame][u[4]]
      <4>1. P3(m, r, u) # p \/ u[4] # v[4]
        BY <1>7, <2>2, PathsDiffer
      <4>2. P3(m, r, u) \in Pages
        BY <1>1, <3>2
      <4> HIDE DEF p
      <4> QED BY <1>2, <3>1, <3>9, <4>1, <4>2
    <3> QED BY <3>4, <3>10, <3>11 DEF Through
  <2> QED BY <2>1, <2>2
<1>8. HasPath(m2, r, v) /\ m2[P3(m2, r, v)][v[4]] = e
  BY <1>2, <1>6
<1>9. IF PRESENT \in e.flags
      THEN /\ PRESENT \in WalkIn(m2, r, v).flags
           /\ WalkIn(m2, r, v).frame = e.frame
           /\ WalkIn(m2, r, v).cache = e.cache
      ELSE WalkIn(m2, r, v) = NoEntry
  BY <1>8, WalkIs
<1> QED BY <1>5, <1>7, <1>9

-----------------------------------------------------------------------------
(* vmm_get_or_create_pml and vmm_set_pt_value. *)

\* Pages are taken, never given back.
LEMMA DescendTakes ==
    ASSUME NEW t, NEW p, NEW i, NEW flags
    PROVE  t.bitmap \subseteq Descend(t, p, i, flags).tables.bitmap
<1>1. t.bitmap \subseteq AfterAlloc(t).bitmap
  BY DEF AfterAlloc, SetBits
<1> QED BY <1>1 DEF Descend, vmm_get_or_create_pml

\* What a step down from entry i of table p does to the tables t: the entry leads to a
\* table afterwards, in a tree that translates as before.
Descended(t, d, r, p, i) ==
    /\ Tree(d.tables.bitmap, d.tables.memory, r)
    /\ PRESENT \in d.tables.memory[p][i].flags
    /\ d.pml = d.tables.memory[p][i].frame
    /\ \A v \in VirtualPage : WalkIn(d.tables.memory, r, v) = WalkIn(t.memory, r, v)
    /\ \A q \in t.bitmap, j \in Index :
           PRESENT \in t.memory[q][j].flags => d.tables.memory[q][j] = t.memory[q][j]

\* One level: the table is there, or one is created while a page is left.
LEMMA DescendStep ==
    ASSUME 0 \in BootBitmap, NEW t, NEW r, Tree(t.bitmap, t.memory, r),
           NEW p \in {r} \cup L2(t.memory, r) \cup L3(t.memory, r), NEW i \in Index,
           NEW flags \in Flags, PRESENT \in flags,
           NEW d, d = Descend(t, p, i, flags), SomeFree(d.tables.bitmap)
    PROVE  Descended(t, d, r, p, i)
<1> DEFINE n == AllocatedPage(t)
           c == vmm_get_or_create_pml(t, p, i, flags)
<1>1. d.tables = c /\ d.pml = c.memory[p][i].frame
  BY DEF Descend
<1>2. CASE PRESENT \in t.memory[p][i].flags
  <2>1. c = t
    BY <1>2 DEF vmm_get_or_create_pml
  <2> QED BY <1>1, <1>2, <2>1 DEF Descended
<1>3. CASE PRESENT \notin t.memory[p][i].flags
  <2>1. 0 \in t.bitmap /\ SomeFree(t.bitmap)
    BY DescendTakes DEF Tree, SomeFree
  <2>2. /\ n \in Pages /\ n \notin t.bitmap
        /\ AfterAlloc(t).bitmap = t.bitmap \cup {n}
        /\ AfterAlloc(t).memory = [t.memory EXCEPT ![n] = ZeroPage]
    BY <2>1, PageAllocated
  <2>3. c.bitmap = t.bitmap \cup {n} /\ c.memory = Created(t.memory, n, p, i, flags)
    BY <1>3, <2>2 DEF vmm_get_or_create_pml, Created
  <2> HIDE DEF n, c
  <2>4. Tree(c.bitmap, c.memory, r)
    BY <1>3, <2>2, <2>3, TreeCreated
  <2>5. \A v \in VirtualPage : WalkIn(c.memory, r, v) = WalkIn(t.memory, r, v)
    BY <1>3, <2>2, <2>3, WalkCreated
  <2>6. p \in Pages /\ n # p /\ t.memory \in Memories /\ t.bitmap \subseteq Pages
    BY <2>2 DEF Tree
  <2>7. /\ c.memory[p][i].flags = flags
        /\ \A q \in Pages, j \in Index :
               q # n /\ (q # p \/ j # i) => c.memory[q][j] = t.memory[q][j]
    BY <2>2, <2>3, <2>6, CreatedIs
  <2>8. ASSUME NEW q \in t.bitmap, NEW j \in Index, PRESENT \in t.memory[q][j].flags
        PROVE  c.memory[q][j] = t.memory[q][j]
    BY <1>3, <2>2, <2>6, <2>7, <2>8
  <2> QED BY <1>1, <2>4, <2>5, <2>7, <2>8 DEF Descended
<1> QED BY <1>2, <1>3

\* A page is mapped: v is translated as asked, every other page as before.
LEMMA PageMapped ==
    ASSUME 0 \in BootBitmap, NEW t, NEW r, Tree(t.bitmap, t.memory, r), NEW v \in VirtualPage,
           NEW frame \in Nat, NEW flags \in Flags, PRESENT \in flags, NEW type \in Types,
           NEW s, s = MapPage(t, r, frame, v, flags, type), SomeFree(s.bitmap)
    PROVE  /\ Tree(s.bitmap, s.memory, r)
           /\ \A u \in VirtualPage : u # v => WalkIn(s.memory, r, u) = WalkIn(t.memory, r, u)
           /\ PRESENT \in WalkIn(s.memory, r, v).flags
           /\ WalkIn(s.memory, r, v).frame = frame
           /\ WalkIn(s.memory, r, v).cache = vmm_pat_cache_to_flags(type)
<1> DEFINE d1 == Descend(t, r, v[1], flags)
           d2 == Descend(d1.tables, d1.pml, v[2], flags)
           d3 == Descend(d2.tables, d2.pml, v[3], flags)
           e == [frame |-> frame, flags |-> flags, cache |-> vmm_pat_cache_to_flags(type)]
<1>1. s = [bitmap |-> d3.tables.bitmap, memory |-> WithEntry(d3.tables.memory, d3.pml, v[4], e)]
  BY DEF MapPage, vmm_set_pt_value
<1>2. v[1] \in Index /\ v[2] \in Index /\ v[3] \in Index /\ v[4] \in Index
  BY VirtualPageIs
<1>3. /\ e.frame = frame /\ e.flags = flags /\ e.cache = vmm_pat_cache_to_flags(type)
      /\ e \in Entry
  BY DEF Entry, Types, vmm_pat_cache_to_flags, PAT_UNCACHEABLE, PAT_WRITE_COMBINING,
         PAT_WRITE_THROUGH, PAT_WRITE_PROTECTED, PAT_WRITE_BACK, PAT_UNCACHED, PWT, PCD, PAT
<1> HIDE DEF e
<1>4. s.bitmap = d3.tables.bitmap /\ s.memory = WithEntry(d3.tables.memory, d3.pml, v[4], e)
  <2> HIDE DEF d3
  <2> QED BY <1>1
<1>5. SomeFree(d1.tables.bitmap) /\ SomeFree(d2.tables.bitmap) /\ SomeFree(d3.tables.bitmap)
  <2>1. SomeFree(d3.tables.bitmap)
    BY <1>4
  <2>2. d2.tables.bitmap \subseteq d3.tables.bitmap
    BY DescendTakes
  <2> HIDE DEF d3
  <2>3. d1.tables.bitmap \subseteq d2.tables.bitmap
    BY DescendTakes
  <2> HIDE DEF d1, d2
  <2> QED BY <2>1, <2>2, <2>3 DEF SomeFree
<1>6. Descended(t, d1, r, r, v[1])
  BY <1>2, <1>5, DescendStep
<1>7. d2 = Descend(d1.tables, d1.pml, v[2], flags)
  OBVIOUS
<1>8. d3 = Descend(d2.tables, d2.pml, v[3], flags)
  OBVIOUS
<1> HIDE DEF d1, d2, d3
<1>9. d1.pml \in L2(d1.tables.memory, r)
  BY <1>2, <1>6, BelowIs DEF L2, Descended
<1>10. Descended(d1.tables, d2, r, d1.pml, v[2])
  <2>1. Tree(d1.tables.bitmap, d1.tables.memory, r)
    BY <1>6 DEF Descended
  <2> QED BY <1>2, <1>5, <1>7, <1>9, <2>1, DescendStep
<1>11. d2.tables.memory[r][v[1]] = d1.tables.memory[r][v[1]]
  BY <1>2, <1>6, <1>10 DEF Tree, Descended
<1>12. d1.pml \in L2(d2.tables.memory, r)
  BY <1>2, <1>6, <1>11, BelowIs DEF L2, Descended
<1>13. d2.pml \in L3(d2.tables.memory, r)
  BY <1>2, <1>10, <1>12, BelowIs DEF L3, Descended
<1>14. Descended(d2.tables, d3, r, d2.pml, v[3])
  <2>1. Tree(d2.tables.bitmap, d2.tables.memory, r)
    BY <1>10 DEF Descended
  <2> QED BY <1>2, <1>5, <1>8, <1>13, <2>1, DescendStep
<1>15. /\ d3.tables.memory[r][v[1]] = d2.tables.memory[r][v[1]]
       /\ d3.tables.memory[d1.pml][v[2]] = d2.tables.memory[d1.pml][v[2]]
  <2>1. r \in d2.tables.bitmap /\ d1.pml \in d2.tables.bitmap
    BY <1>10, <1>12 DEF Tree, Descended
  <2> QED BY <1>2, <1>6, <1>10, <1>11, <1>14, <2>1 DEF Descended
<1> DEFINE m == d3.tables.memory
<1>16. P1(m, r, v) = d1.pml /\ P2(m, r, v) = d2.pml /\ P3(m, r, v) = d3.pml /\ HasPath(m, r, v)
  <2>1. P1(m, r, v) = d1.pml /\ PRESENT \in m[r][v[1]].flags
    BY <1>6, <1>11, <1>15 DEF P1, Descended
  <2>2. P2(m, r, v) = d2.pml /\ PRESENT \in m[d1.pml][v[2]].flags
    BY <1>10, <1>15, <2>1 DEF P2, Descended
  <2>3. P3(m, r, v) = d3.pml /\ PRESENT \in m[d2.pml][v[3]].flags
    BY <1>14, <2>2 DEF P3, Descended
  <2> QED BY <2>1, <2>2, <2>3 DEF HasPath
<1>17. \A u \in VirtualPage : WalkIn(m, r, u) = WalkIn(t.memory, r, u)
  BY <1>6, <1>10, <1>14 DEF Descended
<1> HIDE DEF m
<1>18. Tree(s.bitmap, m, r) /\ s.memory = WithEntry(m, P3(m, r, v), v[4], e)
  BY <1>4, <1>14, <1>16 DEF m, Descended
<1>19. /\ Tree(s.bitmap, s.memory, r)
       /\ \A u \in VirtualPage : u # v => WalkIn(s.memory, r, u) = WalkIn(m, r, u)
       /\ IF PRESENT \in e.flags
          THEN /\ PRESENT \in WalkIn(s.memory, r, v).flags
               /\ WalkIn(s.memory, r, v).frame = e.frame
               /\ WalkIn(s.memory, r, v).cache = e.cache
          ELSE WalkIn(s.memory, r, v) = NoEntry
  BY <1>3, <1>16, <1>18, LeafWritten
<1> QED BY <1>3, <1>17, <1>19

\* A page that is mapped is unmapped: v has no translation, every other page the one it
\* had, and no page of memory is taken for it.
LEMMA PageUnmapped ==
    ASSUME NEW t, NEW r, Tree(t.bitmap, t.memory, r), NEW v \in VirtualPage,
           WalkIn(t.memory, r, v) # NoEntry, NEW s, s = UnmapPage(t, r, v)
    PROVE  /\ Tree(s.bitmap, s.memory, r)
           /\ \A u \in VirtualPage : u # v => WalkIn(s.memory, r, u) = WalkIn(t.memory, r, u)
           /\ WalkIn(s.memory, r, v) = NoEntry
<1> DEFINE m == t.memory
           e == [frame |-> 0, flags |-> {}, cache |-> vmm_pat_cache_to_flags(PAT_UNCACHEABLE)]
<1>1. HasPath(m, r, v)
  BY WalkIs
<1>2. e \in Entry /\ PRESENT \notin e.flags
  BY DEF Entry, Flags, vmm_pat_cache_to_flags, PAT_UNCACHEABLE, PAT_WRITE_COMBINING,
         PAT_WRITE_THROUGH, PAT_WRITE_PROTECTED, PAT_WRITE_BACK, PAT_UNCACHED, PWT, PCD, PAT
<1>3. /\ Descend(t, r, v[1], {}) = [tables |-> t, pml |-> P1(m, r, v)]
      /\ Descend(t, P1(m, r, v), v[2], {}) = [tables |-> t, pml |-> P2(m, r, v)]
      /\ Descend(t, P2(m, r, v), v[3], {}) = [tables |-> t, pml |-> P3(m, r, v)]
  BY <1>1 DEF HasPath, P1, P2, P3, Descend, vmm_get_or_create_pml
<1> HIDE DEF e
<1>4. s = [bitmap |-> t.bitmap, memory |-> WithEntry(m, P3(m, r, v), v[4], e)]
  BY <1>3 DEF UnmapPage, vmm_set_pt_value, e
<1>5. s.bitmap = t.bitmap /\ s.memory = WithEntry(m, P3(m, r, v), v[4], e)
  BY <1>4
<1> QED BY <1>1, <1>2, <1>5, LeafWritten

-----------------------------------------------------------------------------
(* Page numbers and table indices. *)

\* The number of entry i of the q-th table when each has d entries.  Kept as an operator,
\* so that products are expanded in the lemmas of this section only.
At(d, q, i) == q * d + i

\* It is a number.
LEMMA AtNat ==
    ASSUME NEW d \in Nat, NEW q \in Nat, NEW i \in Nat
    PROVE  At(d, q, i) \in Nat
<1>1. q * d \in Nat
  OBVIOUS
<1> QED BY <1>1 DEF At

\* Quotient and remainder are the table and the entry of a number.
LEMMA Division ==
    ASSUME NEW a \in Nat, NEW d \in Nat \ {0}
    PROVE  /\ a \div d \in Nat /\ a % d \in 0 .. d - 1
           /\ a = At(d, a \div d, a % d)
<1>1. a \div d \in Nat
  OBVIOUS
<1>2. a % d \in 0 .. d - 1
  OBVIOUS
<1>3. a = d * (a \div d) + (a % d)
  OBVIOUS
<1>4. d * (a \div d) = (a \div d) * d
  BY <1>1
<1> QED BY <1>1, <1>2, <1>3, <1>4 DEF At

\* A number is in a later table if it is larger.
LEMMA LaterTable ==
    ASSUME NEW d \in Nat \ {0}, NEW u \in Nat, NEW v \in Nat, u < v,
           NEW k \in 0 .. d - 1, NEW l \in Nat
    PROVE  At(d, u, k) < At(d, v, l)
<1>1. PICK g \in Nat : v = u + 1 + g
  <2>1. v - u - 1 \in Nat /\ v = u + 1 + (v - u - 1)
    OBVIOUS
  <2> QED BY <2>1
<1>2. (u + 1 + g) * d = u * d + d + g * d
  OBVIOUS
<1>3. u * d \in Nat /\ g * d \in Nat
  OBVIOUS
<1>4. v * d = u * d + d + g * d
  BY <1>1, <1>2
<1> DEFINE U == u * d  V == v * d  G == g * d
<1>5. U \in Nat /\ G \in Nat /\ V = U + d + G
  BY <1>3, <1>4
<1>6. At(d, u, k) = U + k /\ At(d, v, l) = V + l
  BY DEF At
<1> HIDE DEF U, V, G
<1> QED BY <1>5, <1>6

\* The number of pages decides the number of tables.
LEMMA QuotientBound ==
    ASSUME NEW a \in Nat, NEW d \in Nat \ {0}, NEW k \in Nat, a < At(d, k, 0)
    PROVE  a \div d < k
<1> DEFINE q == a \div d  r == a % d
<1>1. q \in Nat /\ r \in 0 .. d - 1 /\ a = At(d, q, r)
  BY Division
<1> HIDE DEF q, r
<1>2. q = k => At(d, k, 0) <= a
  <2>1. k * d \in Nat
    OBVIOUS
  <2> QED BY <1>1, <2>1 DEF At
<1>3. k < q => At(d, k, 0) < a
  BY <1>1, LaterTable
<1>4. At(d, k, 0) \in Nat
  BY AtNat
<1>5. ~(q = k) /\ ~(k < q)
  BY <1>2, <1>3, <1>4
<1>6. q < k
  BY <1>1, <1>5
<1> QED BY <1>6 DEF q

\* A number is in one table and one entry only.
LEMMA OneQuotient ==
    ASSUME NEW d \in Nat \ {0}, NEW a \in Nat, NEW b \in Nat, NEW x \in 0 .. d - 1, NEW y \in 0 .. d - 1,
           At(d, a, x) = At(d, b, y)
    PROVE  a = b /\ x = y
<1>1. At(d, a, x) \in Nat /\ At(d, b, y) \in Nat
  BY AtNat
<1>2. ~(a < b)
  <2>1. a < b => At(d, a, x) < At(d, b, y)
    BY LaterTable
  <2> QED BY <1>1, <2>1
<1>3. ~(b < a)
  <2>1. b < a => At(d, b, y) < At(d, a, x)
    BY LaterTable
  <2> QED BY <1>1, <2>1
<1>4. a = b
  BY <1>2, <1>3
<1>5. PICK p \in Nat : p = a * d
  OBVIOUS
<1>6. p + x = p + y
  BY <1>4, <1>5 DEF At
<1>7. x = y
  BY <1>6
<1> QED BY <1>4, <1>7

\* The indices of a page of a region lead back to its number.
LEMMA InRegionIs ==
    ASSUME NEW region \in Index, NEW n \in Nat, n < RegionPages
    PROVE  /\ InRegion(region, n) \in VirtualPage
           /\ InRegion(region, n)[1] = region
           /\ Offset(InRegion(region, n)) = n
<1> DEFINE pt == n \div Entries
           pd == pt \div Entries
           v == <<region, pd % Entries, pt % Entries, n % Entries>>
<1>1. Entries \in Nat \ {0} /\ At(Entries, Entries, 0) \in Nat
  <2>1. Entries \in Nat /\ Entries # 0
    BY Constants
  <2> QED BY <2>1, AtNat
<1>2. n < At(Entries, At(Entries, Entries, 0), 0)
  <2>1. Entries * Entries \in Nat /\ (Entries * Entries) * Entries \in Nat
    BY <1>1
  <2>2. At(Entries, At(Entries, Entries, 0), 0) = (Entries * Entries) * Entries
    BY <2>1 DEF At
  <2> QED BY <2>2 DEF RegionPages
<1>3. /\ pt \in Nat /\ n % Entries \in 0 .. Entries - 1 /\ n = At(Entries, pt, n % Entries)
      /\ pt < At(Entries, Entries, 0)
  BY <1>1, <1>2, Division, QuotientBound
<1> HIDE DEF pt
<1>4. /\ pd \in Nat /\ pt % Entries \in 0 .. Entries - 1 /\ pt = At(Entries, pd, pt % Entries)
      /\ pd < Entries
  BY <1>1, <1>3, Division, QuotientBound
<1> HIDE DEF pd
<1>5. pd \div Entries = 0 /\ pd % Entries = pd
  BY <1>1, <1>4
<1>6. region \in Nat /\ region + 0 = region
  BY Constants
<1>7. InRegion(region, n) = v
  BY <1>5, <1>6 DEF InRegion, pt, pd
<1>8. v \in VirtualPage /\ v[1] = region /\ v[2] = pd /\ v[3] = pt % Entries /\ v[4] = n % Entries
  <2>1. /\ pd % Entries \in Index /\ pt % Entries \in Index /\ n % Entries \in Index
        /\ pd % Entries = pd
    BY <1>1, <1>3, <1>4, <1>5 DEF Index
  <2> QED BY <2>1 DEF VirtualPage
<1> HIDE DEF v
<1>9. Offset(v) = n
  <2>1. Offset(v) = At(Entries, At(Entries, v[2], v[3]), v[4])
    BY DEF Offset, At
  <2> QED BY <1>3, <1>4, <1>8, <2>1
<1> QED BY <1>7, <1>8, <1>9

\* Two pages of a region are at different numbers.
LEMMA OffsetIs ==
    ASSUME NEW u \in VirtualPage, NEW v \in VirtualPage
    PROVE  /\ Offset(v) \in Nat
           /\ u[1] = v[1] /\ Offset(u) = Offset(v) => u = v
<1>1. /\ u[1] \in Index /\ u[2] \in Index /\ u[3] \in Index /\ u[4] \in Index
      /\ v[1] \in Index /\ v[2] \in Index /\ v[3] \in Index /\ v[4] \in Index
      /\ u = <<u[1], u[2], u[3], u[4]>> /\ v = <<v[1], v[2], v[3], v[4]>>
  BY VirtualPageIs
<1>2. Entries \in Nat \ {0} /\ Index = 0 .. Entries - 1 /\ Index \subseteq Nat
  BY Constants DEF Index
<1> DEFINE a == At(Entries, u[2], u[3])  b == At(Entries, v[2], v[3])
<1>3. a \in Nat /\ b \in Nat
  BY <1>1, <1>2, AtNat
<1>4. Offset(u) = At(Entries, a, u[4]) /\ Offset(v) = At(Entries, b, v[4])
  BY DEF Offset, At
<1> HIDE DEF a, b
<1>5. Offset(v) \in Nat
  BY <1>1, <1>2, <1>3, <1>4, AtNat
<1>6. ASSUME u[1] = v[1], Offset(u) = Offset(v) PROVE u = v
  <2>1. a = b /\ u[4] = v[4]
    <3>1. At(Entries, a, u[4]) = At(Entries, b, v[4])
      BY <1>4, <1>6
    <3>2. u[4] \in 0 .. Entries - 1 /\ v[4] \in 0 .. Entries - 1
      BY <1>1, <1>2
    <3> QED BY <1>2, <1>3, <3>1, <3>2, OneQuotient
  <2>2. u[2] = v[2] /\ u[3] = v[3]
    <3>1. At(Entries, u[2], u[3]) = At(Entries, v[2], v[3])
      BY <2>1 DEF a, b
    <3>2. /\ u[3] \in 0 .. Entries - 1 /\ v[3] \in 0 .. Entries - 1
          /\ u[2] \in Nat /\ v[2] \in Nat
      BY <1>1, <1>2
    <3> QED BY <1>2, <3>1, <3>2, OneQuotient
  <2> QED BY <1>1, <1>6, <2>1, <2>2
<1> QED BY <1>5, <1>6

-----------------------------------------------------------------------------
(* One page is mapped or unmapped. *)

\* A translation is an entry.
LEMMA WalkType ==
    ASSUME NEW b, NEW m, NEW r, Tree(b, m, r), NEW v \in VirtualPage
    PROVE  WalkIn(m, r, v) \in Entry
<1> DEFINE w3 == Through(m, Through(m, Through(m, FromRoot(r), v[1]), v[2]), v[3])
<1>1. CASE ~HasPath(m, r, v)
  BY <1>1, WalkIs, NoEntryFacts
<1>2. CASE HasPath(m, r, v)
  <2>1. P3(m, r, v) \in Pages /\ v[4] \in Index /\ m \in Memories
    BY <1>2, PathLevels, VirtualPageIs DEF Tree
  <2>2. m[P3(m, r, v)][v[4]] \in Entry
    BY <2>1 DEF Memories
  <2>3. WalkIn(m, r, v) = Through(m, w3, v[4])
    BY DEF WalkIn
  <2> HIDE DEF w3
  <2> DEFINE e == m[w3.frame][v[4]]
  <2>4. CASE PRESENT \in w3.flags \cap e.flags
    <3>1. WalkIn(m, r, v) = [frame |-> e.frame, flags |-> w3.flags \cap e.flags, cache |-> e.cache]
      BY <2>3, <2>4 DEF Through
    <3>2. PRESENT \in WalkIn(m, r, v).flags
      BY <2>4, <3>1
    <3>3. /\ WalkIn(m, r, v).frame = m[P3(m, r, v)][v[4]].frame
          /\ WalkIn(m, r, v).cache = m[P3(m, r, v)][v[4]].cache
      BY <1>2, <3>2, WalkIs, NoEntryFacts
    <3>4. PRESENT \in {PRESENT, READ_WRITE, USER} /\ w3.flags \subseteq {PRESENT, READ_WRITE, USER}
      BY DEF w3, Through, FromRoot, NoEntry
    <3>5. /\ e.frame \in Nat /\ e.cache \in 0 .. 7 /\ w3.flags \cap e.flags \in Flags
      BY <2>2, <3>1, <3>3, <3>4 DEF Entry, Flags
    <3> HIDE DEF e
    <3> QED BY <3>1, <3>5 DEF Entry
  <2>5. CASE PRESENT \notin w3.flags \cap e.flags
    BY <2>3, <2>5, NoEntryFacts DEF Through
  <2> QED BY <2>4, <2>5
<1> QED BY <1>1, <1>2

\* What a change at v made by CPU c leaves behind.
ChangedAt(c, v) ==
    /\ Tree(pmm_bitmap', memory', root')
    /\ AsAsked'
    /\ wanted' \in [VirtualPage -> Entry]
    /\ tlb' \in [CPUs -> [VirtualPage -> Entry]]
    /\ \A u \in VirtualPage : u # v => Walk(u)' = Walk(u) /\ wanted'[u] = wanted[u]
    /\ \A d \in CPUs, u \in VirtualPage :
           tlb'[d][u] = IF d = c /\ u = v THEN NoEntry ELSE tlb[d][u]

\* The buffer of the CPU that executes invlpg forgets the page.
LEMMA Flushed ==
    ASSUME tlb \in [CPUs -> [VirtualPage -> Entry]], NEW c \in CPUs, NEW v \in VirtualPage,
           tlb' = [tlb EXCEPT ![c] = [tlb[c] EXCEPT ![v] = NoEntry]]
    PROVE  /\ tlb' \in [CPUs -> [VirtualPage -> Entry]]
           /\ \A d \in CPUs, u \in VirtualPage :
                  tlb'[d][u] = IF d = c /\ u = v THEN NoEntry ELSE tlb[d][u]
BY NoEntryFacts

\* vmm_map_page at v, or one page of vmm_map_range.
LEMMA MapChange ==
    ASSUME 0 \in BootBitmap, TypeOK, Tree(pmm_bitmap, memory, root), AsAsked, PagesLeft',
           NEW c \in CPUs, NEW v \in VirtualPage, NEW frame \in Nat, NEW flags \in Flags,
           PRESENT \in flags, NEW type \in Types,
           Change(c, MapPage(Tables, root, frame, v, flags, type), v),
           wanted' = [wanted EXCEPT ![v] = [frame |-> frame, flags |-> flags, cache |-> type]]
    PROVE  ChangedAt(c, v)
<1> DEFINE t == Tables  s == MapPage(Tables, root, frame, v, flags, type)
           e == [frame |-> frame, flags |-> flags, cache |-> type]
<1>1. t.bitmap = pmm_bitmap /\ t.memory = memory
  BY DEF Tables
<1>2. /\ pmm_bitmap' = s.bitmap /\ memory' = s.memory /\ root' = root
      /\ tlb' = [tlb EXCEPT ![c] = [tlb[c] EXCEPT ![v] = NoEntry]]
  BY DEF Change
<1>3. SomeFree(s.bitmap)
  BY <1>2 DEF PagesLeft
<1> HIDE DEF s, t
<1>4. s = MapPage(t, root, frame, v, flags, type)
  BY DEF s, t
<1>5. /\ Tree(s.bitmap, s.memory, root)
      /\ \A u \in VirtualPage : u # v => WalkIn(s.memory, root, u) = WalkIn(memory, root, u)
      /\ PRESENT \in WalkIn(s.memory, root, v).flags
      /\ WalkIn(s.memory, root, v).frame = frame
      /\ WalkIn(s.memory, root, v).cache = vmm_pat_cache_to_flags(type)
  BY <1>1, <1>3, <1>4, PageMapped
<1>6. \A u \in VirtualPage : Walk(u)' = WalkIn(s.memory, root, u) /\ Walk(u) = WalkIn(memory, root, u)
  BY <1>2 DEF Walk
<1>7. /\ e.frame = frame /\ e.flags = flags /\ e.cache = type /\ e \in Entry
  BY DEF Entry, Types, PAT_UNCACHEABLE, PAT_WRITE_COMBINING, PAT_WRITE_THROUGH,
         PAT_WRITE_PROTECTED, PAT_WRITE_BACK, PAT_UNCACHED
<1>8. e # NoEntry
  BY <1>7, NoEntryFacts
<1> HIDE DEF e
<1>9. /\ wanted' \in [VirtualPage -> Entry]
      /\ wanted'[v] = e
      /\ \A u \in VirtualPage : u # v => wanted'[u] = wanted[u]
  BY <1>7 DEF TypeOK, e
<1>10. AsAsked'
  <2> SUFFICES ASSUME NEW u \in VirtualPage PROVE Agrees(Walk(u)', wanted'[u])
    BY DEF AsAsked, Agrees
  <2>1. CASE u = v
    BY <1>5, <1>6, <1>7, <1>8, <1>9, <2>1 DEF Agrees
  <2>2. CASE u # v
    BY <1>5, <1>6, <1>9, <2>2 DEF AsAsked
  <2> QED BY <2>1, <2>2
<1>11. /\ tlb' \in [CPUs -> [VirtualPage -> Entry]]
       /\ \A d \in CPUs, u \in VirtualPage :
              tlb'[d][u] = IF d = c /\ u = v THEN NoEntry ELSE tlb[d][u]
  BY <1>2, Flushed DEF TypeOK
<1> QED BY <1>2, <1>5, <1>6, <1>9, <1>10, <1>11 DEF ChangedAt

\* vmm_unmap_page at a page that is mapped, or one page of vmm_unmap_range.
LEMMA UnmapChange ==
    ASSUME TypeOK, Tree(pmm_bitmap, memory, root), AsAsked,
           NEW c \in CPUs, NEW v \in VirtualPage, wanted[v] # NoEntry,
           Change(c, UnmapPage(Tables, root, v), v),
           wanted' = [wanted EXCEPT ![v] = NoEntry]
    PROVE  ChangedAt(c, v)
<1> DEFINE t == Tables  s == UnmapPage(Tables, root, v)
<1>1. t.bitmap = pmm_bitmap /\ t.memory = memory
  BY DEF Tables
<1>2. /\ pmm_bitmap' = s.bitmap /\ memory' = s.memory /\ root' = root
      /\ tlb' = [tlb EXCEPT ![c] = [tlb[c] EXCEPT ![v] = NoEntry]]
  BY DEF Change
<1>3. WalkIn(memory, root, v) # NoEntry
  BY NoEntryFacts DEF AsAsked, Agrees, Walk
<1> HIDE DEF s, t
<1>4. s = UnmapPage(t, root, v)
  BY DEF s, t
<1>5. /\ Tree(s.bitmap, s.memory, root)
      /\ \A u \in VirtualPage : u # v => WalkIn(s.memory, root, u) = WalkIn(memory, root, u)
      /\ WalkIn(s.memory, root, v) = NoEntry
  BY <1>1, <1>3, <1>4, PageUnmapped
<1>6. \A u \in VirtualPage : Walk(u)' = WalkIn(s.memory, root, u) /\ Walk(u) = WalkIn(memory, root, u)
  BY <1>2 DEF Walk
<1>7. /\ wanted' \in [VirtualPage -> Entry]
      /\ wanted'[v] = NoEntry
      /\ \A u \in VirtualPage : u # v => wanted'[u] = wanted[u]
  BY NoEntryFacts DEF TypeOK
<1>8. AsAsked'
  <2> SUFFICES ASSUME NEW u \in VirtualPage PROVE Agrees(Walk(u)', wanted'[u])
    BY DEF AsAsked, Agrees
  <2>1. CASE u = v
    BY <1>5, <1>6, <1>7, <2>1 DEF Agrees
  <2>2. CASE u # v
    BY <1>5, <1>6, <1>7, <2>2 DEF AsAsked
  <2> QED BY <2>1, <2>2
<1>9. /\ tlb' \in [CPUs -> [VirtualPage -> Entry]]
      /\ \A d \in CPUs, u \in VirtualPage :
             tlb'[d][u] = IF d = c /\ u = v THEN NoEntry ELSE tlb[d][u]
  BY <1>2, Flushed DEF TypeOK
<1> QED BY <1>2, <1>5, <1>6, <1>7, <1>8, <1>9 DEF ChangedAt

-----------------------------------------------------------------------------
(* The actions. *)

\* The ranges vmm_init maps.
LEMMA InitialRangeIs ==
    ASSUME NEW k \in 1 .. InitialRanges
    PROVE  LET w == InitialRange(k)
           IN  /\ w.cpu = BootCpu /\ w.map = TRUE /\ w.frame = 0 /\ w.page = 0
               /\ w.type = PAT_UNCACHEABLE
               /\ w.region \in Index /\ w.left \in 0 .. RegionPages
               /\ w.flags = IF w.region = HIGHER_HALF_CODE THEN KERNEL_READ ELSE KERNEL_READ_WRITE
               /\ PRESENT \in w.flags /\ w.flags \in Flags
               /\ w \in [cpu : CPUs, map : BOOLEAN, frame : Nat, region : Index, page : Nat,
                         left : Nat, flags : Flags, type : 0 .. 7]
<1> DEFINE w == InitialRange(k)
<1>2. /\ MappedPages \in 0 .. RegionPages /\ MappedPages \div 2 \in 0 .. RegionPages
      /\ RegionPages \in Nat /\ BootCpu \in CPUs
  <2>1. RegionPages \in Nat /\ MappedPages \in 0 .. RegionPages /\ BootCpu \in CPUs
    BY VmmAssumption, Constants DEF RegionPages
  <2> QED BY <2>1
<1>3. /\ IDENTITY \in Index /\ HIGHER_HALF_DATA \in Index /\ HEAP_START_ADDR \in Index
      /\ HIGHER_HALF_CODE \in Index /\ IDENTITY # HIGHER_HALF_CODE
      /\ HIGHER_HALF_DATA # HIGHER_HALF_CODE /\ HEAP_START_ADDR # HIGHER_HALF_CODE
  BY Constants DEF Index, IDENTITY, HIGHER_HALF_DATA, HEAP_START_ADDR, HIGHER_HALF_CODE
<1>4. /\ PRESENT \in KERNEL_READ /\ PRESENT \in KERNEL_READ_WRITE
      /\ KERNEL_READ \in Flags /\ KERNEL_READ_WRITE \in Flags
  BY DEF KERNEL_READ, KERNEL_READ_WRITE, Flags
<1>5. k \notin {1, 2, 3, 4} => MapEntries[k - 4].length \in 0 .. RegionPages
  <2> DEFINE R == [base : Nat, length : 0 .. RegionPages]
  <2>1. MapEntries \in Seq(R)
    BY VmmAssumption
  <2>2. k \in 1 .. 4 + Len(MapEntries)
    BY DEF InitialRanges
  <2>3. Len(MapEntries) \in Nat
    BY <2>1
  <2>4. k \notin {1, 2, 3, 4} => k - 4 \in 1 .. Len(MapEntries)
    BY <2>2, <2>3
  <2>5. k \notin {1, 2, 3, 4} => MapEntries[k - 4] \in R
    <3> HIDE DEF R
    <3> QED BY <2>1, <2>4
  <2> QED BY <2>5
<1>6. \E pages \in 0 .. RegionPages, region \in Index :
          w = FromZero(pages, region,
                       IF region = HIGHER_HALF_CODE THEN KERNEL_READ ELSE KERNEL_READ_WRITE)
  <2>1. CASE k = 1
    BY <1>2, <1>3, <2>1 DEF InitialRange
  <2>2. CASE k = 2
    BY <1>2, <1>3, <2>2 DEF InitialRange
  <2>3. CASE k = 3
    BY <1>2, <1>3, <2>3 DEF InitialRange
  <2>4. CASE k = 4
    BY <1>2, <1>3, <2>4 DEF InitialRange
  <2>5. CASE k \notin {1, 2, 3, 4}
    BY <1>3, <1>5, <2>5 DEF InitialRange
  <2> QED BY <2>1, <2>2, <2>3, <2>4, <2>5
<1> HIDE DEF w
<1>7. PICK pages \in 0 .. RegionPages, region \in Index :
          w = FromZero(pages, region,
                       IF region = HIGHER_HALF_CODE THEN KERNEL_READ ELSE KERNEL_READ_WRITE)
  BY <1>6
<1>8. w = [cpu |-> BootCpu, map |-> TRUE, frame |-> 0, region |-> region, page |-> 0,
           left |-> pages, type |-> PAT_UNCACHEABLE,
           flags |-> IF region = HIGHER_HALF_CODE THEN KERNEL_READ ELSE KERNEL_READ_WRITE]
  BY <1>7 DEF FromZero
<1> QED BY <1>2, <1>4, <1>8 DEF w, PAT_UNCACHEABLE

\* Between ranges nothing is worked on.
LEMMA IdleIs ==
    /\ Idle.left = 0
    /\ Idle \in [cpu : CPUs, map : BOOLEAN, frame : Nat, region : Index, page : Nat, left : Nat,
                 flags : Flags, type : 0 .. 7]
BY VmmAssumption, Constants DEF Idle, Flags, PAT_UNCACHEABLE

\* Before vmm_init.
LEMMA InitStep ==
    ASSUME Init PROVE VmmInv
<1>1. TypeOK
  <2>1. pat \in [0 .. 7 -> 0 .. 7]
    <3>1. ASSUME NEW n \in 0 .. 7 PROVE DefaultPat[n + 1] \in 0 .. 7
      <4>1. n = 0 \/ n = 1 \/ n = 2 \/ n = 3 \/ n = 4 \/ n = 5 \/ n = 6 \/ n = 7
        OBVIOUS
      <4> QED BY <4>1 DEF DefaultPat
    <3> QED BY <3>1 DEF Init
  <2>2. root \in 0 .. TopPage - 1
    BY Constants DEF Init, NULL, Pages
  <2>3. next \in 0 .. InitialRanges + 1
    <3>1. Len(MapEntries) \in Nat
      BY VmmAssumption
    <3> QED BY <3>1 DEF Init, InitialRanges
  <2>4. memory \in [0 .. TopPage - 1 -> [Index -> Entry]]
    BY NoEntryFacts DEF Init
  <2>5. tlb \in [CPUs -> [VirtualPage -> Entry]] /\ wanted \in [VirtualPage -> Entry]
    BY NoEntryFacts DEF Init
  <2>6. pmm_bitmap \subseteq 0 .. TopPage - 1
    BY VmmAssumption DEF Init
  <2> QED BY <2>1, <2>2, <2>3, <2>4, <2>5, <2>6, IdleIs DEF Init, TypeOK
<1> QED BY <1>1 DEF Init, VmmInv, WorkInv, TlbEmpty, ready, idle

\* The root table: a tree without other tables, which translates nothing.
LEMMA RootCreated ==
    ASSUME 0 \in BootBitmap, VmmInv, PagesLeft', vmm_init
    PROVE  VmmInv'
<1> DEFINE t == Tables  n == AllocatedPage(Tables)
<1>1. t.bitmap = BootBitmap /\ t.memory = memory /\ pmm_bitmap = BootBitmap
  BY DEF Tables, vmm_init, VmmInv
<1>2. TypeOK /\ memory \in Memories /\ idle /\ wanted = [v \in VirtualPage |-> NoEntry] /\ TlbEmpty
  BY DEF VmmInv, TypeOK, vmm_init, Memories, Pages, ready
<1>3. SomeFree(t.bitmap)
  <2>1. t.bitmap \subseteq AfterAlloc(t).bitmap
    BY DEF AfterAlloc, SetBits
  <2>2. pmm_bitmap' = AfterAlloc(t).bitmap
    BY DEF vmm_init
  <2> QED BY <2>1, <2>2 DEF PagesLeft, SomeFree
<1>4. /\ n \in Pages /\ n \notin BootBitmap /\ root' = n
      /\ pmm_bitmap' = BootBitmap \cup {n}
      /\ memory' = [memory EXCEPT ![n] = ZeroPage]
  BY <1>1, <1>3, PageAllocated DEF vmm_init
<1> HIDE DEF n, t
<1>5. /\ memory' \in Memories
      /\ \A j \in Index : memory'[root'][j] = NoEntry
  BY <1>2, <1>4, NoEntryFacts DEF Memories
<1>6. L2(memory', root') = {} /\ L3(memory', root') = {} /\ L4(memory', root') = {}
  <2>1. L2(memory', root') = {}
    BY <1>5, BelowIs, NoEntryFacts DEF L2
  <2>2. \A m : Below(m, {}) = {}
    BY BelowIs
  <2> QED BY <2>1, <2>2 DEF L3, L4
<1>7. Tree(pmm_bitmap', memory', root')
  <2>1. OneParent(memory', {root'} \cup {} \cup {})
    BY <1>5, NoEntryFacts DEF OneParent
  <2> QED BY <1>4, <1>5, <1>6, <2>1, Constants DEF Tree
<1>8. AsAsked'
  <2> SUFFICES ASSUME NEW v \in VirtualPage PROVE Agrees(Walk(v)', wanted'[v])
    BY DEF AsAsked, Agrees
  <2>1. ~HasPath(memory', root', v)
    BY <1>5, VirtualPageIs, NoEntryFacts DEF HasPath
  <2>2. Walk(v)' = NoEntry
    BY <2>1, WalkIs DEF Walk
  <2>3. wanted'[v] = NoEntry
    BY <1>2 DEF vmm_init
  <2> QED BY <2>2, <2>3 DEF Agrees
<1>9. BootInv'
  <2>1. idle' /\ next' = 1
    BY <1>2 DEF vmm_init, idle
  <2>2. ASSUME NEW v \in VirtualPage PROVE wanted'[v] = NoEntry /\ ~MappedAtBoot(v)'
    <3>1. \A k \in 1 .. InitialRanges : Mapped(k)' = 0
      BY <2>1 DEF Mapped
    <3>2. Offset(v) \in Nat
      BY OffsetIs
    <3> QED BY <1>2, <3>1, <3>2 DEF vmm_init, MappedAtBoot
  <2> QED BY <2>1, <2>2 DEF BootInv
<1>10. TypeOK'
  <2>1. pat' \in [0 .. 7 -> 0 .. 7]
    BY DEF vmm_init, enable_pat, PAT_UNCACHEABLE
  <2>2. 1 \in 0 .. InitialRanges + 1
    <3>1. Len(MapEntries) \in Nat
      BY VmmAssumption
    <3> QED BY <3>1 DEF InitialRanges
  <2> QED BY <1>2, <1>4, <1>5, <1>7, <2>1, <2>2 DEF TypeOK, vmm_init, Memories, Pages, Tree
<1> QED BY <1>2, <1>7, <1>8, <1>9, <1>10 DEF vmm_init, VmmInv, WorkInv, TlbEmpty, idle, ready

\* vmm_init comes to its next range.
LEMMA InitMapsRangeStep ==
    ASSUME VmmInv, InitMapsRange
    PROVE  VmmInv'
<1> DEFINE w == InitialRange(next)
<1>1. /\ TypeOK /\ BootInv /\ phase = "mapping" /\ phase' = "mapping" /\ idle
      /\ next \in 1 .. InitialRanges /\ next' = next + 1 /\ InitialRanges \in Nat
      /\ work' = IF w.left = 0 THEN Idle ELSE w
      /\ Tree(pmm_bitmap, memory, root) /\ AsAsked /\ pat = enable_pat /\ TlbEmpty
  <2>1. Len(MapEntries) \in Nat
    BY VmmAssumption
  <2> QED BY <2>1 DEF VmmInv, InitMapsRange, BootInv, TypeOK, ready, InitialRanges
<1>2. UNCHANGED <<root, pmm_bitmap, memory, pat, tlb, wanted>>
  BY DEF InitMapsRange
<1>3. /\ w.map = TRUE /\ w.frame = 0 /\ w.page = 0 /\ w.type = PAT_UNCACHEABLE
      /\ w.left \in 0 .. RegionPages /\ PRESENT \in w.flags
      /\ w \in [cpu : CPUs, map : BOOLEAN, frame : Nat, region : Index, page : Nat,
                left : Nat, flags : Flags, type : 0 .. 7]
  BY <1>1, InitialRangeIs
<1>r. RegionPages \in Nat
  BY Constants DEF RegionPages
<1>4. TypeOK'
  <2>1. work' \in [cpu : CPUs, map : BOOLEAN, frame : Nat, region : Index, page : Nat,
                   left : Nat, flags : Flags, type : 0 .. 7]
    <3> HIDE DEF w
    <3> QED BY <1>1, <1>3, IdleIs
  <2>2. next' \in 0 .. InitialRanges + 1
    BY <1>1
  <2> QED BY <1>1, <1>2, <2>1, <2>2 DEF TypeOK
<1>5. AsAsked'
  BY <1>1, <1>2 DEF AsAsked, Walk
<1>6. idle' <=> w.left = 0
  <2> HIDE DEF w
  <2> QED BY <1>1, IdleIs DEF idle
<1>7. WorkInv'
  <2>1. CASE w.left = 0
    BY <1>6, <2>1 DEF WorkInv
  <2>2. CASE w.left # 0
    <3>1. work' = w
      BY <1>1, <2>2
    <3> HIDE DEF w
    <3> QED BY <1>1, <1>3, <1>r, <2>2, <3>1 DEF WorkInv, Types
  <2> QED BY <2>1, <2>2
<1>8. \A k \in 1 .. InitialRanges : Mapped(k)' = Mapped(k)
  <2> SUFFICES ASSUME NEW k \in 1 .. InitialRanges PROVE Mapped(k)' = Mapped(k)
    OBVIOUS
  <2>1. CASE k > next
    BY <1>1, <2>1 DEF Mapped
  <2>2. CASE k = next
    <3>1. Mapped(k) = 0
      BY <1>1, <2>2 DEF Mapped
    <3>2. CASE w.left = 0
      BY <1>1, <1>6, <2>2, <3>1, <3>2 DEF Mapped
    <3>3. CASE w.left # 0
      <4>1. ~idle' /\ work'.page = 0
        BY <1>1, <1>3, <1>6, <3>3
      <4> QED BY <1>1, <2>2, <3>1, <4>1 DEF Mapped
    <3> QED BY <3>2, <3>3
  <2>3. CASE k < next
    BY <1>1, <2>3 DEF Mapped
  <2> QED BY <1>1, <2>1, <2>2, <2>3
<1>9. BootInv'
  <2>1. ~idle' => work' = w
    BY <1>1, <1>6
  <2>2. next' - 1 = next /\ next' >= 2 /\ next' >= 1
    BY <1>1
  <2>3. ~idle' => PartOf(work', InitialRange(next' - 1))
    <3>1. InitialRange(next' - 1) = w
      BY <2>2
    <3> HIDE DEF w
    <3> QED BY <1>3, <1>r, <2>1, <3>1 DEF PartOf
  <2>4. \A v \in VirtualPage : MappedAtBoot(v)' <=> MappedAtBoot(v)
    BY <1>8 DEF MappedAtBoot
  <2>5. \A v \in VirtualPage :
            wanted'[v] = IF MappedAtBoot(v)' THEN InitialMapping(v) ELSE NoEntry
    BY <1>1, <1>2, <2>4 DEF BootInv
  <2> QED BY <2>2, <2>3, <2>5 DEF BootInv
<1>10. TlbEmpty'
  BY <1>1, <1>2 DEF TlbEmpty
<1> QED BY <1>1, <1>2, <1>4, <1>5, <1>7, <1>9, <1>10 DEF VmmInv, ready

\* The page at which RangePage works, and what it leaves behind.
LEMMA RangePageIs ==
    ASSUME 0 \in BootBitmap, VmmInv, PagesLeft', RangePage
    PROVE  LET v == InRegion(work.region, work.page)
           IN  /\ v \in VirtualPage /\ v[1] = work.region /\ Offset(v) = work.page
               /\ ChangedAt(work.cpu, v)
               /\ wanted'[v] = IF work.map
                               THEN [frame |-> work.frame, flags |-> work.flags,
                                     cache |-> work.type]
                               ELSE NoEntry
<1> DEFINE v == InRegion(work.region, work.page)
<1>1. /\ TypeOK /\ ~idle /\ WorkInv
      /\ Tree(pmm_bitmap, memory, root) /\ AsAsked
  BY DEF VmmInv, RangePage, WorkInv
<1>2. /\ work.cpu \in CPUs /\ work.region \in Index /\ work.page \in Nat /\ work.left \in Nat
      /\ work.frame \in Nat /\ work.flags \in Flags /\ work.left > 0
      /\ work.page + work.left <= RegionPages /\ RegionPages \in Nat
      /\ work.map \in BOOLEAN
  BY <1>1, Constants DEF TypeOK, WorkInv, RegionPages
<1>3. work.page < RegionPages
  BY <1>2
<1>4. v \in VirtualPage /\ v[1] = work.region /\ Offset(v) = work.page
  BY <1>2, <1>3, InRegionIs
<1>5. /\ Change(work.cpu,
                IF work.map
                THEN MapPage(Tables, root, work.frame, v, work.flags, work.type)
                ELSE UnmapPage(Tables, root, v),
                v)
      /\ wanted' = [wanted EXCEPT ![v] =
                       IF work.map
                       THEN [frame |-> work.frame, flags |-> work.flags, cache |-> work.type]
                       ELSE NoEntry]
  BY DEF RangePage
<1> HIDE DEF v
<1>6. wanted'[v] = IF work.map
                   THEN [frame |-> work.frame, flags |-> work.flags, cache |-> work.type]
                   ELSE NoEntry
  BY <1>1, <1>4, <1>5 DEF TypeOK
<1>7. CASE work.map
  <2>1. PRESENT \in work.flags /\ work.type \in Types
    BY <1>1, <1>7 DEF WorkInv
  <2>2. /\ Change(work.cpu, MapPage(Tables, root, work.frame, v, work.flags, work.type), v)
        /\ wanted' = [wanted EXCEPT ![v] =
                         [frame |-> work.frame, flags |-> work.flags, cache |-> work.type]]
    BY <1>5, <1>7
  <2>3. ChangedAt(work.cpu, v)
    BY <1>1, <1>2, <1>4, <2>1, <2>2, MapChange
  <2> QED BY <1>4, <1>6, <2>3 DEF v
<1>8. CASE ~work.map
  <2>1. wanted[v] # NoEntry
    <3>1. work.page \in PageRange(work.page, work.left)
      BY <1>2 DEF PageRange
    <3> QED BY <1>1, <1>8, <3>1 DEF WorkInv, v
  <2>2. /\ Change(work.cpu, UnmapPage(Tables, root, v), v)
        /\ wanted' = [wanted EXCEPT ![v] = NoEntry]
    BY <1>5, <1>8
  <2>3. ChangedAt(work.cpu, v)
    BY <1>1, <1>2, <1>4, <2>1, <2>2, UnmapChange
  <2> QED BY <1>4, <1>6, <2>3 DEF v
<1> QED BY <1>2, <1>7, <1>8

\* One page of a range, at the boot or for a caller.
LEMMA RangePageStep ==
    ASSUME 0 \in BootBitmap, VmmInv, PagesLeft', RangePage
    PROVE  VmmInv'
<1> DEFINE W == [cpu : CPUs, map : BOOLEAN, frame : Nat, region : Index, page : Nat, left : Nat,
                 flags : Flags, type : 0 .. 7]
<1>1. PICK v \in VirtualPage :
          /\ v[1] = work.region /\ Offset(v) = work.page
          /\ ChangedAt(work.cpu, v)
          /\ wanted'[v] = IF work.map
                          THEN [frame |-> work.frame, flags |-> work.flags, cache |-> work.type]
                          ELSE NoEntry
  BY RangePageIs
<1>2. /\ TypeOK /\ ~idle /\ WorkInv /\ phase # "start" /\ pat = enable_pat
      /\ work' = IF work.left = 1 THEN Idle
                 ELSE [work EXCEPT !.frame = work.frame + 1, !.page = work.page + 1,
                                   !.left = work.left - 1]
      /\ UNCHANGED <<phase, next, root, pat>>
  BY DEF VmmInv, RangePage, WorkInv, Change
<1>3. /\ work \in W /\ work.left > 0 /\ work.left \in Nat /\ work.page \in Nat
      /\ work.frame \in Nat
      /\ work.page + work.left <= RegionPages /\ RegionPages \in Nat /\ work.region \in Index
  BY <1>2, Constants DEF TypeOK, WorkInv, RegionPages
<1>4. work.left = 1 => idle' /\ work' \in W
  BY <1>2, IdleIs DEF idle
<1>5. work.left # 1 =>
          /\ ~idle' /\ work' \in W
          /\ work'.cpu = work.cpu /\ work'.map = work.map /\ work'.region = work.region
          /\ work'.flags = work.flags /\ work'.type = work.type
          /\ work'.frame = work.frame + 1 /\ work'.page = work.page + 1
          /\ work'.left = work.left - 1 /\ work'.left > 0
  <2> SUFFICES ASSUME work.left # 1
               PROVE  /\ ~idle' /\ work' \in W
                      /\ work'.cpu = work.cpu /\ work'.map = work.map
                      /\ work'.region = work.region
                      /\ work'.flags = work.flags /\ work'.type = work.type
                      /\ work'.frame = work.frame + 1 /\ work'.page = work.page + 1
                      /\ work'.left = work.left - 1 /\ work'.left > 0
    OBVIOUS
  <2>1. work' = [work EXCEPT !.frame = work.frame + 1, !.page = work.page + 1,
                             !.left = work.left - 1]
    BY <1>2
  <2>2. /\ work'.cpu = work.cpu /\ work'.map = work.map /\ work'.region = work.region
        /\ work'.flags = work.flags /\ work'.type = work.type
        /\ work'.frame = work.frame + 1 /\ work'.page = work.page + 1
        /\ work'.left = work.left - 1
    BY <1>3, <2>1
  <2>3. work' \in W
    <3>1. work.frame + 1 \in Nat /\ work.page + 1 \in Nat /\ work.left - 1 \in Nat
      BY <1>3
    <3> QED BY <1>3, <2>1, <3>1
  <2>4. work'.left > 0
    BY <1>3, <2>2
  <2>5. ~idle'
    BY <2>4, IdleIs DEF idle
  <2> QED BY <2>2, <2>3, <2>4, <2>5
<1>6. TypeOK'
  <2>1. work' \in W
    BY <1>4, <1>5
  <2> QED BY <1>1, <1>2, <2>1 DEF TypeOK, ChangedAt, Tree, Memories, Pages
<1>7. WorkInv'
  <2>1. CASE work.left = 1
    BY <1>4, <2>1 DEF WorkInv
  <2>2. CASE work.left # 1
    <3>1. work'.page + work'.left <= RegionPages
      BY <1>3, <1>5, <2>2
    <3>2. work.map => PRESENT \in work.flags /\ work.type \in Types
      BY <1>2 DEF WorkInv
    <3>3. ASSUME ~work.map, NEW n \in PageRange(work'.page, work'.left)
          PROVE  wanted'[InRegion(work.region, n)] # NoEntry
      <4>1. n \in Nat /\ n # work.page /\ n < RegionPages /\ n \in PageRange(work.page, work.left)
        BY <1>3, <1>5, <2>2, <3>3 DEF PageRange
      <4>2. InRegion(work.region, n) \in VirtualPage /\ Offset(InRegion(work.region, n)) = n
        BY <1>3, <4>1, InRegionIs
      <4>3. InRegion(work.region, n) # v
        BY <1>1, <4>1, <4>2
      <4>4. wanted[InRegion(work.region, n)] # NoEntry
        BY <1>2, <3>3, <4>1 DEF WorkInv
      <4> QED BY <1>1, <4>2, <4>3, <4>4 DEF ChangedAt
    <3> QED BY <1>2, <1>5, <2>2, <3>1, <3>2, <3>3 DEF WorkInv
  <2> QED BY <2>1, <2>2
<1>8. ASSUME phase = "mapping" PROVE BootInv'
  <2>1. BootInv /\ next \in Int /\ next >= 2 /\ PartOf(work, InitialRange(next - 1))
    BY <1>2, <1>8 DEF VmmInv, BootInv, TypeOK
  <2>2. PICK last \in 1 .. InitialRanges : last = next - 1
    <3>1. Len(MapEntries) \in Nat
      BY VmmAssumption
    <3> QED BY <1>2, <2>1, <3>1 DEF TypeOK, InitialRanges
  <2> DEFINE r == InitialRange(last)
  <2>3. /\ r.flags = IF r.region = HIGHER_HALF_CODE THEN KERNEL_READ ELSE KERNEL_READ_WRITE
        /\ r.left \in 0 .. RegionPages
    BY <2>2, InitialRangeIs
  <2>4. /\ work.map /\ work.region = r.region /\ work.flags = r.flags
        /\ work.type = PAT_UNCACHEABLE /\ work.frame = work.page
        /\ work.page + work.left = r.left
    BY <2>1, <2>2 DEF PartOf
  <2> HIDE DEF r
  <2>5. wanted'[v] = InitialMapping(v)
    BY <1>1, <2>3, <2>4 DEF InitialMapping
  <2>6. ~idle' => PartOf(work', r)
    <3>1. ~idle' => work.left # 1
      BY <1>4
    <3>2. work.left # 1 => work'.page + work'.left = r.left /\ work'.frame = work'.page
      BY <1>3, <1>5, <2>4
    <3> QED BY <1>5, <2>4, <3>1, <3>2 DEF PartOf
  <2>7. Mapped(last) = work.page /\ Mapped(last)' = work.page + 1
    <3>1. Mapped(last) = work.page
      BY <1>2, <2>1, <2>2 DEF Mapped
    <3>2. CASE work.left = 1
      <4>1. r.left = work.page + 1
        BY <1>3, <2>4, <3>2
      <4> QED BY <1>2, <1>4, <2>1, <2>2, <3>1, <3>2, <4>1 DEF Mapped, r
    <3>3. CASE work.left # 1
      BY <1>2, <1>5, <2>1, <2>2, <3>1, <3>3 DEF Mapped
    <3> QED BY <3>2, <3>3
  <2>8. \A k \in 1 .. InitialRanges : k # last => Mapped(k)' = Mapped(k)
    BY <1>2, <2>1, <2>2 DEF Mapped
  <2>9. MappedAtBoot(v)'
    <3>1. r.region = v[1] /\ Offset(v) < Mapped(last)'
      BY <1>1, <1>3, <2>4, <2>7
    <3> QED BY <3>1 DEF MappedAtBoot, r
  <2>10. ASSUME NEW u \in VirtualPage, u # v PROVE MappedAtBoot(u)' <=> MappedAtBoot(u)
    <3>1. Offset(u) \in Nat
      BY OffsetIs
    <3>2. u[1] = r.region => Offset(u) # work.page
      BY <1>1, <2>4, <2>10, OffsetIs
    <3>3. u[1] = r.region => (Offset(u) < work.page + 1 <=> Offset(u) < work.page)
      BY <1>3, <3>1, <3>2
    <3>4. ASSUME NEW k \in 1 .. InitialRanges
          PROVE  InitialRange(k).region = u[1] =>
                     (Offset(u) < Mapped(k)' <=> Offset(u) < Mapped(k))
      <4>1. CASE k = last
        BY <2>7, <3>3, <4>1 DEF r
      <4>2. CASE k # last
        BY <2>8, <4>2
      <4> QED BY <4>1, <4>2
    <3> QED BY <3>4 DEF MappedAtBoot
  <2>11. \A u \in VirtualPage :
             wanted'[u] = IF MappedAtBoot(u)' THEN InitialMapping(u) ELSE NoEntry
    <3> SUFFICES ASSUME NEW u \in VirtualPage
                 PROVE  wanted'[u] = IF MappedAtBoot(u)' THEN InitialMapping(u) ELSE NoEntry
      OBVIOUS
    <3>1. CASE u = v
      BY <2>5, <2>9, <3>1
    <3>2. CASE u # v
      <4>1. wanted'[u] = wanted[u]
        BY <1>1, <3>2 DEF ChangedAt
      <4> QED BY <2>1, <2>10, <3>2, <4>1 DEF BootInv
    <3> QED BY <3>1, <3>2
  <2> QED BY <1>2, <2>1, <2>2, <2>6, <2>11 DEF BootInv, r
<1>9. ~ready => TlbEmpty'
  BY <1>1 DEF VmmInv, TlbEmpty, ChangedAt
<1> QED BY <1>1, <1>2, <1>6, <1>7, <1>8, <1>9 DEF VmmInv, ChangedAt, ready

\* The entries of the memory map lie in the first 4 GiB.
MapBelow ==
    \A k \in DOMAIN MapEntries : MapEntries[k].base + MapEntries[k].length <= MappedPages

\* vmm_init has made the mappings that its comments list.
LEMMA BootMapsAll ==
    ASSUME MapBelow, TypeOK, BootInv, idle, next > InitialRanges
    PROVE  wanted = InitialMappings
<1> DEFINE R == [base : Nat, length : 0 .. RegionPages]
<1>1. MapEntries \in Seq(R) /\ Len(MapEntries) \in Nat /\ DOMAIN MapEntries = 1 .. Len(MapEntries)
  BY VmmAssumption
<1>2. \A k \in 1 .. Len(MapEntries) : MapEntries[k] \in R
  <2> HIDE DEF R
  <2> QED BY <1>1
<1>3. \A k \in 1 .. Len(MapEntries) :
          /\ MapEntries[k].base \in Nat /\ MapEntries[k].length \in Nat
          /\ MapEntries[k].base + MapEntries[k].length <= MappedPages
  <2>1. RegionPages \in Nat
    BY Constants DEF RegionPages
  <2> QED BY <1>1, <1>2, <2>1 DEF MapBelow
<1>4. MappedPages \in Nat
  BY VmmAssumption, Constants DEF RegionPages
<1>5. Listed \subseteq 0 .. MappedPages - 1
  <2> SUFFICES ASSUME NEW q \in Listed PROVE q \in 0 .. MappedPages - 1
    OBVIOUS
  <2>1. PICK k \in 1 .. Len(MapEntries) : q \in PageRange(MapEntries[k].base, MapEntries[k].length)
    BY <1>1, Zenon DEF Listed
  <2> HIDE DEF R
  <2> DEFINE base == MapEntries[k].base
             length == MapEntries[k].length
  <2>2. base \in Nat /\ length \in Nat /\ base + length <= MappedPages
    BY <1>3
  <2>3. q \in base .. base + length - 1
    BY <2>1 DEF PageRange
  <2> HIDE DEF base, length
  <2> QED BY <1>4, <2>2, <2>3
<1>6. next \in Nat /\ InitialRanges = 4 + Len(MapEntries)
  BY <1>1 DEF TypeOK, InitialRanges
<1>7. \A k \in 1 .. InitialRanges : Mapped(k) = InitialRange(k).left
  BY <1>1, <1>6 DEF Mapped
<1>8. /\ InitialRange(1).left = MappedPages /\ InitialRange(1).region = IDENTITY
      /\ InitialRange(2).left = MappedPages /\ InitialRange(2).region = HIGHER_HALF_DATA
      /\ InitialRange(3).left = MappedPages /\ InitialRange(3).region = HEAP_START_ADDR
      /\ InitialRange(4).left = MappedPages \div 2 /\ InitialRange(4).region = HIGHER_HALF_CODE
  BY DEF InitialRange, FromZero
<1>9. \A k \in 5 .. InitialRanges :
          /\ InitialRange(k).region = HIGHER_HALF_DATA
          /\ InitialRange(k).left \in Nat /\ InitialRange(k).left <= MappedPages
  <2> SUFFICES ASSUME NEW k \in 5 .. InitialRanges
               PROVE  /\ InitialRange(k).region = HIGHER_HALF_DATA
                      /\ InitialRange(k).left \in Nat /\ InitialRange(k).left <= MappedPages
    OBVIOUS
  <2>1. k - 4 \in 1 .. Len(MapEntries) /\ k # 1 /\ k # 2 /\ k # 3 /\ k # 4
    BY <1>1, <1>6
  <2>2. InitialRange(k) = FromZero(MapEntries[k - 4].length, HIGHER_HALF_DATA, KERNEL_READ_WRITE)
    BY <2>1 DEF InitialRange
  <2>3. /\ InitialRange(k).region = HIGHER_HALF_DATA
        /\ InitialRange(k).left = MapEntries[k - 4].length
    BY <2>2 DEF FromZero
  <2> QED BY <1>3, <1>4, <2>1, <2>3
<1> DEFINE asked(region) ==
               CASE region \in {IDENTITY, HEAP_START_ADDR} -> 0 .. MappedPages - 1
                 [] region = HIGHER_HALF_DATA -> (0 .. MappedPages - 1) \cup Listed
                 [] region = HIGHER_HALF_CODE -> 0 .. MappedPages \div 2 - 1
                 [] OTHER -> {}
<1>10. ASSUME NEW v \in VirtualPage PROVE MappedAtBoot(v) <=> Offset(v) \in asked(v[1])
  <2>1. Offset(v) \in Nat /\ MappedPages \div 2 \in Nat /\ MappedPages \div 2 <= MappedPages
    BY <1>4, OffsetIs
  <2>2. 1 \in 1 .. InitialRanges /\ 2 \in 1 .. InitialRanges /\ 3 \in 1 .. InitialRanges
        /\ 4 \in 1 .. InitialRanges
    BY <1>1, <1>6
  <2>3. \A k \in 1 .. InitialRanges : k = 1 \/ k = 2 \/ k = 3 \/ k = 4 \/ k \in 5 .. InitialRanges
    BY <1>1, <1>6
  <2>4. MappedAtBoot(v) <=>
            \/ v[1] = IDENTITY /\ Offset(v) < MappedPages
            \/ v[1] = HIGHER_HALF_DATA /\ Offset(v) < MappedPages
            \/ v[1] = HEAP_START_ADDR /\ Offset(v) < MappedPages
            \/ v[1] = HIGHER_HALF_CODE /\ Offset(v) < MappedPages \div 2
    <3>1. ASSUME MappedAtBoot(v)
          PROVE  \/ v[1] = IDENTITY /\ Offset(v) < MappedPages
                 \/ v[1] = HIGHER_HALF_DATA /\ Offset(v) < MappedPages
                 \/ v[1] = HEAP_START_ADDR /\ Offset(v) < MappedPages
                 \/ v[1] = HIGHER_HALF_CODE /\ Offset(v) < MappedPages \div 2
      <4>1. PICK k \in 1 .. InitialRanges :
                     InitialRange(k).region = v[1] /\ Offset(v) < InitialRange(k).left
        BY <1>7, <3>1 DEF MappedAtBoot
      <4> QED BY <1>4, <1>8, <1>9, <2>1, <2>3, <4>1
    <3>2. ASSUME \/ v[1] = IDENTITY /\ Offset(v) < MappedPages
                 \/ v[1] = HIGHER_HALF_DATA /\ Offset(v) < MappedPages
                 \/ v[1] = HEAP_START_ADDR /\ Offset(v) < MappedPages
                 \/ v[1] = HIGHER_HALF_CODE /\ Offset(v) < MappedPages \div 2
          PROVE  MappedAtBoot(v)
      BY <1>7, <1>8, <2>2, <3>2 DEF MappedAtBoot
    <3> QED BY <3>1, <3>2
  <2>5. /\ v[1] \in {IDENTITY, HEAP_START_ADDR} => asked(v[1]) = 0 .. MappedPages - 1
        /\ v[1] = HIGHER_HALF_DATA => asked(v[1]) = 0 .. MappedPages - 1
        /\ v[1] = HIGHER_HALF_CODE => asked(v[1]) = 0 .. MappedPages \div 2 - 1
        /\ v[1] \notin {IDENTITY, HIGHER_HALF_DATA, HEAP_START_ADDR, HIGHER_HALF_CODE} =>
               asked(v[1]) = {}
    <3>1. (0 .. MappedPages - 1) \cup Listed = 0 .. MappedPages - 1
      BY <1>5
    <3>2. CASE v[1] \in {IDENTITY, HEAP_START_ADDR}
      BY <3>2 DEF IDENTITY, HIGHER_HALF_DATA, HEAP_START_ADDR, HIGHER_HALF_CODE
    <3>3. CASE v[1] = HIGHER_HALF_DATA
      BY <3>1, <3>3 DEF IDENTITY, HIGHER_HALF_DATA, HEAP_START_ADDR, HIGHER_HALF_CODE
    <3>4. CASE v[1] = HIGHER_HALF_CODE
      BY <3>4 DEF IDENTITY, HIGHER_HALF_DATA, HEAP_START_ADDR, HIGHER_HALF_CODE
    <3>5. CASE v[1] \notin {IDENTITY, HIGHER_HALF_DATA, HEAP_START_ADDR, HIGHER_HALF_CODE}
      BY <3>5 DEF IDENTITY, HIGHER_HALF_DATA, HEAP_START_ADDR, HIGHER_HALF_CODE
    <3> QED BY <3>2, <3>3, <3>4, <3>5
  <2> HIDE DEF asked
  <2> QED BY <1>4, <2>1, <2>4, <2>5 DEF IDENTITY, HIGHER_HALF_DATA, HEAP_START_ADDR, HIGHER_HALF_CODE
<1>11. InitialMappings = [v \in VirtualPage |->
                             IF Offset(v) \in asked(v[1]) THEN InitialMapping(v) ELSE NoEntry]
  BY DEF InitialMappings, InitialMapping
<1> HIDE DEF asked
<1> QED BY <1>10, <1>11 DEF BootInv, TypeOK

\* vmm_load_page_table: callers find the mappings of InitialMappings.
LEMMA LoadStep ==
    ASSUME MapBelow, VmmInv, vmm_load_page_table
    PROVE  VmmInv'
<1>1. /\ TypeOK /\ BootInv /\ idle /\ next > InitialRanges /\ phase = "mapping"
      /\ Tree(pmm_bitmap, memory, root) /\ AsAsked /\ pat = enable_pat
  BY DEF VmmInv, vmm_load_page_table
<1>2. wanted = InitialMappings
  BY <1>1, BootMapsAll
<1>3. phase' = "done" /\ UNCHANGED <<next, work, root, pmm_bitmap, memory, pat, tlb, wanted>>
  BY <1>2 DEF vmm_load_page_table
<1>4. TypeOK' /\ idle'
  BY <1>1, <1>3 DEF TypeOK, idle
<1>5. AsAsked'
  BY <1>1, <1>3 DEF AsAsked, Walk
<1> QED BY <1>1, <1>3, <1>4, <1>5 DEF VmmInv, WorkInv, ready

\* A caller's change at one page.
LEMMA ChangeStep ==
    ASSUME VmmInv, ready, idle, NEW c \in CPUs, NEW v \in VirtualPage, ChangedAt(c, v),
           UNCHANGED <<phase, next, work, pat, root>>
    PROVE  VmmInv'
<1>1. TypeOK /\ pat = enable_pat /\ phase = "done"
  BY DEF VmmInv, ready
<1>2. TypeOK'
  BY <1>1 DEF TypeOK, ChangedAt, Tree, Memories, Pages
<1> QED BY <1>1, <1>2 DEF VmmInv, ChangedAt, WorkInv, idle, ready

\* A caller starts on a range: its pages are in one region and, if they are to be
\* unmapped, mapped.
LEMMA RangeStarts ==
    ASSUME VmmInv, ready, NEW c \in CPUs, NEW map \in BOOLEAN, NEW frame \in Nat,
           NEW range \in CallerRanges, range.left > 0, NEW flags \in Flags, NEW type \in Types,
           map => PRESENT \in flags,
           ~map => \A n \in PageRange(range.page, range.left) :
                       wanted[InRegion(range.region, n)] # NoEntry,
           work' = [cpu |-> c, map |-> map, frame |-> frame, region |-> range.region,
                    page |-> range.page, left |-> range.left, flags |-> flags, type |-> type],
           UNCHANGED <<phase, next, root, pmm_bitmap, memory, pat, tlb, wanted>>
    PROVE  VmmInv'
<1>1. /\ range \in [region : Index, page : Nat, left : Nat]
      /\ range.page + range.left <= RegionPages
  BY VmmAssumption
<1>2. type \in 0 .. 7
  BY DEF Types, PAT_UNCACHEABLE, PAT_WRITE_COMBINING, PAT_WRITE_THROUGH, PAT_WRITE_PROTECTED,
         PAT_WRITE_BACK, PAT_UNCACHED
<1>3. work' \in [cpu : CPUs, map : BOOLEAN, frame : Nat, region : Index, page : Nat,
                 left : Nat, flags : Flags, type : 0 .. 7]
  BY <1>1, <1>2
<1>4. /\ TypeOK /\ phase = "done" /\ Tree(pmm_bitmap, memory, root) /\ AsAsked
      /\ pat = enable_pat
  BY DEF VmmInv, ready
<1>5. TypeOK'
  BY <1>3, <1>4 DEF TypeOK
<1>6. AsAsked'
  BY <1>4 DEF AsAsked, Walk
<1>7. WorkInv'
  BY <1>1, <1>4 DEF WorkInv
<1> QED BY <1>4, <1>5, <1>6, <1>7 DEF VmmInv, ready

\* What callers ask for, in the types of the lemmas.
LEMMA CallerInputs ==
    /\ Frames \subseteq Nat /\ VirtualPages \subseteq VirtualPage /\ CacheTypes \subseteq Types
    /\ FlagSets \subseteq Flags
    /\ \A flags \in FlagSets : PRESENT \in flags
<1>1. /\ PRESENT \in KERNEL_READ /\ PRESENT \in KERNEL_READ_WRITE
      /\ PRESENT \in USER_READ /\ PRESENT \in USER_READ_WRITE
      /\ KERNEL_READ \in Flags /\ KERNEL_READ_WRITE \in Flags
      /\ USER_READ \in Flags /\ USER_READ_WRITE \in Flags
  BY DEF KERNEL_READ, KERNEL_READ_WRITE, USER_READ, USER_READ_WRITE, Flags
<1> QED BY <1>1, VmmAssumption DEF Types

\* A processor that uses a page changes nothing but what it remembers.
LEMMA AccessStep ==
    ASSUME VmmInv, NEW c \in CPUs, NEW v \in VirtualPage, Access(c, v)
    PROVE  /\ VmmInv'
           /\ \A u \in VirtualPage : Walk(u)' = Walk(u)
           /\ \A d \in CPUs, u \in VirtualPage :
                  tlb'[d][u] = IF d = c /\ u = v THEN Walk(v) ELSE tlb[d][u]
<1>1. /\ TypeOK /\ phase = "done" /\ Tree(pmm_bitmap, memory, root) /\ AsAsked
      /\ pat = enable_pat /\ WorkInv
  BY DEF VmmInv, Access, ready
<1>2. Walk(v) \in Entry
  BY <1>1, WalkType DEF Walk
<1>3. UNCHANGED <<phase, next, work, root, pmm_bitmap, memory, pat, wanted>>
  BY DEF Access
<1>4. /\ tlb' \in [CPUs -> [VirtualPage -> Entry]]
      /\ \A d \in CPUs, u \in VirtualPage :
             tlb'[d][u] = IF d = c /\ u = v THEN Walk(v) ELSE tlb[d][u]
  <2>1. tlb' = [tlb EXCEPT ![c] = [tlb[c] EXCEPT ![v] = Walk(v)]]
    BY DEF Access
  <2>2. tlb \in [CPUs -> [VirtualPage -> Entry]]
    BY <1>1 DEF TypeOK
  <2> QED BY <1>2, <2>1, <2>2
<1>5. TypeOK'
  BY <1>1, <1>3, <1>4 DEF TypeOK
<1>6. \A u \in VirtualPage : Walk(u)' = Walk(u)
  BY <1>3 DEF Walk
<1>7. AsAsked'
  BY <1>1, <1>3, <1>6 DEF AsAsked
<1>8. WorkInv'
  BY <1>1, <1>3 DEF WorkInv, idle
<1> QED BY <1>1, <1>3, <1>4, <1>5, <1>6, <1>7, <1>8 DEF VmmInv, ready

\* Every step keeps the invariant, as long as it leaves a page and callers unmap only
\* what is mapped.
LEMMA VmmInvNext ==
    ASSUME 0 \in BootBitmap, MapBelow, ~UnmapAnything, VmmInv, [Next]_vars, PagesLeft'
    PROVE  VmmInv'
<1>1. CASE vmm_init
  BY <1>1, RootCreated
<1>2. CASE InitMapsRange
  BY <1>2, InitMapsRangeStep
<1>3. CASE RangePage
  BY <1>3, RangePageStep
<1>4. CASE vmm_load_page_table
  BY <1>4, LoadStep
<1>5. ASSUME NEW c \in CPUs, NEW frame \in Frames, NEW v \in VirtualPages, NEW flags \in FlagSets,
             NEW type \in CacheTypes, vmm_map_page(c, frame, v, flags, type)
      PROVE  VmmInv'
  <2>1. /\ frame \in Nat /\ v \in VirtualPage /\ flags \in Flags /\ PRESENT \in flags
        /\ type \in Types
    BY CallerInputs
  <2>2. /\ ready /\ idle /\ UNCHANGED <<phase, next, work, pat, root>>
        /\ Change(c, MapPage(Tables, root, frame, v, flags, type), v)
        /\ wanted' = [wanted EXCEPT ![v] = [frame |-> frame, flags |-> flags, cache |-> type]]
    BY <1>5 DEF vmm_map_page, Change
  <2>3. TypeOK /\ Tree(pmm_bitmap, memory, root) /\ AsAsked
    BY <2>2 DEF VmmInv, ready
  <2>4. ChangedAt(c, v)
    BY <2>1, <2>2, <2>3, MapChange
  <2> QED BY <2>1, <2>2, <2>4, ChangeStep
<1>6. ASSUME NEW c \in CPUs, NEW v \in VirtualPages, vmm_unmap_page(c, v)
      PROVE  VmmInv'
  <2>1. v \in VirtualPage
    BY CallerInputs
  <2>2. /\ ready /\ idle /\ UNCHANGED <<phase, next, work, pat, root>> /\ wanted[v] # NoEntry
        /\ Change(c, UnmapPage(Tables, root, v), v)
        /\ wanted' = [wanted EXCEPT ![v] = NoEntry]
    BY <1>6 DEF vmm_unmap_page, Change
  <2>3. TypeOK /\ Tree(pmm_bitmap, memory, root) /\ AsAsked
    BY <2>2 DEF VmmInv, ready
  <2>4. ChangedAt(c, v)
    BY <2>1, <2>2, <2>3, UnmapChange
  <2> QED BY <2>1, <2>2, <2>4, ChangeStep
<1>7. ASSUME NEW c \in CPUs, NEW v \in VirtualPages, Access(c, v)
      PROVE  VmmInv'
  <2>1. v \in VirtualPage
    BY CallerInputs
  <2> QED BY <1>7, <2>1, AccessStep
<1>8. ASSUME NEW c \in CPUs, NEW frame \in Frames, NEW range \in CallerRanges,
             NEW flags \in FlagSets, NEW type \in CacheTypes,
             vmm_map_range(c, frame, range, flags, type)
      PROVE  VmmInv'
  <2>1. frame \in Nat /\ flags \in Flags /\ PRESENT \in flags /\ type \in Types
    BY CallerInputs
  <2>2. /\ ready /\ range.left > 0
        /\ work' = [cpu |-> c, map |-> TRUE, frame |-> frame, region |-> range.region,
                    page |-> range.page, left |-> range.left, flags |-> flags, type |-> type]
        /\ UNCHANGED <<phase, next, root, pmm_bitmap, memory, pat, tlb, wanted>>
    BY <1>8 DEF vmm_map_range
  <2> QED BY <2>1, <2>2, RangeStarts
<1>9. ASSUME NEW c \in CPUs, NEW range \in CallerRanges, vmm_unmap_range(c, range)
      PROVE  VmmInv'
  <2>1. {} \in Flags /\ PAT_UNCACHEABLE \in Types /\ 0 \in Nat
    BY DEF Flags, Types
  <2>2. /\ ready /\ range.left > 0
        /\ \A n \in PageRange(range.page, range.left) :
               wanted[InRegion(range.region, n)] # NoEntry
        /\ work' = [cpu |-> c, map |-> FALSE, frame |-> 0, region |-> range.region,
                    page |-> range.page, left |-> range.left, flags |-> {},
                    type |-> PAT_UNCACHEABLE]
        /\ UNCHANGED <<phase, next, root, pmm_bitmap, memory, pat, tlb, wanted>>
    BY <1>9 DEF vmm_unmap_range
  <2> QED BY <2>1, <2>2, RangeStarts
<1>10. CASE UNCHANGED vars
  BY <1>10 DEF vars, VmmInv, TypeOK, AsAsked, Walk, BootInv, MappedAtBoot, Mapped, WorkInv, TlbEmpty,
               ready, idle
<1> QED BY <1>1, <1>2, <1>3, <1>4, <1>5, <1>6, <1>7, <1>8, <1>9, <1>10 DEF Next

-----------------------------------------------------------------------------
(* The theorems.  Their hypotheses are what the code relies on: page 0 is  *)
(* not free, the memory map lists nothing above the first 4 GiB, callers   *)
(* unmap only what is mapped, and there always is a page left.             *)

Premises == 0 \in BootBitmap /\ MapBelow /\ ~UnmapAnything

\* The invariant holds in every state of a run in which pages are left.
LEMMA VmmInvariant ==
    ASSUME Premises PROVE Spec /\ []PagesLeft => []VmmInv
<1>1. Init => VmmInv
  BY InitStep
<1>2. VmmInv /\ [Next]_vars /\ PagesLeft' => VmmInv'
  BY VmmInvNext DEF Premises
<1> QED BY <1>1, <1>2, PTL DEF Spec

\* vmm_init and the functions it calls keep every variable in its type, for tables of
\* any size and ranges of any length: no index leaves its table, no table leaves memory.
THEOREM TypesKept ==
    ASSUME Premises PROVE Spec /\ []PagesLeft => []TypeOK
<1>1. VmmInv => TypeOK
  BY DEF VmmInv
<1> QED BY <1>1, VmmInvariant, PTL

\* Once vmm_init has returned, the processor's walk through the tables finds for every
\* virtual page the frame of the last vmm_map_page or vmm_map_range, and nothing where
\* none or an unmap was last.
THEOREM TranslatesAsAsked ==
    ASSUME Premises PROVE Spec /\ []PagesLeft => []TranslationAsAsked
<1>1. ASSUME VmmInv PROVE TranslationAsAsked
  <2> SUFFICES ASSUME ready, NEW v \in VirtualPage
               PROVE  /\ Walk(v).frame = wanted[v].frame
                      /\ (Walk(v) = NoEntry) = (wanted[v] = NoEntry)
    BY DEF TranslationAsAsked
  <2>1. Agrees(Walk(v), wanted[v])
    BY <1>1 DEF VmmInv, ready, AsAsked
  <2> QED BY <2>1, NoEntryFacts DEF Agrees
<1> QED BY <1>1, VmmInvariant, PTL

\* The bits vmm_pat_cache_to_flags gives a type select the entry of the page attribute
\* table in which enable_pat has put that type.
LEMMA PatSelects ==
    ASSUME NEW type \in Types
    PROVE  enable_pat[vmm_pat_cache_to_flags(type)] = type
<1> USE DEF PAT_UNCACHEABLE, PAT_WRITE_COMBINING, PAT_WRITE_THROUGH, PAT_WRITE_PROTECTED,
            PAT_WRITE_BACK, PAT_UNCACHED, PWT, PCD, PAT
<1>1. vmm_pat_cache_to_flags(type) = type
  <2>1. CASE type = 0
    BY <2>1 DEF vmm_pat_cache_to_flags
  <2>2. CASE type = 1
    BY <2>2 DEF vmm_pat_cache_to_flags
  <2>3. CASE type = 4
    BY <2>3 DEF vmm_pat_cache_to_flags
  <2>4. CASE type = 5
    BY <2>4 DEF vmm_pat_cache_to_flags
  <2>5. CASE type = 6
    BY <2>5 DEF vmm_pat_cache_to_flags
  <2>6. CASE type = 7
    BY <2>6 DEF vmm_pat_cache_to_flags
  <2> QED BY <2>1, <2>2, <2>3, <2>4, <2>5, <2>6 DEF Types
<1> QED BY <1>1 DEF enable_pat, Types

\* Every mapped page is cached the way its last mapping asked for: the bits written by
\* vmm_set_pt_value select that type in the table enable_pat has written.
THEOREM CachesAsAsked ==
    ASSUME Premises PROVE Spec /\ []PagesLeft => []CachingAsAsked
<1>1. ASSUME VmmInv PROVE CachingAsAsked
  <2> SUFFICES ASSUME ready, NEW v \in VirtualPage, Walk(v) # NoEntry
               PROVE  pat[Walk(v).cache] = wanted[v].cache
    BY DEF CachingAsAsked
  <2>1. Agrees(Walk(v), wanted[v]) /\ pat = enable_pat
    BY <1>1 DEF VmmInv, ready, AsAsked
  <2>2. /\ wanted[v].cache \in Types
        /\ Walk(v).cache = vmm_pat_cache_to_flags(wanted[v].cache)
    BY <2>1 DEF Agrees
  <2> QED BY <2>1, <2>2, PatSelects
<1> QED BY <1>1, VmmInvariant, PTL

\* However pages are mapped and unmapped, every table is reached by one path only, none
\* is page 0 or was in use before vmm_init, and every page taken from the physical
\* memory manager is a table in use (vmm_get_or_create_pml, vmm_set_pt_value).
THEOREM TablesAreATree ==
    ASSUME Premises PROVE Spec /\ []PagesLeft => []TablesAccountedFor
<1>1. ASSUME VmmInv, ready PROVE TablesNotShared /\ TablePagesAccountedFor
  <2>1. Tree(pmm_bitmap, memory, root)
    BY <1>1 DEF VmmInv, ready
  <2>2. Pdpts = L2(memory, root) /\ Pds = L3(memory, root) /\ Pts = L4(memory, root)
    BY DEF Pdpts, Pds, Pts, L2, L3, L4
  <2> DEFINE inner == {root} \cup Pdpts \cup Pds
  <2>3. ASSUME NEW s1 \in Slots(memory, inner), NEW s2 \in Slots(memory, inner),
               memory[s1[1]][s1[2]].frame = memory[s2[1]][s2[2]].frame
        PROVE  s1 = s2
    <3>1. OneParent(memory, inner)
      BY <2>1, <2>2 DEF Tree
    <3> HIDE DEF inner
    <3>2. /\ s1[1] \in inner /\ s1[2] \in Index /\ s1 = <<s1[1], s1[2]>>
          /\ s2[1] \in inner /\ s2[2] \in Index /\ s2 = <<s2[1], s2[2]>>
          /\ PRESENT \in memory[s1[1]][s1[2]].flags
          /\ PRESENT \in memory[s2[1]][s2[2]].flags
      BY DEF Slots
    <3>3. s1[1] = s2[1] /\ s1[2] = s2[2]
      BY <2>3, <3>1, <3>2 DEF OneParent
    <3> QED BY <3>2, <3>3
  <2>4. /\ root \notin Pdpts \cup Pds \cup Pts
        /\ pmm_bitmap = BootBitmap \cup {root} \cup Pdpts \cup Pds \cup Pts
        /\ BootBitmap \cap ({root} \cup Pdpts \cup Pds \cup Pts) = {}
    BY <2>1, <2>2 DEF Tree
  <2>5. /\ NULL \notin {root} \cup Pdpts \cup Pds \cup Pts
        /\ {root} \cup Pdpts \cup Pds \cup Pts \subseteq pmm_bitmap \ BootBitmap
    BY <2>4 DEF Premises, NULL
  <2> QED BY <2>3, <2>4, <2>5 DEF TablesNotShared, TablePagesAccountedFor
<1>2. ASSUME VmmInv PROVE TablesAccountedFor
  BY <1>1, <1>2 DEF TablesAccountedFor, TablesNotShared, TablePagesAccountedFor
<1> QED BY <1>2, VmmInvariant, PTL

-----------------------------------------------------------------------------
(* Remembered translations, on a machine with one processor. *)

\* What the processors remember is what the tables have.
Fresh == \A c \in CPUs, v \in VirtualPage : tlb[c][v] \in {NoEntry, Walk(v)}

\* A change at v by the only processor, which forgets v, leaves nothing stale.
LEMMA FreshAfterChange ==
    ASSUME CPUs = {BootCpu}, Fresh, NEW c \in CPUs, NEW v \in VirtualPage, ChangedAt(c, v)
    PROVE  Fresh'
<1> SUFFICES ASSUME NEW d \in CPUs, NEW u \in VirtualPage PROVE tlb'[d][u] \in {NoEntry, Walk(u)'}
  BY DEF Fresh
<1>1. d = c
  OBVIOUS
<1>2. tlb'[d][u] = IF u = v THEN NoEntry ELSE tlb[d][u]
  BY <1>1 DEF ChangedAt
<1>3. u # v => Walk(u)' = Walk(u)
  BY DEF ChangedAt
<1> QED BY <1>2, <1>3 DEF Fresh

\* Every step of such a machine keeps it.
LEMMA FreshNext ==
    ASSUME Premises, CPUs = {BootCpu}, VmmInv, VmmInv', Fresh, [Next]_vars, PagesLeft'
    PROVE  Fresh'
<1>e. TlbEmpty' => Fresh'
  BY DEF TlbEmpty, Fresh
<1>1. CASE vmm_init \/ InitMapsRange
  BY <1>e, <1>1 DEF VmmInv, vmm_init, InitMapsRange, ready
<1>2. CASE RangePage
  <2>1. PICK v \in VirtualPage : ChangedAt(work.cpu, v)
    BY <1>2, RangePageIs DEF Premises
  <2>2. work.cpu \in CPUs
    BY DEF VmmInv, TypeOK
  <2> QED BY <2>1, <2>2, FreshAfterChange
<1>3. CASE vmm_load_page_table
  BY <1>e, <1>3 DEF vmm_load_page_table, VmmInv, TlbEmpty, ready
<1>4. ASSUME NEW c \in CPUs, NEW frame \in Frames, NEW v \in VirtualPages, NEW flags \in FlagSets,
             NEW type \in CacheTypes, vmm_map_page(c, frame, v, flags, type)
      PROVE  Fresh'
  <2>1. /\ frame \in Nat /\ v \in VirtualPage /\ flags \in Flags /\ PRESENT \in flags
        /\ type \in Types
    BY CallerInputs
  <2>2. /\ ready
        /\ Change(c, MapPage(Tables, root, frame, v, flags, type), v)
        /\ wanted' = [wanted EXCEPT ![v] = [frame |-> frame, flags |-> flags, cache |-> type]]
    BY <1>4 DEF vmm_map_page
  <2>3. TypeOK /\ Tree(pmm_bitmap, memory, root) /\ AsAsked /\ 0 \in BootBitmap
    BY <2>2 DEF VmmInv, ready, Premises
  <2>4. ChangedAt(c, v)
    BY <2>1, <2>2, <2>3, MapChange
  <2> QED BY <2>1, <2>4, FreshAfterChange
<1>5. ASSUME NEW c \in CPUs, NEW v \in VirtualPages, vmm_unmap_page(c, v)
      PROVE  Fresh'
  <2>1. v \in VirtualPage
    BY CallerInputs
  <2>2. /\ ready /\ wanted[v] # NoEntry
        /\ Change(c, UnmapPage(Tables, root, v), v)
        /\ wanted' = [wanted EXCEPT ![v] = NoEntry]
    BY <1>5 DEF vmm_unmap_page, Premises
  <2>3. TypeOK /\ Tree(pmm_bitmap, memory, root) /\ AsAsked
    BY <2>2 DEF VmmInv, ready
  <2>4. ChangedAt(c, v)
    BY <2>1, <2>2, <2>3, UnmapChange
  <2> QED BY <2>1, <2>4, FreshAfterChange
<1>6. ASSUME NEW c \in CPUs, NEW v \in VirtualPages, Access(c, v)
      PROVE  Fresh'
  <2>1. v \in VirtualPage
    BY CallerInputs
  <2>2. /\ \A u \in VirtualPage : Walk(u)' = Walk(u)
        /\ \A d \in CPUs, u \in VirtualPage :
               tlb'[d][u] = IF d = c /\ u = v THEN Walk(v) ELSE tlb[d][u]
    BY <1>6, <2>1, AccessStep
  <2> QED BY <2>2 DEF Fresh
<1>7. ASSUME UNCHANGED <<root, memory, tlb>> PROVE Fresh'
  BY <1>7 DEF Fresh, Walk
<1>8. ASSUME NEW c \in CPUs, NEW frame \in Frames, NEW range \in CallerRanges,
             NEW flags \in FlagSets, NEW type \in CacheTypes,
             vmm_map_range(c, frame, range, flags, type)
      PROVE  Fresh'
  BY <1>7, <1>8 DEF vmm_map_range
<1>9. ASSUME NEW c \in CPUs, NEW range \in CallerRanges, vmm_unmap_range(c, range)
      PROVE  Fresh'
  BY <1>7, <1>9 DEF vmm_unmap_range
<1>10. CASE UNCHANGED vars
  BY <1>7, <1>10 DEF vars
<1> QED BY <1>1, <1>2, <1>3, <1>4, <1>5, <1>6, <1>8, <1>9, <1>10 DEF Next

\* On one processor the invlpg at the end of vmm_map_page and vmm_unmap_page is enough:
\* no translation is remembered that the tables do not have any more.
THEOREM NothingStale ==
    ASSUME Premises, CPUs = {BootCpu}
    PROVE  Spec /\ []PagesLeft => []NoStaleTranslation
<1>1. Init => Fresh
  BY DEF Init, Fresh
<1>2. VmmInv /\ VmmInv' /\ Fresh /\ [Next]_vars /\ PagesLeft' => Fresh'
  BY FreshNext
<1>3. Fresh => NoStaleTranslation
  BY CallerInputs DEF Fresh, NoStaleTranslation
<1> QED BY <1>1, <1>2, <1>3, VmmInvariant, PTL DEF Spec
=============================================================================
