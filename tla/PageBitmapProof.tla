-------------------------- MODULE PageBitmapProof ---------------------------
(***************************************************************************)
(* What the operators of module PageBitmap compute, for every page size,   *)
(* and the facts about least and greatest numbers behind it.  The proofs   *)
(* about the page allocator and about its callers rest on these lemmas.    *)
(***************************************************************************)
EXTENDS PageBitmap, TLAPS, WellFoundedInduction

-----------------------------------------------------------------------------
(* Least and greatest numbers. *)

\* A nonempty set of numbers has a least element, and Min chooses it: the
\* first index that pmm_find_first_free_page_range accepts, the first entry
\* that hosts the bitmap.
LEMMA MinIsLeast ==
    ASSUME NEW S, S \subseteq Nat, S # {}
    PROVE  Min(S) \in S /\ \A x \in S : Min(S) <= x
<1>1. \E x \in S : \A y \in S : ~(<<y, x>> \in OpToRel(<, Nat))
  BY NatLessThanWellFounded, WFMin, Zenon
<1>2. \E x \in S : \A y \in S : x <= y
  <2>1. PICK x \in S : \A y \in S : ~(<<y, x>> \in OpToRel(<, Nat))
    BY <1>1, Zenon
  <2>2. \A y \in S : ~(y < x)
    BY <2>1, Zenon DEF OpToRel
  <2> QED BY <2>2
<1> QED BY <1>2 DEF Min

\* A finite sequence of numbers is bounded (the entries of a memory map).
LEMMA SequenceIsBounded ==
    \A n \in Nat : \A f \in [1 .. n -> Nat] :
        \E m \in Nat : \A i \in 1 .. n : f[i] <= m
<1> DEFINE Bounded(n) == \A f \in [1 .. n -> Nat] :
                             \E m \in Nat : \A i \in 1 .. n : f[i] <= m
           T == {n \in Nat : ~Bounded(n)}
<1>1. SUFFICES ASSUME T # {} PROVE FALSE
  OBVIOUS
<1>2. PICK k \in Nat : k \in T /\ \A x \in T : k <= x
  <2> HIDE DEF Bounded
  <2> QED BY <1>1, MinIsLeast
<1>3. ~Bounded(k)
  BY <1>2
<1>4. k # 0
  BY <1>3
<1>5. k - 1 \in Nat /\ Bounded(k - 1)
  <2> HIDE DEF Bounded
  <2> QED BY <1>2, <1>3, <1>4
<1>6. Bounded(k)
  <2> SUFFICES ASSUME NEW f \in [1 .. k -> Nat]
               PROVE  \E m \in Nat : \A i \in 1 .. k : f[i] <= m
    OBVIOUS
  <2> HIDE DEF T
  <2> DEFINE g == [i \in 1 .. k - 1 |-> f[i]]
  <2>1. g \in [1 .. k - 1 -> Nat]
    OBVIOUS
  <2>2. PICK m \in Nat : \A i \in 1 .. k - 1 : g[i] <= m
    BY <2>1, <1>5
  <2>3. \A i \in 1 .. k - 1 : f[i] <= m
    BY <2>2
  <2>4. f[k] \in Nat
    BY <1>4
  <2>5. \A i \in 1 .. k : f[i] <= m + f[k]
    BY <1>4, <2>3, <2>4
  <2>6. m + f[k] \in Nat
    BY <2>4
  <2> QED BY <2>5, <2>6
<1> QED BY <1>3, <1>6

\* A bounded nonempty set of numbers has a greatest element, and Max chooses
\* it (highest_page_top).
LEMMA MaxIsGreatest ==
    ASSUME NEW S, S \subseteq Nat, S # {},
           NEW b \in Nat, \A x \in S : x <= b
    PROVE  Max(S) \in S /\ \A x \in S : x <= Max(S)
<1> DEFINE B == {m \in Nat : \A x \in S : x <= m}
<1>1. PICK t \in B : \A m \in B : t <= m
  BY MinIsLeast
<1>2. t \in S
  <2>1. SUFFICES ASSUME t \notin S PROVE FALSE
    OBVIOUS
  <2>2. \A x \in S : x <= t /\ x # t
    BY <1>1, <2>1
  <2>3. t \in Nat /\ t > 0
    <3>1. PICK x \in S : TRUE
      OBVIOUS
    <3>2. x \in Nat /\ t \in Nat /\ x <= t /\ x # t
      BY <1>1, <2>2
    <3> QED BY <3>2
  <2>4. t - 1 \in B
    BY <2>2, <2>3
  <2> QED BY <1>1, <2>3, <2>4
<1>3. \E x \in S : \A y \in S : x >= y
  BY <1>1, <1>2
<1> QED BY <1>3 DEF Max

-----------------------------------------------------------------------------
(* The page arithmetic of mem.h. *)

\* PAGE_TO_BIT undoes BIT_TO_PAGE, and only page 0 has the address NULL.
LEMMA BitOfPage ==
    ASSUME NEW i \in Nat
    PROVE  /\ BIT_TO_PAGE(i) \in Nat
           /\ PAGE_TO_BIT(BIT_TO_PAGE(i)) = i
           /\ BIT_TO_PAGE(i) = NULL <=> i = 0
BY PageSizeAssumption DEF BIT_TO_PAGE, PAGE_TO_BIT, NULL

\* An address has a page number, not above the address.
LEMMA BitType ==
    ASSUME NEW a \in Nat
    PROVE  PAGE_TO_BIT(a) \in Nat /\ PAGE_TO_BIT(a) <= a /\ PAGE_TO_BIT(0) = 0
BY PageSizeAssumption DEF PAGE_TO_BIT

\* The pages of a range are numbers.
LEMMA PageRangeType ==
    ASSUME NEW i \in Nat, NEW n \in Nat
    PROVE  PageRange(i, n) \subseteq Nat
BY DEF PageRange

-----------------------------------------------------------------------------
(* pmm_find_first_free_page_range *)

\* What the search accepts is below the top and its own bit is clear.
LEMMA CandidateIsFree ==
    ASSUME NEW bitmap, NEW top \in Nat, NEW n \in Nat, NEW i \in Candidates(bitmap, top, n)
    PROVE  n > 0 /\ i \in Nat /\ i \in 0 .. PAGE_TO_BIT(top) - 1 /\ i \notin bitmap
<1>1. PAGE_TO_BIT(top) \in Nat
  BY BitType
<1>2. i \in 0 .. PAGE_TO_BIT(top) - 1 /\ RangeLooksFree(bitmap, i, n)
  BY DEF Candidates
<1>3. n > 0 /\ i + PAGE_TO_BIT(0) \notin bitmap
  BY <1>2 DEF RangeLooksFree, bitmap_check_bit
<1> QED BY <1>1, <1>2, <1>3, BitType

\* A pointer other than NULL is the address of the least page it accepts.
LEMMA SearchResult ==
    ASSUME NEW bitmap, NEW top \in Nat, NEW n \in Nat
    PROVE  LET p == pmm_find_first_free_page_range(bitmap, top, n)
           IN  /\ p \in Nat
               /\ PAGE_TO_BIT(p) \in Nat
               /\ p # NULL =>
                      /\ n > 0
                      /\ p = BIT_TO_PAGE(PAGE_TO_BIT(p))
                      /\ PAGE_TO_BIT(p) \in 0 .. PAGE_TO_BIT(top) - 1
                      /\ PAGE_TO_BIT(p) \notin bitmap
                      /\ PAGE_TO_BIT(p) \in Candidates(bitmap, top, n)
                      /\ \A i \in Candidates(bitmap, top, n) : PAGE_TO_BIT(p) <= i
<1> DEFINE p == pmm_find_first_free_page_range(bitmap, top, n)
           C == Candidates(bitmap, top, n)
<1>1. CASE C = {}
  <2>1. p = 0
    BY <1>1 DEF pmm_find_first_free_page_range, NULL
  <2> QED BY <2>1, BitType DEF NULL
<1>2. CASE C # {}
  <2>1. p = BIT_TO_PAGE(Min(C))
    BY <1>2 DEF pmm_find_first_free_page_range
  <2>2. C \subseteq Nat
    BY CandidateIsFree
  <2>3. Min(C) \in C /\ \A i \in C : Min(C) <= i
    BY <1>2, <2>2, MinIsLeast
  <2>4. p \in Nat /\ PAGE_TO_BIT(p) = Min(C)
    <3> HIDE DEF C
    <3> QED BY <2>1, <2>2, <2>3, BitOfPage
  <2>5. n > 0 /\ Min(C) \in Nat /\ Min(C) \in 0 .. PAGE_TO_BIT(top) - 1 /\ Min(C) \notin bitmap
    BY <2>3, CandidateIsFree
  <2> HIDE DEF p, C
  <2>6. /\ p \in Nat /\ PAGE_TO_BIT(p) \in Nat
        /\ n > 0 /\ p = BIT_TO_PAGE(PAGE_TO_BIT(p))
        /\ PAGE_TO_BIT(p) \in 0 .. PAGE_TO_BIT(top) - 1 /\ PAGE_TO_BIT(p) \notin bitmap
        /\ PAGE_TO_BIT(p) \in C /\ \A i \in C : PAGE_TO_BIT(p) <= i
    BY <2>1, <2>3, <2>4, <2>5
  <2> QED BY <2>6 DEF p, C
<1> QED BY <1>1, <1>2

\* The search for one page returns NULL only if no page is free, but for page 0,
\* whose address is NULL.
LEMMA NothingFound ==
    ASSUME NEW bitmap, NEW top \in Nat, 0 \in bitmap,
           pmm_find_first_free_page_range(bitmap, top, 1) = NULL
    PROVE  (0 .. PAGE_TO_BIT(top) - 1) \ bitmap = {}
<1>1. SUFFICES ASSUME NEW i \in (0 .. PAGE_TO_BIT(top) - 1) \ bitmap PROVE FALSE
  OBVIOUS
<1>2. PAGE_TO_BIT(top) \in Nat /\ PAGE_TO_BIT(0) = 0
  BY BitType
<1>3. RangeLooksFree(bitmap, i, 1)
  BY <1>2 DEF RangeLooksFree, bitmap_check_bit
<1>4. i \in Candidates(bitmap, top, 1)
  BY <1>3 DEF Candidates
<1> DEFINE C == Candidates(bitmap, top, 1)
<1>5. C \subseteq Nat /\ 0 \notin C
  BY CandidateIsFree
<1>6. Min(C) \in C
  BY <1>4, <1>5, MinIsLeast
<1>7. pmm_find_first_free_page_range(bitmap, top, 1) = BIT_TO_PAGE(Min(C))
  BY <1>4 DEF pmm_find_first_free_page_range
<1> HIDE DEF C
<1> QED BY <1>5, <1>6, <1>7, BitOfPage
=============================================================================
