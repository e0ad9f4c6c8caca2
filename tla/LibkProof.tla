----------------------------- MODULE LibkProof ------------------------------
(***************************************************************************)
(* The theorems about libk: the heap of libk/malloc for every number of    *)
(* pages, buffers and blocks and every size, and the spinlock of libk/lock *)
(* for any number of CPUs.                                                 *)
(***************************************************************************)
EXTENDS Malloc, Spinlock, PageBitmapProof, FiniteSetTheorems, SequenceTheorems

-----------------------------------------------------------------------------
(* next_power_of_two *)

TenBits == 0 .. 1023

\* The ten bits of a number below 1024, one by one.
LEMMA BitsOf ==
    ASSUME NEW n \in TenBits
    PROVE  /\ 0 \in Bits(n) <=> n % 2 = 1
           /\ 1 \in Bits(n) <=> (n \div 2) % 2 = 1
           /\ 2 \in Bits(n) <=> (n \div 4) % 2 = 1
           /\ 3 \in Bits(n) <=> (n \div 8) % 2 = 1
           /\ 4 \in Bits(n) <=> (n \div 16) % 2 = 1
           /\ 5 \in Bits(n) <=> (n \div 32) % 2 = 1
           /\ 6 \in Bits(n) <=> (n \div 64) % 2 = 1
           /\ 7 \in Bits(n) <=> (n \div 128) % 2 = 1
           /\ 8 \in Bits(n) <=> (n \div 256) % 2 = 1
           /\ 9 \in Bits(n) <=> (n \div 512) % 2 = 1
           /\ Bits(n) \subseteq 0 .. 9
<1>1. 2 ^ 0 = 1 /\ 2 ^ 1 = 2 /\ 2 ^ 2 = 4 /\ 2 ^ 3 = 8 /\ 2 ^ 4 = 16
  OBVIOUS
<1>2. 2 ^ 5 = 32 /\ 2 ^ 6 = 64 /\ 2 ^ 7 = 128 /\ 2 ^ 8 = 256 /\ 2 ^ 9 = 512
  OBVIOUS
<1> QED BY <1>1, <1>2 DEF Bits, TenBits

\* A number is what its bits say.
LEMMA BitsAreEnough ==
    ASSUME NEW n \in TenBits, NEW m \in TenBits, Bits(n) = Bits(m)
    PROVE  n = m
<1> n \in 0 .. 1023 /\ m \in 0 .. 1023
  BY DEF TenBits
<1>1. ASSUME NEW x \in Nat
      PROVE  x = 2 * (x \div 2) + (x % 2) /\ x % 2 \in {0, 1}
  OBVIOUS
<1>2. ASSUME NEW x \in Nat, NEW y \in Nat, x % 2 = 1 <=> y % 2 = 1, x \div 2 = y \div 2
      PROVE  x = y
  BY <1>1, <1>2
<1>3. n \div 512 = m \div 512
  <2>1. 9 \in Bits(n) <=> (n \div 512) % 2 = 1
    BY BitsOf, SMT
  <2>2. 9 \in Bits(m) <=> (m \div 512) % 2 = 1
    BY BitsOf, SMT
  <2>3. (n \div 512) \div 2 = n \div 1024 /\ (m \div 512) \div 2 = m \div 1024
    OBVIOUS
  <2>4. n \div 1024 = m \div 1024
    OBVIOUS
  <2> QED BY <1>2, <2>4, <2>1, <2>2, <2>3
<1>4. n \div 256 = m \div 256
  <2>1. 8 \in Bits(n) <=> (n \div 256) % 2 = 1
    BY BitsOf, SMT
  <2>2. 8 \in Bits(m) <=> (m \div 256) % 2 = 1
    BY BitsOf, SMT
  <2>3. (n \div 256) \div 2 = n \div 512 /\ (m \div 256) \div 2 = m \div 512
    OBVIOUS
  <2> QED BY <1>2, <1>3, <2>1, <2>2, <2>3
<1>5. n \div 128 = m \div 128
  <2>1. 7 \in Bits(n) <=> (n \div 128) % 2 = 1
    BY BitsOf, SMT
  <2>2. 7 \in Bits(m) <=> (m \div 128) % 2 = 1
    BY BitsOf, SMT
  <2>3. (n \div 128) \div 2 = n \div 256 /\ (m \div 128) \div 2 = m \div 256
    OBVIOUS
  <2> QED BY <1>2, <1>4, <2>1, <2>2, <2>3
<1>6. n \div 64 = m \div 64
  <2>1. 6 \in Bits(n) <=> (n \div 64) % 2 = 1
    BY BitsOf, SMT
  <2>2. 6 \in Bits(m) <=> (m \div 64) % 2 = 1
    BY BitsOf, SMT
  <2>3. (n \div 64) \div 2 = n \div 128 /\ (m \div 64) \div 2 = m \div 128
    OBVIOUS
  <2> QED BY <1>2, <1>5, <2>1, <2>2, <2>3
<1>7. n \div 32 = m \div 32
  <2>1. 5 \in Bits(n) <=> (n \div 32) % 2 = 1
    BY BitsOf, SMT
  <2>2. 5 \in Bits(m) <=> (m \div 32) % 2 = 1
    BY BitsOf, SMT
  <2>3. (n \div 32) \div 2 = n \div 64 /\ (m \div 32) \div 2 = m \div 64
    OBVIOUS
  <2> QED BY <1>2, <1>6, <2>1, <2>2, <2>3
<1>8. n \div 16 = m \div 16
  <2>1. 4 \in Bits(n) <=> (n \div 16) % 2 = 1
    BY BitsOf, SMT
  <2>2. 4 \in Bits(m) <=> (m \div 16) % 2 = 1
    BY BitsOf, SMT
  <2>3. (n \div 16) \div 2 = n \div 32 /\ (m \div 16) \div 2 = m \div 32
    OBVIOUS
  <2> QED BY <1>2, <1>7, <2>1, <2>2, <2>3
<1>9. n \div 8 = m \div 8
  <2>1. 3 \in Bits(n) <=> (n \div 8) % 2 = 1
    BY BitsOf, SMT
  <2>2. 3 \in Bits(m) <=> (m \div 8) % 2 = 1
    BY BitsOf, SMT
  <2>3. (n \div 8) \div 2 = n \div 16 /\ (m \div 8) \div 2 = m \div 16
    OBVIOUS
  <2> QED BY <1>2, <1>8, <2>1, <2>2, <2>3
<1>10. n \div 4 = m \div 4
  <2>1. 2 \in Bits(n) <=> (n \div 4) % 2 = 1
    BY BitsOf, SMT
  <2>2. 2 \in Bits(m) <=> (m \div 4) % 2 = 1
    BY BitsOf, SMT
  <2>3. (n \div 4) \div 2 = n \div 8 /\ (m \div 4) \div 2 = m \div 8
    OBVIOUS
  <2> QED BY <1>2, <1>9, <2>1, <2>2, <2>3
<1>11. n \div 2 = m \div 2
  <2>1. 1 \in Bits(n) <=> (n \div 2) % 2 = 1
    BY BitsOf, SMT
  <2>2. 1 \in Bits(m) <=> (m \div 2) % 2 = 1
    BY BitsOf, SMT
  <2>3. (n \div 2) \div 2 = n \div 4 /\ (m \div 2) \div 2 = m \div 4
    OBVIOUS
  <2> QED BY <1>2, <1>10, <2>1, <2>2, <2>3
<1>12. n = m
  <2>1. 0 \in Bits(n) <=> n % 2 = 1
    BY BitsOf, SMT
  <2>2. 0 \in Bits(m) <=> m % 2 = 1
    BY BitsOf, SMT
  <2>3. n \div 2 = n \div 2 /\ m \div 2 = m \div 2
    OBVIOUS
  <2> QED BY <1>2, <1>11, <2>1, <2>2, <2>3
<1> QED BY <1>12

\* The numbers whose bits are the lowest.
Ones == {<<4, 31>>, <<5, 63>>, <<6, 127>>, <<7, 255>>, <<8, 511>>}

LEMMA OnesNumber ==
    ASSUME NEW top, NEW n, <<top, n>> \in Ones
    PROVE  Number(0 .. top) = n
<1>1. n \in TenBits /\ top \in 4 .. 8
  BY DEF Ones, TenBits
<1>2. Bits(n) = 0 .. top
  <2>1. CASE top = 4 /\ n = 31
    BY <1>1, <2>1, BitsOf
  <2>2. CASE top = 5 /\ n = 63
    BY <1>1, <2>2, BitsOf
  <2>3. CASE top = 6 /\ n = 127
    BY <1>1, <2>3, BitsOf
  <2>4. CASE top = 7 /\ n = 255
    BY <1>1, <2>4, BitsOf
  <2>5. CASE top = 8 /\ n = 511
    BY <1>1, <2>5, BitsOf
  <2> QED BY <2>1, <2>2, <2>3, <2>4, <2>5 DEF Ones
<1>3. ASSUME NEW m \in TenBits, Bits(m) = 0 .. top
      PROVE  m = n
  <2>1. Bits(m) = Bits(n)
    BY <1>2, <1>3, Zenon
  <2> QED BY <1>1, <2>1, BitsAreEnough, Zenon
<1>4. (CHOOSE m \in TenBits : Bits(m) = 0 .. top) = n
  BY <1>1, <1>2, <1>3, Zenon
<1> QED BY <1>4 DEF Number, TenBits

\* What a shift adds.
LEMMA SmearAdds ==
    ASSUME NEW top \in 4 .. 8, NEW B, B \subseteq 0 .. top, NEW s \in Nat \ {0}
    PROVE  /\ Smear(B, s) \subseteq 0 .. top
           /\ B \subseteq Smear(B, s)
           /\ \A k \in B : k >= s => k - s \in Smear(B, s)
<1>1. B \subseteq Smear(B, s)
  BY DEF Smear
<1>2. ASSUME NEW k \in B, k >= s
      PROVE  k - s \in Smear(B, s)
  BY <1>2 DEF Smear
<1>3. ASSUME NEW x \in Smear(B, s), x \notin B
      PROVE  x \in 0 .. top
  <2>1. PICK k \in B : k >= s /\ x = k - s
    BY <1>3 DEF Smear
  <2>2. k \in 0 .. top
    OBVIOUS
  <2> QED BY <2>1, <2>2
<1> QED BY <1>1, <1>2, <1>3

\* The shifts spread the highest bit over all below it.
LEMMA SmearFills ==
    ASSUME NEW top \in 4 .. 8, NEW B, B \subseteq 0 .. top, top \in B
    PROVE  Smear(Smear(Smear(Smear(Smear(B, 1), 2), 4), 8), 16) = 0 .. top
<1> DEFINE B1 == Smear(B, 1)
           B2 == Smear(B1, 2)
           B3 == Smear(B2, 4)
           B4 == Smear(B3, 8)
           B5 == Smear(B4, 16)
<1>1. B1 \subseteq 0 .. top /\ B \subseteq B1 /\ \A k \in B : k >= 1 => k - 1 \in B1
  <2> DEFINE shift == 1
  <2>1. shift \in Nat \ {0}
    OBVIOUS
  <2> HIDE DEF shift
  <2>2. Smear(B, shift) \subseteq 0 .. top /\ B \subseteq Smear(B, shift)
        /\ \A k \in B : k >= shift => k - shift \in Smear(B, shift)
    BY <2>1, SmearAdds, Zenon
  <2> QED BY <2>2 DEF shift
<1> HIDE DEF B1
<1>2. B2 \subseteq 0 .. top /\ B1 \subseteq B2 /\ \A k \in B1 : k >= 2 => k - 2 \in B2
  <2> DEFINE shift == 2
  <2>1. shift \in Nat \ {0}
    OBVIOUS
  <2> HIDE DEF shift
  <2>2. Smear(B1, shift) \subseteq 0 .. top /\ B1 \subseteq Smear(B1, shift)
        /\ \A k \in B1 : k >= shift => k - shift \in Smear(B1, shift)
    BY <1>1, <2>1, SmearAdds, Zenon
  <2> QED BY <2>2 DEF shift
<1>3. top \in B2 /\ top - 1 \in B2 /\ top - 2 \in B2 /\ top - 3 \in B2
  <2>1. (top - 1) - 2 = top - 3 /\ top - 1 >= 2
    OBVIOUS
  <2> QED BY <1>1, <1>2, <2>1
<1> HIDE DEF B2
<1>4. B3 \subseteq 0 .. top /\ B2 \subseteq B3 /\ \A k \in B2 : k >= 4 => k - 4 \in B3
  <2> DEFINE shift == 4
  <2>1. shift \in Nat \ {0}
    OBVIOUS
  <2> HIDE DEF shift
  <2>2. Smear(B2, shift) \subseteq 0 .. top /\ B2 \subseteq Smear(B2, shift)
        /\ \A k \in B2 : k >= shift => k - shift \in Smear(B2, shift)
    BY <1>2, <2>1, SmearAdds, Zenon
  <2> QED BY <2>2 DEF shift
<1>5. /\ top - 4 \in B3
      /\ top >= 5 => top - 5 \in B3
      /\ top >= 6 => top - 6 \in B3
      /\ top >= 7 => top - 7 \in B3
  <2>1. (top - 1) - 4 = top - 5 /\ (top - 2) - 4 = top - 6 /\ (top - 3) - 4 = top - 7
    OBVIOUS
  <2>2. top >= 5 => top - 1 >= 4
    OBVIOUS
  <2>3. top >= 6 => top - 2 >= 4
    OBVIOUS
  <2>4. top >= 7 => top - 3 >= 4
    OBVIOUS
  <2> QED BY <1>3, <1>4, <2>1, <2>2, <2>3, <2>4
<1> HIDE DEF B3
<1>6. B4 \subseteq 0 .. top /\ B3 \subseteq B4 /\ \A k \in B3 : k >= 8 => k - 8 \in B4
  <2> DEFINE shift == 8
  <2>1. shift \in Nat \ {0}
    OBVIOUS
  <2> HIDE DEF shift
  <2>2. Smear(B3, shift) \subseteq 0 .. top /\ B3 \subseteq Smear(B3, shift)
        /\ \A k \in B3 : k >= shift => k - shift \in Smear(B3, shift)
    BY <1>4, <2>1, SmearAdds, Zenon
  <2> QED BY <2>2 DEF shift
<1>7. top >= 8 => top - 8 \in B4
  BY <1>3, <1>4, <1>6
<1> HIDE DEF B4
<1>8. B5 \subseteq 0 .. top /\ B4 \subseteq B5
  <2> DEFINE shift == 16
  <2>1. shift \in Nat \ {0}
    OBVIOUS
  <2> HIDE DEF shift
  <2>2. Smear(B4, shift) \subseteq 0 .. top /\ B4 \subseteq Smear(B4, shift)
        /\ \A k \in B4 : k >= shift => k - shift \in Smear(B4, shift)
    BY <1>6, <2>1, SmearAdds, Zenon
  <2> QED BY <2>2 DEF shift
<1> HIDE DEF B5
<1>9. ASSUME NEW m \in 0 .. top
      PROVE  m \in B5
  <2>1. m \in {top, top - 1, top - 2, top - 3, top - 4, top - 5, top - 6, top - 7, top - 8}
    OBVIOUS
  <2>2. CASE m \in {top, top - 1, top - 2, top - 3}
    BY <1>3, <1>4, <1>6, <1>8, <2>2
  <2>3. CASE m \in {top - 4, top - 5, top - 6, top - 7}
    BY <1>5, <1>6, <1>8, <2>3
  <2>4. CASE m = top - 8
    BY <1>7, <1>8, <2>4
  <2> QED BY <2>1, <2>2, <2>3, <2>4
<1>10. B5 = 0 .. top
  BY <1>8, <1>9
<1> QED BY <1>10 DEF B1, B2, B3, B4, B5

\* A number between two powers of two is smeared to the number below the second.
LEMMA SmearedIs ==
    ASSUME NEW top, NEW ones, <<top, ones>> \in Ones, NEW n \in Nat, n <= ones, ones < n + n + 1
    PROVE  Smeared(n) = ones
<1>1. top \in 4 .. 8 /\ n \in TenBits
  BY DEF Ones, TenBits
<1>2. Bits(n) \subseteq 0 .. top /\ top \in Bits(n)
  <2>1. CASE top = 4 /\ ones = 31
    BY <1>1, <2>1, BitsOf
  <2>2. CASE top = 5 /\ ones = 63
    BY <1>1, <2>2, BitsOf
  <2>3. CASE top = 6 /\ ones = 127
    BY <1>1, <2>3, BitsOf
  <2>4. CASE top = 7 /\ ones = 255
    BY <1>1, <2>4, BitsOf
  <2>5. CASE top = 8 /\ ones = 511
    BY <1>1, <2>5, BitsOf
  <2> QED BY <2>1, <2>2, <2>3, <2>4, <2>5 DEF Ones
<1>3. Smear(Smear(Smear(Smear(Smear(Bits(n), 1), 2), 4), 8), 16) = 0 .. top
  BY <1>1, <1>2, SmearFills
<1> QED BY <1>3, OnesNumber DEF Smeared

\* The sizes of the caches.
LEMMA CacheSizes ==
    /\ slab_cache_index_to_size(0) = 16 /\ slab_cache_index_to_size(1) = 32
    /\ slab_cache_index_to_size(2) = 64 /\ slab_cache_index_to_size(3) = 128
    /\ slab_cache_index_to_size(4) = 256 /\ slab_cache_index_to_size(5) = 512
BY DEF slab_cache_index_to_size, Caches

\* next_power_of_two gives the size of the smallest cache with room.
LEMMA SmallSizes ==
    ASSUME NEW n \in 0 .. 512
    PROVE  \E j \in Caches :
               /\ round_alloc_size(n) = slab_cache_index_to_size(j)
               /\ n <= slab_cache_index_to_size(j)
               /\ \A k \in Caches : n <= slab_cache_index_to_size(k) =>
                      slab_cache_index_to_size(j) <= slab_cache_index_to_size(k)
<1> DEFINE P(j, s) == /\ round_alloc_size(n) = s /\ s = slab_cache_index_to_size(j) /\ n <= s
                      /\ \A k \in Caches : n <= slab_cache_index_to_size(k) =>
                             s <= slab_cache_index_to_size(k)
<1>1. round_alloc_size(n) = IF n <= 16 THEN 16 ELSE Smeared(n - 1) + 1
  BY DEF round_alloc_size, PowersOfTwo, next_power_of_two
<1>2. CASE n <= 16
  <2>1. P(0, 16)
    BY <1>1, <1>2, CacheSizes DEF Caches
  <2> QED BY <2>1 DEF Caches
<1>3. ASSUME NEW top, NEW ones, <<top, ones>> \in Ones, n - 1 \in Nat, n - 1 <= ones,
             ones < (n - 1) + (n - 1) + 1, 16 < n
      PROVE  round_alloc_size(n) = ones + 1
  BY <1>1, <1>3, SmearedIs
<1>4. CASE n \in 17 .. 32
  <2>1. round_alloc_size(n) = 32
    <3>1. <<4, 31>> \in Ones /\ n - 1 \in Nat /\ n - 1 <= 31 /\ 31 < (n - 1) + (n - 1) + 1
      BY <1>4 DEF Ones
    <3> QED BY <1>3, <1>4, <3>1
  <2>2. P(1, 32)
    BY <1>4, <2>1, CacheSizes DEF Caches
  <2> QED BY <2>2 DEF Caches
<1>5. CASE n \in 33 .. 64
  <2>1. round_alloc_size(n) = 64
    <3>1. <<5, 63>> \in Ones /\ n - 1 \in Nat /\ n - 1 <= 63 /\ 63 < (n - 1) + (n - 1) + 1
      BY <1>5 DEF Ones
    <3> QED BY <1>3, <1>5, <3>1
  <2>2. P(2, 64)
    BY <1>5, <2>1, CacheSizes DEF Caches
  <2> QED BY <2>2 DEF Caches
<1>6. CASE n \in 65 .. 128
  <2>1. round_alloc_size(n) = 128
    <3>1. <<6, 127>> \in Ones /\ n - 1 \in Nat /\ n - 1 <= 127 /\ 127 < (n - 1) + (n - 1) + 1
      BY <1>6 DEF Ones
    <3> QED BY <1>3, <1>6, <3>1
  <2>2. P(3, 128)
    BY <1>6, <2>1, CacheSizes DEF Caches
  <2> QED BY <2>2 DEF Caches
<1>7. CASE n \in 129 .. 256
  <2>1. round_alloc_size(n) = 256
    <3>1. <<7, 255>> \in Ones /\ n - 1 \in Nat /\ n - 1 <= 255 /\ 255 < (n - 1) + (n - 1) + 1
      BY <1>7 DEF Ones
    <3> QED BY <1>3, <1>7, <3>1
  <2>2. P(4, 256)
    BY <1>7, <2>1, CacheSizes DEF Caches
  <2> QED BY <2>2 DEF Caches
<1>8. CASE n \in 257 .. 512
  <2>1. round_alloc_size(n) = 512
    <3>1. <<8, 511>> \in Ones /\ n - 1 \in Nat /\ n - 1 <= 511 /\ 511 < (n - 1) + (n - 1) + 1
      BY <1>8 DEF Ones
    <3> QED BY <1>3, <1>8, <3>1
  <2>2. P(5, 512)
    BY <1>8, <2>1, CacheSizes DEF Caches
  <2> QED BY <2>2 DEF Caches
<1> QED BY <1>2, <1>4, <1>5, <1>6, <1>7, <1>8

\* Above them it is whole pages, or 0 where ALIGN_UP wraps.
LEMMA LargeSizes ==
    ASSUME NEW n \in 0 .. SIZE_RANGE - 1, n > 512
    PROVE  \/ round_alloc_size(n) = 0
           \/ \E k \in Nat \ {0} : round_alloc_size(n) = k * PAGE_SIZE /\ n <= k * PAGE_SIZE
                                   /\ k * PAGE_SIZE > 512
<1>1. PICK k \in Nat : k = (n + PAGE_SIZE - 1) \div PAGE_SIZE
  BY PageSizeAssumption
<1>2. round_alloc_size(n) = (k * PAGE_SIZE) % SIZE_RANGE
  BY <1>1 DEF round_alloc_size, ALIGN_UP
<1>3. n <= k * PAGE_SIZE /\ k * PAGE_SIZE \in Nat
  BY <1>1, PageSizeAssumption
<1>4. k # 0
  <2>1. 0 * PAGE_SIZE = 0
    BY PageSizeAssumption
  <2> QED BY <1>3, <2>1
<1>5. k * PAGE_SIZE <= SIZE_RANGE
  <2>1. PICK m \in Nat : SIZE_RANGE = m * PAGE_SIZE
    BY MallocAssumption, PageSizeAssumption
  <2>2. k * PAGE_SIZE < n + PAGE_SIZE
    BY <1>1, PageSizeAssumption
  <2>3. k * PAGE_SIZE < (m + 1) * PAGE_SIZE
    BY <2>1, <2>2, PageSizeAssumption, MallocAssumption
  <2>4. k <= m
    BY <2>3, PageSizeAssumption
  <2> QED BY <2>1, <2>4, PageSizeAssumption
<1>6. CASE k * PAGE_SIZE = SIZE_RANGE
  BY <1>2, <1>6, MallocAssumption
<1>7. CASE k * PAGE_SIZE # SIZE_RANGE
  <2>1. PICK p \in Nat : p = k * PAGE_SIZE
    BY <1>3
  <2>2. p % SIZE_RANGE = p
    BY <1>5, <1>7, <2>1, MallocAssumption
  <2> QED BY <1>2, <1>3, <1>4, <2>1, <2>2
<1> QED BY <1>6, <1>7

-----------------------------------------------------------------------------
(* The inductive invariant of the heap: where a block can be, and whose     *)
(* every buffer and every page is.  h is a value of heap, B of blocks.      *)

CacheSize(i) == slab_cache_index_to_size(i)

\* The addresses of the buffers of a cache; its slab has the page 2 * i + 2.
BufferSet(i) == {BIT_TO_PAGE(2 * i + 2) + CacheSize(i) * k : k \in 1 .. CacheBuffers(i)}

\* A block is a buffer, and its metadata the number of the cache, or it is a
\* page, and its metadata is one.
InSlab(b) ==
    /\ b.size \in Caches
    /\ b.bytes = CacheSize(b.size)
    /\ b.at \in BufferSet(b.size)

InPages(b) ==
    /\ b.size = 1
    /\ b.bytes = PAGE_SIZE
    /\ \E p \in 13 .. TopPage - 1 : b.at = BIT_TO_PAGE(p)

BlocksWellMade(B) ==
    /\ B \subseteq Block
    /\ \A b \in B : InSlab(b) \/ InPages(b)
    /\ \A b, c \in B : b.at = c.at => b = c

PagesOf(B) == {PAGE_TO_BIT(b.at) : b \in {c \in B : IsPaged(c.at)}}

LentBlocks(B, i) == {b \in B : ~IsPaged(b.at) /\ b.bytes = CacheSize(i)}

Lent(B, i) == {b.at : b \in LentBlocks(B, i)}

\* Each of the buffers of a cache is once on its list or lent, never both.
Shared(list, lent, i) ==
    /\ list \in Seq(Nat)
    /\ \A k, l \in 1 .. Len(list) : list[k] = list[l] => k = l
    /\ ToSet(list) \cap lent = {}
    /\ ToSet(list) \cup lent = BufferSet(i)
    /\ IsFiniteSet(lent)
    /\ Len(list) + Cardinality(lent) = CacheBuffers(i)

HeapInv(h, B) ==
    /\ TopPage > 12
    /\ h \in [bitmap : SUBSET (0 .. TopPage - 1), caches : [Caches -> Seq(Nat)]]
    /\ h.bitmap = (0 .. 12) \cup PagesOf(B)
    /\ \A i \in Caches : Shared(h.caches[i], Lent(B, i), i)
    /\ BlocksWellMade(B)

\* The machine may have stopped before the heap was made.
MallocInv ==
    /\ status \in {"boot", "ready", "panicked", "corrupted"}
    /\ reply.op \in {"none", "malloc", "realloc"}
    /\ \/ /\ status \in {"boot", "panicked"}
          /\ heap = [bitmap |-> {0}, caches |-> [i \in Caches |-> <<>>]]
          /\ blocks = {}
       \/ /\ status # "boot"
          /\ HeapInv(heap, blocks)

-----------------------------------------------------------------------------
(* Lists *)

\* Taking the head of a list whose elements differ.
LEMMA ListTail ==
    ASSUME NEW s \in Seq(Nat), s # <<>>,
           \A k, l \in 1 .. Len(s) : s[k] = s[l] => k = l
    PROVE  /\ Tail(s) \in Seq(Nat)
           /\ Head(s) \in Nat
           /\ Head(s) \in ToSet(s)
           /\ Len(Tail(s)) + 1 = Len(s)
           /\ \A k, l \in 1 .. Len(Tail(s)) : Tail(s)[k] = Tail(s)[l] => k = l
           /\ ToSet(Tail(s)) = ToSet(s) \ {Head(s)}
<1>1. /\ Tail(s) \in Seq(Nat) /\ Len(s) \in Nat \ {0} /\ Len(Tail(s)) = Len(s) - 1
      /\ Head(s) = s[1] /\ Head(s) \in Nat
      /\ \A k \in 1 .. Len(s) - 1 : Tail(s)[k] = s[k + 1]
  BY HeadTailProperties, EmptySeq
<1>2. DOMAIN Tail(s) = 1 .. Len(s) - 1 /\ DOMAIN s = 1 .. Len(s)
  BY <1>1, LenProperties
<1>3. \A k, l \in 1 .. Len(Tail(s)) : Tail(s)[k] = Tail(s)[l] => k = l
  BY <1>1
<1>4. ToSet(Tail(s)) \subseteq ToSet(s) \ {Head(s)}
  <2> SUFFICES ASSUME NEW k \in 1 .. Len(s) - 1
               PROVE  Tail(s)[k] \in ToSet(s) /\ Tail(s)[k] # s[1]
    BY <1>1, <1>2 DEF ToSet
  <2>1. Tail(s)[k] = s[k + 1] /\ k + 1 \in 1 .. Len(s) /\ 1 \in 1 .. Len(s) /\ k + 1 # 1
    BY <1>1
  <2> QED BY <1>2, <2>1 DEF ToSet
<1>5. ToSet(s) \ {Head(s)} \subseteq ToSet(Tail(s))
  <2> SUFFICES ASSUME NEW k \in 1 .. Len(s), s[k] # s[1]
               PROVE  s[k] \in ToSet(Tail(s))
    BY <1>1, <1>2 DEF ToSet
  <2>1. k - 1 \in 1 .. Len(s) - 1 /\ (k - 1) + 1 = k
    BY <1>1
  <2>2. Tail(s)[k - 1] = s[k]
    BY <1>1, <2>1
  <2> QED BY <1>2, <2>1, <2>2 DEF ToSet
<1>6. Head(s) \in ToSet(s)
  BY <1>1, <1>2 DEF ToSet
<1> QED BY <1>1, <1>3, <1>4, <1>5, <1>6

\* Putting an element before a list that has it not.
LEMMA ListCons ==
    ASSUME NEW s \in Seq(Nat), NEW a \in Nat, a \notin ToSet(s),
           \A k, l \in 1 .. Len(s) : s[k] = s[l] => k = l
    PROVE  /\ Cons(a, s) \in Seq(Nat)
           /\ Len(Cons(a, s)) = Len(s) + 1
           /\ \A k, l \in 1 .. Len(Cons(a, s)) : Cons(a, s)[k] = Cons(a, s)[l] => k = l
           /\ ToSet(Cons(a, s)) = ToSet(s) \cup {a}
<1> DEFINE t == Cons(a, s)
<1>1. <<a>> \in Seq(Nat) /\ Len(<<a>>) = 1 /\ <<a>>[1] = a /\ Len(s) \in Nat
  OBVIOUS
<1>2. /\ t \in Seq(Nat) /\ Len(t) = Len(s) + 1
      /\ \A k \in 1 .. Len(s) + 1 : t[k] = IF k <= 1 THEN <<a>>[k] ELSE s[k - 1]
  BY <1>1, ConcatProperties DEF Cons
<1>3. t[1] = a /\ \A k \in 2 .. Len(s) + 1 : t[k] = s[k - 1]
  BY <1>1, <1>2
<1>4. DOMAIN t = 1 .. Len(s) + 1 /\ DOMAIN s = 1 .. Len(s)
  BY <1>2, LenProperties
<1> HIDE DEF t
<1>5. \A k \in 2 .. Len(s) + 1 : k - 1 \in 1 .. Len(s) /\ t[k] \in ToSet(s)
  BY <1>1, <1>3, <1>4 DEF ToSet
<1>6. ASSUME NEW k \in 1 .. Len(t), NEW l \in 1 .. Len(t), t[k] = t[l]
      PROVE  k = l
  <2>1. k \in 1 .. Len(s) + 1 /\ l \in 1 .. Len(s) + 1
    BY <1>2
  <2>2. CASE k = 1 \/ l = 1
    BY <1>1, <1>3, <1>5, <1>6, <2>1, <2>2
  <2>3. CASE k # 1 /\ l # 1
    <3>1. k - 1 \in 1 .. Len(s) /\ l - 1 \in 1 .. Len(s) /\ s[k - 1] = s[l - 1]
      BY <1>1, <1>3, <1>6, <2>1, <2>3
    <3> QED BY <2>1, <3>1
  <2> QED BY <2>2, <2>3
<1>7. ToSet(t) \subseteq ToSet(s) \cup {a}
  <2> SUFFICES ASSUME NEW k \in 1 .. Len(s) + 1
               PROVE  t[k] \in ToSet(s) \cup {a}
    BY <1>4 DEF ToSet
  <2>1. CASE k = 1
    BY <1>3, <2>1
  <2>2. CASE k # 1
    BY <1>1, <1>5, <2>2
  <2> QED BY <2>1, <2>2
<1>8. ToSet(s) \cup {a} \subseteq ToSet(t)
  <2>1. a \in ToSet(t)
    BY <1>1, <1>3, <1>4 DEF ToSet
  <2>2. ASSUME NEW k \in 1 .. Len(s)
        PROVE  s[k] \in ToSet(t)
    <3>1. k + 1 \in 2 .. Len(s) + 1 /\ (k + 1) - 1 = k /\ k + 1 \in 1 .. Len(s) + 1
      BY <1>1
    <3>2. t[k + 1] = s[k]
      BY <1>3, <3>1
    <3> QED BY <1>4, <3>1, <3>2 DEF ToSet
  <2> QED BY <1>4, <2>1, <2>2 DEF ToSet
<1> QED BY <1>2, <1>6, <1>7, <1>8 DEF t

-----------------------------------------------------------------------------
(* Where blocks are *)

\* The sizes of the caches are numbers, the buffers of a cache fit its page.
LEMMA CacheFacts ==
    ASSUME NEW j \in Caches
    PROVE  /\ j \in Nat /\ j <= 5
           /\ CacheSize(j) \in Nat /\ CacheSize(j) >= 16 /\ CacheSize(j) <= 512
           /\ \A k \in Caches : CacheSize(j) = CacheSize(k) => j = k
           /\ size_to_slab_cache_index(CacheSize(j)) = j
<1>1. j \in {0, 1, 2, 3, 4, 5}
  BY DEF Caches
<1>2. \A k \in Caches : CacheSize(j) = CacheSize(k) => j = k
  <2> SUFFICES ASSUME NEW k \in Caches, CacheSize(j) = CacheSize(k)
               PROVE  j = k
    OBVIOUS
  <2>1. k \in {0, 1, 2, 3, 4, 5}
    BY DEF Caches
  <2> QED BY <1>1, <2>1, CacheSizes DEF CacheSize
<1>3. size_to_slab_cache_index(CacheSize(j)) = j
  BY <1>2 DEF size_to_slab_cache_index, CacheSize
<1> QED BY <1>1, <1>2, <1>3, CacheSizes DEF CacheSize

\* A place inside a page.
LEMMA InsidePage ==
    ASSUME NEW p \in Nat, NEW x \in Nat, x < PAGE_SIZE
    PROVE  /\ BIT_TO_PAGE(p) + x \in Nat
           /\ (BIT_TO_PAGE(p) + x) % PAGE_SIZE = x
           /\ PAGE_TO_BIT(BIT_TO_PAGE(p) + x) = p
BY PageSizeAssumption DEF BIT_TO_PAGE, PAGE_TO_BIT

\* A buffer and what follows it lie in the page of its cache, not at its start.
LEMMA BufferFits ==
    ASSUME NEW j \in Caches, NEW k \in 1 .. CacheBuffers(j)
    PROVE  /\ CacheSize(j) * k \in Nat
           /\ CacheSize(j) * k >= 16
           /\ CacheSize(j) * k + CacheSize(j) <= PAGE_SIZE
<1>1. PICK s \in Nat : s = CacheSize(j) /\ s >= 16
  BY CacheFacts
<1>2. PICK q \in Nat : q = PAGE_SIZE - HEADER_SIZE /\ q <= PAGE_SIZE
  BY PageSizeAssumption, MallocAssumption
<1>3. k \in Nat /\ k >= 1 /\ k <= (q \div s) - 1
  BY <1>1, <1>2, MallocAssumption DEF CacheBuffers, CacheSize
<1>4. s * (q \div s) <= q /\ q \div s \in Nat
  BY <1>1, <1>2
<1>5. s * (k + 1) <= s * (q \div s)
  BY <1>1, <1>3, <1>4
<1>6. s * (k + 1) = s * k + s /\ s * k \in Nat /\ s * k >= s
  BY <1>1, <1>3
<1> QED BY <1>1, <1>2, <1>4, <1>5, <1>6, PageSizeAssumption

\* Where a buffer is.
LEMMA BufferIsInside ==
    ASSUME NEW j \in Caches, NEW a \in BufferSet(j)
    PROVE  /\ a \in Nat
           /\ ~IsPaged(a)
           /\ a # NULL
           /\ PAGE_TO_BIT(a) = 2 * j + 2
           /\ BIT_TO_PAGE(2 * j + 2) <= a
           /\ a + CacheSize(j) <= BIT_TO_PAGE(2 * j + 2) + PAGE_SIZE
<1>1. PICK k \in 1 .. CacheBuffers(j) : a = BIT_TO_PAGE(2 * j + 2) + CacheSize(j) * k
  BY DEF BufferSet
<1>2. PICK x \in Nat : x = CacheSize(j) * k /\ x >= 16 /\ x + CacheSize(j) <= PAGE_SIZE
  BY BufferFits
<1>3. PICK p \in Nat : p = 2 * j + 2
  BY CacheFacts
<1>4. CacheSize(j) \in Nat /\ CacheSize(j) >= 16 /\ PAGE_SIZE \in Nat
  BY CacheFacts, PageSizeAssumption
<1>5. x < PAGE_SIZE /\ a = BIT_TO_PAGE(p) + x
  BY <1>1, <1>2, <1>3, <1>4
<1>6. a \in Nat /\ a % PAGE_SIZE = x /\ PAGE_TO_BIT(a) = p /\ BIT_TO_PAGE(p) \in Nat
  BY <1>5, InsidePage, BitOfPage
<1> QED BY <1>2, <1>3, <1>4, <1>5, <1>6 DEF IsPaged, NULL

\* A page block begins its page.
LEMMA PageIsPaged ==
    ASSUME NEW p \in Nat
    PROVE  /\ BIT_TO_PAGE(p) \in Nat
           /\ IsPaged(BIT_TO_PAGE(p))
           /\ PAGE_TO_BIT(BIT_TO_PAGE(p)) = p
           /\ p # 0 => BIT_TO_PAGE(p) # NULL
<1>1. 0 \in Nat /\ 0 < PAGE_SIZE
  BY PageSizeAssumption
<1>2. (BIT_TO_PAGE(p) + 0) % PAGE_SIZE = 0
  BY <1>1, InsidePage
<1> QED BY <1>2, BitOfPage DEF IsPaged

\* free tells the two kinds of block apart by the address.
LEMMA BlockKinds ==
    ASSUME NEW b, InSlab(b) \/ InPages(b)
    PROVE  /\ IsPaged(b.at) => InPages(b)
           /\ ~IsPaged(b.at) => InSlab(b)
           /\ InPages(b) => IsPaged(b.at) /\ PAGE_TO_BIT(b.at) \in 13 .. TopPage - 1
           /\ InSlab(b) => ~IsPaged(b.at)
<1>1. ASSUME InSlab(b) PROVE ~IsPaged(b.at)
  BY <1>1, BufferIsInside DEF InSlab
<1>2. ASSUME InPages(b) PROVE IsPaged(b.at) /\ PAGE_TO_BIT(b.at) \in 13 .. TopPage - 1
  <2>1. PICK p \in 13 .. TopPage - 1 : b.at = BIT_TO_PAGE(p)
    BY <1>2 DEF InPages
  <2>2. p \in Nat
    BY <2>1
  <2> QED BY <2>1, <2>2, PageIsPaged
<1> QED BY <1>1, <1>2

\* The buffers that a block adds to those lent, or takes from them.
LEMMA LentAdds ==
    ASSUME NEW B, NEW b, NEW j \in Caches, ~IsPaged(b.at), b.bytes = CacheSize(j), NEW i \in Caches
    PROVE  /\ i = j => Lent(B \cup {b}, i) = Lent(B, i) \cup {b.at}
           /\ i # j => Lent(B \cup {b}, i) = Lent(B, i)
<1>1. CASE i = j
  <2>1. LentBlocks(B \cup {b}, i) = LentBlocks(B, i) \cup {b}
    BY <1>1 DEF LentBlocks
  <2> QED BY <1>1, <2>1 DEF Lent
<1>2. CASE i # j
  <2>1. CacheSize(i) # CacheSize(j)
    BY <1>2, CacheFacts
  <2>2. LentBlocks(B \cup {b}, i) = LentBlocks(B, i)
    BY <2>1 DEF LentBlocks
  <2> QED BY <1>2, <2>2 DEF Lent
<1> QED BY <1>1, <1>2

LEMMA LentDrops ==
    ASSUME NEW B, BlocksWellMade(B), NEW b \in B, NEW j \in Caches,
           ~IsPaged(b.at), b.bytes = CacheSize(j), NEW i \in Caches
    PROVE  /\ i = j => Lent(B \ {b}, i) = Lent(B, i) \ {b.at}
           /\ i # j => Lent(B \ {b}, i) = Lent(B, i)
<1>1. \A c \in B : c.at = b.at => c = b
  BY DEF BlocksWellMade
<1>2. CASE i = j
  <2>1. LentBlocks(B \ {b}, i) = LentBlocks(B, i) \ {b}
    BY DEF LentBlocks
  <2>2. LentBlocks(B, i) \subseteq B
    BY DEF LentBlocks
  <2> QED BY <1>1, <1>2, <2>1, <2>2 DEF Lent
<1>3. CASE i # j
  <2>1. CacheSize(i) # CacheSize(j)
    BY <1>3, CacheFacts
  <2>2. LentBlocks(B \ {b}, i) = LentBlocks(B, i)
    BY <2>1 DEF LentBlocks
  <2> QED BY <1>3, <2>2 DEF Lent
<1> QED BY <1>2, <1>3

\* A page block is on no list of a cache; a buffer is no page.
LEMMA PagedLends ==
    ASSUME NEW B, NEW b, IsPaged(b.at), NEW i \in Caches
    PROVE  Lent(B \cup {b}, i) = Lent(B, i) /\ Lent(B \ {b}, i) = Lent(B, i)
<1>1. LentBlocks(B \cup {b}, i) = LentBlocks(B, i) /\ LentBlocks(B \ {b}, i) = LentBlocks(B, i)
  BY DEF LentBlocks
<1> QED BY <1>1 DEF Lent

LEMMA UnpagedPages ==
    ASSUME NEW B, NEW b, ~IsPaged(b.at)
    PROVE  PagesOf(B \cup {b}) = PagesOf(B) /\ PagesOf(B \ {b}) = PagesOf(B)
<1>1. /\ {c \in B \cup {b} : IsPaged(c.at)} = {c \in B : IsPaged(c.at)}
      /\ {c \in B \ {b} : IsPaged(c.at)} = {c \in B : IsPaged(c.at)}
  OBVIOUS
<1> QED BY <1>1 DEF PagesOf

\* The steps of a list of buffers: the first is lent, one is given back.
LEMMA SharedPop ==
    ASSUME NEW i \in Caches, NEW s, NEW L, Shared(s, L, i), s # <<>>
    PROVE  /\ Head(s) \in BufferSet(i) /\ Head(s) \notin L
           /\ Shared(Tail(s), L \cup {Head(s)}, i)
<1> USE DEF Shared
<1>1. /\ Tail(s) \in Seq(Nat) /\ Head(s) \in Nat /\ Head(s) \in ToSet(s)
      /\ Len(Tail(s)) + 1 = Len(s)
      /\ \A k, l \in 1 .. Len(Tail(s)) : Tail(s)[k] = Tail(s)[l] => k = l
      /\ ToSet(Tail(s)) = ToSet(s) \ {Head(s)}
  BY ListTail
<1>2. Head(s) \in BufferSet(i) /\ Head(s) \notin L
  BY <1>1
<1>3. /\ ToSet(Tail(s)) \cap (L \cup {Head(s)}) = {}
      /\ ToSet(Tail(s)) \cup (L \cup {Head(s)}) = BufferSet(i)
  BY <1>1
<1>4. IsFiniteSet(L \cup {Head(s)}) /\ Cardinality(L \cup {Head(s)}) = Cardinality(L) + 1
  BY <1>2, FS_AddElement
<1>5. Len(Tail(s)) + Cardinality(L \cup {Head(s)}) = CacheBuffers(i)
  <2>1. Cardinality(L) \in Nat /\ Len(s) \in Nat /\ Len(Tail(s)) \in Nat
    BY <1>1, FS_CardinalityType
  <2> QED BY <1>1, <1>4, <2>1
<1> QED BY <1>1, <1>2, <1>3, <1>4, <1>5

LEMMA SharedPush ==
    ASSUME NEW i \in Caches, NEW s, NEW L, Shared(s, L, i), NEW a \in L
    PROVE  /\ Len(s) < CacheBuffers(i)
           /\ Shared(Cons(a, s), L \ {a}, i)
<1> USE DEF Shared
<1>1. a \notin ToSet(s) /\ a \in BufferSet(i)
  OBVIOUS
<1>2. a \in Nat
  BY <1>1, BufferIsInside
<1>3. /\ Cons(a, s) \in Seq(Nat)
      /\ Len(Cons(a, s)) = Len(s) + 1
      /\ \A k, l \in 1 .. Len(Cons(a, s)) : Cons(a, s)[k] = Cons(a, s)[l] => k = l
      /\ ToSet(Cons(a, s)) = ToSet(s) \cup {a}
  BY <1>1, <1>2, ListCons
<1>4. /\ ToSet(Cons(a, s)) \cap (L \ {a}) = {}
      /\ ToSet(Cons(a, s)) \cup (L \ {a}) = BufferSet(i)
  BY <1>1, <1>3
<1>5. IsFiniteSet(L \ {a}) /\ Cardinality(L \ {a}) = Cardinality(L) - 1
  BY FS_RemoveElement
<1>6. Cardinality(L) \in Nat /\ Cardinality(L \ {a}) \in Nat /\ Len(s) \in Nat
  BY <1>5, FS_CardinalityType
<1>7. Len(Cons(a, s)) + Cardinality(L \ {a}) = CacheBuffers(i) /\ Len(s) < CacheBuffers(i)
  BY <1>3, <1>5, <1>6
<1> QED BY <1>3, <1>4, <1>5, <1>7

-----------------------------------------------------------------------------
(* malloc and free keep the invariant *)

\* What a block is made of, whatever the state of the heap.
LEMMA NewBlockFields ==
    ASSUME NEW h, NEW size
    PROVE  /\ NewBlock(h, size).asked = size
           /\ NewBlock(h, size).bytes = AllocSize(size)
           /\ AllocSize(size) = 0 => NewBlock(h, size).at = NULL
<1>1. size_to_slab_cache_index(0) = -1
  BY CacheSizes DEF size_to_slab_cache_index, Caches
<1> QED BY <1>1 DEF NewBlock

\* The block is the first buffer of a cache or a free page.
BufferBlock(h, size, j) ==
    [at |-> Head(h.caches[j]), size |-> j, asked |-> size, bytes |-> CacheSize(j)]

PageBlock(size, p) ==
    [at |-> BIT_TO_PAGE(p), size |-> 1, asked |-> size, bytes |-> PAGE_SIZE]

LEMMA NewBlockIs ==
    ASSUME SinglePages, NEW h, NEW B, HeapInv(h, B), NEW size \in Sizes,
           ~AllocPanics(h, size), NewBlock(h, size).at # NULL
    PROVE  \/ \E j \in Caches : h.caches[j] # <<>> /\ NewBlock(h, size) = BufferBlock(h, size, j)
           \/ \E p \in 13 .. TopPage - 1 : p \notin h.bitmap /\ NewBlock(h, size) = PageBlock(size, p)
<1>1. PICK n \in 0 .. SIZE_RANGE - 1 : AllocSize(size) = round_alloc_size(n)
  <2>1. size + METADATA_SIZE \in Nat
    BY MallocAssumption DEF METADATA_SIZE
  <2> QED BY <2>1, MallocAssumption DEF AllocSize
<1>2. CASE n <= 512
  <2>1. PICK j \in Caches : round_alloc_size(n) = CacheSize(j)
    <3>1. n \in 0 .. 512
      BY <1>1, <1>2
    <3> QED BY <3>1, SmallSizes DEF CacheSize
  <2>2. CacheSize(j) <= 512 /\ size_to_slab_cache_index(CacheSize(j)) = j /\ j # -1
    BY CacheFacts
  <2>3. h.caches[j] # <<>>
    BY <1>1, <2>1, <2>2 DEF AllocPanics
  <2>4. NewBlock(h, size) = BufferBlock(h, size, j)
    BY <1>1, <2>1, <2>2 DEF NewBlock, BufferBlock
  <2> QED BY <2>3, <2>4
<1>3. CASE n > 512
  <2>1. PICK k \in Nat \ {0} : round_alloc_size(n) = k * PAGE_SIZE /\ k * PAGE_SIZE > 512
    BY <1>1, <1>3, LargeSizes, NewBlockFields
  <2>2. k * PAGE_SIZE <= PAGE_SIZE
    BY <1>1, <2>1 DEF SinglePages
  <2>3. k = 1
    BY <2>2, PageSizeAssumption
  <2>4. round_alloc_size(n) = PAGE_SIZE /\ PAGE_SIZE > 512
    BY <2>1, <2>3, PageSizeAssumption
  <2>5. PAGE_SIZE \div PAGE_SIZE = 1 /\ 1 % METADATA_RANGE = 1 /\ ~(PAGE_SIZE <= 512)
    BY <2>4, PageSizeAssumption, MallocAssumption
  <2> DEFINE top == BIT_TO_PAGE(TopPage)
             a == pmm_find_first_free_page_range(h.bitmap, top, 1)
  <2>6. NewBlock(h, size) = [at |-> a, size |-> 1, asked |-> size, bytes |-> PAGE_SIZE]
    BY <1>1, <2>4, <2>5 DEF NewBlock
  <2>7. a # NULL
    BY <2>6
  <2>8. top \in Nat /\ PAGE_TO_BIT(top) = TopPage
    BY MallocAssumption, BitOfPage
  <2> HIDE DEF top
  <2>9. Candidates(h.bitmap, top, 1) # {} /\ a = BIT_TO_PAGE(Min(Candidates(h.bitmap, top, 1)))
    BY <2>7 DEF pmm_find_first_free_page_range
  <2>10. Candidates(h.bitmap, top, 1) \subseteq Nat
    BY <2>8, MallocAssumption DEF Candidates
  <2>11. PICK p \in Candidates(h.bitmap, top, 1) : p = Min(Candidates(h.bitmap, top, 1))
    BY <2>9, <2>10, MinIsLeast
  <2>12. p \in 0 .. TopPage - 1 /\ p \notin h.bitmap
    BY <2>8, <2>11, CandidateIsFree
  <2>13. p \in 13 .. TopPage - 1
    <3>1. p \notin 0 .. 12
      BY <2>12 DEF HeapInv
    <3> QED BY <2>12, <3>1, MallocAssumption
  <2> QED BY <2>6, <2>9, <2>11, <2>12, <2>13 DEF PageBlock
<1> QED BY <1>1, <1>2, <1>3

\* malloc from a cache: its first buffer leaves the list.
LEMMA TakenBuffer ==
    ASSUME NEW h, NEW B, HeapInv(h, B), NEW size \in Nat, NEW j \in Caches, h.caches[j] # <<>>
    PROVE  LET b == BufferBlock(h, size, j)
           IN  HeapInv(Taken(h, b), B \cup {b}) /\ \A c \in B : c.at # b.at
<1> DEFINE b == BufferBlock(h, size, j)
           a == Head(h.caches[j])
           t == Tail(h.caches[j])
<1>1. Shared(h.caches[j], Lent(B, j), j)
  BY DEF HeapInv
<1>2. a \in BufferSet(j) /\ a \notin Lent(B, j) /\ Shared(t, Lent(B, j) \cup {a}, j)
  BY <1>1, SharedPop
<1>3. a \in Nat /\ ~IsPaged(a)
  BY <1>2, BufferIsInside
<1>4. b.at = a /\ b.size = j /\ b.bytes = CacheSize(j) /\ b.asked = size
  BY DEF BufferBlock
<1>5. b \in Block /\ InSlab(b)
  BY <1>2, <1>3, <1>4, CacheFacts, MallocAssumption DEF Block, BufferBlock, InSlab
<1>6. ASSUME NEW c \in B, c.at = a
      PROVE  FALSE
  <2>1. InSlab(c)
    BY <1>3, <1>6, BlockKinds DEF HeapInv, BlocksWellMade
  <2>2. PAGE_TO_BIT(a) = 2 * c.size + 2 /\ PAGE_TO_BIT(a) = 2 * j + 2
    BY <1>2, <1>6, <2>1, BufferIsInside DEF InSlab
  <2>3. c.size = j
    BY <2>1, <2>2, CacheFacts DEF InSlab
  <2>4. c \in LentBlocks(B, j)
    BY <1>3, <1>6, <2>1, <2>3 DEF LentBlocks, InSlab
  <2> QED BY <1>2, <1>6, <2>4 DEF Lent
<1>7. BlocksWellMade(B \cup {b})
  BY <1>4, <1>5, <1>6 DEF HeapInv, BlocksWellMade
<1>8. t \in Seq(Nat)
  BY <1>2 DEF Shared
<1> DEFINE g == [h EXCEPT !.caches[j] = t]
<1>9. Taken(h, b) = g
  BY <1>3, <1>4 DEF Taken
<1>10. /\ g \in [bitmap : SUBSET (0 .. TopPage - 1), caches : [Caches -> Seq(Nat)]]
       /\ g.bitmap = h.bitmap /\ g.caches[j] = t
       /\ \A i \in Caches \ {j} : g.caches[i] = h.caches[i]
  <2>1. h \in [bitmap : SUBSET (0 .. TopPage - 1), caches : [Caches -> Seq(Nat)]]
    BY DEF HeapInv
  <2> HIDE DEF t
  <2> QED BY <1>8, <2>1
<1>11. PagesOf(B \cup {b}) = PagesOf(B)
  BY <1>3, <1>4, UnpagedPages
<1> HIDE DEF g, b, a, t
<1>12. ASSUME NEW i \in Caches
       PROVE  Shared(g.caches[i], Lent(B \cup {b}, i), i)
  <2>1. /\ i = j => Lent(B \cup {b}, i) = Lent(B, i) \cup {a}
        /\ i # j => Lent(B \cup {b}, i) = Lent(B, i)
    <3>1. ~IsPaged(b.at) /\ b.bytes = CacheSize(j)
      BY <1>3, <1>4
    <3>2. /\ i = j => Lent(B \cup {b}, i) = Lent(B, i) \cup {b.at}
          /\ i # j => Lent(B \cup {b}, i) = Lent(B, i)
      BY <3>1, LentAdds
    <3> QED BY <1>4, <3>2
  <2>2. CASE i = j
    BY <1>2, <1>10, <2>1, <2>2
  <2>3. CASE i # j
    BY <1>10, <2>1, <2>3 DEF HeapInv
  <2> QED BY <2>2, <2>3
<1>13. HeapInv(g, B \cup {b})
  <2>1. TopPage > 12 /\ h.bitmap = (0 .. 12) \cup PagesOf(B)
    BY DEF HeapInv
  <2> QED BY <1>7, <1>10, <1>11, <1>12, <2>1 DEF HeapInv
<1> QED BY <1>4, <1>6, <1>9, <1>13 DEF b

\* malloc of a page: a page that was free is used.
LEMMA TakenPage ==
    ASSUME NEW h, NEW B, HeapInv(h, B), NEW size \in Nat,
           NEW p \in 13 .. TopPage - 1, p \notin h.bitmap
    PROVE  LET b == PageBlock(size, p)
           IN  HeapInv(Taken(h, b), B \cup {b}) /\ \A c \in B : c.at # b.at
<1> DEFINE b == PageBlock(size, p)
<1>1. b.at = BIT_TO_PAGE(p) /\ b.size = 1 /\ b.bytes = PAGE_SIZE /\ b.asked = size
  BY DEF PageBlock
<1>2. b.at \in Nat /\ IsPaged(b.at) /\ PAGE_TO_BIT(b.at) = p /\ p \in Nat
  <2>1. p \in Nat
    OBVIOUS
  <2> QED BY <1>1, <2>1, PageIsPaged
<1>3. b \in Block /\ InPages(b)
  <2>1. 1 \in 0 .. METADATA_RANGE - 1 /\ PAGE_SIZE \in Nat
    BY MallocAssumption, PageSizeAssumption
  <2>2. b \in Block
    BY <1>1, <1>2, <2>1 DEF Block, PageBlock
  <2> QED BY <1>1, <2>2 DEF InPages
<1> HIDE DEF b
<1>4. ASSUME NEW c \in B, c.at = b.at
      PROVE  FALSE
  <2>1. p \in PagesOf(B)
    BY <1>2, <1>4 DEF PagesOf
  <2> QED BY <2>1 DEF HeapInv
<1>5. BlocksWellMade(B \cup {b})
  BY <1>3, <1>4 DEF HeapInv, BlocksWellMade
<1>6. SetBits(h.bitmap, PAGE_TO_BIT(b.at), b.bytes \div PAGE_SIZE) = h.bitmap \cup {p}
  <2>1. b.bytes \div PAGE_SIZE = 1
    BY <1>1, PageSizeAssumption
  <2>2. PageRange(p, 1) = {p}
    BY <1>2 DEF PageRange
  <2> QED BY <1>2, <2>1, <2>2 DEF SetBits
<1> DEFINE m == h.bitmap \cup {p}
           g == [h EXCEPT !.bitmap = m]
<1>7. Taken(h, b) = g
  BY <1>2, <1>6 DEF Taken
<1>8. /\ g \in [bitmap : SUBSET (0 .. TopPage - 1), caches : [Caches -> Seq(Nat)]]
      /\ g.bitmap = m /\ g.caches = h.caches
  <2>1. p \in 0 .. TopPage - 1
    BY <1>2
  <2>2. h \in [bitmap : SUBSET (0 .. TopPage - 1), caches : [Caches -> Seq(Nat)]]
    BY DEF HeapInv
  <2>3. m \in SUBSET (0 .. TopPage - 1)
    BY <2>1, <2>2
  <2> QED BY <2>2, <2>3
<1> HIDE DEF g
<1>9. PagesOf(B \cup {b}) = PagesOf(B) \cup {p}
  <2>1. {c \in B \cup {b} : IsPaged(c.at)} = {c \in B : IsPaged(c.at)} \cup {b}
    BY <1>2
  <2> QED BY <1>2, <2>1 DEF PagesOf
<1>10. \A i \in Caches : Lent(B \cup {b}, i) = Lent(B, i)
  BY <1>2, PagedLends
<1>11. HeapInv(g, B \cup {b})
  <2>1. /\ TopPage > 12 /\ h.bitmap = (0 .. 12) \cup PagesOf(B)
        /\ \A i \in Caches : Shared(h.caches[i], Lent(B, i), i)
    BY DEF HeapInv
  <2>2. g.bitmap = (0 .. 12) \cup PagesOf(B \cup {b})
    BY <1>8, <1>9, <2>1
  <2>3. \A i \in Caches : Shared(g.caches[i], Lent(B \cup {b}, i), i)
    BY <1>8, <1>10, <2>1
  <2> QED BY <1>5, <1>8, <2>1, <2>2, <2>3 DEF HeapInv
<1> QED BY <1>4, <1>7, <1>11 DEF b

\* free gives a block back to the list or to the page it came from, and finds
\* an open spot there.
LEMMA FreedInv ==
    ASSUME NEW h, NEW B, HeapInv(h, B), NEW b \in B
    PROVE  ~FreePanics(h, b) /\ HeapInv(Freed(h, b), B \ {b})
<1> DEFINE Shape == [bitmap : SUBSET (0 .. TopPage - 1), caches : [Caches -> Seq(Nat)]]
<1>1. /\ TopPage > 12 /\ h.bitmap = (0 .. 12) \cup PagesOf(B)
      /\ h \in Shape
      /\ \A i \in Caches : Shared(h.caches[i], Lent(B, i), i)
      /\ BlocksWellMade(B)
  BY DEF HeapInv
<1>2. BlocksWellMade(B \ {b})
  BY <1>1 DEF BlocksWellMade
<1>3. CASE IsPaged(b.at)
  <2>1. PICK p \in 13 .. TopPage - 1 : p = PAGE_TO_BIT(b.at)
    BY <1>1, <1>3, BlockKinds DEF BlocksWellMade
  <2>2. b.size = 1
    BY <1>1, <1>3, BlockKinds DEF BlocksWellMade, InPages
  <2>3. UnsetBits(h.bitmap, PAGE_TO_BIT(b.at), b.size) = h.bitmap \ {p}
    <3>1. PageRange(p, 1) = {p}
      BY DEF PageRange
    <3> QED BY <2>1, <2>2, <3>1 DEF UnsetBits
  <2> DEFINE m == h.bitmap \ {p}
             g == [h EXCEPT !.bitmap = m]
  <2>4. Freed(h, b) = g
    BY <1>3, <2>3 DEF Freed
  <2>5. g \in Shape /\ g.bitmap = m /\ g.caches = h.caches
    BY <1>1
  <2> HIDE DEF g
  <2>6. PagesOf(B \ {b}) = PagesOf(B) \ {p}
    <3>1. ASSUME NEW c \in B, IsPaged(c.at), PAGE_TO_BIT(c.at) = p
          PROVE  c = b
      <4>1. InPages(c) /\ InPages(b)
        BY <1>1, <1>3, <3>1, BlockKinds DEF BlocksWellMade
      <4>2. PICK q \in 13 .. TopPage - 1 : c.at = BIT_TO_PAGE(q)
        BY <4>1 DEF InPages
      <4>3. PICK r \in 13 .. TopPage - 1 : b.at = BIT_TO_PAGE(r)
        BY <4>1 DEF InPages
      <4>4. q \in Nat /\ r \in Nat
        OBVIOUS
      <4>5. q = p /\ r = p
        BY <2>1, <3>1, <4>2, <4>3, <4>4, PageIsPaged
      <4> QED BY <1>1, <4>2, <4>3, <4>5 DEF BlocksWellMade
    <3>2. {c \in B \ {b} : IsPaged(c.at)} = {c \in B : IsPaged(c.at)} \ {b}
      OBVIOUS
    <3> QED BY <2>1, <3>1, <3>2 DEF PagesOf
  <2>7. \A i \in Caches : Lent(B \ {b}, i) = Lent(B, i)
    BY <1>3, PagedLends
  <2>8. g.bitmap = (0 .. 12) \cup PagesOf(B \ {b})
    <3>1. p \notin 0 .. 12
      OBVIOUS
    <3> QED BY <1>1, <2>5, <2>6, <3>1
  <2>9. \A i \in Caches : Shared(g.caches[i], Lent(B \ {b}, i), i)
    BY <1>1, <2>5, <2>7
  <2>10. HeapInv(g, B \ {b})
    BY <1>1, <1>2, <2>5, <2>8, <2>9 DEF HeapInv
  <2>11. ~FreePanics(h, b)
    BY <1>3 DEF FreePanics
  <2> QED BY <2>4, <2>10, <2>11
<1>4. CASE ~IsPaged(b.at)
  <2>1. InSlab(b)
    BY <1>1, <1>4, BlockKinds DEF BlocksWellMade
  <2>2. PICK j \in Caches : j = b.size
    BY <2>1 DEF InSlab
  <2>3. b.bytes = CacheSize(j)
    BY <2>1, <2>2 DEF InSlab
  <2>4. b.at \in Lent(B, j)
    <3>1. b \in LentBlocks(B, j)
      BY <1>4, <2>3 DEF LentBlocks
    <3> QED BY <3>1 DEF Lent
  <2>5. /\ Len(h.caches[j]) < CacheBuffers(j)
        /\ Shared(Cons(b.at, h.caches[j]), Lent(B, j) \ {b.at}, j)
    BY <1>1, <2>4, SharedPush
  <2> DEFINE t == Cons(b.at, h.caches[j])
             g == [h EXCEPT !.caches[j] = t]
  <2>6. Freed(h, b) = g
    BY <1>4, <2>2 DEF Freed
  <2>7. t \in Seq(Nat)
    BY <2>5 DEF Shared
  <2>8. /\ g \in Shape /\ g.bitmap = h.bitmap /\ g.caches[j] = t
        /\ \A i \in Caches \ {j} : g.caches[i] = h.caches[i]
    <3> HIDE DEF t
    <3> QED BY <1>1, <2>7
  <2> HIDE DEF g
  <2>9. PagesOf(B \ {b}) = PagesOf(B)
    BY <1>4, UnpagedPages
  <2>10. ASSUME NEW i \in Caches
         PROVE  Shared(g.caches[i], Lent(B \ {b}, i), i)
    <3>1. /\ i = j => Lent(B \ {b}, i) = Lent(B, i) \ {b.at}
          /\ i # j => Lent(B \ {b}, i) = Lent(B, i)
      <4>1. BlocksWellMade(B)
        BY <1>1
      <4> QED BY <1>4, <2>3, <4>1, LentDrops
    <3>2. CASE i = j
      BY <2>5, <2>8, <3>1, <3>2
    <3>3. CASE i # j
      BY <1>1, <2>8, <3>1, <3>3
    <3> QED BY <3>2, <3>3
  <2>11. HeapInv(g, B \ {b})
    BY <1>1, <1>2, <2>8, <2>9, <2>10 DEF HeapInv
  <2>12. ~FreePanics(h, b)
    <3>1. Len(h.caches[j]) \in Nat /\ CacheBuffers(j) \in Int
      <4>1. h.caches[j] \in Seq(Nat) /\ Lent(B, j) \subseteq BufferSet(j)
        BY <1>1 DEF Shared
      <4>2. Len(h.caches[j]) \in Nat
        BY <4>1, LenProperties
      <4>3. Cardinality(Lent(B, j)) \in Nat
        BY <1>1, FS_CardinalityType DEF Shared
      <4> QED BY <1>1, <4>2, <4>3 DEF Shared
    <3> QED BY <2>2, <2>5, <3>1 DEF FreePanics
  <2> QED BY <2>6, <2>11, <2>12
<1> QED BY <1>3, <1>4

\* realloc in place changes the size a caller asked for, nothing else.
LEMMA GrownInv ==
    ASSUME NEW h, NEW B, HeapInv(h, B), NEW b \in B, NEW n \in Nat
    PROVE  HeapInv(h, (B \ {b}) \cup {[b EXCEPT !.asked = n]})
<1> DEFINE c == [b EXCEPT !.asked = n]
           C == (B \ {b}) \cup {c}
<1>1. BlocksWellMade(B) /\ b \in Block
  BY DEF HeapInv, BlocksWellMade
<1>2. c \in Block /\ c.at = b.at /\ c.size = b.size /\ c.bytes = b.bytes
  BY <1>1 DEF Block
<1> HIDE DEF c
<1>3. BlocksWellMade(C)
  <2>1. InSlab(c) \/ InPages(c)
    BY <1>1, <1>2 DEF BlocksWellMade, InSlab, InPages
  <2>2. \A x \in B \ {b} : x.at # c.at
    BY <1>1, <1>2 DEF BlocksWellMade
  <2> QED BY <1>1, <1>2, <2>1, <2>2 DEF BlocksWellMade
<1>4. PagesOf(C) = PagesOf(B)
  <2>1. ASSUME NEW x \in PagesOf(C) PROVE x \in PagesOf(B)
    <3>1. PICK d \in C : IsPaged(d.at) /\ x = PAGE_TO_BIT(d.at)
      BY <2>1 DEF PagesOf
    <3> QED BY <1>2, <3>1 DEF PagesOf
  <2>2. ASSUME NEW x \in PagesOf(B) PROVE x \in PagesOf(C)
    <3>1. PICK d \in B : IsPaged(d.at) /\ x = PAGE_TO_BIT(d.at)
      BY <2>2 DEF PagesOf
    <3> QED BY <1>2, <3>1 DEF PagesOf
  <2> QED BY <2>1, <2>2
<1>5. ASSUME NEW i \in Caches
      PROVE  Lent(C, i) = Lent(B, i)
  <2>1. ASSUME NEW x \in Lent(C, i) PROVE x \in Lent(B, i)
    <3>1. PICK d \in C : ~IsPaged(d.at) /\ d.bytes = CacheSize(i) /\ x = d.at
      BY <2>1 DEF Lent, LentBlocks
    <3> QED BY <1>2, <3>1 DEF Lent, LentBlocks
  <2>2. ASSUME NEW x \in Lent(B, i) PROVE x \in Lent(C, i)
    <3>1. PICK d \in B : ~IsPaged(d.at) /\ d.bytes = CacheSize(i) /\ x = d.at
      BY <2>2 DEF Lent, LentBlocks
    <3> QED BY <1>2, <3>1 DEF Lent, LentBlocks
  <2> QED BY <2>1, <2>2
<1> HIDE DEF C
<1>6. HeapInv(h, C)
  BY <1>3, <1>4, <1>5 DEF HeapInv
<1> QED BY <1>6 DEF C, c

\* malloc's block is new, wherever it comes from.
LEMMA TakenInv ==
    ASSUME SinglePages, NEW h, NEW B, HeapInv(h, B), NEW size \in Sizes,
           ~AllocPanics(h, size), NewBlock(h, size).at # NULL
    PROVE  LET b == NewBlock(h, size)
           IN  HeapInv(Taken(h, b), B \cup {b}) /\ \A c \in B : c.at # b.at
<1>1. size \in Nat
  BY MallocAssumption
<1>2. CASE \E j \in Caches : h.caches[j] # <<>> /\ NewBlock(h, size) = BufferBlock(h, size, j)
  BY <1>1, <1>2, TakenBuffer
<1>3. CASE \E p \in 13 .. TopPage - 1 : p \notin h.bitmap /\ NewBlock(h, size) = PageBlock(size, p)
  BY <1>1, <1>3, TakenPage
<1> QED BY <1>2, <1>3, NewBlockIs

-----------------------------------------------------------------------------
(* malloc_heap_init establishes the invariant *)

FirstHeap == [bitmap |-> {0}, caches |-> [i \in Caches |-> <<>>]]

\* Pages are given in their order.
LEMMA HeapPages ==
    ASSUME heap = FirstHeap, ~(Cardinality(FreePages) < 12)
    PROVE  TopPage > 12 /\ \A k \in 1 .. 12 : HeapPage(k) = k
<1>1. FreePages = 1 .. TopPage - 1
  BY MallocAssumption DEF FreePages, FirstHeap
<1>2. Cardinality(FreePages) = TopPage - 1
  BY <1>1, FS_Interval, MallocAssumption
<1>3. TopPage > 12
  BY <1>2, MallocAssumption
<1>4. ASSUME NEW p \in FreePages
      PROVE  Cardinality({q \in FreePages : q <= p}) = p /\ p \in Nat
  <2>1. {q \in FreePages : q <= p} = 1 .. p /\ p \in Nat /\ p >= 1
    BY <1>1, MallocAssumption
  <2>2. Cardinality(1 .. p) = p
    BY <2>1, FS_Interval
  <2> QED BY <2>1, <2>2
<1>5. ASSUME NEW k \in 1 .. 12
      PROVE  HeapPage(k) = k
  <2>1. k \in FreePages
    BY <1>1, <1>3, MallocAssumption
  <2>2. \A p \in FreePages : Cardinality({q \in FreePages : q <= p}) = k <=> p = k
    BY <1>4
  <2> QED BY <2>1, <2>2 DEF HeapPage
<1> QED BY <1>3, <1>5

\* The list slab_init_bufctls makes has each buffer once.
LEMMA FirstList ==
    ASSUME NEW i \in Caches
    PROVE  Shared(Buffers(2 * i + 2, i), {}, i)
<1>1. PICK n \in Nat : n = CacheBuffers(i)
  <2>1. PICK s \in Nat : s = slab_cache_index_to_size(i) /\ s >= 16 /\ s <= 512
    BY CacheFacts DEF CacheSize
  <2>2. PICK q \in Nat : q = PAGE_SIZE - HEADER_SIZE /\ q >= 512
    BY PageSizeAssumption, MallocAssumption
  <2>3. q \div s \in Nat /\ q \div s >= 1
    BY <2>1, <2>2
  <2> QED BY <2>1, <2>2, <2>3, MallocAssumption DEF CacheBuffers
<1> DEFINE e(k) == BIT_TO_PAGE(2 * i + 2) + CacheSize(i) * k
           s == Buffers(2 * i + 2, i)
<1>2. s = [k \in 1 .. n |-> e(k)]
  BY <1>1 DEF Buffers, CacheSize
<1>3. BufferSet(i) = {e(k) : k \in 1 .. n}
  BY <1>1 DEF BufferSet
<1>4. \A k \in 1 .. n : e(k) \in Nat
  BY <1>3, BufferIsInside
<1>5. \A k, l \in 1 .. n : e(k) = e(l) => k = l
  <2>1. PICK z \in Nat : z = CacheSize(i) /\ z >= 16
    BY CacheFacts
  <2>2. PICK x \in Nat : x = BIT_TO_PAGE(2 * i + 2)
    <3>1. 2 * i + 2 \in Nat
      BY CacheFacts
    <3> QED BY <3>1, BitOfPage
  <2> SUFFICES ASSUME NEW k \in 1 .. n, NEW l \in 1 .. n, e(k) = e(l)
               PROVE  k = l
    OBVIOUS
  <2>3. x + z * k = x + z * l /\ k \in Nat /\ l \in Nat
    BY <2>1, <2>2
  <2>4. z * k \in Nat /\ z * l \in Nat
    BY <2>1, <2>3
  <2>5. z * k = z * l
    BY <2>2, <2>3, <2>4
  <2> QED BY <2>1, <2>3, <2>5
<1> HIDE DEF e, s
<1>6. s \in Seq(Nat) /\ Len(s) = n /\ DOMAIN s = 1 .. n /\ \A k \in 1 .. n : s[k] = e(k)
  BY <1>2, <1>4
<1>7. ToSet(s) = BufferSet(i)
  BY <1>3, <1>6 DEF ToSet
<1>8. \A k, l \in 1 .. Len(s) : s[k] = s[l] => k = l
  BY <1>5, <1>6
<1>9. IsFiniteSet({}) /\ Cardinality({}) = 0
  BY FS_EmptySet
<1>10. Len(s) + Cardinality({}) = CacheBuffers(i)
  BY <1>1, <1>6, <1>9
<1>11. Shared(s, {}, i)
  BY <1>6, <1>7, <1>8, <1>9, <1>10 DEF Shared
<1> QED BY <1>11 DEF s

LEMMA HeapMade ==
    ASSUME heap = FirstHeap, ~(Cardinality(FreePages) < 12)
    PROVE  HeapInv([bitmap |-> heap.bitmap \cup {HeapPage(k) : k \in 1 .. 12},
                    caches |-> [i \in Caches |-> Buffers(HeapPage(2 * i + 2), i)]], {})
<1>1. TopPage > 12 /\ \A k \in 1 .. 12 : HeapPage(k) = k
  BY HeapPages
<1>2. heap.bitmap \cup {HeapPage(k) : k \in 1 .. 12} = 0 .. 12
  <2>1. {HeapPage(k) : k \in 1 .. 12} = 1 .. 12
    BY <1>1
  <2>2. heap.bitmap = {0}
    BY DEF FirstHeap
  <2> QED BY <2>1, <2>2
<1>3. \A i \in Caches : HeapPage(2 * i + 2) = 2 * i + 2
  <2> SUFFICES ASSUME NEW i \in Caches PROVE HeapPage(2 * i + 2) = 2 * i + 2
    OBVIOUS
  <2>1. 2 * i + 2 \in 1 .. 12
    BY CacheFacts
  <2> QED BY <1>1, <2>1
<1> DEFINE f == [i \in Caches |-> Buffers(2 * i + 2, i)]
           g == [bitmap |-> 0 .. 12, caches |-> f]
<1>4. [i \in Caches |-> Buffers(HeapPage(2 * i + 2), i)] = f
  BY <1>3
<1>5. \A i \in Caches : f[i] = Buffers(2 * i + 2, i) /\ Shared(f[i], {}, i)
  BY FirstList
<1>6. f \in [Caches -> Seq(Nat)]
  BY <1>5 DEF Shared
<1> HIDE DEF f
<1>7. g \in [bitmap : SUBSET (0 .. TopPage - 1), caches : [Caches -> Seq(Nat)]]
  <2>1. 0 .. 12 \subseteq 0 .. TopPage - 1
    BY <1>1, MallocAssumption
  <2> QED BY <1>6, <2>1
<1>8. PagesOf({}) = {} /\ \A i \in Caches : Lent({}, i) = {}
  BY DEF PagesOf, Lent, LentBlocks
<1>9. BlocksWellMade({})
  BY DEF BlocksWellMade
<1>10. HeapInv(g, {})
  BY <1>1, <1>5, <1>7, <1>8, <1>9 DEF HeapInv
<1> QED BY <1>2, <1>4, <1>10

-----------------------------------------------------------------------------
(* Every step keeps the invariant *)

LEMMA MallocInit == Init => MallocInv
BY DEF Init, MallocInv, NoReply

LEMMA MallocStep ==
    ASSUME SinglePages, MallocInv, [Next]_vars
    PROVE  MallocInv'
<1> DEFINE Types == status \in {"boot", "ready", "panicked", "corrupted"}
                    /\ reply.op \in {"none", "malloc", "realloc"}
<1>1. Types
  BY DEF MallocInv
<1>2. CASE malloc_heap_init
  <2>1. heap = FirstHeap /\ blocks = {}
    BY <1>2 DEF malloc_heap_init, MallocInv, FirstHeap
  <2>2. CASE Cardinality(FreePages) < 12
    BY <1>1, <1>2, <2>1, <2>2 DEF malloc_heap_init, MallocInv, FirstHeap
  <2>3. CASE ~(Cardinality(FreePages) < 12)
    <3>1. HeapInv(heap', {})
      BY <1>2, <2>1, <2>3, HeapMade DEF malloc_heap_init
    <3>2. status' = "ready" /\ blocks' = {} /\ reply' = reply
      BY <1>2, <2>1, <2>3 DEF malloc_heap_init
    <3> QED BY <1>1, <3>1, <3>2 DEF MallocInv
  <2> QED BY <2>2, <2>3
<1>3. ASSUME status = "ready" PROVE HeapInv(heap, blocks)
  BY <1>3 DEF MallocInv
<1>4. ASSUME NEW size \in Sizes, malloc(size)
      PROVE  MallocInv'
  <2>1. status = "ready" /\ HeapInv(heap, blocks)
    BY <1>3, <1>4 DEF malloc
  <2>2. CASE AllocPanics(heap, size)
    BY <1>1, <1>4, <2>1, <2>2 DEF malloc, MallocInv
  <2>3. CASE ~AllocPanics(heap, size) /\ NewBlock(heap, size).at = NULL
    BY <1>1, <1>4, <2>1, <2>3 DEF malloc, MallocInv, NoReply
  <2>4. CASE ~AllocPanics(heap, size) /\ NewBlock(heap, size).at # NULL
    <3>1. HeapInv(Taken(heap, NewBlock(heap, size)), blocks \cup {NewBlock(heap, size)})
      BY <2>1, <2>4, TakenInv
    <3>2. /\ heap' = Taken(heap, NewBlock(heap, size))
          /\ blocks' = blocks \cup {NewBlock(heap, size)}
          /\ status' \in {"ready", "corrupted"} /\ reply'.op = "malloc"
      BY <1>4, <2>1, <2>4 DEF malloc
    <3> QED BY <2>1, <3>1, <3>2 DEF MallocInv
  <2> QED BY <2>2, <2>3, <2>4
<1>5. ASSUME NEW block \in blocks, free(block)
      PROVE  MallocInv'
  <2>1. status = "ready" /\ HeapInv(heap, blocks)
    BY <1>3, <1>5 DEF free
  <2>2. ~FreePanics(heap, block) /\ HeapInv(Freed(heap, block), blocks \ {block})
    BY <2>1, FreedInv
  <2>3. heap' = Freed(heap, block) /\ blocks' = blocks \ {block} /\ status' = status
        /\ reply'.op = "none"
    BY <1>5, <2>2 DEF free, NoReply
  <2> QED BY <2>1, <2>2, <2>3 DEF MallocInv
<1>6. ASSUME NEW block \in blocks, NEW size \in Sizes, realloc(block, size)
      PROVE  MallocInv'
  <2>1. status = "ready" /\ HeapInv(heap, blocks)
    BY <1>3, <1>6 DEF realloc
  <2>2. CASE free(block)
    BY <1>5, <2>2
  <2>3. CASE ReallocInPlace(block, size)
    <3>1. size \in Nat
      BY MallocAssumption
    <3>2. HeapInv(heap, (blocks \ {block}) \cup {[block EXCEPT !.asked = size]})
      BY <2>1, <3>1, GrownInv
    <3>3. /\ heap' = heap
          /\ blocks' = (blocks \ {block}) \cup {[block EXCEPT !.asked = size]}
          /\ reply'.op = "realloc"
          /\ status' \in {"ready", "corrupted"}
      BY <2>1, <2>3 DEF ReallocInPlace
    <3> QED BY <3>2, <3>3 DEF MallocInv
  <2>4. CASE ReallocMoves(block, size)
    <3> DEFINE new == NewBlock(heap, size)
    <3>1. CASE AllocPanics(heap, size)
      BY <1>1, <2>1, <2>4, <3>1 DEF ReallocMoves, MallocInv
    <3>2. CASE ~AllocPanics(heap, size) /\ new.at = NULL
      BY <1>1, <2>1, <2>4, <3>2 DEF ReallocMoves, MallocInv, NoReply
    <3>3. CASE ~AllocPanics(heap, size) /\ new.at # NULL
      <4>1. HeapInv(Taken(heap, new), blocks \cup {new}) /\ \A c \in blocks : c.at # new.at
        BY <2>1, <3>3, TakenInv
      <4>2. /\ heap' = Freed(Taken(heap, new), block)
            /\ blocks' = (blocks \ {block}) \cup {new}
            /\ reply'.op = "realloc"
        BY <2>4, <3>3 DEF ReallocMoves
      <4>3. status' \in {"ready", "corrupted", "panicked"}
        BY <2>1, <2>4, <3>3 DEF ReallocMoves
      <4> HIDE DEF new
      <4>4. HeapInv(Freed(Taken(heap, new), block), (blocks \cup {new}) \ {block})
        BY <4>1, FreedInv
      <4>5. (blocks \cup {new}) \ {block} = (blocks \ {block}) \cup {new}
        BY <4>1
      <4>6. HeapInv(heap', blocks')
        BY <4>2, <4>4, <4>5
      <4> QED BY <4>2, <4>3, <4>6 DEF MallocInv
    <3> QED BY <3>1, <3>2, <3>3
  <2> QED BY <1>6, <2>2, <2>3, <2>4 DEF realloc
<1>7. CASE UNCHANGED vars
  BY <1>7 DEF vars, MallocInv
<1> QED BY <1>2, <1>4, <1>5, <1>6, <1>7 DEF Next

-----------------------------------------------------------------------------
(* What the invariant says *)

\* A block lies in one page.
PageOf(b) == PAGE_TO_BIT(b.at)

LEMMA BlockInPage ==
    ASSUME NEW b \in Block, InSlab(b) \/ InPages(b)
    PROVE  /\ b.at \in Nat /\ b.bytes \in Nat /\ PageOf(b) \in Nat
           /\ BIT_TO_PAGE(PageOf(b)) <= b.at
           /\ b.at + b.bytes <= BIT_TO_PAGE(PageOf(b)) + PAGE_SIZE
<1>1. b.at \in Nat /\ b.bytes \in Nat
  BY DEF Block
<1>2. CASE InSlab(b)
  <2>1. PICK j \in Caches : j = b.size
    BY <1>2 DEF InSlab
  <2>2. /\ PageOf(b) = 2 * j + 2
        /\ BIT_TO_PAGE(2 * j + 2) <= b.at
        /\ b.at + CacheSize(j) <= BIT_TO_PAGE(2 * j + 2) + PAGE_SIZE
    BY <1>2, <2>1, BufferIsInside DEF InSlab, PageOf
  <2>3. 2 * j + 2 \in Nat
    BY CacheFacts
  <2> QED BY <1>1, <1>2, <2>1, <2>2, <2>3 DEF InSlab
<1>3. CASE InPages(b)
  <2>1. PICK p \in 13 .. TopPage - 1 : b.at = BIT_TO_PAGE(p)
    BY <1>3 DEF InPages
  <2>2. p \in Nat
    OBVIOUS
  <2>3. PageOf(b) = p /\ b.bytes = PAGE_SIZE
    BY <1>3, <2>1, <2>2, PageIsPaged DEF InPages, PageOf
  <2> QED BY <1>1, <2>1, <2>2, <2>3
<1> QED BY <1>2, <1>3

LEMMA LowerPageFirst ==
    ASSUME NEW b \in Block, NEW c \in Block, InSlab(b) \/ InPages(b), InSlab(c) \/ InPages(c),
           PageOf(b) < PageOf(c)
    PROVE  LastByte(b) < FirstByte(c)
<1>1. PICK p \in Nat : p = PageOf(b) /\ b.at + b.bytes <= BIT_TO_PAGE(p) + PAGE_SIZE
  BY BlockInPage
<1>2. PICK q \in Nat : q = PageOf(c) /\ BIT_TO_PAGE(q) <= c.at
  BY BlockInPage
<1>3. p * PAGE_SIZE + PAGE_SIZE <= q * PAGE_SIZE
  <2>1. p + 1 <= q
    BY <1>1, <1>2
  <2>2. (p + 1) * PAGE_SIZE <= q * PAGE_SIZE
    BY <2>1, PageSizeAssumption
  <2> QED BY <2>2, PageSizeAssumption
<1>4. /\ b.at \in Nat /\ b.bytes \in Nat /\ c.at \in Nat
      /\ p * PAGE_SIZE \in Nat /\ q * PAGE_SIZE \in Nat /\ PAGE_SIZE \in Nat
  BY PageSizeAssumption DEF Block
<1> QED BY <1>1, <1>2, <1>3, <1>4 DEF LastByte, FirstByte, BIT_TO_PAGE

\* Two buffers of a cache are a buffer's size apart.
LEMMA BuffersApart ==
    ASSUME NEW j \in Caches, NEW a \in BufferSet(j), NEW d \in BufferSet(j), a # d
    PROVE  a + CacheSize(j) <= d \/ d + CacheSize(j) <= a
<1>1. PICK k \in 1 .. CacheBuffers(j) : a = BIT_TO_PAGE(2 * j + 2) + CacheSize(j) * k
  BY DEF BufferSet
<1>2. PICK l \in 1 .. CacheBuffers(j) : d = BIT_TO_PAGE(2 * j + 2) + CacheSize(j) * l
  BY DEF BufferSet
<1>3. PICK z \in Nat : z = CacheSize(j)
  BY CacheFacts
<1>4. PICK x \in Nat : x = BIT_TO_PAGE(2 * j + 2)
  <2>1. 2 * j + 2 \in Nat
    BY CacheFacts
  <2> QED BY <2>1, BitOfPage
<1>5. k \in Nat /\ l \in Nat /\ a = x + z * k /\ d = x + z * l
  BY <1>1, <1>2, <1>3, <1>4
<1>6. z * k \in Nat /\ z * l \in Nat
  BY <1>3, <1>5
<1>7. k # l
  BY <1>5
<1>8. CASE k + 1 <= l
  <2>1. z * (k + 1) <= z * l /\ z * (k + 1) = z * k + z
    BY <1>3, <1>5, <1>8
  <2> QED BY <1>3, <1>4, <1>5, <1>6, <2>1
<1>9. CASE l + 1 <= k
  <2>1. z * (l + 1) <= z * k /\ z * (l + 1) = z * l + z
    BY <1>3, <1>5, <1>9
  <2> QED BY <1>3, <1>4, <1>5, <1>6, <2>1
<1> QED BY <1>5, <1>7, <1>8, <1>9

LEMMA WellMadeDisjoint ==
    ASSUME NEW B, BlocksWellMade(B), NEW b \in B, NEW c \in B, b # c
    PROVE  LastByte(b) < FirstByte(c) \/ LastByte(c) < FirstByte(b)
<1>1. /\ b \in Block /\ c \in Block /\ b.at # c.at
      /\ InSlab(b) \/ InPages(b)
      /\ InSlab(c) \/ InPages(c)
  BY DEF BlocksWellMade
<1>2. PageOf(b) \in Nat /\ PageOf(c) \in Nat
  BY <1>1, BlockInPage
<1>3. CASE PageOf(b) < PageOf(c)
  BY <1>1, <1>3, LowerPageFirst
<1>4. CASE PageOf(c) < PageOf(b)
  BY <1>1, <1>4, LowerPageFirst
<1>5. CASE PageOf(b) = PageOf(c)
  <2>1. ASSUME NEW d \in Block, InSlab(d)
        PROVE  d.size \in Caches /\ PageOf(d) = 2 * d.size + 2 /\ PageOf(d) <= 12
    BY <2>1, BufferIsInside, CacheFacts DEF InSlab, PageOf
  <2>2. ASSUME NEW d \in Block, InPages(d)
        PROVE  PageOf(d) >= 13 /\ d.at = BIT_TO_PAGE(PageOf(d))
    <3>1. PICK p \in 13 .. TopPage - 1 : d.at = BIT_TO_PAGE(p)
      BY <2>2 DEF InPages
    <3>2. p \in Nat /\ p >= 13
      OBVIOUS
    <3> QED BY <3>1, <3>2, PageIsPaged DEF PageOf
  <2>3. ~InPages(b)
    <3> SUFFICES ASSUME InPages(b) PROVE FALSE
      OBVIOUS
    <3>1. PageOf(b) >= 13 /\ b.at = BIT_TO_PAGE(PageOf(b))
      BY <1>1, <2>2
    <3>2. CASE InSlab(c)
      BY <1>1, <1>2, <1>5, <2>1, <3>1, <3>2
    <3>3. CASE InPages(c)
      BY <1>1, <1>5, <2>2, <3>1, <3>3
    <3> QED BY <1>1, <3>2, <3>3
  <2>4. InSlab(b)
    BY <1>1, <2>3
  <2>5. InSlab(c)
    <3> SUFFICES ASSUME InPages(c) PROVE FALSE
      BY <1>1
    <3>1. PageOf(c) >= 13
      BY <1>1, <2>2
    <3> QED BY <1>1, <1>2, <1>5, <2>1, <2>4, <3>1
  <2>6. PICK j \in Caches : j = b.size /\ j = c.size
    <3>1. PICK x \in Caches : x = b.size /\ PageOf(b) = 2 * x + 2
      BY <1>1, <2>1, <2>4
    <3>2. PICK y \in Caches : y = c.size /\ PageOf(c) = 2 * y + 2
      BY <1>1, <2>1, <2>5
    <3>3. x \in Nat /\ y \in Nat /\ 2 * x + 2 = 2 * y + 2
      BY <1>5, <3>1, <3>2, CacheFacts
    <3>4. x = y
      BY <3>3
    <3> QED BY <3>1, <3>2, <3>4
  <2>7. /\ b.at \in BufferSet(j) /\ c.at \in BufferSet(j)
        /\ b.bytes = CacheSize(j) /\ c.bytes = CacheSize(j)
    BY <2>4, <2>5, <2>6 DEF InSlab
  <2>8. b.at + CacheSize(j) <= c.at \/ c.at + CacheSize(j) <= b.at
    BY <1>1, <2>7, BuffersApart
  <2>9. b.at \in Nat /\ c.at \in Nat /\ CacheSize(j) \in Nat
    BY <1>1, CacheFacts DEF Block
  <2> QED BY <2>7, <2>8, <2>9 DEF LastByte, FirstByte
<1> QED BY <1>2, <1>3, <1>4, <1>5

\* The invariant holds while no block is larger than a page.
LEMMA MallocInvariant ==
    ASSUME SinglePages
    PROVE  Spec => []MallocInv
<1>1. MallocInv /\ [Next]_vars => MallocInv'
  BY MallocStep
<1> QED BY <1>1, MallocInit, PTL DEF Spec

\* No two blocks that callers have share a byte, whatever is asked for, freed
\* and reallocated and in whatever order, as long as no block is larger than a
\* page: malloc gives what is neither lent nor used, and free returns it to the
\* cache or the page it is from.
THEOREM BlocksAreDisjoint ==
    ASSUME SinglePages
    PROVE  Spec => []BlocksDisjoint
<1>1. MallocInv => BlocksDisjoint
  <2> SUFFICES ASSUME MallocInv, NEW b \in blocks, NEW c \in blocks, b # c
               PROVE  LastByte(b) < FirstByte(c) \/ LastByte(c) < FirstByte(b)
    BY DEF BlocksDisjoint
  <2>1. BlocksWellMade(blocks)
    BY DEF MallocInv, HeapInv
  <2> QED BY <2>1, WellMadeDisjoint
<1> QED BY <1>1, MallocInvariant, PTL

\* malloc.c loses no buffer and no page and gives none back twice, under the
\* same hypothesis: the list of a cache and the blocks from it make up its
\* slab, and the used pages are those of the caches and of page blocks.
THEOREM HeapIsAccountedFor ==
    ASSUME SinglePages
    PROVE  Spec => []HeapAccountedFor
<1>1. MallocInv => HeapAccountedFor
  <2> SUFFICES ASSUME MallocInv, status = "ready"
               PROVE  HeapAccountedFor
    BY DEF HeapAccountedFor
  <2> DEFINE paged == {b \in blocks : IsPaged(b.at)}
             pages == UNION {PageRange(PAGE_TO_BIT(b.at), b.bytes \div PAGE_SIZE) : b \in paged}
             lent(i) == {b.at : b \in {c \in blocks \ paged : c.bytes = slab_cache_index_to_size(i)}}
  <2>1. HeapInv(heap, blocks)
    BY DEF MallocInv
  <2>2. ASSUME NEW b \in paged
        PROVE  PageRange(PAGE_TO_BIT(b.at), b.bytes \div PAGE_SIZE) = {PAGE_TO_BIT(b.at)}
    <3>1. InPages(b)
      BY <2>1, BlockKinds DEF HeapInv, BlocksWellMade
    <3>2. PAGE_TO_BIT(b.at) \in 13 .. TopPage - 1
      BY <3>1, BlockKinds
    <3>3. b.bytes \div PAGE_SIZE = 1
      BY <3>1, PageSizeAssumption DEF InPages
    <3> QED BY <3>2, <3>3 DEF PageRange
  <2>3. pages = PagesOf(blocks)
    BY <2>2 DEF PagesOf
  <2>4. \A i : lent(i) = Lent(blocks, i)
    BY DEF Lent, LentBlocks, CacheSize
  <2>5. ASSUME NEW i \in Caches
        PROVE  BufferSet(i) = ToSet(Buffers(2 * i + 2, i))
    <3>1. Shared(Buffers(2 * i + 2, i), {}, i)
      BY FirstList
    <3> QED BY <3>1 DEF Shared
  <2>6. heap.bitmap = (0 .. 12) \cup pages
    BY <2>1, <2>3 DEF HeapInv
  <2>7. ASSUME NEW i \in Caches
        PROVE  /\ ToSet(heap.caches[i]) \cup lent(i) = ToSet(Buffers(2 * i + 2, i))
               /\ Len(heap.caches[i]) + Cardinality(lent(i)) = CacheBuffers(i)
    <3>1. Shared(heap.caches[i], lent(i), i)
      BY <2>1, <2>4 DEF HeapInv
    <3> QED BY <2>5, <3>1 DEF Shared
  <2> HIDE DEF pages, lent
  <2>8. /\ heap.bitmap = (0 .. 12) \cup pages
        /\ \A i \in Caches :
               /\ ToSet(heap.caches[i]) \cup lent(i) = ToSet(Buffers(2 * i + 2, i))
               /\ Len(heap.caches[i]) + Cardinality(lent(i)) = CacheBuffers(i)
    BY <2>6, <2>7
  <2> QED BY <2>8 DEF HeapAccountedFor, pages, lent
<1> QED BY <1>1, MallocInvariant, PTL

\* The heap's variables have their types under the same hypothesis: no list is
\* longer than its slab, no metadata wraps.
THEOREM HeapTypes ==
    ASSUME SinglePages
    PROVE  Spec => []TypeOK
<1>1. MallocInv => TypeOK
  <2> SUFFICES ASSUME MallocInv PROVE TypeOK
    OBVIOUS
  <2>1. CASE heap = FirstHeap /\ blocks = {}
    <3>1. \A i \in Caches : heap.caches[i] = <<>> /\ Len(heap.caches[i]) = 0
      BY <2>1 DEF FirstHeap
    <3>2. ASSUME NEW i \in Caches PROVE 0 <= CacheBuffers(i)
      <4>1. PICK list \in Seq(Nat) : Len(list) = CacheBuffers(i)
        BY FirstList, FS_EmptySet DEF Shared
      <4> QED BY <4>1
    <3>3. heap.bitmap \subseteq 0 .. TopPage - 1
      BY <2>1, MallocAssumption DEF FirstHeap
    <3>4. \A i \in Caches : heap.caches[i] \in Seq(Nat) /\ Len(heap.caches[i]) <= CacheBuffers(i)
      BY <3>1, <3>2, EmptySeq
    <3>5. blocks \subseteq Block
      BY <2>1
    <3> QED BY <3>3, <3>4, <3>5 DEF MallocInv, TypeOK
  <2>2. CASE HeapInv(heap, blocks)
    <3>1. ASSUME NEW i \in Caches
          PROVE  heap.caches[i] \in Seq(Nat) /\ Len(heap.caches[i]) <= CacheBuffers(i)
      <4>1. Shared(heap.caches[i], Lent(blocks, i), i)
        BY <2>2 DEF HeapInv
      <4>2. Cardinality(Lent(blocks, i)) \in Nat /\ Len(heap.caches[i]) \in Nat
        BY <4>1, FS_CardinalityType DEF Shared
      <4> QED BY <4>1, <4>2 DEF Shared
    <3>2. heap.bitmap \subseteq 0 .. TopPage - 1 /\ blocks \subseteq Block
      BY <2>2 DEF HeapInv, BlocksWellMade
    <3> QED BY <3>1, <3>2 DEF MallocInv, TypeOK
  <2> QED BY <2>1, <2>2 DEF MallocInv, FirstHeap
<1> QED BY <1>1, MallocInvariant, PTL

\* malloc gives the bytes asked for and takes the smallest cache with room, in every
\* state of the heap and for every size but the last ones of a size_t, to which the
\* metadata cannot be added: what n--, the shifts and n++ of next_power_of_two make of
\* a number up to 512 is the smallest power of two that is not below it, and a size
\* that ALIGN_UP wraps is refused.
THEOREM MallocAlwaysHolds == Spec => []MallocHoldsRequest
<1>1. Init => MallocHoldsRequest
  BY DEF Init, NoReply, MallocHoldsRequest
<1>2. MallocHoldsRequest /\ [Next]_vars => MallocHoldsRequest'
  <2> SUFFICES ASSUME MallocHoldsRequest, [Next]_vars, reply'.op = "malloc",
                      reply'.asked + METADATA_SIZE < SIZE_RANGE
               PROVE  /\ reply'.room >= reply'.asked
                      /\ \A i \in Caches : slab_cache_index_to_size(i) >= reply'.asked + METADATA_SIZE =>
                             reply'.room + METADATA_SIZE <= slab_cache_index_to_size(i)
    BY DEF MallocHoldsRequest
  <2>1. CASE reply' = reply
    BY <2>1 DEF MallocHoldsRequest
  <2>2. CASE reply' # reply
    <3>1. PICK size \in Sizes : malloc(size)
      <4>1. ~malloc_heap_init /\ ~(UNCHANGED vars)
        BY <2>2 DEF malloc_heap_init, vars
      <4>2. \A block : ~free(block)
        BY DEF free, NoReply
      <4>3. \A block, size : ~realloc(block, size)
        <5> SUFFICES ASSUME NEW block, NEW size, realloc(block, size) PROVE FALSE
          OBVIOUS
        <5>1. ~ReallocInPlace(block, size)
          BY DEF ReallocInPlace
        <5>2. ~ReallocMoves(block, size)
          BY <2>2 DEF ReallocMoves, NoReply
        <5> QED BY <4>2, <5>1, <5>2 DEF realloc
      <4> QED BY <4>1, <4>2, <4>3 DEF Next
    <3>2. reply' = [op |-> "malloc", asked |-> size, room |-> Room(NewBlock(heap, size))]
      BY <2>2, <3>1 DEF malloc, NoReply
    <3>5. size \in Nat /\ SIZE_RANGE \in Nat
      BY MallocAssumption
    <3>3. PICK n \in 0 .. SIZE_RANGE - 1 : n = size + METADATA_SIZE
      BY <3>2, <3>5 DEF METADATA_SIZE
    <3>4. /\ reply'.asked = size /\ AllocSize(size) = round_alloc_size(n)
          /\ reply'.room = round_alloc_size(n) - METADATA_SIZE
      <4>1. n % SIZE_RANGE = n
        BY <3>3, <3>5
      <4>2. AllocSize(size) = round_alloc_size(n)
        BY <3>3, <4>1 DEF AllocSize
      <4> QED BY <3>2, <4>2, NewBlockFields DEF Room
    <3>8. NewBlock(heap, size).at # NULL
      BY <2>2, <3>1 DEF malloc, NoReply
    <3>6. CASE n <= 512
      <4>1. n \in 0 .. 512
        BY <3>3, <3>6
      <4>2. PICK j \in Caches :
                /\ round_alloc_size(n) = slab_cache_index_to_size(j)
                /\ n <= slab_cache_index_to_size(j)
                /\ \A k \in Caches : n <= slab_cache_index_to_size(k) =>
                       slab_cache_index_to_size(j) <= slab_cache_index_to_size(k)
        BY <4>1, SmallSizes
      <4>3. \A k \in Caches : slab_cache_index_to_size(k) \in Nat
        BY CacheFacts DEF CacheSize
      <4>4. PICK r \in Nat : r = slab_cache_index_to_size(j)
        BY <4>3
      <4>5. reply'.room = r - 2 /\ reply'.asked = n - 2 /\ n <= r
        BY <3>3, <3>4, <3>5, <4>2, <4>4 DEF METADATA_SIZE
      <4>6. reply'.room >= reply'.asked
        BY <4>4, <4>5
      <4>7. ASSUME NEW i \in Caches, slab_cache_index_to_size(i) >= reply'.asked + METADATA_SIZE
            PROVE  reply'.room + METADATA_SIZE <= slab_cache_index_to_size(i)
        <5>1. PICK x \in Nat : x = slab_cache_index_to_size(i)
          BY <4>3
        <5>2. n <= x
          BY <3>3, <3>4, <4>7, <5>1
        <5>3. r <= x
          BY <4>2, <4>4, <5>1, <5>2
        <5> QED BY <4>4, <4>5, <5>1, <5>3 DEF METADATA_SIZE
      <4> QED BY <4>6, <4>7
    <3>7. CASE n > 512
      <4>1. PICK k \in Nat \ {0} : round_alloc_size(n) = k * PAGE_SIZE /\ n <= k * PAGE_SIZE
        BY <3>4, <3>7, <3>8, LargeSizes, NewBlockFields
      <4>2. PICK r \in Nat : r = k * PAGE_SIZE
        BY PageSizeAssumption
      <4>3. reply'.room = r - 2 /\ reply'.asked = n - 2 /\ n <= r
        BY <3>3, <3>4, <3>5, <4>1, <4>2 DEF METADATA_SIZE
      <4>4. ASSUME NEW i \in Caches PROVE slab_cache_index_to_size(i) \in Nat /\ slab_cache_index_to_size(i) <= 512
        BY CacheFacts DEF CacheSize
      <4> QED BY <3>3, <3>4, <3>7, <4>2, <4>3, <4>4
    <3> QED BY <3>3, <3>6, <3>7
  <2> QED BY <2>1, <2>2
<1> QED BY <1>1, <1>2, PTL DEF Spec

-----------------------------------------------------------------------------
(* The spinlock: mutual exclusion and the interrupt flag, on any number of *)
(* CPUs and with interrupts at any point that allows them.                 *)

\* The flag a context will find when it runs (again): a thread that was
\* interrupted had it set, and iret sets it.
FlagOf(x) == (x[2] = THREAD /\ in_isr[x[1]]) \/ IFLAG[x[1]]

\* A context that has the lock sees it set, so nobody else can get it.
LockIsSet == \A x \in Contexts : pc[x] \in Holding => lock

\* No handler has started on a CPU that is not in one.
HandlersIdle == \A c \in CPUs : ~in_isr[c] => pc[<<c, ISR>>] = "idle"

\* Until the cli, and again after the restore, the flag is the one from before;
\* in between it is clear and spinlock->interrupts remembers it.
FlagRemembered ==
    \A x \in Contexts :
        /\ pc[x] \in {"spin", "save", "cli", "clear"} => (FlagOf(x) <=> before[x])
        /\ pc[x] \in {"locked", "restore"} => ~FlagOf(x)
        /\ pc[x] \in {"cli", "locked", "restore"} => (interrupts <=> before[x])

\* A handler began to acquire with interrupts off.
HandlerCalledMasked ==
    \A c \in CPUs : pc[<<c, ISR>>] # "idle" => ~before[<<c, ISR>>]

SpinlockInv ==
    /\ LockTypeOK
    /\ MutualExclusion
    /\ LockIsSet
    /\ HandlersIdle
    /\ HandlerStaysMasked
    /\ FlagRemembered
    /\ HandlerCalledMasked

-----------------------------------------------------------------------------

\* A context is a CPU and a level; the two levels differ.
LEMMA ContextFacts ==
    /\ \A x \in Contexts : x[1] \in CPUs /\ x[2] \in {THREAD, ISR} /\ x = <<x[1], x[2]>>
    /\ \A c \in CPUs : <<c, THREAD>> \in Contexts /\ <<c, ISR>> \in Contexts
    /\ THREAD # ISR
BY DEF Contexts, THREAD, ISR

\* Two contexts on a CPU: the other one is idle in its handler, or interrupted.
LEMMA OtherContext ==
    ASSUME LockTypeOK, HandlersIdle, NEW x \in Contexts, NEW y \in Contexts,
           Running(x), y # x, y[1] = x[1]
    PROVE  \/ y[2] = ISR /\ pc[y] = "idle"
           \/ y[2] = THREAD /\ in_isr[y[1]]
<1>1. x[2] # y[2]
  BY ContextFacts
<1>2. CASE x[2] = ISR
  BY <1>1, <1>2, ContextFacts DEF Running, LockTypeOK
<1>3. CASE x[2] = THREAD
  BY <1>1, <1>3, ContextFacts DEF Running, HandlersIdle, LockTypeOK
<1> QED BY <1>2, <1>3, ContextFacts

\* Beginning to acquire keeps the invariant: the flag it notes is the CPU's.
LEMMA CallStep ==
    ASSUME SpinlockInv, NEW x \in Contexts, Call(x)
    PROVE  SpinlockInv'
<1> USE ContextFacts
<1>1. LockTypeOK'
  BY DEF SpinlockInv, LockTypeOK, Call, Goto, Places
<1>2. MutualExclusion'
  BY DEF SpinlockInv, LockTypeOK, MutualExclusion, LockIsSet, Call, Goto, Places, Holding
<1>3. LockIsSet'
  BY DEF SpinlockInv, LockTypeOK, MutualExclusion, LockIsSet, Call, Goto, Places, Holding
<1>4. HandlersIdle'
  BY DEF SpinlockInv, LockTypeOK, HandlersIdle, Call, Goto, Running
<1>5. HandlerStaysMasked'
  BY DEF SpinlockInv, LockTypeOK, HandlerStaysMasked, FlagRemembered, FlagOf, HandlerCalledMasked, Call, Goto, Running
<1>6. FlagRemembered'
  BY OtherContext DEF SpinlockInv, LockTypeOK, FlagRemembered, FlagOf, MutualExclusion, Call, Goto, Running, Holding, Places
<1>7. HandlerCalledMasked'
  BY DEF SpinlockInv, LockTypeOK, HandlerCalledMasked, HandlerStaysMasked, Call, Goto, Running
<1> QED BY <1>1, <1>2, <1>3, <1>4, <1>5, <1>6, <1>7 DEF SpinlockInv

\* Taking the lock keeps the invariant: nobody had it.
LEMMA TestAndSetStep ==
    ASSUME SpinlockInv, NEW x \in Contexts, TestAndSet(x)
    PROVE  SpinlockInv'
<1> USE ContextFacts
<1>1. LockTypeOK'
  BY DEF SpinlockInv, LockTypeOK, TestAndSet, Goto, Places
<1>2. MutualExclusion'
  BY DEF SpinlockInv, LockTypeOK, MutualExclusion, LockIsSet, TestAndSet, Goto, Places, Holding
<1>3. LockIsSet'
  BY DEF SpinlockInv, LockTypeOK, MutualExclusion, LockIsSet, TestAndSet, Goto, Places, Holding
<1>4. HandlersIdle'
  BY DEF SpinlockInv, LockTypeOK, HandlersIdle, TestAndSet, Goto, Running
<1>5. HandlerStaysMasked'
  BY DEF SpinlockInv, LockTypeOK, HandlerStaysMasked, FlagRemembered, FlagOf, HandlerCalledMasked, TestAndSet, Goto, Running
<1>6. FlagRemembered'
  BY OtherContext DEF SpinlockInv, LockTypeOK, FlagRemembered, FlagOf, MutualExclusion, TestAndSet, Goto, Running, Holding, Places
<1>7. HandlerCalledMasked'
  BY DEF SpinlockInv, LockTypeOK, HandlerCalledMasked, HandlerStaysMasked, TestAndSet, Goto, Running
<1> QED BY <1>1, <1>2, <1>3, <1>4, <1>5, <1>6, <1>7 DEF SpinlockInv

\* Saving the flag keeps the invariant: only the owner writes the shared field.
LEMMA SaveInterruptFlagStep ==
    ASSUME SpinlockInv, NEW x \in Contexts, SaveInterruptFlag(x)
    PROVE  SpinlockInv'
<1> USE ContextFacts
<1>1. LockTypeOK'
  BY DEF SpinlockInv, LockTypeOK, SaveInterruptFlag, Goto, Places
<1>2. MutualExclusion'
  BY DEF SpinlockInv, LockTypeOK, MutualExclusion, LockIsSet, SaveInterruptFlag, Goto, Places, Holding
<1>3. LockIsSet'
  BY DEF SpinlockInv, LockTypeOK, MutualExclusion, LockIsSet, SaveInterruptFlag, Goto, Places, Holding
<1>4. HandlersIdle'
  BY DEF SpinlockInv, LockTypeOK, HandlersIdle, SaveInterruptFlag, Goto, Running
<1>5. HandlerStaysMasked'
  BY DEF SpinlockInv, LockTypeOK, HandlerStaysMasked, FlagRemembered, FlagOf, HandlerCalledMasked, SaveInterruptFlag, Goto, Running
<1>6. FlagRemembered'
  BY OtherContext DEF SpinlockInv, LockTypeOK, FlagRemembered, FlagOf, MutualExclusion, SaveInterruptFlag, Goto, Running, Holding, Places
<1>7. HandlerCalledMasked'
  BY DEF SpinlockInv, LockTypeOK, HandlerCalledMasked, HandlerStaysMasked, SaveInterruptFlag, Goto, Running
<1> QED BY <1>1, <1>2, <1>3, <1>4, <1>5, <1>6, <1>7 DEF SpinlockInv

\* cli keeps the invariant: from here on no handler interrupts the owner.
LEMMA ClearInterruptFlagStep ==
    ASSUME SpinlockInv, NEW x \in Contexts, ClearInterruptFlag(x)
    PROVE  SpinlockInv'
<1> USE ContextFacts
<1>1. LockTypeOK'
  BY DEF SpinlockInv, LockTypeOK, ClearInterruptFlag, Goto, Places
<1>2. MutualExclusion'
  BY DEF SpinlockInv, LockTypeOK, MutualExclusion, LockIsSet, ClearInterruptFlag, Goto, Places, Holding
<1>3. LockIsSet'
  BY DEF SpinlockInv, LockTypeOK, MutualExclusion, LockIsSet, ClearInterruptFlag, Goto, Places, Holding
<1>4. HandlersIdle'
  BY DEF SpinlockInv, LockTypeOK, HandlersIdle, ClearInterruptFlag, Goto, Running
<1>5. HandlerStaysMasked'
  BY DEF SpinlockInv, LockTypeOK, HandlerStaysMasked, FlagRemembered, FlagOf, HandlerCalledMasked, ClearInterruptFlag, Goto, Running
<1>6. FlagRemembered'
  BY OtherContext DEF SpinlockInv, LockTypeOK, FlagRemembered, FlagOf, MutualExclusion, ClearInterruptFlag, Goto, Running, Holding, Places
<1>7. HandlerCalledMasked'
  BY DEF SpinlockInv, LockTypeOK, HandlerCalledMasked, HandlerStaysMasked, ClearInterruptFlag, Goto, Running
<1> QED BY <1>1, <1>2, <1>3, <1>4, <1>5, <1>6, <1>7 DEF SpinlockInv

\* The end of the locked code keeps the invariant.
LEMMA EndLockedStep ==
    ASSUME SpinlockInv, NEW x \in Contexts, EndLocked(x)
    PROVE  SpinlockInv'
<1> USE ContextFacts
<1>1. LockTypeOK'
  BY DEF SpinlockInv, LockTypeOK, EndLocked, Goto, Places
<1>2. MutualExclusion'
  BY DEF SpinlockInv, LockTypeOK, MutualExclusion, LockIsSet, EndLocked, Goto, Places, Holding
<1>3. LockIsSet'
  BY DEF SpinlockInv, LockTypeOK, MutualExclusion, LockIsSet, EndLocked, Goto, Places, Holding
<1>4. HandlersIdle'
  BY DEF SpinlockInv, LockTypeOK, HandlersIdle, EndLocked, Goto, Running
<1>5. HandlerStaysMasked'
  BY DEF SpinlockInv, LockTypeOK, HandlerStaysMasked, FlagRemembered, FlagOf, HandlerCalledMasked, EndLocked, Goto, Running
<1>6. FlagRemembered'
  BY OtherContext DEF SpinlockInv, LockTypeOK, FlagRemembered, FlagOf, MutualExclusion, EndLocked, Goto, Running, Holding, Places
<1>7. HandlerCalledMasked'
  BY DEF SpinlockInv, LockTypeOK, HandlerCalledMasked, HandlerStaysMasked, EndLocked, Goto, Running
<1> QED BY <1>1, <1>2, <1>3, <1>4, <1>5, <1>6, <1>7 DEF SpinlockInv

\* Restoring keeps the invariant: the field still has what the owner saved.
LEMMA RestoreInterruptFlagStep ==
    ASSUME SpinlockInv, NEW x \in Contexts, RestoreInterruptFlag(x)
    PROVE  SpinlockInv'
<1> USE ContextFacts
<1>1. LockTypeOK'
  BY DEF SpinlockInv, LockTypeOK, RestoreInterruptFlag, Goto, Places
<1>2. MutualExclusion'
  BY DEF SpinlockInv, LockTypeOK, MutualExclusion, LockIsSet, RestoreInterruptFlag, Goto, Places, Holding
<1>3. LockIsSet'
  BY DEF SpinlockInv, LockTypeOK, MutualExclusion, LockIsSet, RestoreInterruptFlag, Goto, Places, Holding
<1>4. HandlersIdle'
  BY DEF SpinlockInv, LockTypeOK, HandlersIdle, RestoreInterruptFlag, Goto, Running
<1>5. HandlerStaysMasked'
  BY DEF SpinlockInv, LockTypeOK, HandlerStaysMasked, FlagRemembered, FlagOf, HandlerCalledMasked, RestoreInterruptFlag, Goto, Running
<1>6. FlagRemembered'
  BY OtherContext DEF SpinlockInv, LockTypeOK, FlagRemembered, FlagOf, MutualExclusion, RestoreInterruptFlag, Goto, Running, Holding, Places
<1>7. HandlerCalledMasked'
  BY DEF SpinlockInv, LockTypeOK, HandlerCalledMasked, HandlerStaysMasked, RestoreInterruptFlag, Goto, Running
<1> QED BY <1>1, <1>2, <1>3, <1>4, <1>5, <1>6, <1>7 DEF SpinlockInv

\* Clearing the lock keeps the invariant: the owner has given up everything.
LEMMA ClearStep ==
    ASSUME SpinlockInv, NEW x \in Contexts, Clear(x)
    PROVE  SpinlockInv'
<1> USE ContextFacts
<1>1. LockTypeOK'
  BY DEF SpinlockInv, LockTypeOK, Clear, Goto, Places
<1>2. MutualExclusion'
  BY DEF SpinlockInv, LockTypeOK, MutualExclusion, LockIsSet, Clear, Goto, Places, Holding
<1>3. LockIsSet'
  BY DEF SpinlockInv, LockTypeOK, MutualExclusion, LockIsSet, Clear, Goto, Places, Holding
<1>4. HandlersIdle'
  BY DEF SpinlockInv, LockTypeOK, HandlersIdle, Clear, Goto, Running
<1>5. HandlerStaysMasked'
  BY DEF SpinlockInv, LockTypeOK, HandlerStaysMasked, FlagRemembered, FlagOf, HandlerCalledMasked, Clear, Goto, Running
<1>6. FlagRemembered'
  BY OtherContext DEF SpinlockInv, LockTypeOK, FlagRemembered, FlagOf, MutualExclusion, Clear, Goto, Running, Holding, Places
<1>7. HandlerCalledMasked'
  BY DEF SpinlockInv, LockTypeOK, HandlerCalledMasked, HandlerStaysMasked, Clear, Goto, Running
<1> QED BY <1>1, <1>2, <1>3, <1>4, <1>5, <1>6, <1>7 DEF SpinlockInv

\* Enabling interrupts outside locked code and handlers keeps the invariant.
LEMMA EnableInterruptsStep ==
    ASSUME SpinlockInv, NEW c \in CPUs, EnableInterrupts(c)
    PROVE  SpinlockInv'
<1> USE ContextFacts
<1>1. LockTypeOK'
  BY DEF SpinlockInv, LockTypeOK, EnableInterrupts
<1>2. MutualExclusion' /\ LockIsSet' /\ HandlerCalledMasked'
  BY DEF SpinlockInv, MutualExclusion, LockIsSet, HandlerCalledMasked, EnableInterrupts
<1>3. HandlersIdle'
  BY DEF SpinlockInv, LockTypeOK, HandlersIdle, EnableInterrupts
<1>4. HandlerStaysMasked'
  BY DEF SpinlockInv, LockTypeOK, HandlerStaysMasked, EnableInterrupts
<1>5. FlagRemembered'
  BY DEF SpinlockInv, LockTypeOK, HandlersIdle, FlagRemembered, FlagOf, EnableInterrupts
<1> QED BY <1>1, <1>2, <1>3, <1>4, <1>5 DEF SpinlockInv

\* An interrupt keeps the invariant: the flag was set, the thread is not between
\* cli and restore.
LEMMA InterruptStep ==
    ASSUME SpinlockInv, NEW c \in CPUs, Interrupt(c)
    PROVE  SpinlockInv'
<1> USE ContextFacts
<1>1. LockTypeOK'
  BY DEF SpinlockInv, LockTypeOK, Interrupt
<1>2. MutualExclusion' /\ LockIsSet' /\ HandlerCalledMasked'
  BY DEF SpinlockInv, MutualExclusion, LockIsSet, HandlerCalledMasked, Interrupt
<1>3. HandlersIdle'
  BY DEF SpinlockInv, LockTypeOK, HandlersIdle, Interrupt
<1>4. HandlerStaysMasked'
  BY DEF SpinlockInv, LockTypeOK, HandlerStaysMasked, Interrupt
<1>5. FlagRemembered'
  BY DEF SpinlockInv, LockTypeOK, HandlersIdle, FlagRemembered, FlagOf, Interrupt
<1> QED BY <1>1, <1>2, <1>3, <1>4, <1>5 DEF SpinlockInv

\* iret keeps the invariant: the handler has nothing left to release.
LEMMA InterruptReturnStep ==
    ASSUME SpinlockInv, NEW c \in CPUs, InterruptReturn(c)
    PROVE  SpinlockInv'
<1> USE ContextFacts
<1>1. LockTypeOK'
  BY DEF SpinlockInv, LockTypeOK, InterruptReturn
<1>2. MutualExclusion' /\ LockIsSet' /\ HandlerCalledMasked'
  BY DEF SpinlockInv, MutualExclusion, LockIsSet, HandlerCalledMasked, InterruptReturn
<1>3. HandlersIdle'
  BY DEF SpinlockInv, LockTypeOK, HandlersIdle, InterruptReturn
<1>4. HandlerStaysMasked'
  BY DEF SpinlockInv, LockTypeOK, HandlerStaysMasked, InterruptReturn
<1>5. FlagRemembered'
  BY DEF SpinlockInv, LockTypeOK, HandlersIdle, FlagRemembered, FlagOf, InterruptReturn
<1> QED BY <1>1, <1>2, <1>3, <1>4, <1>5 DEF SpinlockInv

\* Every step keeps the invariant.
LEMMA SpinlockInvNext == SpinlockInv /\ [LockNext]_lock_vars => SpinlockInv'
<1> SUFFICES ASSUME SpinlockInv, [LockNext]_lock_vars PROVE SpinlockInv'
  OBVIOUS
<1>1. ASSUME NEW x \in Contexts, Step(x) PROVE SpinlockInv'
  BY <1>1, CallStep, TestAndSetStep, SaveInterruptFlagStep, ClearInterruptFlagStep,
     EndLockedStep, RestoreInterruptFlagStep, ClearStep DEF Step
<1>2. ASSUME NEW c \in CPUs, EnableInterrupts(c) \/ Interrupt(c) \/ InterruptReturn(c)
      PROVE  SpinlockInv'
  BY <1>2, EnableInterruptsStep, InterruptStep, InterruptReturnStep
<1>3. CASE UNCHANGED lock_vars
  BY <1>3 DEF lock_vars, SpinlockInv, LockTypeOK, MutualExclusion, LockIsSet, HandlersIdle,
              HandlerStaysMasked, FlagRemembered, FlagOf, HandlerCalledMasked
<1> QED BY <1>1, <1>2, <1>3 DEF LockNext

\* The invariant holds at the start.
LEMMA SpinlockInvInit == LockInit => SpinlockInv
BY ContextFacts DEF LockInit, SpinlockInv, LockTypeOK, Places, Holding, MutualExclusion, LockIsSet,
   HandlersIdle, HandlerStaysMasked, FlagRemembered, FlagOf, HandlerCalledMasked

\* On any number of CPUs at most one context has the lock, and a handler never
\* gets it while the thread it interrupted has it (spinlock_acquire,
\* spinlock_release).
THEOREM LockExcludes == LockSpec => []MutualExclusion
<1>1. SpinlockInv => MutualExclusion
  BY DEF SpinlockInv
<1> QED BY <1>1, SpinlockInvInit, SpinlockInvNext, PTL DEF LockSpec

\* Each context leaves the lock with the interrupt flag it came with, although
\* spinlock->interrupts is one field for all CPUs, because the flag is restored
\* before the lock is cleared (spinlock.h:62-71).
THEOREM LockRestoresInterrupts == LockSpec => []InterruptStateRestored
<1>1. SpinlockInv => InterruptStateRestored
  BY ContextFacts DEF SpinlockInv, LockTypeOK, FlagRemembered, FlagOf, InterruptStateRestored, Running
<1> QED BY <1>1, SpinlockInvInit, SpinlockInvNext, PTL DEF LockSpec

\* No release of a lock turns interrupts on inside an interrupt handler.
THEOREM HandlersStayMasked == LockSpec => []HandlerStaysMasked
<1>1. SpinlockInv => HandlerStaysMasked
  BY DEF SpinlockInv
<1> QED BY <1>1, SpinlockInvInit, SpinlockInvNext, PTL DEF LockSpec
=============================================================================
