----------------------------- MODULE PageBitmap -----------------------------
(***************************************************************************)
(* The page macros of memory/mem.h, the bit operations of                  *)
(* libk/data_structs/bitmap.c and the search and marking loops of          *)
(* memory/physical/pmm.c, as operators without state.                      *)
(*                                                                         *)
(* A bitmap is the set of the bits that are 1, that is, of the pages that  *)
(* are used.  Addresses are byte addresses, as in the code.  PAGE_SIZE is  *)
(* a parameter so that a model may use small pages.                        *)
(***************************************************************************)
EXTENDS Integers, FiniteSets, FiniteSetsExt

CONSTANT PAGE_SIZE

ASSUME PageSizeAssumption == PAGE_SIZE \in Nat \ {0}

NULL == 0

-----------------------------------------------------------------------------
(* memory/mem.h; align is a power of two there, which makes the masks the  *)
(* roundings below.                                                        *)

KB_TO_PAGES(kb) == (kb * 1024) \div PAGE_SIZE

ALIGN_DOWN(address, align) == (address \div align) * align

ALIGN_UP(address, align) == ((address + align - 1) \div align) * align

BIT_TO_PAGE(bit) == bit * PAGE_SIZE

PAGE_TO_BIT(page) == page \div PAGE_SIZE

\* The pages touched by page_count pages starting at page "index".
PageRange(index, page_count) == index .. (index + page_count - 1)

-----------------------------------------------------------------------------
(* libk/data_structs/bitmap.c, applied by the loops of pmm_alloc and       *)
(* pmm_free to page_count consecutive bits.                                *)

bitmap_check_bit(bitmap, bit) == bit \in bitmap

\* Variants of the loops below with the plausible slips: one bit too few, one
\* too many, one to the left.
SetBitsButLast(bitmap, index, page_count) == bitmap \cup PageRange(index, page_count - 1)
UnsetBitsButLast(bitmap, index, page_count) == bitmap \ PageRange(index, page_count - 1)
UnsetBitsAndNext(bitmap, index, page_count) == bitmap \ PageRange(index, page_count + 1)
UnsetBitsToTheLeft(bitmap, index, page_count) == bitmap \ PageRange(index - 1, page_count)

SetBits(bitmap, index, page_count) == bitmap \cup PageRange(index, page_count)

UnsetBits(bitmap, index, page_count) == bitmap \ PageRange(index, page_count)

-----------------------------------------------------------------------------
(* pmm_find_first_free_page_range.  The inner loop looks at bit            *)
(* all_bits_i + PAGE_TO_BIT(page_count_i): page_count_i is a number of     *)
(* pages and is divided by PAGE_SIZE once more.                            *)

RangeLooksFree(bitmap, index, page_count) ==
    /\ page_count > 0
    /\ \A page_count_i \in 0 .. page_count - 1 :
           ~bitmap_check_bit(bitmap, index + PAGE_TO_BIT(page_count_i))

\* Variant: the search stops before the last page.
CandidatesButLast(bitmap, top, page_count) ==
    {i \in 0 .. PAGE_TO_BIT(top) - 2 : RangeLooksFree(bitmap, i, page_count)}

\* The indices the search accepts, of which it returns the first.
Candidates(bitmap, top, page_count) ==
    {i \in 0 .. PAGE_TO_BIT(top) - 1 : RangeLooksFree(bitmap, i, page_count)}

pmm_find_first_free_page_range(bitmap, top, page_count) ==
    LET candidates == Candidates(bitmap, top, page_count)
    IN  IF candidates = {} THEN NULL ELSE BIT_TO_PAGE(Min(candidates))
=============================================================================
