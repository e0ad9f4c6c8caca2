------------------------------- MODULE MCPmm --------------------------------
(* Small memory maps for the physical memory manager.  Pages are 4 bytes, so *)
(* one page of bitmap has 32 bits and counts up to 4 pages stay below        *)
(* PAGE_SIZE, as every count the kernel uses does.                           *)
EXTENDS Pmm, TLC

Entry(type, first, pages) ==
    [base |-> first * PAGE_SIZE, length |-> pages * PAGE_SIZE, type |-> type]

\* Page 0 reserved, the kernel in the middle: the layout QEMU reports.
KernelInTheMiddle ==
    <<Entry(RESERVED, 0, 1), Entry(USABLE, 1, 3), Entry(KERNEL, 4, 1),
      Entry(USABLE, 5, 2), Entry(RECLAIMABLE, 7, 1), Entry(RESERVED, 20, 4)>>

\* Memory usable from page 0 on, which hosts the bitmap at address 0.
UsableFromZero ==
    <<Entry(USABLE, 0, 3), Entry(RECLAIMABLE, 3, 4), Entry(USABLE, 7, 2)>>

\* The first usable entry is too short for a bitmap of two pages.
LongBitmap ==
    <<Entry(USABLE, 1, 1), Entry(KERNEL, 2, 34), Entry(USABLE, 36, 4)>>

\* 34 pages: the division by 8 leaves no byte for the last two.
PagesBehindBitmap ==
    <<Entry(USABLE, 1, 4), Entry(KERNEL, 5, 27), Entry(USABLE, 32, 2)>>

CoveredMaps == {KernelInTheMiddle, UsableFromZero, LongBitmap}
AllMaps == CoveredMaps \cup {PagesBehindBitmap}

HolderSymmetry == Permutations(Holders)
=============================================================================
