# apoptOS: a TLA+ verification of the kernel's memory, locking and start-up code

apoptOS is an x86_64 kernel in C. This directory models the parts of it whose correctness depends
on long sequences of calls, on several processors, on interrupts or on arithmetic at a boundary:
the page allocator, the slab allocator, the heap, the page tables, the spinlock, formatted and serial
output, the search for ACPI tables, the legacy interrupt controllers, interrupt routing, the timers
and the start of the other processors. TLC checks the models on small instances; TLAPS proves the
safety properties of all these parts but formatted printing for every instance.

Paths below are relative to `src/src/kernel/`. Definitions keep the names of the C functions they
model; `PROJECT.json` ("map") gives the lines of each.

## 1. Inventory

| Part | State it keeps | Operations | Used by / shares | What is hard about it |
|---|---|---|---|---|
| Page allocator `memory/physical/pmm.c`, `libk/data_structs/bitmap.c`, `memory/mem.h` | the bitmap, where it lies, `highest_page_top`, `used_pages_count`; it changes the bootloader's memory map | `pmm_init`, `pmm_alloc`, `pmm_allocz`, `pmm_free` | everything that needs memory | the bitmap lives in the memory it describes; NULL is also the address of page 0; scaled indices |
| Slab allocator `memory/dynamic/slab.c` | caches, a list of slabs per cache, a free list per slab, counts | create, destroy, grow, reap, alloc, free, dump | takes pages from the page allocator, serves the heap | buffers return to other slabs than they came from; retry by recursion; a limit in the cache that every slab changes |
| Heap `libk/malloc/malloc.c` | six caches, metadata in front of each block | `malloc_heap_init`, `malloc`, `realloc`, `free` | slab and page allocator | size classes; a block's kind is told from its address |
| Page tables `memory/virtual/vmm.c`, page attribute table of `hardware/cpu.h` | the root table and what hangs below it, each processor's table of caching types | `vmm_init`, `vmm_map_page`, `vmm_unmap_page`, ranges, `enable_pat` | takes table pages from the page allocator; shared by all processors | tables made on the way down; each processor's TLB; one layout of caching types encoded in two files |
| Spinlock `libk/lock/spinlock.h` | a lock byte and the holder's interrupt flag | acquire, release | serial output, start-up | interrupts between any two instructions; the saved flag is shared |
| Serial output `libk/serial`, `hardware/com/com.c`, interrupt handler `tables/isr.c` | two locks, two text buffers, the port, the LAPIC's in-service bit | `log`, `debug`, `debug_set_color`, `isr_handler` | every part; handlers print too | nested locks, shared buffers, handlers on top of threads |
| ACPI `hardware/acpi` | the RSDP, the root table, lists of MADT entries | `rsdp_init`, `acpi_init`, `acpi_find_sdt`, `madt_init` | interrupt routing, HPET | firmware data: lengths, checksums and numbers of entries |
| Interrupt routing `hardware/apic/apic.c` | the IOAPICs' redirection tables | `apic_init`, `ioapic_set_irq_redirect`, `ioapic_set_gsi_redirect` | ACPI lists | two register writes per entry, devices interrupt at any time; overrides |
| Start of processors `proc/smp/smp.c`, `tables/gdt.c` | the count of processors online, one TSS descriptor for all, a stack each, what each has loaded for itself | `smp_init`, `bsp_init`, `ap_init`, `gdt_load`, `tss_create_segment`, `tss_load` | page allocator, spinlock, page tables | all processors write one descriptor and one counter; the order in which each sets itself up |
| HPET `hardware/hpet/hpet.c` and LAPIC timer `hardware/apic/apic.c` | counter, count and vector registers, the measured frequency | `hpet_init`, `hpet_usleep`, `lapic_timer_init`, `lapic_timer_get_freq`, `lapic_timer_oneshot` | ACPI, LAPIC | clocks that run while the code does; ticks truncated twice; two registers per request |
| Legacy controllers `hardware/pic/pic.c`, `tables/idt.c` | masks, vectors, where an initialisation is | `idt_init` with `pic_remap`, `pic_disable` | before the LAPIC | what a byte means depends on the bytes before it, and interrupts are allowed in between |
| Formatted printing `libk/printf/printf.c` | none beyond a call | `_vsnprintf` behind `sprintf_`, `snprintf_`, `vsnprintf_`, `fctprintf` | serial output, `hardware/cpu.h` | flags and fields that share a width and a buffer; counts around the length of the text; callers that pass no count |
| GDT and IDT descriptors, COM set-up, CPUID | device registers and constant tables | fixed sequences of writes | start-up | nothing that depends on an order of events |
| Kernel start `kernel.c`, boot tags `boot/` | none | one straight line of calls | everything | the order, which the modules keep in `Init` |
| String functions, assert, scheduler and vector stubs | none | pure loops, or empty | everything | nothing here |

At this commit `kinit_all` calls `pmm_init`, `vmm_init`, `gdt_init`, `idt_init`, `malloc_heap_init`
and the `realloc` test; the calls of `acpi_init`, `apic_init` and `smp_init` are in the file but
commented out. The models of those parts are of the functions as written, called in the order of
those lines.

What makes each part correct, in one line:

* page allocator: a page has one owner, none is lost, page 0 is nobody's, a refusal means exhaustion;
* slab allocator: a buffer is in one place, lies on a page that is still the cache's, and can be
  given back; every call ends;
* heap: blocks are disjoint, nothing leaks, a block has the room that was asked for;
* page tables: the processor sees exactly the mappings and the caching asked for, tables are not
  shared or leaked;
* spinlock: exclusion, and the holder's interrupt flag comes back;
* serial output: a line arrives whole and is the caller's own; interrupts are acknowledged;
* ACPI and routing: only sound tables are used; the pins are as the last request left them; the
  boot ends;
* legacy controllers: each line that is open raises its own vector and no exception's, and none is
  open once the LAPIC is on;
* timers: an interrupt that was asked for comes, and not before its time;
* formatted printing: what is stored and returned is what C says, and no byte outside the buffer,
  the format and the arguments is touched;
* start of processors: each has its own task state, tables and stack before it needs them, and
  `smp_init` ends with all of them up.

"hazards" in `PROJECT.json` lists, at its line, each place where these could go wrong in a way that
tests hardly reach, with the properties that watch it.

## 2. Modules

| Module | Models | State and actions |
|---|---|---|
| `PageBitmap` | `mem.h`, `bitmap.c`, the search and marking loops of `pmm.c` | operators on a set of used pages; no state. `pmm_find_first_free_page_range` keeps the code's double scaling of the inner index |
| `Pmm` | `pmm.c` | variables are the file's statics plus `held`, the ranges callers have. `pmm_init` is one action per memory map; `pmm_alloc`, `pmm_allocz`, `pmm_free` one action each. `WriteBehind` lets the owner of the bytes behind the bitmap change them, which matters when the bitmap is too short |
| `PagePool` | what an allocator promises | `Fill`, `Take`, `Return` on disjoint sets of pages |
| `Slab` | `slab.c` | one cache; the list of slabs is a sequence of records. Growing, reaping and the recursion of `slab_cache_alloc` are steps, so that not ending is visible |
| `Malloc` | `malloc.c` | the bitmap, six free lists, the blocks callers have, and the last reply. `next_power_of_two` is the code's bit smearing, on numbers as sets of bits; a slab has the code's number of buffers or `MaxBuffers`; a size and its metadata add up in a `size_t` of `SIZE_RANGE` values, and a page count is stored in a field of `METADATA_RANGE` values |
| `Vmm` | `vmm.c`, `enable_pat` of `cpu.h` | pages read as tables; a range, of `vmm_init` (`next`) or of a caller, is `work` and is done page by page; `tlb` per processor; `wanted` as history. Mapping a page is a function from tables to tables, one operator per level. `Walk` and `Access` are the processor, which finds the caching type through the entry's bits in `pat` |
| `Spinlock` | `spinlock.h` | one lock, a thread and a handler per processor, one action per instruction that another context can observe |
| `Serial` | `log.c`, `debug.c`, `com.c`, `isr.c` | a function is the sequence of its visible instructions; `todo` is what a context still has to run |
| `Smp` | `smp.c`, `gdt_load` and TSS code of `gdt.c`, `idt_load`, `enable_pat`, `enable_sse` | the bootstrap processor's loop and each processor's `bsp_init` or `ap_init`, with `cpus_online++` as a load and a store; `loaded` is what a processor has set up |
| `Acpi` | `acpi.c`, `rsdp.c`, `madt.c` | checksums byte by byte with the code's 8-bit index, the search, lists with room for `LIST_ROOM` entries. An entry has its length, since the loop over the MADT never gets past one of length 0 |
| `Timer` | `hpet.c`, the LAPIC timer of `apic.c` | two clocks with periods of their own and any phase; `Time` advances them while the kernel waits or is late between two instructions. Calibration and one-shots are one action per register access |
| `Pic` | `pic.c`, `idt_init` | `port_writes` is what is still to be written; `PortWrite` is what a controller makes of one byte |
| `Apic` | `apic.c`, the search of `hpet.c` | extends `Acpi`, `Timer` and `Pic` into the boot: remapping, tables, LAPIC, masking of the ISA interrupts, calibration; then requests in two writes, one-shots, and devices that interrupt. `irq_bitmap` is the bits set from its address on, of which `IRQ_BITMAP_BITS` are its own |
| `Printf` | `printf.c` | a call is its parts; format and arguments follow from them. One action per field of a conversion, as `_vsnprintf` evaluates it; `buffer`, `sent` and `strayed` are what the call touched. Text is kept character by character here and nowhere else, because what the flags and fields make of the characters is what `PrintsAsSpecified` is about. The reference is a definition of what C says of the parts, not of the format |
| `MCPmm`, `MCVmm`, `MCApic`, `MCPrintf` | | memory maps, virtual pages, firmware and calls for TLC |
| `PageBitmapProof`, `PmmProof`, `SlabProof`, `VmmProof`, `LibkProof` (heap and spinlock), `SerialProof`, `SmpProof`, `ApicProof` (tables, legacy controllers, routing, timers) | | lemmas and proofs, section 4 |

`PageBitmap` is shared by `Pmm`, `Slab`, `Malloc`, `Vmm` and `Smp`: they all allocate with the same
operators, so what the search does to a caller shows in that caller's module. `Acpi`, `Timer`, `Pic`
and `Apic` are composed into one specification, in the order of `kinit_all`.

Abstractions: a bitmap is a set of numbers; texts are tags for whose text it is; a table's bytes are
numbers of a small byte; physical and higher-half addresses of the same byte are one; time is a count
of units, a microsecond being a few of them; printf's integer types have a quarter of their bits and
its conversion buffer a quarter of its bytes, so that the ratio of the two is the code's. Sizes that
decide a branch (page size, header size, metadata, size classes, the width of `size_t`, of the 8-bit
index, of the 16-bit metadata, of the bitmap of pins and of the 32-bit timer registers) are kept, as constants where they must be small.

Definitions commented as "Variant" are the code with a plausible slip. No specification uses them;
each is substituted for its original to confirm that a property notices.

## 3. Runs

Run one with `tlc -workers 2 -config <run>.cfg <module>`.

| Run | Module | What it shows |
|---|---|---|
| `pmm_pages` | `MCPmm` | callers that take single pages: one owner per page, nothing lost, the bitmap's own pages never handed out, refusal only when nothing is free, and every step is one of the pool's |
| `pmm_ranges` | `MCPmm` | for requests of several pages and a bitmap that is too short: page 0 is never granted and never freed |
| `pmm_range_overlap` | `MCPmm` | *violated*: a range can be granted that is partly in use (`pmm.c:232`) |
| `slab_one` | `Slab` | a cache of one slab, with reap and destroy: live buffers are on allocated pages, pages are accounted for, a returned buffer finds a spot |
| `slab_many` | `Slab` | a cache that grows, without reclaim and with the heap's flags: no buffer in two places, none over the slab structure or page aligned, every call ends |
| `spinlock` | `Spinlock` | exclusion, flag restored, handlers masked |
| `serial_interrupts` | `Serial` | with timer, device, system call, exception and spurious vectors: strings arrive whole and are the caller's own, every interrupt is acknowledged, locked code is interrupted by a device at most in the windows of acquire and release |
| `smp_boot` | `Smp` | own task state, nothing used by a processor before it has set it up, interrupts last, stacks that share no page whatever the holes in memory, `smp_init` ends with all up |
| `malloc_heap` | `Malloc` | disjoint blocks, nothing lost, `malloc` gives the room asked for from the smallest fitting class, for every size that a `size_t` holds together with the metadata |
| `vmm_map` | `MCVmm` | translations and caching as asked, tables not shared and accounted for, no stale translation on one processor |
| `apic_boot` | `MCApic` | sound tables only; open legacy lines raise their own vectors, and none is open when the LAPIC is on; ISA interrupts masked at their pins; pins as last asked and found again; interrupts with the vector of the last request and the LAPIC of the last that returned, also between the two writes of a change; a one-shot comes, and not early; the boot ends |
| `printf_calls` | `MCPrintf` | flags, fields, lengths and values of every conversion, as far as the code lays them out like C (`LaidOutAsInC`), and the kernel's own formats with every count: the text, its terminator and the result are C's; nothing is written behind count or the text, and nothing read out of bounds but the one byte behind an array that is as long as the precision |

### Further configurations

The passing runs check what the code keeps. Where that is less than one would ask, either the
property says so (`StacksDisjoint`, `DeliveredAsAsked`, `MallocHoldsRequest` and `StaysInBounds` hold
in the awkward cases too, which are in their runs, and a stricter property beside each is below), or
the run's constants stay on one side of a boundary. The following configurations check the stricter
property or cross the boundary, and TLC reports a violation unless the table says the property holds.
The notes of the hazards in `PROJECT.json` name the configuration that shows each one fail. Those with several properties are for TLC's option `-continue`, except
`malloc_realloc`, `slab_reclaim` and `vmm_unmap`, where one property is active at a time. They are kept as regression tests for a fix.

| Configuration (module) | Property | What happens |
|---|---|---|
| `pmm_deviations` (`MCPmm`) | `ZeroedPagesAreGranted` | `pmm_allocz` clears address 0 when `pmm_alloc` refuses (`pmm.c:171`) |
| | `EveryPageHasABit` | the page count is divided by 8 rounding down, so the last pages may have no bit (`pmm.c:89`) |
| `slab_reclaim` (`Slab`) | `SlabPagesAllocated` | destroy frees some slabs, meets one in use and returns with all of them still listed (`slab.c:106`) |
| | `LiveBuffersBacked` | a slab's full list does not mean that its page is unused; reap frees the page of a live buffer (`slab.c:184`, `193`) |
| `slab_destroy_empty` (`Slab`) | `PagesAccountedFor` | destroy frees page 0 for a slab without buffers (`slab.c:111`) |
| `slab_free_panics` (`Slab`) | `FreeFindsASpot` | each growth with `SLAB_NO_ALIGN` lowers the limit of the cache, and older slabs have no spot left (`slab.c:401`) |
| `slab_grow_drops` (`Slab`) | `GrowKeepsSlabs` | growing a cache of two slabs drops the second from the list (`slab.c:385`) |
| `slab_alloc_recursion` (`Slab`) | `CallsReturn` | `slab_cache_alloc` recurses for ever when growing adds no buffer (`slab.c:224`) |
| `malloc_realloc` (`Malloc`) | `ReallocHoldsRequest` | `realloc` forgets the metadata when it compares size classes (`malloc.c:157`) |
| | `CopyFitsBlock` | a shrinking `realloc` copies the rounded size behind the metadata (`malloc.c:173`) |
| | `ReallocKeepsData` | a page count is divided by the page size instead of multiplied (`malloc.c:152`) |
| `malloc_wrap` (`Malloc`) | `HeapAccountedFor` | a page count beyond its field wraps, and `free` returns too few pages (`malloc.c:104`) |
| | `MallocHoldsEverySize` | a size at the top of `size_t` wraps when the metadata is added, and the block is of the smallest class (`malloc.c:65`) |
| `vmm_unmap` (`MCVmm`) | `NoStaleTranslation` | `invlpg` reaches only the processor that executes it (`vmm.c:175`) |
| | `TablePagesAccountedFor` | unmapping what is not mapped allocates tables and loses them (`vmm.c:101`) |
| `vmm_out_of_pages` (`MCVmm`) | `TablesNotShared` | page 0 becomes a table when no page is left (`vmm.c:143`) |
| `vmm_memory_map` (`MCVmm`) | `TranslationAsAsked` | `vmm_init` maps the start of memory for every entry (`vmm.c:78`) |
| `vmm_privilege` (`MCVmm`) | `PrivilegeAsAsked` | upper levels keep the first mapping's flags (`vmm.c:143`) |
| `spinlock_self_deadlock` (`Spinlock`) | `HandlerNeverWaitsForItsThread` | between taking the lock and `cli`, or between restoring the flag and clearing the lock in release, an interrupt's handler can wait for the thread below it (`spinlock.h:50`) |
| `serial_polled` (`Serial`) | `CallsReturn`, `TypeOK`, `HandlerStaysMasked` | holds: with interrupts off every call ends, the locks nest in one order |
| `smp_poll_hoisted` (`Smp`) | `SmpInitFinishes` | `cpus_online` is not volatile: a compiler may read it once (`smp.c:95`) |
| `smp_stack_overlap` (`Smp`) | `StacksInFreeMemory` | a hole smaller than a stack takes one, which runs over the used pages behind the hole (`pmm.c:232`) |
| `apic_deviations` (`MCApic`) | `DestinationAsAsked` | the low word, with mask and vector, is written before the destination, so an interrupt in between goes with the new vector to the old LAPIC (`apic.c:306`, against the comment at `apic.c:140`) |
| | `RoutedAsAsked` | the last pin of an IOAPIC is not found (`apic.c:264`) |
| | `IsaRoutesSet` | with two interrupts exchanged one of them is skipped (`apic.c:81`); a GSI of 128 or more is marked behind the bitmap (`apic.c:84`) |
| | `TablesSound` | a MADT with more entries of a type than the list has room for is written past its end (`madt.c:57`) |
| `timer_deviations` (`MCApic`) | `SleepNotShort` | ticks per microsecond are truncated, so the wait is short (`hpet.c:55`) |
| | `NoStrayTimerInterrupt` | the vector is unmasked before the count is loaded, while the calibration's countdown still runs (`apic.c:135`) |
| | `OneshotNotEarly` | a long delay's ticks overflow the 32-bit count (`apic.c:133`) |
| | `LoadedOneshotRuns` | a timer slower than a tick per microsecond gets a count of 0 and never fires (`apic.c:133`) |
| `printf_deviations` (`MCPrintf`) | `PrintsAsSpecified` | `%#4x` of four digits loses two of them, `%-4.3d` its zeros, `%.8d` (`%.32d` in the code) of a negative number its sign; a precision of -1 is taken for 0; `fctprintf` counts a NUL that it does not send |
| | `NeverStrays` | a format that ends in `%` is read past its end (`printf.c:1069`); a text longer than `log`'s buffer (`log.c:45`); the registers of the vendor string have no NUL (`cpu.h:204`, `printf.c:166`) |
| `acpi_long_table` (`MCApic`) | `BootEnds` | a table of 256 bytes or more is summed for ever (`acpi.c:126`); a MADT entry of length 0 is collected for ever (`madt.c:65`), which the model follows until a list overflows |

The type invariants are proved for every instance (section 4), so the runs do not repeat them, except
`pmm_pages`.

### Bounds

| Run | Bounds, and why they are enough |
|---|---|
| `pmm_*` | pages of 4 bytes: a bitmap page has 32 bits, so maps need one or two of them; five holders exhaust every map; three layouts (kernel in the middle, usable from 0, a first entry too short to host the bitmap), plus one whose last pages have no bit; requests of 0 to 3 pages stay below `PAGE_SIZE`, as all the kernel's do |
| `slab_*` | up to three slabs and pages of 64 or 128 bytes, so that the list has a head, a middle and an end and each slab more than one buffer |
| `malloc_heap` | the real page size and classes; sizes at both sides of class boundaries, up to a block of exactly one page, one that is refused and one that wraps in a `size_t` of 16 bits; three blocks; two buffers per cache (`MaxBuffers`), so that a cache runs empty |
| `vmm_map` | tables of four entries, one per region of `vmm_init`; the 4 GiB it maps are five pages, which need two tables of the last level; a caller's page that shares all its tables with them, and a range of two whose pages need one and two new tables; two caching types, which have every bit both ways |
| `spinlock` | three processors with a handler each; one is enough for the violation |
| `serial_*` | two processors, one or two calls each |
| `smp_boot` | four processors, the bootstrap one not the first of the table; stacks of two pages and holes of one, two and more pages |
| `apic_boot` | a byte of 8 values, so that tables of up to seven bytes stand for those of up to 255; lists with room for two; four ISA interrupts, three lines per legacy controller; two requests; two LAPICs as destinations and a vector other than `apic_init`'s, so that each half of an entry changes on its own; a bitmap of ten pins; a microsecond of 12 units and clocks that tick 2 (with a remainder), 6 and 12 times in it, at every phase; the kernel late by at most one unit in a wait (`MaxLate`) |
| `printf_calls` | types of 2, 4, 8 and 16 bits and a buffer of 8; every set of flags, widths and precisions below, at and above the digits; the ends of every type; counts 0 to 14 around texts of 7 to 12 characters; the vendor string from arrays of four bytes without NUL; texts below, at and above the size of `log`'s buffer of 20 bytes |

Symmetry is used only for the holders of `pmm_pages` and `pmm_ranges`. `ImplementsPool` is a step
property, for which it is sound. Deadlock is checked in `printf_calls`, where a call has to reach its
return. Elsewhere it is not: callers may stop calling, bounds end the runs, a machine may stop in
`cli; hlt`, and the one deadlock of interest, that of a lock, is a spin and not a stop.

### Fairness

* `Slab`: a call under way goes on. The code is sequential and nothing it does waits.
* `Serial`, `Smp`: every processor goes on executing, and a handler that has ended returns. For a
  context that spins, the step is enabled only while the lock is free, so weak fairness promises
  nobody the lock. `smp_init` ends because every processor takes the lock a bounded number of times.
* `Apic`: the boot code goes on, and the clocks do (`Time`), because hardware drives them; it waits
  for nothing else. Devices and callers are not fair.

`Pmm`, `Malloc`, `Vmm`, `Spinlock` and `Printf` have no liveness property and no fairness.

## 4. Proofs

Check with `tlapm <module>.tla`. The constants are arbitrary within the named assumptions. Every
theorem about reachable states rests on an inductive invariant, which TLC checked on the instances
of the runs first; the invariant's name is given, with what it has to say beyond the property.

### Page allocator (`PageBitmapProof`, `PmmProof`)

`PageBitmapProof` has what `PageBitmap`'s operators compute: least and greatest numbers, pages and
addresses, and that the search returns the least candidate and NULL only if there is none.

| Theorem | States | Under |
|---|---|---|
| `TypeCorrect` | `[]TypeOK` | `PageSizeAssumption`, `MemoryMapsAssumption` (usable entries are whole pages and overlap nothing, as stivale2 says), `PageCountsAssumption` |
| `NullPageNeverGranted` | `[]NullPageReserved` | the same; requests of any length |
| `SinglePagesExact`, `NoPageIsLost` | `[](SingleOwner /\ NoPageLost)` | `SinglePages`: requests of one page, maps whose bitmap covers them |
| `BitmapNeverGranted` | `[]BitmapPagesReserved` | `SinglePages`, and every map has a usable entry that can host the bitmap |
| `RefusedOnlyWhenExhausted` | `[]RefusalMeansExhausted` | `SinglePages` |
| `PmmImplementsPool`, `PmmRefinesPagePool` | `ImplementsPool`, `Pool!Spec` | `SinglePages` |

* `NullInv`: the search returns the first candidate whose own bit is free, and a range that starts
  behind page 0 does not contain it; a free clears only what was granted.
* `PoolInv`: a freed page must be found again, so usable pages lie below the top the search looks at,
  no bit searched lies behind the bitmap, and a held range is one page. `SinglePages` cannot be
  dropped: `pmm_range_overlap` is the counterexample.
* `BitmapInv`: no usable page of the hosted map is a page of the bitmap. The host's own pages follow
  the bitmap's because its size is a whole number of pages, and other entries do not overlap the host.
  Without a host the bitmap lies at address 0 and the code goes on; that is the second hypothesis.
* `CountInv`: `used_pages_count` is its start value plus the held pages. `KB_TO_PAGES` takes bytes for
  kibibytes, so the start value is more than the pages below the top; that mistake is what keeps the
  test at `pmm.c:142` from refusing while a page is free.

### Slab allocator (`SlabProof`)

| Theorem | States | Under |
|---|---|---|
| `CountsAreExact` | `[](TypeOK /\ CountMatchesFreelist)` | the assumptions of `Slab` on sizes |
| `BuffersAreWellPlaced` | `[]BuffersWellPlaced` | the same |
| `NoBufferTwice` | `[]BufferInOnePlace` | `Reclaim = FALSE`: nobody calls reap or destroy, as in the kernel |
| `OneSlabIsExact`, `LiveBuffersStayBacked` | `[](PagesAccountedFor /\ LiveBuffersBacked)` | `OneSlab`: no growing beyond one slab, without `SLAB_AUTO_GROW` and `SLAB_NO_ALIGN`, room for a buffer |
| `OneSlabTakesBack` | `FreeFindsASpot` | `OneSlab` |

The invariant is made of `SlabInv` (types, and counts that are the lengths of the lists), `OnePlace`
(`BufferInOnePlace` in terms of places on lists) and `Backed`: every buffer, free or live, lies on a page
that the bitmap has as used, so that the page of a new slab brings only new buffers. That is why
`NoBufferTwice` needs that pages are never given back. With one slab `OneSlabInv` counts instead: the
buffers on the list and the live ones are together all of the slab's, so that a full list means no
live buffer, and reap and destroy are safe. Both
hypotheses mark where the code breaks: `slab_reclaim`, `slab_free_panics` and `slab_destroy_empty` are
the counterexamples beyond them.

### Heap (`LibkProof`)

| Theorem | States | Under |
|---|---|---|
| `MallocAlwaysHolds` | `[]MallocHoldsRequest` | the assumptions of `Malloc`; any sizes, of which the property exempts those that wrap around `SIZE_RANGE` with the metadata |
| `BlocksAreDisjoint` | `[]BlocksDisjoint` | `SinglePages`: no block is larger than a page |
| `HeapIsAccountedFor` | `[]HeapAccountedFor` | the same |
| `HeapTypes` | `[]TypeOK` | the same |

Any page size that holds a slab of the largest class, any memory, any number of buffers and blocks;
`realloc` is among the calls. `SinglePages` cannot be dropped: a larger block is a range, of which
the search looks at the first page only (`pmm_range_overlap`), and a page count that its metadata
cannot hold gives pages back wrongly (`malloc_wrap`).

* That `malloc` rounds to the smallest class with room is a fact about `next_power_of_two`. A number
  below 1024 is the set of its bits (`BitsAreEnough`); one shift and one `or` add the bits below those
  that are there (`SmearAdds`), so the five fill all bits below the highest (`SmearFills`), and the
  number with these bits is one less than a power of two (`OnesNumber`).
* `MallocInv` is `HeapInv` once the heap is made. Every buffer of a cache is on its list or lent, once
  (`Shared`): list and lent buffers are disjoint, and together they are as many as the slab has. That
  is why `free` always finds a spot and why popping and pushing move a buffer and lose none. A block
  whose address is page aligned is one page, any other is a buffer of the cache its metadata names
  (`BlocksWellMade`), so `free` and `realloc`, which know only the address and the metadata, give back
  what was taken. The used pages are the twelve of the caches, page 0 and those of page blocks.
* Blocks are disjoint because each lies inside one page (`BlockInPage`); two of one page are buffers
  of one cache, at different multiples of its size (`BuffersApart`).

`realloc` may still write outside its block (`malloc_realloc`); the model stops there, as "corrupted",
and the invariant says nothing of what that destroys.

### Page tables (`VmmProof`)

| Theorem | States | Under |
|---|---|---|
| `TypesKept` | `[]TypeOK` | `Premises`, `[]PagesLeft` |
| `TranslatesAsAsked` | `[]TranslationAsAsked` | the same |
| `CachesAsAsked` | `[]CachingAsAsked` | the same |
| `TablesAreATree` | `[]TablesAccountedFor` | the same |
| `NothingStale` | `[]NoStaleTranslation` | the same, and `CPUs = {BootCpu}` |

Tables of any size of at least four entries, any memory, memory map, ranges, frames and caching
types. The hypotheses are what the code relies on without a test, and all but the first are where a
configuration of section 3 shows it break:

* `0 \in BootBitmap`: page 0 is not free, since its address is the allocator's answer for "none". `pmm_init`
  marks it used, and `NullPageNeverGranted` says that it stays so;
* `PagesLeft`: after every step some page is free, so no table was refused (`vmm_out_of_pages`);
* `MapBelow`: the memory map lists nothing above the 4 GiB that are mapped anyway (`vmm_memory_map`);
* `~UnmapAnything`: callers unmap what is mapped (`vmm_unmap`);
* one processor, for `NothingStale` only (`vmm_unmap`).

`VmmInv` has `Tree`: the pages reached at the four levels are disjoint sets, no two entries lead to
one table (`OneParent`), and with the pages used at boot they are the bitmap. It is what makes a
change local: a new table is linked by one entry that was not present, so a walk that does not use it
is as before (`WalkCreated`), and the last-level entry of one page is on the path of no other
(`PathsDiffer`, `LeafWritten`). A mapping is three steps down (`DescendStep`) and a write
(`PageMapped`). `AsAsked` ties each translation to `wanted`. `BootInv` says which pages of which range `vmm_init` has mapped so far, from
which `BootMapsAll` gets that at its end they are the mappings its comments list; `WorkInv` says the
same of a caller's range. That a page number and a virtual page correspond one to one rests on
quotients and remainders (`InRegionIs`, `OffsetIs`).

### Spinlock (`LibkProof`) and serial output (`SerialProof`)

| Theorem | States |
|---|---|
| `LockExcludes`, `LockRestoresInterrupts`, `HandlersStayMasked` | `MutualExclusion`, `InterruptStateRestored`, `HandlerStaysMasked` of one lock |
| `SerialTypeCorrect` | `[]TypeOK` |
| `StringsStayWhole` | `[]StringsArriveWhole` |
| `LockedCodeMasked` | `[]LockedCodeNotInterrupted` |
| `DevicesAcknowledged` | `[]AcknowledgedBeforeReturn` |
| `HandlersMasked` | `[]HandlerStaysMasked` |

All are for any number of processors, with a handler on each. `SpinlockInv`: the saved flag is a field
that all processors share, so restoring is right only because its writer has the lock;
`FlagRemembered` says at which places the field, the processor's flag and the flag from before agree,
with the flag of an interrupted thread taken to be set, because iret sets it.

`Serial` runs whole functions, with two nested locks and two shared buffers, and a place in a function
is what is left of it (`todo`). The invariant `SerialInv` therefore speaks of sequences of
instructions: `Obeys` says of a program that between an instruction of one kind and a later one of
another kind there is one of a third (between taking a lock and taking it again it is released; a
buffer is sent only after it was filled under its lock). Such facts pass to what is left of a program
after a step, and each function is shown to have them once (`DebugClosed`, `LogObeys`). The other conjuncts relate what is left to the state: who must hold a lock
(`OneHolder`), what the buffers and the port hold (`Formatted`, `Sending`), where interrupts are masked
(`Masking`), what the locks have saved (`Saving`), and which interrupts are still to be acknowledged
(`Acknowledging`).

### Start of processors (`SmpProof`)

| Theorem | States | Under |
|---|---|---|
| `SmpTypeCorrect` | `[]TypeOK` | the assumptions of `Smp` |
| `EachLoadsItsOwnTaskState` | `[]OwnTaskState` | the same |
| `SetUpIsInOrder` | `[]SetUpInOrder` | the same |
| `StacksAreDisjoint` | `[]StacksDisjoint` | the same |

Any number of processors, any of them the bootstrap one. The lock is held over writing the shared
descriptor and loading it, and `smp_init` starts the next processor only after the last is counted;
the invariant keeps both. Stacks are ranges, and the search looks at the first bit of a range only,
so a stack may cover pages in use; that two stacks do not overlap has another reason. The search
returns the least candidate, marking a stack only removes candidates (`CandidatesShrink`), and no
stack is ever given back: each stack begins behind all pages of the ones before it, which is
`StackInv`.

### Tables, interrupts and timers (`ApicProof`)

| Theorem | States | Under |
|---|---|---|
| `ApicTypes` | `[]TypeOK` | the assumptions of `Acpi`, `Timer`, `Pic` and `Apic` |
| `LegacyLines` | `[]LegacyLinesAsSetUp` | the same |
| `TablesAreSound` | `[]TablesSound` | `MadtFits`: a list has room for the entries of its type, and no entry has length 0 |
| `RoutesAreAsAsked` | `[]RoutedAsAsked` | `FlagsAgree`: interrupts that share a GSI agree on its flags; `LastPinsUnused`: none goes to the last pin of an IOAPIC |
| `IsaRoutesAreSet` | `[]IsaRoutesSet` | `PinsApart`: a GSI is at one pin, overrides go to different GSIs, and to none whose number another override moves; `GsisFit`: GSIs are below the number of bits of the bitmap |
| `DeliveriesAreAsAsked` | `DeliveredAsAsked` | the assumptions above; any destinations |
| `OneshotsAreNotEarly` | `[]OneshotNotEarly` | `ClocksFit`: calibration and delays stay within the 32-bit registers |

Any firmware: tables of any number and length, valid or not, any entries, any clocks and phases, any
lateness up to `MaxLate`. The hypotheses are about the machine and are defined at the end of `Apic`;
the machines of `apic_boot` satisfy them (`UsualMachines`, which TLC evaluates). Each marks a boundary that
the code does not test, and `apic_deviations` and `timer_deviations` are what
happens beyond it.

* `PicInv` follows the fourteen bytes of `pic_remap` and the two of `pic_disable`: after each one
  (`Remapping`) it says which initialisation word a controller waits for and what it has been given.
  Interrupts are not enabled before the last, and the LAPIC not before both masks are written.
* `AcpiInv` has `AddedUp`: while a table is summed the checksum is the sum of the bytes so far, modulo a byte
  (`PartialSums`). The 8-bit index never reaches the end of a long table, so whatever gets
  past the check was summed whole. `RootSound`, `SearchSound` and `FoundSound` carry "sums to zero"
  to every table that is used later, and `ListsSound` says how far `madt_init` has come.
* `RouteInv` is about the two words of a pin: outside the two writes they are those of the last
  request (`PinInv`), and between them the low word is the new one and the destination the old. `DeliveredAsAsked` says
  what an interrupt meets in each case; that it is not always one request is `DestinationAsAsked` of `apic_deviations`. With
  `AcpiInv`, `BootInv` and `ApicAfterAcpi` (where the boot is) it is `MachineInv`.
* `IsaInv` follows the loop over the ISA interrupts: one that was passed and has a pin of
  its own is set there, until the first request of a caller. One that the loop skips is marked in
  `irq_bitmap` because an override goes to its number, and has no pin of its own (`SkippedIsTaken`);
  that is where exchanged interrupts break the code.
* `TimerInv` counts units of time at the two clocks, by ticks and phases: `Measuring` bounds how far the two clocks
  differ about the calibrated wait, `Measured` turns it into a bound on the frequency, and `Counting` says how much
  of a one-shot's delay is left at each tick. A one-shot may be early by what truncation loses
  (`Lost`), no more.

### Only model-checked

* Liveness (`CallsReturn`, `SmpInitFinishes`, `BootEnds`, `OneshotArrives`): out of the prover's reach.
* `Printf` (`PrintsAsSpecified`, `StaysInBounds`): a number's digits are a recursive definition, and the
  format is put together from any number of parts. What they come to for every call is an induction
  over data, which the prover does not have.
* `PrivilegeAsAsked` of `Vmm` does not hold (`vmm_privilege`).

## 5. Not modelled

* `pic_set_mask`, `pic_clear_mask`, `pic_signal_eoi` and `lapic_send_ipi` (marked untested), `com_recv`:
  nothing calls them.
* The bits of the GDT's and IDT's descriptors, the assembly stubs, the set-up of COM1 and the single
  CPUID instructions: fixed writes and register moves that no order of events can change.
* `%f`, `%e` and `%g`, which the kernel's build compiles out, and `printf_` and `vprintf_`, which are
  declared and have no definition.
* The string functions: sequential byte loops without state.
* `kernel.c` and the walk over the bootloader's tags: one straight line of calls. Its order is kept in
  the `Init` of the modules and in `Apic`'s boot.
* An exception raised inside an interrupt handler. Module `Serial` raises exceptions in all code of
  threads, that of `debug` included, where `isr_handler`, which prints before anything else, waits for
  `debug_lock` on the same processor for ever (`isr.c:100`). No property promises that an exception is
  reported, and no code of `debug` is known to raise one.
* Two processors in the allocators at once: they take no lock, and at this commit no code that runs
  on the other processors allocates.
* Address spaces other than the kernel's, which this code does not create.
* Scheduler, vector and userland are empty at this commit.

## 6. Plan

1. Done: page allocator and pool, slab, heap, page tables with caching types, spinlock, serial output,
   start of processors, ACPI, legacy controllers, routing, timers, formatted printing; the theorems of
   section 4.
2. Next abstractions: a heap that promises disjoint blocks, implemented by `Malloc` without
   `realloc`; a console that prints whole lines, implemented by `Serial` with interrupts off; a map
   from pages to frames, implemented by `Vmm`.
3. Next models: `IOREGSEL`/`IOWIN` used by two processors, once one of them routes interrupts.
