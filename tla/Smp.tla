--------------------------------- MODULE Smp ---------------------------------
(***************************************************************************)
(* Bringing up the other processors, proc/smp/smp.c, with the one task     *)
(* state segment descriptor of tables/gdt.c that all CPUs load from.       *)
(*                                                                         *)
(* CPUs are numbered as in the bootloader's table.  The bootstrap          *)
(* processor walks the table in smp_init; an application processor waits   *)
(* in the bootloader until its goto_address is set and then runs ap_init.  *)
(* smp_lock is held by both around the shared state.  What a CPU loads for *)
(* itself, one instruction after the other, is the set loaded[c].          *)
(***************************************************************************)
EXTENDS PageBitmap

CONSTANTS
    CpuCount,
    Bsp,            \* the bootstrap processor's index in the table
    StackPages,     \* CPU_LOCALS_STACK_SIZE / PAGE_SIZE
    TopPage,        \* the number of pages of memory
    BootBitmap,     \* the used pages when smp_init is called
    PollReadsOnce   \* did the compiler hoist the load of cpus_online?

CPUs == 0 .. CpuCount - 1

ASSUME SmpAssumption ==
    /\ CpuCount \in Nat \ {0}
    /\ Bsp \in CPUs
    /\ StackPages \in Nat \ {0}
    /\ TopPage \in Nat
    /\ BootBitmap \subseteq Nat
    /\ PollReadsOnce \in BOOLEAN

None == CpuCount   \* no CPU

\* What each CPU has to set up for itself, beside its task state.
Everything == {"pat", "page_table", "gdt", "idt", "sse", "lapic"}

VARIABLES
    pc,              \* where each CPU is
    i,               \* the loop variable of smp_init
    smp_lock,
    pmm_bitmap,
    stack,           \* target_stack of each CPU, as the address pmm_allocz gave
    goto_address,    \* the CPUs whose goto_address is set
    tss_descriptor,  \* the CPU whose TSS it describes, and its busy bit
    task_register,   \* the CPU whose TSS each CPU has loaded
    loaded,          \* what each CPU has set up
    cpus_online,
    register,        \* the value of cpus_online a CPU is working on
    IFLAG            \* interrupts enabled on each CPU?

vars == <<pc, i, smp_lock, pmm_bitmap, stack, goto_address, tss_descriptor,
          task_register, loaded, cpus_online, register, IFLAG>>

Goto(c, from, to) ==
    /\ pc[c] = from
    /\ pc' = [pc EXCEPT ![c] = to]

-----------------------------------------------------------------------------
(* The loop of smp_init, on the bootstrap processor *)

BeginIteration ==
    /\ Goto(Bsp, "loop", "prepare")
    /\ i < CpuCount
    /\ ~smp_lock
    /\ smp_lock' = TRUE
    /\ UNCHANGED <<i, pmm_bitmap, stack, goto_address, tss_descriptor,
                   task_register, loaded, cpus_online, register, IFLAG>>

\* The assertion stops the machine when there is no stack.
PrepareCpu ==
    LET page == pmm_find_first_free_page_range(pmm_bitmap, BIT_TO_PAGE(TopPage), StackPages)
    IN  /\ pc[Bsp] = "prepare"
        /\ IF page = NULL
           THEN /\ pc' = [pc EXCEPT ![Bsp] = "panicked"]
                /\ UNCHANGED <<pmm_bitmap, stack>>
           ELSE /\ pc' = [pc EXCEPT ![Bsp] = IF i = Bsp THEN "tss" ELSE "start"]
                /\ pmm_bitmap' = SetBits(pmm_bitmap, PAGE_TO_BIT(page), StackPages)
                /\ stack' = [stack EXCEPT ![i] = page]
        /\ UNCHANGED <<i, smp_lock, goto_address, tss_descriptor, task_register,
                       loaded, cpus_online, register, IFLAG>>

StartCpu ==
    /\ Goto(Bsp, "start", "release")
    /\ goto_address' = goto_address \cup {i}
    /\ UNCHANGED <<i, smp_lock, pmm_bitmap, stack, tss_descriptor, task_register, loaded,
                   cpus_online, register, IFLAG>>

EndLoop ==
    /\ Goto(Bsp, "loop", "poll")
    /\ i = CpuCount
    /\ register' = [register EXCEPT ![Bsp] = cpus_online]
    /\ UNCHANGED <<i, smp_lock, pmm_bitmap, stack, goto_address, tss_descriptor,
                   task_register, loaded, cpus_online, IFLAG>>

\* Variant: the bootstrap processor is taken not to count.
PollForOthers ==
    /\ pc[Bsp] = "poll"
    /\ IF register[Bsp] >= CpuCount - 1
       THEN pc' = [pc EXCEPT ![Bsp] = "done"] /\ UNCHANGED register
       ELSE register' = [register EXCEPT ![Bsp] = cpus_online] /\ UNCHANGED pc
    /\ UNCHANGED <<i, smp_lock, pmm_bitmap, stack, goto_address, tss_descriptor,
                   task_register, loaded, cpus_online, IFLAG>>

\* cpus_online is neither volatile nor atomic and the loop has no barrier, so
\* a compiler may load it once before the loop.
Poll ==
    /\ pc[Bsp] = "poll"
    /\ IF register[Bsp] = CpuCount
       THEN pc' = [pc EXCEPT ![Bsp] = "done"] /\ UNCHANGED register
       ELSE /\ ~PollReadsOnce
            /\ register' = [register EXCEPT ![Bsp] = cpus_online]
            /\ UNCHANGED pc
    /\ UNCHANGED <<i, smp_lock, pmm_bitmap, stack, goto_address, tss_descriptor,
                   task_register, loaded, cpus_online, IFLAG>>

-----------------------------------------------------------------------------
(* ap_init, on an application processor *)

\* Variant: without the lock.
BeginApInitUnlocked(c) ==
    /\ Goto(c, "bootloader", "pat")
    /\ c \in goto_address
    /\ UNCHANGED <<i, smp_lock, pmm_bitmap, stack, goto_address, tss_descriptor,
                   task_register, loaded, cpus_online, register, IFLAG>>

BeginApInit(c) ==
    /\ Goto(c, "bootloader", "pat")
    /\ c \in goto_address
    /\ ~smp_lock
    /\ smp_lock' = TRUE
    /\ UNCHANGED <<i, pmm_bitmap, stack, goto_address, tss_descriptor,
                   task_register, loaded, cpus_online, register, IFLAG>>

\* CPU c sets something up for itself and goes on.
Load(c, what, next) ==
    /\ Goto(c, what, next)
    /\ loaded' = [loaded EXCEPT ![c] = @ \cup {what}]
    /\ UNCHANGED <<i, smp_lock, pmm_bitmap, stack, goto_address, tss_descriptor,
                   task_register, cpus_online, register, IFLAG>>

enable_pat(c) == Load(c, "pat", "page_table")
vmm_load_page_table(c) == Load(c, "page_table", "gdt")
gdt_load(c) == Load(c, "gdt", "idt")
idt_load(c) == Load(c, "idt", "tss")
lapic_enable(c) == Load(c, "lapic", "load")

EnableInterrupts(c) ==
    /\ Goto(c, "sti", "idle")
    /\ IFLAG' = [IFLAG EXCEPT ![c] = TRUE]
    /\ UNCHANGED <<i, smp_lock, pmm_bitmap, stack, goto_address, tss_descriptor,
                   task_register, loaded, cpus_online, register>>

-----------------------------------------------------------------------------
(* generic_cpu_local_init, cpus_online++ and the release, on every CPU *)

tss_create_segment(c) ==
    /\ Goto(c, "tss", "ltr")
    /\ tss_descriptor' = [tss |-> c, busy |-> FALSE]
    /\ UNCHANGED <<i, smp_lock, pmm_bitmap, stack, goto_address, task_register, loaded,
                   cpus_online, register, IFLAG>>

\* ltr takes the base from the descriptor, if the CPU uses the kernel's GDT, and
\* marks it busy.
tss_load(c) ==
    /\ Goto(c, "ltr", "sse")
    /\ "gdt" \in loaded[c]
    /\ task_register' = [task_register EXCEPT ![c] = tss_descriptor.tss]
    /\ tss_descriptor' = [tss_descriptor EXCEPT !.busy = TRUE]
    /\ UNCHANGED <<i, smp_lock, pmm_bitmap, stack, goto_address, loaded, cpus_online, register,
                   IFLAG>>

\* The end of generic_cpu_local_init.
enable_sse(c) == Load(c, "sse", IF c = Bsp THEN "load" ELSE "lapic")

LoadOnline(c) ==
    /\ Goto(c, "load", "store")
    /\ register' = [register EXCEPT ![c] = cpus_online]
    /\ UNCHANGED <<i, smp_lock, pmm_bitmap, stack, goto_address, tss_descriptor,
                   task_register, loaded, cpus_online, IFLAG>>

\* Variant: the increment is lost.
StoreOnlineUnchanged(c) ==
    /\ Goto(c, "store", "release")
    /\ cpus_online' = register[c]
    /\ UNCHANGED <<i, smp_lock, pmm_bitmap, stack, goto_address, tss_descriptor,
                   task_register, loaded, register, IFLAG>>

StoreOnline(c) ==
    /\ Goto(c, "store", "release")
    /\ cpus_online' = register[c] + 1
    /\ UNCHANGED <<i, smp_lock, pmm_bitmap, stack, goto_address, tss_descriptor,
                   task_register, loaded, register, IFLAG>>

Release(c) ==
    /\ Goto(c, "release", IF c = Bsp THEN "loop" ELSE "sti")
    /\ smp_lock' = FALSE
    /\ i' = IF c = Bsp THEN i + 1 ELSE i
    /\ UNCHANGED <<pmm_bitmap, stack, goto_address, tss_descriptor, task_register, loaded,
                   cpus_online, register, IFLAG>>

-----------------------------------------------------------------------------

Init ==
    /\ pc = [c \in CPUs |-> IF c = Bsp THEN "loop" ELSE "bootloader"]
    /\ i = 0
    /\ smp_lock = FALSE
    /\ pmm_bitmap = BootBitmap
    /\ stack = [c \in CPUs |-> NULL]
    /\ goto_address = {}
    /\ tss_descriptor = [tss |-> None, busy |-> FALSE]
    /\ task_register = [c \in CPUs |-> None]
    /\ loaded = [c \in CPUs |-> IF c = Bsp THEN Everything \ {"sse"} ELSE {}]
    /\ cpus_online = 0
    /\ register = [c \in CPUs |-> 0]
    /\ IFLAG = [c \in CPUs |-> c = Bsp]

BspStep == BeginIteration \/ PrepareCpu \/ StartCpu \/ EndLoop \/ Poll

CpuStep(c) ==
    \/ tss_create_segment(c) \/ tss_load(c) \/ enable_sse(c)
    \/ LoadOnline(c) \/ StoreOnline(c) \/ Release(c)
    \/ BeginApInit(c) \/ enable_pat(c) \/ vmm_load_page_table(c) \/ gdt_load(c)
    \/ idt_load(c) \/ lapic_enable(c) \/ EnableInterrupts(c)

Next == BspStep \/ \E c \in CPUs : CpuStep(c)

\* Every CPU executes; each takes smp_lock finitely often, so none starves.
Spec == Init /\ [][Next]_vars /\ WF_vars(BspStep) /\ \A c \in CPUs : WF_vars(CpuStep(c))

-----------------------------------------------------------------------------
(* Properties *)

TypeOK ==
    /\ pc \in [CPUs -> {"loop", "prepare", "start", "poll", "done", "panicked", "bootloader",
                        "tss", "ltr", "load", "store", "release", "sti", "idle"} \cup Everything]
    /\ i \in 0 .. CpuCount
    /\ smp_lock \in BOOLEAN
    /\ pmm_bitmap \subseteq Nat
    /\ stack \in [CPUs -> 0 .. BIT_TO_PAGE(TopPage)]
    /\ goto_address \subseteq CPUs
    /\ tss_descriptor \in [tss : CPUs \cup {None}, busy : BOOLEAN]
    /\ task_register \in [CPUs -> CPUs \cup {None}]
    /\ loaded \in [CPUs -> SUBSET Everything]
    /\ cpus_online \in 0 .. CpuCount
    /\ register \in [CPUs -> 0 .. CpuCount]
    /\ IFLAG \in [CPUs -> BOOLEAN]

\* Each CPU loads its own task state segment and never a busy descriptor,
\* although all of them write and load the same entry of the one GDT
\* (gdt.c:109-121, smp.c:143-161).
OwnTaskState ==
    \A c \in CPUs :
        /\ task_register[c] \in {None, c}
        /\ pc[c] = "ltr" => tss_descriptor = [tss |-> c, busy |-> FALSE]

\* A CPU uses the kernel's page tables, and the heap behind them, only with the
\* page attribute table they are written for; it enables interrupts only when it
\* has set up everything, a task state and a stack included, and outside the
\* locked code; and when smp_init stops waiting, every CPU has set up
\* everything: no increment of cpus_online is lost or comes early (ap_init,
\* generic_cpu_local_init, smp.c:95-100, smp.c:131-134).
SetUpInOrder ==
    LET complete(c) == loaded[c] = Everything /\ task_register[c] = c /\ stack[c] # NULL
    IN  \A c \in CPUs :
            /\ "page_table" \in loaded[c] => "pat" \in loaded[c]
            /\ pc[c] \in {"tss", "ltr"} => {"page_table", "gdt"} \subseteq loaded[c]
            /\ c # Bsp /\ IFLAG[c] => complete(c) /\ pc[c] = "idle"
            /\ pc[Bsp] = "done" => complete(c)

StackRange(c) == PageRange(PAGE_TO_BIT(stack[c]), StackPages)

\* Whatever pages are in use at boot, no two CPUs' stacks share a page and every
\* stack begins at a page that was free (smp.c:75-77).  How far the search of the
\* page allocator lets a stack run into used pages behind its first one is
\* StacksInFreeMemory.
StacksDisjoint ==
    \A c \in CPUs : stack[c] # NULL =>
        /\ PAGE_TO_BIT(stack[c]) \notin BootBitmap
        /\ \A d \in CPUs \ {c} : stack[d] # NULL => StackRange(c) \cap StackRange(d) = {}

\* A stack takes no page that was in use and none behind the memory.  The code
\* does not have this property: the search looks at a stack's first page only
\* (pmm.c:232), so a hole that is smaller than a stack takes one.
StacksInFreeMemory ==
    \A c \in CPUs : stack[c] # NULL =>
        StackRange(c) \subseteq (0 .. TopPage - 1) \ BootBitmap

\* smp_init finishes: it sees all CPUs online, or stops for want of a stack.
SmpInitFinishes == <>(pc[Bsp] \in {"done", "panicked"})
=============================================================================
