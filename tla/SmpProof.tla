------------------------------ MODULE SmpProof ------------------------------
(***************************************************************************)
(* Bringing up any number of processors, with the bootstrap one anywhere   *)
(* in the table: each loads its own task state, none uses what it has not  *)
(* set up, and smp_init stops waiting only when all of them are complete.  *)
(***************************************************************************)
EXTENDS Smp, PageBitmapProof, FiniteSetTheorems

\* The places where a CPU has smp_lock; "panicked" never gives it back.
Locked == {"prepare", "start", "tss", "ltr", "load", "store", "release", "panicked"}
              \cup Everything

\* The places of a CPU that has cpus_online++ behind it.  The bootstrap
\* processor passes "release" in every iteration of its loop.
Counted(c) ==
    IF c = Bsp
    THEN i > Bsp \/ (i = Bsp /\ pc[Bsp] = "release")
    ELSE pc[c] \in {"release", "sti", "idle"}

\* What a CPU has set up when it is about to do the next thing.
SetUpAt(place) ==
    CASE place \in {"bootloader", "pat"} -> {}
      [] place = "page_table"            -> {"pat"}
      [] place = "gdt"                   -> {"pat", "page_table"}
      [] place = "idt"                   -> {"pat", "page_table", "gdt"}
      [] place \in {"tss", "ltr", "sse"} -> {"pat", "page_table", "gdt", "idt"}
      [] place = "lapic"                 -> Everything \ {"lapic"}
      [] OTHER                           -> Everything

\* One CPU at a time has the lock.
OneAtATime ==
    \A c \in CPUs : pc[c] \in Locked =>
        smp_lock /\ \A d \in CPUs : pc[d] \in Locked => d = c

\* Where the loop of smp_init is in the table, and that a CPU leaves the
\* bootloader only once the loop has given it a stack.
LoopPlaces ==
    /\ pc[Bsp] \in {"loop", "prepare", "start", "tss", "ltr", "sse", "load", "store", "release",
                    "poll", "done", "panicked"}
    /\ pc[Bsp] \in {"prepare", "start", "release"} => i < CpuCount
    /\ pc[Bsp] = "start" => i # Bsp /\ stack[i] # NULL
    /\ pc[Bsp] \in {"tss", "ltr", "sse", "load", "store"} => i = Bsp
    /\ pc[Bsp] \in {"poll", "done"} => i = CpuCount
    /\ Bsp \notin goto_address
    /\ \A c \in CPUs \ {Bsp} :
           /\ pc[c] \in {"bootloader", "tss", "ltr", "load", "store", "release", "sti", "idle"}
                            \cup Everything
           /\ c \in goto_address => stack[c] # NULL
           /\ pc[c] # "bootloader" => c \in goto_address
           /\ IFLAG[c] => pc[c] = "idle"

\* What each CPU has set up follows from its place.
ProgressRecorded ==
    /\ \A c \in CPUs \ {Bsp} :
           /\ loaded[c] = SetUpAt(pc[c])
           /\ pc[c] \in {"sse", "lapic", "load", "store", "release", "sti", "idle"} =>
                  task_register[c] = c
    /\ Everything \ {"sse"} \subseteq loaded[Bsp]
    /\ pc[Bsp] \in {"tss", "ltr", "sse", "load", "store"} => stack[Bsp] # NULL
    /\ pc[Bsp] \in {"sse", "load", "store"} => task_register[Bsp] = Bsp
    /\ pc[Bsp] \in {"load", "store"} => loaded[Bsp] = Everything
    /\ Counted(Bsp) =>
           stack[Bsp] # NULL /\ task_register[Bsp] = Bsp /\ loaded[Bsp] = Everything

\* No increment of cpus_online is lost: it is the number of CPUs counted.
OnlineExact ==
    /\ cpus_online = Cardinality({c \in CPUs : Counted(c)})
    /\ \A c \in CPUs : pc[c] = "store" => register[c] = cpus_online
    /\ pc[Bsp] = "poll" => register[Bsp] <= cpus_online
    /\ pc[Bsp] = "done" => \A c \in CPUs : Counted(c)

SmpInv ==
    /\ TypeOK
    /\ OneAtATime
    /\ LoopPlaces
    /\ ProgressRecorded
    /\ OwnTaskState
    /\ OnlineExact

-----------------------------------------------------------------------------
(* Preliminaries. *)

\* The CPUs are finitely many numbers, and None is not one of them.
LEMMA CpuFacts ==
    /\ CpuCount \in Nat \ {0} /\ Bsp \in CPUs /\ CPUs \subseteq Nat /\ None \notin CPUs
    /\ \A c \in Int : c \in CPUs <=> 0 <= c /\ c < CpuCount
    /\ IsFiniteSet(CPUs) /\ Cardinality(CPUs) = CpuCount
<1>1. CpuCount \in Nat \ {0} /\ Bsp \in CPUs /\ CPUs = 0 .. CpuCount - 1
  BY SmpAssumption DEF CPUs
<1>2. IsFiniteSet(CPUs) /\ Cardinality(CPUs) = CpuCount
  BY <1>1, FS_Interval
<1> QED BY <1>1, <1>2 DEF None

\* The address of a stack, if there is room for one.
LEMMA StackFound ==
    LET page == pmm_find_first_free_page_range(pmm_bitmap, BIT_TO_PAGE(TopPage), StackPages)
    IN  /\ page \in 0 .. BIT_TO_PAGE(TopPage)
        /\ SetBits(pmm_bitmap, PAGE_TO_BIT(page), StackPages) = pmm_bitmap \cup
               PageRange(PAGE_TO_BIT(page), StackPages)
        /\ PageRange(PAGE_TO_BIT(page), StackPages) \subseteq Nat
<1> DEFINE top == BIT_TO_PAGE(TopPage)
           page == pmm_find_first_free_page_range(pmm_bitmap, top, StackPages)
           b == PAGE_TO_BIT(page)
<1>1. TopPage \in Nat /\ StackPages \in Nat /\ PAGE_SIZE \in Nat \ {0}
  BY SmpAssumption, PageSizeAssumption
<1>2. top \in Nat /\ PAGE_TO_BIT(top) = TopPage
  BY <1>1, BitOfPage
<1>3. /\ page \in Nat /\ b \in Nat
      /\ page # NULL => page = BIT_TO_PAGE(b) /\ b \in 0 .. TopPage - 1
  <2> HIDE DEF top
  <2> QED BY <1>1, <1>2, SearchResult
<1>4. page <= top
  <2>1. CASE page = NULL
    BY <1>2, <2>1 DEF NULL
  <2>2. CASE page # NULL
    <3>1. page = b * PAGE_SIZE /\ b <= TopPage /\ b \in Nat
      BY <1>1, <1>3, <2>2 DEF BIT_TO_PAGE
    <3>2. top = TopPage * PAGE_SIZE
      BY DEF BIT_TO_PAGE
    <3> HIDE DEF page, top, b
    <3> QED BY <1>1, <3>1, <3>2
  <2> QED BY <2>1, <2>2
<1>5. PageRange(b, StackPages) \subseteq Nat
  <2> HIDE DEF b
  <2> QED BY <1>1, <1>3, PageRangeType
<1> QED BY <1>2, <1>3, <1>4, <1>5 DEF SetBits

\* If the same CPUs are counted the number stays exact.
LEMMA SameCount ==
    ASSUME OnlineExact, cpus_online' = cpus_online, \A c \in CPUs : Counted(c)' = Counted(c)
    PROVE  cpus_online' = Cardinality({c \in CPUs : Counted(c)'})
<1>1. {c \in CPUs : Counted(c)'} = {c \in CPUs : Counted(c)}
  OBVIOUS
<1> QED BY <1>1 DEF OnlineExact

-----------------------------------------------------------------------------
(* One lemma per action: the invariant is kept. *)

\* The bootstrap processor takes a lock that nobody has.
LEMMA BeginIterationStep ==
    ASSUME SmpInv, BeginIteration
    PROVE  SmpInv'
<1> USE CpuFacts DEF SmpInv, BeginIteration, Goto
<1>1. TypeOK'
  BY DEF TypeOK, LoopPlaces, OnlineExact, Everything
<1>2. OneAtATime'
  BY DEF TypeOK, OneAtATime, LoopPlaces, Locked, Everything
<1>3. LoopPlaces'
  BY DEF TypeOK, LoopPlaces, Everything
<1>4. ProgressRecorded'
  BY DEF TypeOK, LoopPlaces, ProgressRecorded, Counted, SetUpAt, Everything
<1>5. OwnTaskState'
  BY DEF TypeOK, OneAtATime, OwnTaskState, Locked
<1>6. \A d \in CPUs : Counted(d)' = Counted(d)
  BY DEF TypeOK, LoopPlaces, Counted, Everything
<1>7. OnlineExact'
  BY <1>6, SameCount DEF TypeOK, OneAtATime, LoopPlaces, OnlineExact, Locked
<1> QED BY <1>1, <1>2, <1>3, <1>4, <1>5, <1>7 DEF SmpInv

\* A CPU that is started has its stack.
LEMMA StartCpuStep ==
    ASSUME SmpInv, StartCpu
    PROVE  SmpInv'
<1> USE CpuFacts DEF SmpInv, StartCpu, Goto
<1>1. TypeOK'
  BY DEF TypeOK, LoopPlaces, OnlineExact, Everything
<1>2. OneAtATime'
  BY DEF TypeOK, OneAtATime, LoopPlaces, Locked, Everything
<1>3. LoopPlaces'
  BY DEF TypeOK, LoopPlaces, Everything
<1>4. ProgressRecorded'
  BY DEF TypeOK, LoopPlaces, ProgressRecorded, Counted, SetUpAt, Everything
<1>5. OwnTaskState'
  BY DEF TypeOK, OneAtATime, OwnTaskState, Locked
<1>6. \A d \in CPUs : Counted(d)' = Counted(d)
  BY DEF TypeOK, LoopPlaces, Counted, Everything
<1>7. OnlineExact'
  BY <1>6, SameCount DEF TypeOK, OneAtATime, LoopPlaces, OnlineExact, Locked
<1> QED BY <1>1, <1>2, <1>3, <1>4, <1>5, <1>7 DEF SmpInv

\* A started CPU takes a lock that nobody has.
LEMMA BeginApInitStep ==
    ASSUME SmpInv, NEW c \in CPUs, BeginApInit(c)
    PROVE  SmpInv'
<1> USE CpuFacts DEF SmpInv, BeginApInit, Goto
<1>1. TypeOK'
  BY DEF TypeOK, LoopPlaces, OnlineExact, Everything
<1>2. OneAtATime'
  BY DEF TypeOK, OneAtATime, LoopPlaces, Locked, Everything
<1>3. LoopPlaces'
  BY DEF TypeOK, LoopPlaces, Everything
<1>4. ProgressRecorded'
  BY DEF TypeOK, LoopPlaces, ProgressRecorded, Counted, SetUpAt, Everything
<1>5. OwnTaskState'
  BY DEF TypeOK, OneAtATime, OwnTaskState, Locked
<1>6. \A d \in CPUs : Counted(d)' = Counted(d)
  BY DEF TypeOK, LoopPlaces, Counted, Everything
<1>7. OnlineExact'
  BY <1>6, SameCount DEF TypeOK, OneAtATime, LoopPlaces, OnlineExact, Locked
<1> QED BY <1>1, <1>2, <1>3, <1>4, <1>5, <1>7 DEF SmpInv

\* A CPU enables interrupts last.
LEMMA EnableInterruptsStep ==
    ASSUME SmpInv, NEW c \in CPUs, EnableInterrupts(c)
    PROVE  SmpInv'
<1> USE CpuFacts DEF SmpInv, EnableInterrupts, Goto
<1>1. TypeOK'
  BY DEF TypeOK, LoopPlaces, OnlineExact, Everything
<1>2. OneAtATime'
  BY DEF TypeOK, OneAtATime, LoopPlaces, Locked, Everything
<1>3. LoopPlaces'
  BY DEF TypeOK, LoopPlaces, Everything
<1>4. ProgressRecorded'
  BY DEF TypeOK, LoopPlaces, ProgressRecorded, Counted, SetUpAt, Everything
<1>5. OwnTaskState'
  BY DEF TypeOK, OneAtATime, OwnTaskState, Locked
<1>6. \A d \in CPUs : Counted(d)' = Counted(d)
  BY DEF TypeOK, LoopPlaces, Counted, Everything
<1>7. OnlineExact'
  BY <1>6, SameCount DEF TypeOK, OneAtATime, LoopPlaces, OnlineExact, Locked
<1> QED BY <1>1, <1>2, <1>3, <1>4, <1>5, <1>7 DEF SmpInv

\* The lock's owner overwrites the descriptor, which nobody else is about to load.
LEMMA TssCreateStep ==
    ASSUME SmpInv, NEW c \in CPUs, tss_create_segment(c)
    PROVE  SmpInv'
<1> USE CpuFacts DEF SmpInv, tss_create_segment, Goto
<1>1. TypeOK'
  BY DEF TypeOK, LoopPlaces, OnlineExact, Everything
<1>2. OneAtATime'
  BY DEF TypeOK, OneAtATime, LoopPlaces, Locked, Everything
<1>3. LoopPlaces'
  BY DEF TypeOK, LoopPlaces, Everything
<1>4. ProgressRecorded'
  BY DEF TypeOK, LoopPlaces, ProgressRecorded, Counted, SetUpAt, Everything
<1>5. OwnTaskState'
  <2>1. \A d \in CPUs \ {c} : pc'[d] # "ltr"
    BY DEF TypeOK, OneAtATime, Locked
  <2>2. tss_descriptor' = [tss |-> c, busy |-> FALSE] /\ task_register' = task_register
    OBVIOUS
  <2> QED BY <2>1, <2>2, Zenon DEF OwnTaskState
<1>6. \A d \in CPUs : Counted(d)' = Counted(d)
  BY DEF TypeOK, LoopPlaces, Counted, Everything
<1>7. OnlineExact'
  BY <1>6, SameCount DEF TypeOK, OneAtATime, LoopPlaces, OnlineExact, Locked
<1> QED BY <1>1, <1>2, <1>3, <1>4, <1>5, <1>7 DEF SmpInv

\* The owner loads what it has written.
LEMMA TssLoadStep ==
    ASSUME SmpInv, NEW c \in CPUs, tss_load(c)
    PROVE  SmpInv'
<1> USE CpuFacts DEF SmpInv, tss_load, Goto
<1>1. TypeOK'
  BY DEF TypeOK, LoopPlaces, OnlineExact, Everything
<1>2. OneAtATime'
  BY DEF TypeOK, OneAtATime, LoopPlaces, Locked, Everything
<1>3. LoopPlaces'
  BY DEF TypeOK, LoopPlaces, Everything
<1>4. ProgressRecorded'
  BY DEF TypeOK, LoopPlaces, ProgressRecorded, Counted, SetUpAt, Everything, OwnTaskState
<1>5. OwnTaskState'
  BY DEF TypeOK, OneAtATime, OwnTaskState, Locked
<1>6. \A d \in CPUs : Counted(d)' = Counted(d)
  BY DEF TypeOK, LoopPlaces, Counted, Everything
<1>7. OnlineExact'
  BY <1>6, SameCount DEF TypeOK, OneAtATime, LoopPlaces, OnlineExact, Locked
<1> QED BY <1>1, <1>2, <1>3, <1>4, <1>5, <1>7 DEF SmpInv

\* The owner reads the counter.
LEMMA LoadOnlineStep ==
    ASSUME SmpInv, NEW c \in CPUs, LoadOnline(c)
    PROVE  SmpInv'
<1> USE CpuFacts DEF SmpInv, LoadOnline, Goto
<1>1. TypeOK'
  BY DEF TypeOK, LoopPlaces, OnlineExact, Everything
<1>2. OneAtATime'
  BY DEF TypeOK, OneAtATime, LoopPlaces, Locked, Everything
<1>3. LoopPlaces'
  BY DEF TypeOK, LoopPlaces, Everything
<1>4. ProgressRecorded'
  BY DEF TypeOK, LoopPlaces, ProgressRecorded, Counted, SetUpAt, Everything
<1>5. OwnTaskState'
  BY DEF TypeOK, OneAtATime, OwnTaskState, Locked
<1>6. \A d \in CPUs : Counted(d)' = Counted(d)
  BY DEF TypeOK, LoopPlaces, Counted, Everything
<1>7. OnlineExact'
  BY <1>6, SameCount DEF TypeOK, OneAtATime, LoopPlaces, OnlineExact, Locked
<1> QED BY <1>1, <1>2, <1>3, <1>4, <1>5, <1>7 DEF SmpInv

\* The owner gives the lock back; it has been counted if it is not the bootstrap processor.
LEMMA ReleaseStep ==
    ASSUME SmpInv, NEW c \in CPUs, Release(c)
    PROVE  SmpInv'
<1> USE CpuFacts DEF SmpInv, Release, Goto
<1>1. TypeOK'
  <2>1. i' \in 0 .. CpuCount
    BY DEF TypeOK, LoopPlaces
  <2> QED BY <2>1 DEF TypeOK
<1>2. OneAtATime'
  BY DEF TypeOK, OneAtATime, LoopPlaces, Locked, Everything
<1>3. LoopPlaces'
  BY DEF TypeOK, LoopPlaces, Everything
<1>4. ProgressRecorded'
  BY DEF TypeOK, LoopPlaces, ProgressRecorded, Counted, SetUpAt, Everything
<1>5. OwnTaskState'
  BY DEF TypeOK, OneAtATime, OwnTaskState, Locked
<1>6. \A d \in CPUs : Counted(d)' = Counted(d)
  BY DEF TypeOK, LoopPlaces, Counted, Everything
<1>7. OnlineExact'
  BY <1>6, SameCount DEF TypeOK, OneAtATime, LoopPlaces, OnlineExact, Locked
<1> QED BY <1>1, <1>2, <1>3, <1>4, <1>5, <1>7 DEF SmpInv

\* What the bootstrap processor reads first is a number of CPUs counted.
LEMMA EndLoopStep ==
    ASSUME SmpInv, EndLoop
    PROVE  SmpInv'
<1> USE CpuFacts DEF SmpInv, EndLoop, Goto
<1>1. TypeOK'
  BY DEF TypeOK, LoopPlaces, OnlineExact, Everything
<1>2. OneAtATime'
  BY DEF TypeOK, OneAtATime, LoopPlaces, Locked, Everything
<1>3. LoopPlaces'
  BY DEF TypeOK, LoopPlaces, Everything
<1>4. ProgressRecorded'
  BY DEF TypeOK, LoopPlaces, ProgressRecorded, Counted, SetUpAt, Everything
<1>5. OwnTaskState'
  BY DEF TypeOK, OneAtATime, OwnTaskState, Locked
<1>6. \A d \in CPUs : Counted(d)' = Counted(d)
  BY DEF TypeOK, LoopPlaces, Counted, Everything
<1>7. OnlineExact'
  BY <1>6, SameCount DEF TypeOK, OneAtATime, LoopPlaces, OnlineExact, Locked
<1> QED BY <1>1, <1>2, <1>3, <1>4, <1>5, <1>7 DEF SmpInv

\* A counter that has reached the number of CPUs has counted them all.
LEMMA AllCounted ==
    ASSUME OnlineExact, cpus_online >= CpuCount
    PROVE  \A c \in CPUs : Counted(c)
<1> DEFINE S == {c \in CPUs : Counted(c)}
<1>1. S \subseteq CPUs /\ IsFiniteSet(CPUs) /\ Cardinality(CPUs) = CpuCount
  BY CpuFacts
<1>2. IsFiniteSet(S) /\ Cardinality(S) \in Nat /\ Cardinality(S) >= Cardinality(CPUs)
  <2>1. Cardinality(S) >= CpuCount
    BY DEF OnlineExact
  <2> HIDE DEF S
  <2> QED BY <1>1, <2>1, FS_Subset, FS_CardinalityType
<1>3. S = CPUs
  <2> HIDE DEF S
  <2>1. Cardinality(S) <= Cardinality(CPUs)
    BY <1>1, FS_Subset
  <2>2. Cardinality(S) = Cardinality(CPUs)
    BY <1>1, <1>2, <2>1, CpuFacts
  <2> QED BY <1>1, <2>2, FS_Subset
<1> QED BY <1>3

\* The bootstrap processor reads the counter again, or stops waiting with all counted.
LEMMA PollStep ==
    ASSUME SmpInv, Poll
    PROVE  SmpInv'
<1> USE CpuFacts DEF SmpInv, Poll
<1>1. TypeOK'
  BY DEF TypeOK
<1>2. OneAtATime'
  BY DEF TypeOK, OneAtATime, Locked, Everything
<1>3. LoopPlaces'
  BY DEF TypeOK, LoopPlaces
<1>4. ProgressRecorded'
  BY DEF TypeOK, LoopPlaces, ProgressRecorded, Counted, SetUpAt
<1>5. OwnTaskState'
  BY DEF TypeOK, OwnTaskState
<1>6. \A d \in CPUs : Counted(d)' = Counted(d)
  BY DEF TypeOK, LoopPlaces, Counted
<1>7. OnlineExact'
  <2>1. cpus_online' = Cardinality({c \in CPUs : Counted(c)'})
    BY <1>6, SameCount
  <2>2. pc'[Bsp] = "done" => \A c \in CPUs : Counted(c)
    <3>1. pc'[Bsp] = "done" => register[Bsp] = CpuCount
      BY DEF TypeOK
    <3>2. pc'[Bsp] = "done" => cpus_online >= CpuCount
      BY <3>1 DEF OnlineExact, TypeOK
    <3> QED BY <3>2, AllCounted
  <2> QED BY <1>6, <2>1, <2>2 DEF TypeOK, OnlineExact
<1> QED BY <1>1, <1>2, <1>3, <1>4, <1>5, <1>7 DEF SmpInv

\* A CPU that gets a stack is the one the loop is at; without one the machine stops.
LEMMA PrepareCpuStep ==
    ASSUME SmpInv, PrepareCpu
    PROVE  SmpInv'
<1> DEFINE page == pmm_find_first_free_page_range(pmm_bitmap, BIT_TO_PAGE(TopPage), StackPages)
<1>1. /\ page \in 0 .. BIT_TO_PAGE(TopPage)
      /\ pmm_bitmap \subseteq Nat => SetBits(pmm_bitmap, PAGE_TO_BIT(page), StackPages) \subseteq Nat
  BY StackFound
<1>2. /\ pc[Bsp] = "prepare"
      /\ \/ /\ pc' = [pc EXCEPT ![Bsp] = "panicked"]
            /\ UNCHANGED <<pmm_bitmap, stack>>
         \/ /\ page # NULL
            /\ pc' = [pc EXCEPT ![Bsp] = IF i = Bsp THEN "tss" ELSE "start"]
            /\ pmm_bitmap' = SetBits(pmm_bitmap, PAGE_TO_BIT(page), StackPages)
            /\ stack' = [stack EXCEPT ![i] = page]
      /\ UNCHANGED <<i, smp_lock, goto_address, tss_descriptor, task_register, loaded,
                     cpus_online, register, IFLAG>>
  BY Zenon DEF PrepareCpu
<1> HIDE DEF page
<1> USE CpuFacts, <1>2 DEF SmpInv
<1>3. TypeOK'
  <2>1. i \in CPUs
    BY DEF TypeOK, LoopPlaces
  <2>2. pmm_bitmap' \subseteq Nat /\ stack' \in [CPUs -> 0 .. BIT_TO_PAGE(TopPage)]
    <3>1. CASE UNCHANGED <<pmm_bitmap, stack>>
      BY <3>1 DEF TypeOK
    <3>2. CASE /\ pmm_bitmap' = SetBits(pmm_bitmap, PAGE_TO_BIT(page), StackPages)
               /\ stack' = [stack EXCEPT ![i] = page]
      BY <1>1, <2>1, <3>2 DEF TypeOK
    <3> QED BY <3>1, <3>2
  <2> QED BY <2>2 DEF TypeOK
<1>4. OneAtATime'
  BY DEF TypeOK, OneAtATime, LoopPlaces, Locked, Everything
<1>5. LoopPlaces'
  BY DEF TypeOK, LoopPlaces
<1>6. ProgressRecorded'
  BY DEF TypeOK, LoopPlaces, ProgressRecorded, Counted, SetUpAt
<1>7. OwnTaskState'
  BY DEF TypeOK, OneAtATime, OwnTaskState, Locked
<1>8. \A d \in CPUs : Counted(d)' = Counted(d)
  BY DEF TypeOK, LoopPlaces, Counted
<1>9. OnlineExact'
  BY <1>8, SameCount DEF TypeOK, OneAtATime, LoopPlaces, OnlineExact, Locked
<1> QED BY <1>3, <1>4, <1>5, <1>6, <1>7, <1>9 DEF SmpInv

\* The order in which a CPU sets itself up.
Order == {<<"pat", "page_table">>, <<"page_table", "gdt">>, <<"gdt", "idt">>, <<"idt", "tss">>,
          <<"sse", "lapic">>, <<"lapic", "load">>}

\* What a CPU has set up for itself is recorded, in that order; the bootstrap processor
\* has only SSE left to do.
LEMMA LoadStep ==
    ASSUME SmpInv, NEW c \in CPUs, NEW what, NEW next, Load(c, what, next),
           IF c = Bsp THEN what = "sse" /\ next = "load" ELSE <<what, next>> \in Order
    PROVE  SmpInv'
<1> USE CpuFacts DEF SmpInv, Load, Goto, Order
<1>1. TypeOK'
  BY DEF TypeOK, Everything
<1>2. OneAtATime'
  BY DEF TypeOK, OneAtATime, Locked, Everything
<1>3. LoopPlaces'
  BY DEF TypeOK, LoopPlaces, Everything
<1>4. ProgressRecorded'
  <2>1. CASE c = Bsp
    BY <2>1 DEF TypeOK, LoopPlaces, ProgressRecorded, Counted, SetUpAt, Everything
  <2>2. CASE c # Bsp
    <3>1. SetUpAt(next) = SetUpAt(what) \cup {what}
      BY <2>2 DEF SetUpAt, Everything
    <3>2. loaded'[c] = SetUpAt(pc'[c])
      BY <2>2, <3>1 DEF TypeOK, ProgressRecorded
    <3>3. pc'[c] \in {"sse", "lapic", "load", "store", "release", "sti", "idle"} =>
              task_register'[c] = c
      BY <2>2 DEF TypeOK, ProgressRecorded
    <3>4. \A d \in CPUs \ {c} :
              pc'[d] = pc[d] /\ loaded'[d] = loaded[d] /\ task_register'[d] = task_register[d]
      BY DEF TypeOK
    <3>5. pc'[Bsp] = pc[Bsp] /\ loaded'[Bsp] = loaded[Bsp] /\ (Counted(Bsp)' <=> Counted(Bsp))
      BY <2>2, <3>4 DEF Counted
    <3>6. \A d \in CPUs \ {Bsp} :
              /\ loaded'[d] = SetUpAt(pc'[d])
              /\ pc'[d] \in {"sse", "lapic", "load", "store", "release", "sti", "idle"} =>
                     task_register'[d] = d
      BY <3>2, <3>3, <3>4, Zenon DEF ProgressRecorded
    <3> QED BY <3>5, <3>6 DEF ProgressRecorded
  <2> QED BY <2>1, <2>2
<1>5. OwnTaskState'
  BY DEF TypeOK, OwnTaskState
<1>6. \A d \in CPUs : Counted(d)' = Counted(d)
  BY DEF TypeOK, LoopPlaces, Counted, Everything
<1>7. OnlineExact'
  BY <1>6, SameCount DEF TypeOK, OneAtATime, LoopPlaces, OnlineExact, Locked
<1> QED BY <1>1, <1>2, <1>3, <1>4, <1>5, <1>7 DEF SmpInv

\* The owner's store adds itself to the CPUs counted: nobody has changed the counter since
\* it was read.
LEMMA StoreOnlineStep ==
    ASSUME SmpInv, NEW c \in CPUs, StoreOnline(c)
    PROVE  SmpInv'
<1> USE CpuFacts DEF SmpInv, StoreOnline, Goto
<1> DEFINE S == {d \in CPUs : Counted(d)}
<1>1. S' = S \cup {c} /\ c \notin S
  BY DEF TypeOK, LoopPlaces, Counted, Everything
<1>2. IsFiniteSet(S) /\ S \subseteq CPUs
  BY FS_Subset
<1>3. Cardinality(S') = Cardinality(S) + 1 /\ Cardinality(S') <= CpuCount
  <2>1. S' \subseteq CPUs
    OBVIOUS
  <2> HIDE DEF S
  <2>2. Cardinality(S \cup {c}) = Cardinality(S) + 1
    BY <1>1, <1>2, FS_AddElement
  <2> QED BY <1>1, <2>1, <2>2, FS_Subset
<1>4. cpus_online' = cpus_online + 1 /\ cpus_online' = Cardinality(S') /\ cpus_online' <= CpuCount
  <2>1. cpus_online' = cpus_online + 1 /\ cpus_online = Cardinality(S)
    BY DEF OnlineExact
  <2> HIDE DEF S
  <2> QED BY <1>3, <2>1
<1>5. TypeOK'
  BY <1>4 DEF TypeOK
<1>6. OneAtATime'
  BY DEF TypeOK, OneAtATime, Locked
<1>7. LoopPlaces'
  BY DEF TypeOK, LoopPlaces
<1>8. ProgressRecorded'
  BY DEF TypeOK, LoopPlaces, ProgressRecorded, Counted, SetUpAt, Everything
<1>9. OwnTaskState'
  BY DEF TypeOK, OwnTaskState
<1>10. OnlineExact'
  <2>1. \A d \in CPUs : pc'[d] # "store"
    BY DEF TypeOK, OneAtATime, Locked
  <2>2. pc'[Bsp] = "poll" => register'[Bsp] <= cpus_online'
    BY <1>4 DEF TypeOK, OnlineExact
  <2>3. pc'[Bsp] = "done" => \A d \in CPUs : Counted(d)'
    BY <1>1 DEF TypeOK, OnlineExact
  <2> QED BY <1>4, <2>1, <2>2, <2>3 DEF OnlineExact
<1> QED BY <1>5, <1>6, <1>7, <1>8, <1>9, <1>10 DEF SmpInv

-----------------------------------------------------------------------------
(* The theorems. *)

\* When smp_init is called no CPU has the lock and none is counted.
LEMMA SmpInvInit == Init => SmpInv
<1> SUFFICES ASSUME Init PROVE SmpInv
  OBVIOUS
<1> USE CpuFacts, SmpAssumption DEF Init
<1>1. TypeOK
  <2>1. BIT_TO_PAGE(TopPage) \in Nat
    BY BitOfPage
  <2>2. IFLAG \in [CPUs -> BOOLEAN]
    BY Zenon
  <2>3. stack \in [CPUs -> 0 .. BIT_TO_PAGE(TopPage)] /\ pmm_bitmap \subseteq Nat
    BY <2>1 DEF NULL
  <2>4. loaded \in [CPUs -> SUBSET Everything]
    BY DEF Everything
  <2>5. /\ tss_descriptor \in [tss : CPUs \cup {None}, busy : BOOLEAN]
        /\ task_register \in [CPUs -> CPUs \cup {None}]
    OBVIOUS
  <2>6. goto_address \subseteq CPUs
    OBVIOUS
  <2>7. pc \in [CPUs -> {"loop", "prepare", "start", "poll", "done", "panicked", "bootloader",
                        "tss", "ltr", "load", "store", "release", "sti", "idle"}
                            \cup Everything]
    OBVIOUS
  <2>8. smp_lock \in BOOLEAN
    BY Zenon
  <2>9. i \in 0 .. CpuCount /\ cpus_online \in 0 .. CpuCount
    OBVIOUS
  <2>10. register \in [CPUs -> 0 .. CpuCount]
    OBVIOUS
  <2> QED BY <2>2, <2>3, <2>4, <2>5, <2>6, <2>7, <2>8, <2>9, <2>10, Zenon DEF TypeOK
<1>2. OneAtATime
  BY DEF OneAtATime, Locked, Everything
<1>3. LoopPlaces
  BY DEF LoopPlaces
<1>4. ProgressRecorded
  BY DEF ProgressRecorded, Counted, SetUpAt, Everything
<1>5. OwnTaskState
  BY DEF OwnTaskState
<1>6. OnlineExact
  <2>1. {c \in CPUs : Counted(c)} = {}
    BY DEF Counted
  <2> QED BY <2>1, FS_EmptySet DEF OnlineExact
<1> QED BY <1>1, <1>2, <1>3, <1>4, <1>5, <1>6 DEF SmpInv

\* Every step keeps the invariant.
LEMMA SmpInvNext == SmpInv /\ [Next]_vars => SmpInv'
<1> SUFFICES ASSUME SmpInv, [Next]_vars PROVE SmpInv'
  OBVIOUS
<1>1. CASE BspStep
  BY <1>1, BeginIterationStep, PrepareCpuStep, StartCpuStep, EndLoopStep, PollStep DEF BspStep
<1>2. ASSUME NEW c \in CPUs, CpuStep(c) PROVE SmpInv'
  <2>1. ASSUME \/ enable_pat(c) \/ vmm_load_page_table(c) \/ gdt_load(c) \/ idt_load(c)
               \/ lapic_enable(c) \/ enable_sse(c)
        PROVE  SmpInv'
    <3>1. c = Bsp => pc[c] \notin {"pat", "page_table", "gdt", "idt", "lapic"}
      BY DEF SmpInv, LoopPlaces
    <3> QED BY <2>1, <3>1, LoadStep DEF enable_pat, vmm_load_page_table, gdt_load, idt_load,
                                   lapic_enable, enable_sse, Order, Load, Goto
  <2> QED BY <1>2, <2>1, TssCreateStep, TssLoadStep, LoadOnlineStep, StoreOnlineStep,
             ReleaseStep, BeginApInitStep, EnableInterruptsStep DEF CpuStep
<1>3. CASE UNCHANGED vars
  <2> USE <1>3 DEF SmpInv, vars
  <2>1. TypeOK'
    BY DEF TypeOK
  <2>2. OneAtATime' /\ LoopPlaces' /\ OwnTaskState'
    BY DEF OneAtATime, LoopPlaces, OwnTaskState
  <2>3. ProgressRecorded'
    BY DEF ProgressRecorded, Counted
  <2>4. \A d \in CPUs : Counted(d)' = Counted(d)
    BY DEF Counted
  <2>5. OnlineExact'
    BY <2>4, SameCount DEF OnlineExact
  <2> QED BY <2>1, <2>2, <2>3, <2>5
<1> QED BY <1>1, <1>2, <1>3 DEF Next

\* All variables of smp.c keep their types, on any number of CPUs; cpus_online never
\* exceeds it.
THEOREM SmpTypeCorrect == Spec => []TypeOK
<1>1. SmpInv => TypeOK
  BY DEF SmpInv
<1> QED BY <1>1, SmpInvInit, SmpInvNext, PTL DEF Spec

\* Each CPU loads its own task state and never a busy descriptor, although all write the
\* one entry of the one GDT (tss_create_segment, tss_load under smp_lock).
THEOREM EachLoadsItsOwnTaskState == Spec => []OwnTaskState
<1>1. SmpInv => OwnTaskState
  BY DEF SmpInv
<1> QED BY <1>1, SmpInvInit, SmpInvNext, PTL DEF Spec

\* Nothing is used before it is set up, interrupts come last, and smp_init stops waiting
\* only when every CPU is complete (ap_init, generic_cpu_local_init, smp_init).
THEOREM SetUpIsInOrder == Spec => []SetUpInOrder
<1>1. SmpInv => SetUpInOrder
  <2> SUFFICES ASSUME SmpInv, NEW c \in CPUs
               PROVE  /\ "page_table" \in loaded[c] => "pat" \in loaded[c]
                      /\ pc[c] \in {"tss", "ltr"} => {"page_table", "gdt"} \subseteq loaded[c]
                      /\ c # Bsp /\ IFLAG[c] =>
                             /\ loaded[c] = Everything /\ task_register[c] = c /\ stack[c] # NULL
                             /\ pc[c] = "idle"
                      /\ pc[Bsp] = "done" =>
                             loaded[c] = Everything /\ task_register[c] = c /\ stack[c] # NULL
    BY Zenon DEF SetUpInOrder
  <2> USE CpuFacts DEF SmpInv
  <2>1. /\ "page_table" \in loaded[c] => "pat" \in loaded[c]
        /\ pc[c] \in {"tss", "ltr"} => {"page_table", "gdt"} \subseteq loaded[c]
    BY DEF ProgressRecorded, SetUpAt, Everything, LoopPlaces
  <2>2. c # Bsp /\ IFLAG[c] => /\ loaded[c] = Everything /\ task_register[c] = c
                               /\ stack[c] # NULL /\ pc[c] = "idle"
    BY DEF ProgressRecorded, SetUpAt, LoopPlaces
  <2>3. pc[Bsp] = "done" => loaded[c] = Everything /\ task_register[c] = c /\ stack[c] # NULL
    <3>1. CASE c = Bsp
      BY <3>1 DEF OnlineExact, ProgressRecorded
    <3>2. CASE c # Bsp
      BY <3>2 DEF OnlineExact, ProgressRecorded, Counted, SetUpAt, LoopPlaces
    <3> QED BY <3>1, <3>2
  <2> QED BY <2>1, <2>2, <2>3
<1> QED BY <1>1, SmpInvInit, SmpInvNext, PTL DEF Spec

-----------------------------------------------------------------------------
(* The stacks.  The search looks at too few bits (PageBitmap), so that a   *)
(* stack may run into pages that were in use.  It never begins in one, and *)
(* it begins at the least index the search accepts: as smp_init only       *)
(* allocates, later stacks begin further up, and outside all earlier ones. *)

\* What a search accepts once more pages are used, it accepted before.
LEMMA CandidatesShrink ==
    ASSUME NEW old, NEW new, old \subseteq new, NEW top, NEW n
    PROVE  Candidates(new, top, n) \subseteq Candidates(old, top, n)
BY DEF Candidates, RangeLooksFree, bitmap_check_bit

\* What has been given out stays marked, and nothing below the beginning of a stack is
\* accepted any more.
StackInv ==
    /\ BootBitmap \subseteq pmm_bitmap
    /\ \A c \in CPUs : stack[c] # NULL =>
           /\ StackRange(c) \subseteq pmm_bitmap
           /\ \A y \in Candidates(pmm_bitmap, BIT_TO_PAGE(TopPage), StackPages) :
                  PAGE_TO_BIT(stack[c]) <= y
    /\ StacksDisjoint

\* Every step keeps that; only smp_init allocates.
LEMMA StackInvNext == TypeOK /\ StackInv /\ [Next]_vars => StackInv'
<1> SUFFICES ASSUME TypeOK, StackInv, [Next]_vars PROVE StackInv'
  OBVIOUS
<1>1. CASE UNCHANGED <<pmm_bitmap, stack>>
  BY <1>1 DEF StackInv, StacksDisjoint, StackRange
<1>2. CASE PrepareCpu /\ ~UNCHANGED <<pmm_bitmap, stack>>
  <2> DEFINE top == BIT_TO_PAGE(TopPage)
             page == pmm_find_first_free_page_range(pmm_bitmap, top, StackPages)
             m == PAGE_TO_BIT(page)
             Start(c) == PAGE_TO_BIT(stack[c])
  <2>1. /\ page # NULL
        /\ pmm_bitmap' = pmm_bitmap \cup PageRange(m, StackPages)
        /\ stack' = [stack EXCEPT ![i] = page]
    BY <1>2, Zenon DEF PrepareCpu, SetBits
  <2>2. TopPage \in Nat /\ StackPages \in Nat \ {0} /\ top \in Nat
    BY SmpAssumption, BitOfPage
  <2>3. /\ m \in Nat /\ m \notin pmm_bitmap
        /\ m \in Candidates(pmm_bitmap, top, StackPages)
        /\ \A y \in Candidates(pmm_bitmap, top, StackPages) : m <= y
    <3> HIDE DEF top
    <3> QED BY <2>1, <2>2, SearchResult
  <2>4. \A y \in Candidates(pmm_bitmap', top, StackPages) :
            y \in Candidates(pmm_bitmap, top, StackPages)
    <3> HIDE DEF top, m
    <3> QED BY <2>1, CandidatesShrink
  <2>5. \A c \in CPUs : stack'[c] # NULL =>
            \/ c = i /\ stack'[c] = page
            \/ c # i /\ stack[c] # NULL /\ stack'[c] = stack[c]
    <3> HIDE DEF page
    <3> QED BY <2>1 DEF TypeOK
  <2>6. \A c \in CPUs : stack[c] # NULL =>
            /\ Start(c) \in Nat /\ Start(c) <= m
            /\ PageRange(Start(c), StackPages) \subseteq pmm_bitmap
            /\ PageRange(Start(c), StackPages) \cap PageRange(m, StackPages) = {}
    <3> SUFFICES ASSUME NEW c \in CPUs, stack[c] # NULL
                 PROVE  /\ Start(c) \in Nat /\ Start(c) <= m
                        /\ PageRange(Start(c), StackPages) \subseteq pmm_bitmap
                        /\ PageRange(Start(c), StackPages) \cap PageRange(m, StackPages) = {}
      OBVIOUS
    <3>1. stack[c] \in Nat
      BY <2>2 DEF TypeOK
    <3>2. Start(c) \in Nat
      BY <3>1, BitType
    <3>3. Start(c) <= m /\ PageRange(Start(c), StackPages) \subseteq pmm_bitmap
      BY <2>3 DEF StackInv, StackRange
    <3>4. m \notin PageRange(Start(c), StackPages)
      BY <2>3, <3>3
    <3> HIDE DEF m, Start
    <3>5. Start(c) + StackPages <= m
      BY <2>2, <2>3, <3>2, <3>3, <3>4 DEF PageRange
    <3> QED BY <2>2, <2>3, <3>2, <3>3, <3>5 DEF PageRange
  <2> HIDE DEF page, m, top
  <2>7. \A c \in CPUs : stack'[c] # NULL =>
            /\ StackRange(c)' \subseteq pmm_bitmap'
            /\ \A y \in Candidates(pmm_bitmap', top, StackPages) : PAGE_TO_BIT(stack'[c]) <= y
            /\ PAGE_TO_BIT(stack'[c]) \notin BootBitmap
    <3> SUFFICES ASSUME NEW c \in CPUs, stack'[c] # NULL
                 PROVE  /\ StackRange(c)' \subseteq pmm_bitmap'
                        /\ \A y \in Candidates(pmm_bitmap', top, StackPages) :
                               PAGE_TO_BIT(stack'[c]) <= y
                        /\ PAGE_TO_BIT(stack'[c]) \notin BootBitmap
      OBVIOUS
    <3>1. CASE c = i /\ stack'[c] = page
      BY <2>1, <2>3, <2>4, <3>1 DEF StackInv, StackRange, m
    <3>2. CASE c # i /\ stack[c] # NULL /\ stack'[c] = stack[c]
      BY <2>1, <2>4, <3>2 DEF StackInv, StacksDisjoint, StackRange, top
    <3> QED BY <2>5, <3>1, <3>2
  <2>8. \A c \in CPUs, d \in CPUs : stack'[c] # NULL /\ stack'[d] # NULL /\ c # d =>
            StackRange(c)' \cap StackRange(d)' = {}
    <3> SUFFICES ASSUME NEW c \in CPUs, NEW d \in CPUs, stack'[c] # NULL, stack'[d] # NULL, c # d
                 PROVE  StackRange(c)' \cap StackRange(d)' = {}
      OBVIOUS
    <3>1. StackRange(c)' = PageRange(PAGE_TO_BIT(stack'[c]), StackPages)
          /\ StackRange(d)' = PageRange(PAGE_TO_BIT(stack'[d]), StackPages)
      BY DEF StackRange
    <3>2. CASE c # i /\ d # i
      BY <2>5, <3>1, <3>2 DEF StackInv, StacksDisjoint, StackRange
    <3>3. CASE c = i /\ d # i
      BY <2>5, <2>6, <3>1, <3>3 DEF m
    <3>4. CASE c # i /\ d = i
      BY <2>5, <2>6, <3>1, <3>4 DEF m
    <3> QED BY <3>2, <3>3, <3>4
  <2> QED BY <2>1, <2>7, <2>8 DEF StackInv, StacksDisjoint, top
<1>3. PrepareCpu \/ UNCHANGED <<pmm_bitmap, stack>>
  BY DEF Next, BspStep, CpuStep, BeginIteration, StartCpu, EndLoop, Poll, tss_create_segment,
         tss_load, enable_sse, LoadOnline, StoreOnline, Release, BeginApInit, enable_pat,
         vmm_load_page_table, gdt_load, idt_load, lapic_enable, EnableInterrupts, Load, vars
<1> QED BY <1>1, <1>2, <1>3

\* Whatever pages are in use at boot, holes of any length included, no two of the stacks
\* that smp_init allocates share a page, and each begins at a page that was free.
THEOREM StacksAreDisjoint == Spec => []StacksDisjoint
<1>1. Init => TypeOK /\ StackInv
  <2> SUFFICES ASSUME Init PROVE TypeOK /\ StackInv
    OBVIOUS
  <2>1. TypeOK
    BY SmpInvInit DEF SmpInv
  <2>2. \A c \in CPUs : stack[c] = NULL
    BY DEF Init
  <2> QED BY <2>1, <2>2 DEF Init, StackInv, StacksDisjoint
<1>2. StackInv => StacksDisjoint
  BY DEF StackInv
<1> QED BY <1>1, <1>2, SmpTypeCorrect, StackInvNext, PTL DEF Spec

=============================================================================
