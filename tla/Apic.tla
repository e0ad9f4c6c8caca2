-------------------------------- MODULE Apic --------------------------------
(***************************************************************************)
(* Interrupts from boot to the first routes, hardware/apic/apic.c: idt_init *)
(* remaps the legacy controllers (module Pic), acpi_init finds the tables  *)
(* (module Acpi), and apic_init disables the legacy controllers, enables   *)
(* the LAPIC, masks the ISA interrupts, starts the HPET and measures the   *)
(* LAPIC's timer (module Timer).  After that other parts of the kernel set *)
(* routes and ask for timer interrupts.                                    *)
(*                                                                         *)
(* A pin is a pair of the index of its IOAPIC in the MADT and its number   *)
(* there.  Its entry in the redirection table is two registers, written    *)
(* one after the other; a device may assert its line at any time.          *)
(***************************************************************************)
EXTENDS Acpi, Timer, Pic

CONSTANTS
    ISA_IRQS,     \* the number of ISA interrupts, 16 in the code
    IRQ_BITMAP_BITS,  \* the bits of apic_init's irq_bitmap, 16 bytes in the code
    BSP_LAPIC,    \* the bootstrap processor's LAPIC
    Lapics,       \* the LAPICs that callers route to
    Vectors,      \* the vectors that callers choose
    MaxRequests   \* bound: how many routes and timer interrupts callers ask for

ASSUME ApicAssumption ==
    /\ ISA_IRQS \in Nat
    /\ IRQ_BITMAP_BITS \in Nat
    /\ Vectors \subseteq Nat
    /\ MaxRequests \in Nat
    /\ \A f \in Firmwares :
           /\ f.clock \in [hpet : 1 .. MICROSECOND, lapic : Nat \ {0}]
           /\ f.masks[Pic1] \in Nat /\ f.masks[Pic2] \in Nat

VARIABLES
    apic_pc,     \* where apic_init, or a request, is
    i,           \* apic_init's loop variable
    irq_bitmap,  \* the bits set from apic_init's irq_bitmap on
    request,     \* the arguments of ioapic_set_gsi_redirect under way
    ioredtbl,    \* ioredtbl[p]: the entry of pin p
    requests,    \* how many requests callers have made
    asked,       \* history: the last completed request for each pin
    delivered    \* the last interrupt a device has raised

apic_vars == <<apic_pc, i, irq_bitmap, request, ioredtbl, requests, asked, delivered>>
vars == <<acpi_vars, apic_vars, timer_vars, pic_vars>>

Irqs == 0 .. ISA_IRQS - 1
NoPin == <<0, 0>>
NoRequest == [lapic_id |-> BSP_LAPIC, vector |-> 0, gsi |-> 0, flags |-> {}, mask |-> TRUE,
              pin |-> NoPin]
NoInterrupt == [pin |-> NoPin, vector |-> 0, lapic_id |-> BSP_LAPIC]

\* The entries of the machine's MADT that have a type, and the pins of its IOAPICs.
RootOf(f) == IF HasXsdt(f) THEN f.xsdt ELSE f.rsdt
MadtEntries(f) ==
    LET n == SelectInSeq(RootOf(f).entries, LAMBDA t : t.signature = "APIC")
    IN  IF n = 0 THEN <<>> ELSE RootOf(f).entries[n].entries
OfType(f, type) == {n \in DOMAIN MadtEntries(f) : MadtEntries(f)[n].type = type}
Pins(f) == UNION {{n} \X (0 .. MadtEntries(f)[n].pins - 1) : n \in OfType(f, IOAPIC)}

\* The bootloader hands all pins over masked.
ResetEntry == [low |-> [vector |-> 0, flags |-> {}, mask |-> TRUE], high |-> BSP_LAPIC]

-----------------------------------------------------------------------------
(* ioapic_i_from_gsi, ioapic_set_gsi_redirect, ioapic_set_irq_redirect *)

madt_ioapics == madt_lists[IOAPIC]
madt_isos == madt_lists[ISO]

\* The IOAPICVER register has the number of the last entry.
ioapic_get_max_redirect(ioapic) == ioapic.pins - 1

\* The index of the IOAPIC, or 0 where the code stops the machine.
ioapic_i_from_gsi(gsi) ==
    SelectInSeq(madt_ioapics,
        LAMBDA a : /\ gsi >= Madt.entries[a].gsi_base
                   /\ gsi < Madt.entries[a].gsi_base + ioapic_get_max_redirect(Madt.entries[a]))

\* The pin of a GSI at the n-th IOAPIC.
PinAt(n, gsi) == <<madt_ioapics[n], gsi - Madt.entries[madt_ioapics[n]].gsi_base>>

\* The vector of a pin, read back.
ioapic_get_vector_from_gsi(gsi) == ioredtbl[PinAt(ioapic_i_from_gsi(gsi), gsi)].low.vector

\* The override of an interrupt, or 0.
OverrideOf(irq) == SelectInSeq(madt_isos, LAMBDA o : Madt.entries[o].irq_source = irq)
GsiOf(irq) == IF OverrideOf(irq) = 0 THEN irq ELSE Madt.entries[madt_isos[OverrideOf(irq)]].gsi

\* Variant: the override's flags are ignored.
PlainFlags(irq) == {}

FlagsOf(irq) ==
    IF OverrideOf(irq) = 0 THEN {} ELSE Madt.entries[madt_isos[OverrideOf(irq)]].flags

\* The arguments ioapic_set_irq_redirect passes on.
ioapic_set_irq_redirect(lapic_id, vector, irq, mask) ==
    LET n == ioapic_i_from_gsi(GsiOf(irq))
    IN  /\ request' = [lapic_id |-> lapic_id, vector |-> vector, gsi |-> GsiOf(irq),
                       flags |-> FlagsOf(irq), mask |-> mask,
                       pin |-> IF n = 0 THEN NoPin ELSE PinAt(n, GsiOf(irq))]
        /\ apic_pc' = IF n = 0 THEN "panicked" ELSE "low"

\* Variant: the mask bit is never set.
LowWordUnmasked(r) == [vector |-> r.vector, flags |-> r.flags, mask |-> FALSE]

\* The vector, the polarity and trigger bits, and the mask bit.
LowWord(r) == [vector |-> r.vector, flags |-> r.flags, mask |-> r.mask]

WriteLow ==
    /\ apic_pc = "low"
    /\ apic_pc' = "high"
    /\ ioredtbl' = [ioredtbl EXCEPT ![request.pin].low = LowWord(request)]
    /\ UNCHANGED <<i, irq_bitmap, request, requests, asked, delivered>>

WriteHigh ==
    /\ apic_pc = "high"
    /\ apic_pc' = "returned"
    /\ ioredtbl' = [ioredtbl EXCEPT ![request.pin].high = request.lapic_id]
    /\ asked' = [asked EXCEPT ![request.pin] = request]
    /\ UNCHANGED <<i, irq_bitmap, request, requests, delivered>>

-----------------------------------------------------------------------------
(* apic_init *)

\* apic_is_available asks the processor.
NoApic ==
    /\ apic_pc = "off"
    /\ acpi_pc = "acpi_done"
    /\ ~firmware.apic
    /\ apic_pc' = "no_apic"
    /\ UNCHANGED <<i, irq_bitmap, request, ioredtbl, requests, asked, delivered>>

\* apic_init begins, and disables the legacy controllers.
BeginApicInit ==
    /\ apic_pc = "off"
    /\ acpi_pc = "acpi_done"
    /\ firmware.apic
    /\ apic_pc' = "lapic"
    /\ pic_disable
    /\ UNCHANGED <<i, irq_bitmap, request, ioredtbl, requests, asked, delivered>>
    /\ UNCHANGED <<acpi_vars, timer_vars>>

lapic_enable ==
    /\ apic_pc = "lapic"
    /\ port_writes = <<>>
    /\ apic_pc' = "loop"
    /\ lapic' = [lapic EXCEPT !.enabled = TRUE]
    /\ UNCHANGED <<clock, hpet_regs, timer_pc, target_value, slept, late, lapic_timer_freq,
                   oneshot>>
    /\ UNCHANGED <<i, irq_bitmap, request, ioredtbl, requests, asked, delivered>>
    /\ UNCHANGED <<acpi_vars, pic_vars>>

SkipIrq ==
    /\ apic_pc = "loop" /\ i < ISA_IRQS
    /\ i \in irq_bitmap
    /\ i' = i + 1
    /\ UNCHANGED <<apic_pc, irq_bitmap, request, ioredtbl, requests, asked, delivered>>

MaskIrq ==
    /\ apic_pc = "loop" /\ i < ISA_IRQS
    /\ i \notin irq_bitmap
    /\ ioapic_set_irq_redirect(BSP_LAPIC, i + FIRST_VECTOR, i, TRUE)
    /\ UNCHANGED <<i, irq_bitmap, ioredtbl, requests, asked, delivered>>

\* Variant: the bit of the interrupt and not of the pin it goes to.
MarkIrq ==
    /\ apic_pc = "returned" /\ i < ISA_IRQS
    /\ irq_bitmap' = irq_bitmap \cup {i}
    /\ i' = i + 1
    /\ apic_pc' = "loop"
    /\ UNCHANGED <<request, ioredtbl, requests, asked, delivered>>

\* ioapic_set_irq_redirect returns the GSI, whose bit is set, also if it is
\* behind the bitmap: then it is a bit of another block of the heap.
MarkGsi ==
    /\ apic_pc = "returned" /\ i < ISA_IRQS
    /\ irq_bitmap' = irq_bitmap \cup {request.gsi}
    /\ i' = i + 1
    /\ apic_pc' = "loop"
    /\ UNCHANGED <<request, ioredtbl, requests, asked, delivered>>

\* hpet_init asks for its table.
FindHpet ==
    /\ apic_pc = "loop" /\ i = ISA_IRQS
    /\ apic_pc' = "hpet"
    /\ Find("HPET")
    /\ UNCHANGED <<firmware, summing, has_xsdt, found, madt_lists>>
    /\ UNCHANGED <<i, irq_bitmap, request, ioredtbl, requests, asked, delivered>>
    /\ UNCHANGED <<timer_vars, pic_vars>>

\* It starts the counter; lapic_timer_init goes on with the calibration.
hpet_init ==
    /\ apic_pc = "hpet"
    /\ acpi_pc = "done"
    /\ apic_pc' = "timer"
    /\ hpet_regs' = StartHpet
    /\ timer_pc' = "calibrate"
    /\ UNCHANGED <<clock, lapic, target_value, slept, late, lapic_timer_freq, oneshot>>
    /\ UNCHANGED <<i, irq_bitmap, request, ioredtbl, requests, asked, delivered>>
    /\ UNCHANGED <<acpi_vars, pic_vars>>

EndApicInit ==
    /\ apic_pc = "timer"
    /\ timer_pc = "idle"
    /\ apic_pc' = "ready"
    /\ UNCHANGED <<i, irq_bitmap, request, ioredtbl, requests, asked, delivered>>

-----------------------------------------------------------------------------
(* After apic_init *)

Redirect(lapic_id, vector, irq, mask) ==
    /\ apic_pc = "ready"
    /\ requests < MaxRequests
    /\ requests' = requests + 1
    /\ ioapic_set_irq_redirect(lapic_id, vector, irq, mask)
    /\ UNCHANGED <<i, irq_bitmap, ioredtbl, asked, delivered>>

RedirectReturns ==
    /\ apic_pc = "returned" /\ i = ISA_IRQS
    /\ apic_pc' = "ready"
    /\ UNCHANGED <<i, irq_bitmap, request, ioredtbl, requests, asked, delivered>>

Oneshot(us) ==
    /\ apic_pc = "ready"
    /\ requests < MaxRequests
    /\ requests' = requests + 1
    /\ lapic_timer_oneshot(us)
    /\ UNCHANGED <<apic_pc, i, irq_bitmap, request, ioredtbl, asked, delivered>>

\* A device asserts the line of a pin, and the LAPIC takes the interrupt.
Deliver(pin) ==
    /\ ~ioredtbl[pin].low.mask
    /\ lapic.enabled
    /\ delivered' = [pin |-> pin, vector |-> ioredtbl[pin].low.vector,
                     lapic_id |-> ioredtbl[pin].high]
    /\ UNCHANGED <<apic_pc, i, irq_bitmap, request, ioredtbl, requests, asked>>

-----------------------------------------------------------------------------

Init ==
    /\ AcpiInit
    /\ TimerInit(firmware.clock)
    /\ PicInit(firmware.masks)
    /\ apic_pc = "off"
    /\ i = 0
    /\ irq_bitmap = {}
    /\ request = NoRequest
    /\ ioredtbl = [p \in Pins(firmware) |-> ResetEntry]
    /\ requests = 0
    /\ asked = [p \in Pins(firmware) |-> NoRequest]
    /\ delivered = NoInterrupt

ApicStep ==
    \/ NoApic \/ SkipIrq \/ MaskIrq \/ MarkGsi \/ EndApicInit
    \/ WriteLow \/ WriteHigh \/ RedirectReturns

\* What the kernel's own code does next; it waits for time only, and idt_init
\* comes before acpi_init.
Boot ==
    \/ PicStep /\ UNCHANGED <<acpi_vars, apic_vars, timer_vars>>
    \/ sti /\ AcpiNext /\ UNCHANGED <<apic_vars, timer_vars, pic_vars>>
    \/ ApicStep /\ UNCHANGED <<acpi_vars, timer_vars, pic_vars>>
    \/ TimerStep /\ UNCHANGED <<acpi_vars, apic_vars, pic_vars>>
    \/ BeginApicInit \/ lapic_enable \/ FindHpet \/ hpet_init

Time == Tick /\ UNCHANGED <<acpi_vars, apic_vars, pic_vars>>

Next ==
    \/ Boot
    \/ Time
    \/ \E lapic_id \in Lapics, vector \in Vectors, irq \in Irqs, mask \in BOOLEAN :
           /\ Redirect(lapic_id, vector, irq, mask)
           /\ UNCHANGED <<acpi_vars, timer_vars, pic_vars>>
    \/ \E us \in Delays : Oneshot(us) /\ UNCHANGED <<acpi_vars, pic_vars>>
    \/ \E pin \in DOMAIN ioredtbl :
           Deliver(pin) /\ UNCHANGED <<acpi_vars, timer_vars, pic_vars>>

Spec == Init /\ [][Next]_vars /\ WF_vars(Boot) /\ WF_vars(Time)

-----------------------------------------------------------------------------
(* Properties *)

Request == [lapic_id : Lapics \cup {BSP_LAPIC}, vector : Nat, gsi : Nat,
            flags : SUBSET {"low", "level"}, mask : BOOLEAN, pin : Pins(firmware) \cup {NoPin}]

TypeOK ==
    /\ AcpiTypeOK
    /\ TimerTypeOK
    /\ PicTypeOK
    /\ apic_pc \in {"off", "no_apic", "lapic", "loop", "low", "high", "returned", "hpet", "timer",
                    "ready", "panicked"}
    /\ i \in 0 .. ISA_IRQS
    /\ irq_bitmap \subseteq Nat
    /\ request \in Request
    /\ ioredtbl \in [Pins(firmware) ->
           [low : [vector : Nat, flags : SUBSET {"low", "level"}, mask : BOOLEAN],
            high : Lapics \cup {BSP_LAPIC}]]
    /\ requests \in 0 .. MaxRequests
    /\ asked \in [Pins(firmware) -> Request]

\* The pin that a global interrupt number means, by the pins the IOAPICs have;
\* the pins a GSI may be said to have.
PinsOfGsi(gsi) == {p \in Pins(firmware) : MadtEntries(firmware)[p[1]].gsi_base + p[2] = gsi}

\* The overrides, as the firmware's tables have them.
Overrides == {MadtEntries(firmware)[n] : n \in OfType(firmware, ISO)}

Writing == apic_pc \in {"low", "high"}

\* Outside a request, every pin has the destination, the mask and the electrical
\* flags of the last request for it, and its vector is what is read back for the
\* request's GSI; the request went to the pin that the firmware's tables name,
\* and the machine is stopped only if no IOAPIC has that pin
\* (ioapic_set_irq_redirect, ioapic_set_gsi_redirect, ioapic_i_from_gsi,
\* ioapic_get_vector_from_gsi).
RoutedAsAsked ==
    /\ ~Writing => \A p \in Pins(firmware) : asked[p] # NoRequest =>
           /\ ioredtbl[p] = [low |-> LowWord(asked[p]), high |-> asked[p].lapic_id]
           /\ ioapic_get_vector_from_gsi(asked[p].gsi) = asked[p].vector
           /\ p \in PinsOfGsi(asked[p].gsi)
           /\ \A o \in Overrides : o.gsi = asked[p].gsi => asked[p].flags = o.flags
    /\ apic_pc = "panicked" => PinsOfGsi(request.gsi) = {}

\* An interrupt arrives only on a pin that the last request for it has unmasked,
\* with that request's vector, and at the LAPIC of the last request that has
\* returned.  These are one request, except between the two writes of
\* ioapic_set_gsi_redirect (apic.c:305-306), when the interrupt already has the
\* mask and the vector of the request under way.
DeliveredAsAsked ==
    [][delivered' # delivered =>
           LET pin  == delivered'.pin
               last == IF apic_pc = "high" /\ request.pin = pin THEN request ELSE asked[pin]
           IN  /\ last.pin = pin
               /\ ~last.mask
               /\ delivered'.vector = last.vector
               /\ delivered'.lapic_id = asked[pin].lapic_id]_vars

\* An interrupt has the vector and the LAPIC of one and the same request ("always
\* redirect the specified IRQ (pin) to a specified LAPIC, which then always
\* should use a specified vector", apic.c:140-141).  The code does not have this
\* property between the two writes.
DestinationAsAsked ==
    [][delivered' # delivered =>
           \E r \in {asked[delivered'.pin], request} :
               /\ r.pin = delivered'.pin
               /\ r.vector = delivered'.vector
               /\ r.lapic_id = delivered'.lapic_id
               /\ ~r.mask]_vars

\* After apic_init and before the first request, every ISA interrupt that has a
\* pin of its own, by an override or because no override takes the pin of its
\* number, is masked there and has its vector; no bit is set behind the bitmap
\* that remembers the pins (apic.c:61, apic.c:74-86).
IsaRoutesSet ==
    LET overridden == {o.irq_source : o \in Overrides}
        taken      == {o.gsi : o \in Overrides}
        first(irq) == Min({n \in OfType(firmware, ISO) :
                               MadtEntries(firmware)[n].irq_source = irq})
        gsi(irq)   == IF irq \in overridden THEN MadtEntries(firmware)[first(irq)].gsi ELSE irq
    IN  /\ apic_pc = "ready" /\ requests = 0 =>
               \A irq \in Irqs : irq \in overridden \/ irq \notin taken =>
                   \A p \in PinsOfGsi(gsi(irq)) :
                       /\ ioredtbl[p].low.vector = irq + FIRST_VECTOR
                       /\ ioredtbl[p].low.mask
        /\ irq_bitmap \subseteq 0 .. IRQ_BITMAP_BITS - 1

\* Once interrupts are allowed, the legacy controllers raise the vectors of
\* their own lines, behind the exceptions, and only of lines the bootloader left
\* open; from the moment the LAPIC is enabled they raise none (idt_init,
\* pic_remap, pic_disable).
LegacyLinesAsSetUp ==
    /\ sti => \A c \in {Pic1, Pic2} :
           Raised(c) \subseteq {FIRST_VECTOR + (c - 1) * LINES + line :
                                   line \in {n \in 0 .. LINES - 1 : ~IsMasked(mask_read[c], n)}}
    /\ lapic.enabled => \A c \in {Pic1, Pic2} : Raised(c) = {}

\* The boot ends: acpi_init and apic_init return, or stop the machine
\* (acpi_verify_sdt_checksum, acpi_find_sdt, madt_init, apic_init).
BootEnds == <>(acpi_pc = "panicked" \/ apic_pc \in {"ready", "panicked", "no_apic"})

-----------------------------------------------------------------------------
(* What the theorems of module ApicProof ask of a machine.  The runs that   *)
(* expect a violation show what happens on machines that are different.     *)

\* madt_init's lists have room for the MADT's entries (madt.c:57-60), none of
\* which has the length 0 (madt.c:65).
MadtFits ==
    \A f \in Firmwares :
        /\ \A t \in Kept : Cardinality(OfType(f, t)) <= LIST_ROOM
        /\ \A n \in DOMAIN MadtEntries(f) : MadtEntries(f)[n].length # 0

\* irq_bitmap has a bit for every GSI that an ISA interrupt goes to (apic.c:75).
GsisFit ==
    /\ ISA_IRQS <= IRQ_BITMAP_BITS
    /\ \A f \in Firmwares : \A o \in OfType(f, ISO) : MadtEntries(f)[o].gsi < IRQ_BITMAP_BITS

\* Two interrupts that go to the same GSI ask for the same flags, and an override
\* to the number of an interrupt without one asks for those of the ISA bus.
FlagsAgree ==
    \A f \in Firmwares : LET e == MadtEntries(f) IN
        \A o \in OfType(f, ISO) :
            /\ \A o2 \in OfType(f, ISO) : e[o].gsi = e[o2].gsi => e[o].flags = e[o2].flags
            /\ (\A o2 \in OfType(f, ISO) : e[o2].irq_source # e[o].gsi) /\ e[o].gsi \in Irqs =>
                   e[o].flags = {}

\* No interrupt goes to the last pin of an IOAPIC, which ioapic_i_from_gsi leaves out.
LastPinsUnused ==
    \A f \in Firmwares : LET e == MadtEntries(f) IN
        \A a \in OfType(f, IOAPIC) :
            LET last == e[a].gsi_base + e[a].pins - 1
            IN  last \notin Irqs /\ \A o \in OfType(f, ISO) : e[o].gsi # last

\* A GSI is at one pin; overrides go to different GSIs, and to none whose number
\* is that of an interrupt with another override.
PinsApart ==
    \A f \in Firmwares : LET e == MadtEntries(f) IN
        /\ \A p, q \in Pins(f) : e[p[1]].gsi_base + p[2] = e[q[1]].gsi_base + q[2] => p = q
        /\ \A o, o2 \in OfType(f, ISO) : o # o2 =>
               e[o].gsi # e[o2].gsi /\ e[o].gsi # e[o2].irq_source

\* A calibration is a fraction of a second, the timer's frequency fits the
\* variable it is kept in, and the delays are within the range of the timer
\* (apic.c:124, apic.c:133).  Less than Longest units, and a period, pass while
\* the timer is measured.
Longest(period) == CALIBRATION * MICROSECOND + MaxLate + period
ClocksFit ==
    /\ SECOND % CALIBRATION = 0
    /\ \A f \in Firmwares : LET period == f.clock.lapic IN
           /\ Longest(period) * (SECOND \div CALIBRATION) < (LAPIC_RANGE - 1) * period
           /\ \A us \in Delays : us * Longest(period) < LAPIC_RANGE * CALIBRATION * period
=============================================================================
