------------------------------- MODULE MCApic -------------------------------
(* Firmware for machines with four ISA interrupts.  A byte has eight       *)
(* values, so tables of up to seven bytes are those of up to 255 bytes in  *)
(* the code.                                                               *)
EXTENDS Apic

Sdt(signature, bytes, entries) ==
    [signature |-> signature, bytes |-> bytes, entries |-> entries]
NoTable == Sdt("none", <<>>, <<>>)

LapicEntry == [type |-> LAPIC, length |-> 8]
IoapicEntry(gsi_base, pins) ==
    [type |-> IOAPIC, length |-> 12, gsi_base |-> gsi_base, pins |-> pins]
IsoEntry(irq_source, gsi, flags) ==
    [type |-> ISO, length |-> 10, irq_source |-> irq_source, gsi |-> gsi, flags |-> flags]
NmiEntry == [type |-> LAPIC_NMI, length |-> 6]
OtherEntry == [type |-> 5, length |-> 12]

\* The bytes of valid tables, of different lengths, and of two that are not.
Good == <<3, 5>>
GoodLong == <<1, 2, 3, 4, 5, 6, 3>>
GoodShort == <<0>>
Bad == <<3, 5, 1>>
BadAtTheEnd == <<0, 0, 4>>

\* IRQ 0 goes to pin 2, as on every PC, and IRQ 3, level triggered, to the
\* second IOAPIC.
UsualMadt ==
    Sdt("APIC", GoodLong,
        <<LapicEntry, IoapicEntry(0, 5), IsoEntry(0, 2, {}), OtherEntry,
          IoapicEntry(5, 3), IsoEntry(3, 6, {"low", "level"}), NmiEntry>>)
PlainMadt == Sdt("APIC", Good, <<IoapicEntry(0, 5), LapicEntry>>)
\* IRQ 1 goes to a pin that no IOAPIC has.
StrayMadt == Sdt("APIC", Good, <<IoapicEntry(0, 5), IsoEntry(1, 9, {})>>)
\* IRQ 1 and IRQ 3 are exchanged.
SwappedMadt == Sdt("APIC", Good, <<IoapicEntry(0, 5), IsoEntry(1, 3, {}), IsoEntry(3, 1, {})>>)
\* IRQ 3 goes to the last pin.
LastPinMadt == Sdt("APIC", Good, <<IoapicEntry(0, 5), IsoEntry(3, 4, {})>>)

Fadt == Sdt("FACP", Bad, <<>>)
Hpet == Sdt("HPET", Good, <<>>)
Tables(madt) == <<Fadt, madt, Hpet>>

\* In a microsecond of twelve units the HPET ticks six times, twelve times or,
\* with a remainder, twice.
Clock(hpet_period, lapic_period) == [hpet |-> hpet_period, lapic |-> lapic_period]

\* A machine with ACPI 2.0, its RSDP's and its root table's bytes as given.
Modern(rsdp, root, tables) ==
    [revision |-> 2, apic |-> TRUE, clock |-> Clock(2, 1), masks |-> <<3, 5>>,
     rsdp |-> Sdt("RSDP", rsdp, <<>>), rsdt |-> Sdt("RSDT", Good, <<>>),
     xsdt |-> Sdt("XSDT", root, tables)]
Old(revision, rsdt) ==
    [revision |-> revision, apic |-> TRUE, clock |-> Clock(1, 2), masks |-> <<7, 7>>,
     rsdp |-> Sdt("RSDP", Good, <<>>), rsdt |-> rsdt, xsdt |-> NoTable]

\* Sound machines, among them ones with a root table of the old kind, and
\* machines whose boot must stop.
UsualFirmwares ==
    {Modern(Good, GoodLong, Tables(UsualMadt)),
     [Modern(<<3, 5, 6>>, GoodShort, Tables(PlainMadt)) EXCEPT !.clock = Clock(5, 1)],
     Modern(Good, Good, Tables(StrayMadt)),
     Old(0, Sdt("RSDT", GoodLong, Tables(PlainMadt))),
     Old(2, Sdt("RSDT", Good, Tables(UsualMadt))),
     Modern(<<0, 4>>, Good, Tables(PlainMadt)),
     Modern(Good, BadAtTheEnd, Tables(PlainMadt)),
     Old(0, Sdt("FACP", Good, <<>>)),
     Modern(Good, Good, <<Fadt, Sdt("APIC", BadAtTheEnd, <<IoapicEntry(0, 5)>>), Hpet>>),
     Modern(Good, Good, <<Fadt, PlainMadt>>),
     [Modern(Good, Good, Tables(PlainMadt)) EXCEPT !.apic = FALSE]}

\* They are machines as the theorems ask for.
ASSUME UsualMachines ==
    Firmwares = UsualFirmwares =>
        MadtFits /\ GsisFit /\ FlagsAgree /\ LastPinsUnused /\ PinsApart /\ ClocksFit

\* Three LAPICs, where a list has room for two.
ManyMadt == Sdt("APIC", Good, <<LapicEntry, LapicEntry, IoapicEntry(0, 5), LapicEntry>>)

\* IRQ 1 goes to a GSI that irq_bitmap has no bit for.
FarMadt == Sdt("APIC", Good, <<IoapicEntry(0, 5), IoapicEntry(5, 7), IsoEntry(1, 10, {})>>)

UnusualFirmwares ==
    {Modern(Good, Good, Tables(madt)) : madt \in {SwappedMadt, LastPinMadt, ManyMadt, FarMadt}}

\* The clocks above, and a timer that does not tick in every microsecond.
ClockFirmware ==
    {[Modern(Good, Good, Tables(PlainMadt)) EXCEPT !.clock = c] :
        c \in {Clock(2, 1), Clock(5, 1), Clock(2, 13)}}

\* A root table of as many bytes as a byte has values, and a MADT entry without a length.
LongFirmware ==
    {Modern(Good, <<1, 1, 1, 1, 1, 1, 1, 1>>, Tables(PlainMadt)),
     Modern(Good, Good, Tables(Sdt("APIC", Good,
         <<IoapicEntry(0, 5), [OtherEntry EXCEPT !.length = 0]>>)))}
=============================================================================
