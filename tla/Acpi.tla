-------------------------------- MODULE Acpi --------------------------------
(***************************************************************************)
(* Finding the firmware's tables: hardware/acpi/acpi.c, tables/rsdp.c and  *)
(* tables/madt.c, and the search of hardware/hpet/hpet.c.                  *)
(*                                                                         *)
(* A table has a signature and bytes; its length field is the number of    *)
(* its bytes, and a valid table's bytes add up to 0 in the arithmetic of a *)
(* byte.  The root table (RSDT or XSDT) also has entries, which point to   *)
(* tables, and the MADT has entries of the types below.  The loop that     *)
(* adds up the bytes is one step per byte, because its index is a byte     *)
(* itself.                                                                 *)
(***************************************************************************)
EXTENDS Integers, SequencesExt

CONSTANTS
    Firmwares,   \* the machines: the tables in memory, and whether CPUID has an APIC
    BYTE,        \* the number of values of a uint8_t, 256 in the code
    RSDP_BYTES,  \* how many bytes of the RSDP are added up, 20 in the code
    LIST_ROOM    \* how many entries of the MADT a list has room for, 32 in the code

\* The types of the MADT entries that are kept; others are skipped.
LAPIC == 0
IOAPIC == 1
ISO == 2
LAPIC_NMI == 4
Kept == {LAPIC, IOAPIC, ISO, LAPIC_NMI}

\* The bytes and the entries of a table, and what the entries of the MADT have;
\* length is the entry's second byte.
IsTable(t) == t.bytes \in Seq(0 .. BYTE - 1) /\ t.entries \in Seq(ToSet(t.entries))
IsMadtEntry(e) ==
    /\ e.type \in Nat /\ e.length \in Nat
    /\ e.type = IOAPIC => e.gsi_base \in Nat /\ e.pins \in Nat \ {0}
    /\ e.type = ISO => {e.irq_source, e.gsi} \subseteq Nat /\ e.flags \subseteq {"low", "level"}

ASSUME AcpiAssumption ==
    /\ BYTE \in Nat \ {0}
    /\ RSDP_BYTES \in 1 .. BYTE - 1
    /\ LIST_ROOM \in Nat
    /\ \A f \in Firmwares :
           /\ f.revision \in Nat
           /\ f.apic \in BOOLEAN
           /\ IsTable(f.rsdp) /\ Len(f.rsdp.bytes) >= RSDP_BYTES
           /\ \A root \in {f.rsdt, f.xsdt} :
                  /\ IsTable(root)
                  /\ \A t \in ToSet(root.entries) :
                         IsTable(t) /\ \A e \in ToSet(t.entries) : IsMadtEntry(e)

VARIABLES
    firmware,   \* the tables in memory
    acpi_pc,    \* what is being done
    summing,    \* the checksum loop: the table, the bytes to add, i, checksum
    has_xsdt,   \* has_xsdt_var
    entry,      \* the index of acpi_find_sdt's or madt_init's loop
    wanted,     \* the signature acpi_find_sdt looks for
    found,      \* found[s]: the entry of the root table it returned for s
    madt_lists  \* madt_lists[t]: madt_lapics, madt_ioapics, madt_isos, ...: pointers to
                \* entries of the MADT, which are their indexes here

acpi_vars == <<firmware, acpi_pc, summing, has_xsdt, entry, wanted, found, madt_lists>>

NotFound == 0
Root == IF has_xsdt THEN firmware.xsdt ELSE firmware.rsdt
Table(n) == Root.entries[n]

NoSum == [table |-> "none", length |-> 0, i |-> 0, checksum |-> 0]

-----------------------------------------------------------------------------
(* rsdp_verify_checksum and acpi_verify_sdt_checksum *)

\* What is added up; of the RSDP, the first bytes only.
BytesOf(table) ==
    CASE table = "rsdp" -> SubSeq(firmware.rsdp.bytes, 1, RSDP_BYTES)
      [] table = "root" -> Root.bytes
      [] OTHER          -> Table(entry).bytes

\* Variant: the last byte is left out.
BeginSumButLast(table, length) ==
    /\ acpi_pc' = "sum"
    /\ summing' = [table |-> table, length |-> length - 1, i |-> 0, checksum |-> 0]

BeginSum(table, length) ==
    /\ acpi_pc' = "sum"
    /\ summing' = [table |-> table, length |-> length, i |-> 0, checksum |-> 0]

\* i is a uint8_t and length a uint32_t.
AddByte ==
    /\ acpi_pc = "sum"
    /\ summing.i < summing.length
    /\ summing' = [summing EXCEPT
                       !.i = (@ + 1) % BYTE,
                       !.checksum = (@ + BytesOf(summing.table)[summing.i + 1]) % BYTE]
    /\ UNCHANGED <<firmware, acpi_pc, has_xsdt, entry, wanted, found, madt_lists>>

SumIsWrong ==
    /\ acpi_pc = "sum"
    /\ summing.i >= summing.length
    /\ summing.checksum # 0
    /\ acpi_pc' = "panicked"
    /\ UNCHANGED <<firmware, summing, has_xsdt, entry, wanted, found, madt_lists>>

\* The sum over the given table has ended with 0.
Verified(table) ==
    /\ acpi_pc = "sum"
    /\ summing.table = table
    /\ summing.i >= summing.length
    /\ summing.checksum = 0

-----------------------------------------------------------------------------
(* rsdp_init and acpi_init *)

rsdp_init ==
    /\ acpi_pc = "start"
    /\ BeginSum("rsdp", RSDP_BYTES)
    /\ UNCHANGED <<firmware, has_xsdt, entry, wanted, found, madt_lists>>

\* The address of the XSDT is 0 if there is none.
HasXsdt(f) == f.revision >= 2 /\ f.xsdt.signature # "none"

RsdpVerified ==
    /\ Verified("rsdp")
    /\ has_xsdt' = HasXsdt(firmware)
    /\ acpi_pc' = "root"
    /\ UNCHANGED <<firmware, summing, entry, wanted, found, madt_lists>>

\* acpi_verify_sdt compares the signature first.
VerifyRoot ==
    /\ acpi_pc = "root"
    /\ IF Root.signature = IF has_xsdt THEN "XSDT" ELSE "RSDT"
       THEN BeginSum("root", Len(Root.bytes))
       ELSE acpi_pc' = "panicked" /\ UNCHANGED summing
    /\ UNCHANGED <<firmware, has_xsdt, entry, wanted, found, madt_lists>>

\* acpi_find_sdt begins.
Find(signature) ==
    /\ acpi_pc' = "find"
    /\ wanted' = signature
    /\ entry' = 1

\* madt_init begins.
RootVerified ==
    /\ Verified("root")
    /\ Find("APIC")
    /\ UNCHANGED <<firmware, summing, has_xsdt, found, madt_lists>>

-----------------------------------------------------------------------------
(* acpi_find_sdt *)

NotListed ==
    /\ acpi_pc = "find"
    /\ entry > Len(Root.entries)
    /\ acpi_pc' = "panicked"
    /\ UNCHANGED <<firmware, summing, has_xsdt, entry, wanted, found, madt_lists>>

VerifyEntry ==
    /\ acpi_pc = "find"
    /\ entry <= Len(Root.entries)
    /\ IF Table(entry).signature = wanted
       THEN BeginSum("entry", Len(Table(entry).bytes)) /\ UNCHANGED entry
       ELSE entry' = entry + 1 /\ UNCHANGED <<acpi_pc, summing>>
    /\ UNCHANGED <<firmware, has_xsdt, wanted, found, madt_lists>>

\* The search for the MADT goes on to its entries; hpet_init has no loop.
EntryVerified ==
    /\ Verified("entry")
    /\ found' = [found EXCEPT ![wanted] = entry]
    /\ acpi_pc' = IF wanted = "APIC" THEN "madt" ELSE "done"
    /\ entry' = 1
    /\ UNCHANGED <<firmware, summing, has_xsdt, wanted, madt_lists>>

-----------------------------------------------------------------------------
(* madt_init's loop over the entries, and hpet_init *)

Madt == Table(found["APIC"])

\* The next entry is behind the length of this one, which may be 0: then the
\* loop stays at this entry and fills its list.  Bound: the model ends when a
\* list has been written past its end.
CollectEntry ==
    /\ acpi_pc = "madt"
    /\ entry <= Len(Madt.entries)
    /\ \A t \in Kept : Len(madt_lists[t]) <= LIST_ROOM
    /\ madt_lists' = [t \in Kept |->
                         IF t = Madt.entries[entry].type
                         THEN Append(madt_lists[t], entry)
                         ELSE madt_lists[t]]
    /\ entry' = IF Madt.entries[entry].length = 0 THEN entry ELSE entry + 1
    /\ UNCHANGED <<firmware, acpi_pc, summing, has_xsdt, wanted, found>>

MadtDone ==
    /\ acpi_pc = "madt"
    /\ entry > Len(Madt.entries)
    /\ acpi_pc' = "acpi_done"
    /\ UNCHANGED <<firmware, summing, has_xsdt, entry, wanted, found, madt_lists>>

-----------------------------------------------------------------------------

AcpiInit ==
    /\ firmware \in Firmwares
    /\ acpi_pc = "start"
    /\ summing = NoSum
    /\ has_xsdt = FALSE
    /\ entry = 1
    /\ wanted = "none"
    /\ found = [s \in {"APIC", "HPET"} |-> NotFound]
    /\ madt_lists = [t \in Kept |-> <<>>]

AcpiNext ==
    \/ rsdp_init \/ RsdpVerified \/ VerifyRoot \/ RootVerified
    \/ AddByte \/ SumIsWrong
    \/ VerifyEntry \/ NotListed \/ EntryVerified
    \/ CollectEntry \/ MadtDone

-----------------------------------------------------------------------------
(* Properties *)

AcpiTypeOK ==
    /\ firmware \in Firmwares
    /\ acpi_pc \in {"start", "sum", "root", "find", "madt", "acpi_done", "done", "panicked"}
    /\ summing \in [table : {"none", "rsdp", "root", "entry"}, length : Nat,
                    i : 0 .. BYTE - 1, checksum : 0 .. BYTE - 1]
    /\ has_xsdt \in BOOLEAN
    /\ entry \in Nat \ {0}
    /\ wanted \in {"none", "APIC", "HPET"}
    /\ found \in [{"APIC", "HPET"} -> Nat]
    /\ madt_lists \in [Kept -> Seq(Nat)]

\* PartialSums(bytes)[n]: the sum of the first n bytes.
PartialSums(bytes) ==
    LET sum[n \in 0 .. Len(bytes)] == IF n = 0 THEN 0 ELSE sum[n - 1] + bytes[n] IN sum
Sums0(bytes) == PartialSums(bytes)[Len(bytes)] % BYTE = 0

\* The tables the kernel goes on with are sound: all bytes of the table count
\* in its checksum, so do the first bytes of the RSDP, and a table is the first
\* of the root table with its signature; and the MADT's entries fit in the
\* lists madt_init has made for them (rsdp_verify_checksum, acpi_verify_sdt,
\* acpi_find_sdt, madt.c:57-60).
TablesSound ==
    /\ acpi_pc \notin {"start", "sum", "panicked"} =>
           Sums0(SubSeq(firmware.rsdp.bytes, 1, RSDP_BYTES))
    /\ acpi_pc \in {"find", "madt", "acpi_done", "done"} => Sums0(Root.bytes)
    /\ \A s \in {"APIC", "HPET"} : found[s] # NotFound =>
           /\ Sums0(Table(found[s]).bytes)
           /\ found[s] = SelectInSeq(Root.entries, LAMBDA t : t.signature = s)
    /\ \A t \in Kept : Len(madt_lists[t]) <= LIST_ROOM
=============================================================================
