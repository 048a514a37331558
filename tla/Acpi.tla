-------------------------------- MODULE Acpi --------------------------------
(***************************************************************************)
(* What the kernel reads from the firmware at boot: platform_init() checks *)
(* the RSDP and looks for the HPET, lapic_init() looks for the MADT, walks *)
(* its entries, and takes the local APIC into use in place of the PIC.     *)
(*                                                                         *)
(* A table of the firmware is a record: its signature, the sum of its      *)
(* bytes, its physical address and, for the MADT, its entries.  Addresses  *)
(* are in bytes; the address space is small and wraps.                     *)
(***************************************************************************)
EXTENDS Integers, Sequences, SequencesExt, FiniteSetsExt

CONSTANTS
  SPACE,            \* size of the address space (2^64)
  HHDM_OFFSET,      \* where the physical memory is mapped
  Revisions,        \* revisions of the RSDP
  Sums,             \* sums of the first 20 bytes of the RSDP
  Roots             \* contents of an RSDT or XSDT: sequences of tables

AcpiAssumption ==
  /\ SPACE \in Nat \ {0} /\ HHDM_OFFSET \in 1 .. SPACE - 1
  /\ Revisions \subseteq Nat /\ Sums \subseteq Nat

None == [signature |-> "NULL"]

VARIABLES
  firmware,     \* [revision, sum, rsdt, xsdt]
  pc,           \* where the boot processor is
  has_xsdt,
  wanted,       \* the signature that acpi_find_table() looks for
  i,            \* its loop counter
  table,        \* what it returned
  device,       \* madt_interrupt_devices
  apic_dev,     \* [lapic_addr, ioapics]
  is_pic_enabled,
  lapic_base,
  lapic_enabled \* the bit that lapic_enable() sets

vars == <<firmware, pc, has_xsdt, wanted, i, table, device, apic_dev, is_pic_enabled,
          lapic_base, lapic_enabled>>
search == <<wanted, i, table>>
apic == <<device, apic_dev, is_pic_enabled, lapic_base, lapic_enabled>>

Init ==
  /\ firmware \in [revision : Revisions, sum : Sums, rsdt : Roots, xsdt : Roots]
  /\ firmware.revision < 2 => firmware.xsdt = <<>>
  /\ pc = "rsdp_init" /\ has_xsdt = FALSE
  /\ wanted = "HPET" /\ i = 0 /\ table = None
  /\ device = 0 /\ apic_dev = [lapic_addr |-> 0, ioapics |-> <<>>]
  /\ is_pic_enabled = TRUE /\ lapic_base = 0 /\ lapic_enabled = FALSE
-----------------------------------------------------------------------------
(* The tables in memory.                                                   *)

va(paddr) == (paddr + HHDM_OFFSET) % SPACE

SDT_SIZE == 36
MADT_ENTRIES == 44          \* 0x2c

LengthOf(entries) == FoldLeft(LAMBDA n, e : n + e.record_len, 0, entries)
EntryAddress(madt, k) == va(madt.base) + MADT_ENTRIES + LengthOf(SubSeq(madt.entries, 1, k - 1))
EntryAddresses(madt) == {EntryAddress(madt, k) : k \in DOMAIN madt.entries}
MadtEnd(madt) == EntryAddress(madt, Len(madt.entries) + 1)
EntryAt(madt, a) == madt.entries[CHOOSE k \in DOMAIN madt.entries : EntryAddress(madt, k) = a]
-----------------------------------------------------------------------------
(* The RSDP and the search for a table.                                    *)

rsdp_verify_checksum == firmware.sum % 256 = 0

rsdp_init ==
  /\ pc = "rsdp_init"
  /\ has_xsdt' = (rsdp_verify_checksum /\ firmware.revision >= 2)
  /\ pc' = IF rsdp_verify_checksum THEN "find" ELSE "panic"
  /\ UNCHANGED <<firmware, search, apic>>

EntrySize == IF has_xsdt THEN 8 ELSE 4
Next_(k) == IF has_xsdt THEN firmware.xsdt[k + 1] ELSE firmware.rsdt[k + 1]

\* The header's length is what the firmware wrote.
header_length == SDT_SIZE + EntrySize * Len(IF has_xsdt THEN firmware.xsdt ELSE firmware.rsdt)

entries == (header_length - SDT_SIZE) \div EntrySize

acpi_validate_sdt_checksum(sdt) == sdt.sum % 256 = 0

Find(signature) == wanted' = signature /\ i' = 0 /\ table' = None /\ pc' = "find"

acpi_find_table ==
  /\ pc = "find"
  /\ \/ /\ i < entries
        /\ Next_(i).signature = wanted /\ acpi_validate_sdt_checksum(Next_(i))
        /\ table' = Next_(i) /\ pc' = "found" /\ UNCHANGED i
     \/ /\ i < entries
        /\ ~(Next_(i).signature = wanted /\ acpi_validate_sdt_checksum(Next_(i)))
        /\ i' = i + 1 /\ UNCHANGED <<table, pc>>
     \/ i >= entries /\ pc' = "found" /\ UNCHANGED <<i, table>>
  /\ UNCHANGED <<firmware, has_xsdt, wanted, apic>>

\* Without an HPET the kernel does not boot; with one, init_percpu() is next.
hpet_init ==
  /\ pc = "found" /\ wanted = "HPET"
  /\ IF table = None THEN pc' = "panic" /\ UNCHANGED search ELSE Find("APIC")
  /\ UNCHANGED <<firmware, has_xsdt, apic>>
-----------------------------------------------------------------------------
(* The MADT and the local APIC.                                            *)

pic_disable == is_pic_enabled' = FALSE

madt_init ==
  /\ pc = "found" /\ wanted = "APIC"
  /\ \/ table = None /\ pc' = "panic" /\ UNCHANGED <<device, apic_dev, is_pic_enabled>>
     \/ /\ table # None
        /\ apic_dev' = [lapic_addr |-> table.local_apic_addr, ioapics |-> <<>>]
        /\ pic_disable
        /\ device' = va(table.base) + MADT_ENTRIES
        /\ pc' = "walk"
  /\ UNCHANGED <<firmware, has_xsdt, search, lapic_base, lapic_enabled>>

LAPIC_ADDR_OVERRIDE == 5
IOAPIC == 1

\* push() copies its argument into an element with the initialiser { el }.  The
\* argument is a pointer, so it goes to the first field and the others are 0.
IoapicElement(pointer) ==
  [entry_type |-> pointer % 256, io_apic_id |-> 0, address |-> 0]

\* What an entry e at address a changes in apic_dev.
Record(dev, e, a) ==
  CASE e.entry_type = LAPIC_ADDR_OVERRIDE -> [dev EXCEPT !.lapic_addr = a + 4]
    [] e.entry_type = IOAPIC -> [dev EXCEPT !.ioapics = Append(@, IoapicElement(a))]
    [] OTHER -> dev

\* Mutant: an entry of a type that is not known is not stepped over.
Advance_Known(e) == IF e.entry_type \in 0 .. 5 \cup {9} THEN e.record_len ELSE 0
Advance(e) == e.record_len

enumarate_apic_devices ==
  /\ pc = "walk"
  /\ LET e == EntryAt(table, device) IN
       /\ apic_dev' = Record(apic_dev, e, device)
       /\ device' = device + Advance(e)
  /\ pc' = IF device' < MadtEnd(table) THEN "walk" ELSE "lapic_init"
  /\ UNCHANGED <<firmware, has_xsdt, search, is_pic_enabled, lapic_base, lapic_enabled>>

lapic_init ==
  /\ pc = "lapic_init"
  /\ lapic_base' = va(apic_dev.lapic_addr)
  /\ lapic_enabled' = TRUE
  /\ pc' = "done"
  /\ UNCHANGED <<firmware, has_xsdt, search, device, apic_dev, is_pic_enabled>>

Boot ==
  \/ rsdp_init \/ acpi_find_table \/ hpet_init \/ madt_init \/ enumarate_apic_devices
  \/ lapic_init

\* kern_main() goes on, or the processor is halted.
Over == pc \in {"done", "panic"} /\ UNCHANGED vars

Next == Boot \/ Over

\* The boot processor runs, with interrupts disabled.
Spec == Init /\ [][Next]_vars /\ WF_vars(Boot)
-----------------------------------------------------------------------------
(* Properties.                                                             *)

\* The tables that the revision of the RSDP calls for, and those among them
\* that have the signature and a valid checksum.
Listed == IF firmware.revision >= 2 THEN firmware.xsdt ELSE firmware.rsdt
Valid(signature) ==
  SelectSeq(Listed, LAMBDA t : t.signature = signature /\ t.sum % 256 = 0)

\* A search ends with the first valid table of its name in the root table of the
\* firmware's version, and with NULL only if there is none: acpi_find_table().
SearchFinds ==
  pc = "found" =>
    table = IF Valid(wanted) = <<>> THEN None ELSE Head(Valid(wanted))

\* The walk over the MADT reads at the start of an entry inside the table, and
\* ends exactly at the table's end: enumarate_apic_devices().
WalkInTable ==
  /\ pc = "walk" => device \in EntryAddresses(table)
  /\ pc = "lapic_init" => device = MadtEnd(table)

\* After the walk the vector has an element for each I/O APIC of the MADT, in
\* its order: each one's first field is the low byte of its entry's address.
\* (Their other fields stay zero: see IoapicElement.)
IoapicsCounted ==
  pc \in {"lapic_init", "done"} =>
    LET ios == {k \in DOMAIN table.entries : table.entries[k].entry_type = IOAPIC}
    IN  /\ Len(apic_dev.ioapics) = Cardinality(ios)
        /\ \A k \in ios :
             apic_dev.ioapics[Cardinality({j \in ios : j <= k})].entry_type
               = EntryAddress(table, k) % 256

\* The local APIC is enabled only once the PIC is disabled, so that no vector has
\* two sources: madt_init() before lapic_enable(), as boot.c:62 says.
OneController == lapic_enabled => ~is_pic_enabled

\* The boot gets through the tables or stops with a panic, whatever entries the
\* MADT has: every path of the walk's loop moves on.
TablesRead == <>(pc \in {"done", "panic"})
=============================================================================
