----------------------------- MODULE MCPlatform -----------------------------
(***************************************************************************)
(* The platform code for TLC: the timers (the specification this module    *)
(* extends), the ACPI tables and the I2C driver.  Each behaviour exercises *)
(* one of them; "part" says which.                                         *)
(*                                                                         *)
(* "search" has root tables of up to three tables of the wanted and other  *)
(* names, valid and not.  "walk" has MADTs with entries of all kinds.      *)
(* "timer" has a quantum of 20 HPET ticks, an HPET whose counter wraps     *)
(* at 64 and up to two ticks between two steps of the processor.  "i2c"    *)
(* makes two writes to devices on each of the three buses.                 *)
(***************************************************************************)
EXTENDS LapicTimer, Sequences, SequencesExt

SPACE == 4096
MaxTables == 3      \* bound: tables in an RSDT or XSDT
MaxEntries == 4     \* bound: entries in a MADT

Entry(type, len, address) == [entry_type |-> type, record_len |-> len, address |-> address]
EntryKinds ==
  {Entry(0, 8, 0), Entry(1, 12, 3100), Entry(2, 10, 0), Entry(4, 6, 0), Entry(5, 12, 3200),
   Entry(9, 16, 0), Entry(10, 12, 0)}
Madt(sum, base, list) ==
  [signature |-> "APIC", sum |-> sum, base |-> base, local_apic_addr |-> 3000, entries |-> list]
Other(signature, sum, base) == [signature |-> signature, sum |-> sum, base |-> base]

\* Root tables with anything in them, for the search.
Processors == <<Entry(0, 8, 0), Entry(1, 12, 3100)>>
Tables ==
  {Other("FACP", 512, 100), Other("HPET", 512, 200), Other("HPET", 513, 300),
   Madt(512, 400, Processors), Madt(511, 500, Processors)}
SearchRoots == SeqOf(Tables, MaxTables)

\* One HPET and one MADT, for the walk.
WalkRoots ==
  {<<Other("HPET", 512, 200), Madt(512, 400, list)>> :
     list \in {l \in SeqOf(EntryKinds, MaxEntries) : l # <<>>}} \cup {<<>>}

Devices == {0, 3, 14}
Registers == {1, 2}
Data == {5}
MaxWrites == 2

VARIABLES
  part,                                             \* what this behaviour is about
  firmware, apc, has_xsdt, wanted, i, table,        \* Acpi
  device, apic_dev, is_pic_enabled, lapic_base, lapic_enabled,
  driver, call, attempt, result, data_reg, cnt,     \* I2c
  open, wire, writes

acpiVars == <<firmware, apc, has_xsdt, wanted, i, table, device, apic_dev, is_pic_enabled,
              lapic_base, lapic_enabled>>
i2cVars == <<driver, call, attempt, result, data_reg, cnt, open, wire, writes>>
platformVars == <<part, vars, acpiVars, i2cVars>>

Search == INSTANCE Acpi
            WITH pc <- apc, HHDM_OFFSET <- 3968, Revisions <- {1, 2}, Sums <- {512, 513}, Roots <- SearchRoots
Walk == INSTANCE Acpi
          WITH pc <- apc, HHDM_OFFSET <- 2048, Revisions <- {1}, Sums <- {512}, Roots <- WalkRoots
I2c == INSTANCE I2c WITH pc <- driver

ASSUME Search!AcpiAssumption /\ Walk!AcpiAssumption
ASSUME LapicTimerAssumption /\ I2c!I2cAssumption
-----------------------------------------------------------------------------
PlatformInit ==
  /\ part \in {"search", "walk", "timer", "i2c"}
  /\ CASE part = "search" -> Search!Init
       [] part = "walk" -> Walk!Init
       [] OTHER -> Walk!Init /\ firmware.rsdt = <<>>
  /\ Init /\ (part = "timer" \/ main_counter = 0)
  /\ I2c!Init

StepOf(name, A, others) == part = name /\ A /\ UNCHANGED <<part, others>>

PlatformNext ==
  \/ StepOf("search", Search!Next, <<vars, i2cVars>>)
  \/ StepOf("walk", Walk!Next, <<vars, i2cVars>>)
  \/ StepOf("timer", Next, <<acpiVars, i2cVars>>)
  \/ StepOf("i2c", I2c!Next, <<acpiVars, vars>>)

\* The boot processor runs, with interrupts disabled; time passes, and nothing
\* keeps a processor in user mode from its next step or from a pending
\* interrupt; a bus controller ends every transfer some time.
PlatformSpec ==
  /\ PlatformInit /\ [][PlatformNext]_platformVars
  /\ WF_platformVars(StepOf("walk", Walk!Boot, <<vars, i2cVars>>))
  /\ WF_platformVars(StepOf("timer", Tick, <<acpiVars, i2cVars>>))
  /\ WF_platformVars(StepOf("timer", Processor, <<acpiVars, i2cVars>>))
  /\ WF_platformVars(StepOf("i2c", \E b \in I2c!I2C_BASE : I2c!Controller(b), <<acpiVars, vars>>))
  /\ WF_platformVars(StepOf("i2c", I2c!Driver, <<acpiVars, vars>>))
-----------------------------------------------------------------------------
\* acpi_find_table() ends with the first valid table of its name in the root
\* table that the RSDP's revision calls for; enumarate_apic_devices() reads at
\* the start of an entry in every round, stops at the table's end and has an
\* element for each I/O APIC; the local APIC is enabled after the PIC is
\* disabled; and the walk ends, whatever entries the MADT has.
TablesRead ==
  /\ [](part = "search" => Search!SearchFinds /\ Search!OneController)
  /\ [](part = "walk" => Walk!WalkInTable /\ Walk!IoapicsCounted)
  /\ part = "walk" => Walk!TablesRead

\* i2c_write() returns true only if the device took its address, the register
\* and the data in one transfer; no byte follows a refused one, no register is
\* stored to while the controller is busy, and the bus is released on every
\* path.
I2cWriteSound ==
  /\ [](part = "i2c" => I2c!TrueMeansWritten /\ I2c!NoByteAfterNack /\ I2c!BusReleased)
  /\ [][part = "i2c" => I2c!NoStoreWhileBusy]_i2cVars

\* The timer interrupts again and again, so that no process keeps the
\* processor: lapic_calibrate_timer() ends and timer_irq() arms it; and
\* i2c_write() returns, although the device may refuse every time.
DriversGoOn ==
  /\ part = "timer" => KeepsTicking
  /\ part = "i2c" => I2c!WriteReturns
=============================================================================
