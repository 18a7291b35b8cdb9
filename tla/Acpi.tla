-------------------------------- MODULE Acpi --------------------------------
(***************************************************************************)
(* What the kernel learns of its interrupt controllers, as operators:      *)
(* drivers/acpi/acpi.c reads the firmware's tables, arch/x86/apic.c and    *)
(* ioapic.c decide from them whether to use the local and the I/O APIC.    *)
(* Signatures and checksums are abstracted to the flags present and valid. *)
(***************************************************************************)
EXTENDS Integers, Sequences, FiniteSets, FiniteSetsExt

CONSTANTS
  LapicDefault, IoapicDefault,  \* the two base addresses the kernel supports
  MaxCpus, MaxOverrides,        \* ACPI_MAX_CPUS, ACPI_MAX_IRQ_OVERRIDES
  MaxTables                     \* entries of the RSDT that are looked at

(* A root table; it is not there, or there and perhaps not valid. *)
NoRsdt == [present |-> FALSE, valid |-> FALSE, tables |-> <<>>]

(* acpi.c's statics after acpi_init's resets. *)
Legacy == [madt_found |-> FALSE, lapic_base |-> LapicDefault,
           ioapic_base |-> IoapicDefault, ioapic_gsi_base |-> 0,
           cpu_count |-> 1, overrides |-> <<>>]

(* Where t has entries of a type; parse_madt stops at the first entry whose *)
(* length makes no sense.                                                  *)
Entries(t, type) ==
  {i \in 1 .. Len(t.entries) : /\ t.entries[i].type = type
                               /\ \A j \in 1 .. i : t.entries[j].type # "broken"}

(* Mutant: the base is the first controller's, the offset the last one's. *)
ControllerMixed(t) ==
  LET found == Entries(t, "ioapic")
  IN  IF found = {} THEN [base |-> IoapicDefault, gsi |-> 0]
      ELSE [base |-> t.entries[Min(found)].base, gsi |-> t.entries[Max(found)].gsi]
(* An I/O APIC is taken as long as the base is still the default one: the  *)
(* first that is somewhere else, or the last.                              *)
Controller(t) ==
  LET found == Entries(t, "ioapic")
      elsewhere == {i \in found : t.entries[i].base # IoapicDefault}
      e == t.entries[IF elsewhere = {} THEN Max(found) ELSE Min(elsewhere)]
  IN  IF found = {} THEN [base |-> IoapicDefault, gsi |-> 0]
      ELSE [base |-> e.base, gsi |-> e.gsi]

parse_madt(t) ==
  LET enabled == {i \in Entries(t, "cpu") : t.entries[i].enabled}
      found   == Entries(t, "override")
      kept    == {i \in found : Cardinality({j \in found : j < i}) < MaxOverrides}
      io      == Controller(t)
  IN  IF t.short THEN Legacy
      ELSE [madt_found |-> TRUE, lapic_base |-> t.lapic,
            ioapic_base |-> io.base, ioapic_gsi_base |-> io.gsi,
            cpu_count |-> Max({1, Min({MaxCpus, Cardinality(enabled)})}),
            overrides |-> [i \in kept |-> t.entries[i]]]

(* The extended BIOS area is searched first; the root table found there is *)
(* the one that counts, valid or not.                                      *)
Rsdt(firmware) == IF firmware.ebda.present THEN firmware.ebda ELSE firmware.bios
(* Where the root table lists a MADT. *)
Madts(rsdt) ==
  {i \in 1 .. Len(rsdt.tables) :
     i <= MaxTables /\ rsdt.tables[i].valid /\ rsdt.tables[i].signature = "APIC"}
acpi_init(firmware) ==
  LET rsdt == Rsdt(firmware)
  IN  IF rsdt.valid /\ Madts(rsdt) # {} THEN parse_madt(rsdt.tables[Min(Madts(rsdt))])
      ELSE Legacy

(* An ISA interrupt keeps its number unless the firmware overrides it. *)
acpi_irq_to_gsi(acpi, irq) ==
  LET of == {i \in DOMAIN acpi.overrides : acpi.overrides[i].source = irq}
  IN  IF of = {} THEN [gsi |-> irq, low |-> FALSE, level |-> FALSE]
      ELSE LET o == acpi.overrides[Min(of)]
           IN  [gsi |-> o.gsi, low |-> o.low, level |-> o.level]

-----------------------------------------------------------------------------
(* apic_init; msr is the base in the CPU's APIC_BASE register. *)
apic_init(available, acpi, msr) ==
  available /\ acpi.lapic_base = LapicDefault /\ msr = LapicDefault

(* The I/O APIC: the driver's statics and the controller's table.  Pins    *)
(* are masked after a reset.  The last pin is -1 if nothing answers.       *)
NoRoute == [vector |-> 0, masked |-> TRUE, low |-> FALSE, level |-> FALSE]
IoapicReset(last) ==
  [available |-> FALSE, gsi_base |-> 0, redirection |-> [p \in 0 .. last |-> NoRoute]]

ioapic_route_irq(io, acpi, irq, vector, masked) ==
  LET to  == acpi_irq_to_gsi(acpi, irq)
      pin == to.gsi - io.gsi_base
  IN  IF ~io.available \/ pin \notin DOMAIN io.redirection THEN io
      ELSE [io EXCEPT !.redirection[pin] =
              [vector |-> vector, masked |-> masked, low |-> to.low, level |-> to.level]]

ioapic_init(available, acpi, last) ==
  LET io == [IoapicReset(last) EXCEPT !.available = TRUE,
                                      !.gsi_base = acpi.ioapic_gsi_base]
  IN  IF ~available \/ acpi.ioapic_base # IoapicDefault \/ last < 0
      THEN IoapicReset(last)
      ELSE ioapic_route_irq(ioapic_route_irq(io, acpi, 0, 32, TRUE), acpi, 1, 33, TRUE)
=============================================================================
