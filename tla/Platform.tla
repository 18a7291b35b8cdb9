------------------------------ MODULE Platform ------------------------------
(***************************************************************************)
(* Interrupts from boot to the running system: kmain sets up the           *)
(* controllers one after the other with interrupts off, while the keyboard *)
(* and the timer already raise their lines; then interrupts are on.        *)
(* Composed with the drivers of Devices and the modules of Modules, which  *)
(* kmain starts on its way, with the sockets of Loopback, whose calls come *)
(* from programs, the packets of Checksum, the writers of Console and the  *)
(* signals of Signals.                                                     *)
(*                                                                         *)
(* The slave PIC stays masked and is left out.  The clock that IRQ0 drives *)
(* is in module Process.                                                   *)
(***************************************************************************)
EXTENDS Acpi, Loopback, Devices, Modules, Checksum, Console, Signals

CONSTANTS
  Machines,   \* pairs of firmware, which is what the tables say, and hardware:
              \* CPUID's APIC flag, APIC_BASE, the last pin of the I/O APIC, the
              \* memory left when the drivers start, the PCI functions, the ATA
              \* drive; and the work the system is given
  Packets,    \* what the network code is asked to check
  KeyBufSize, \* KEY_BUF_SIZE
  ScanKinds,  \* kinds of scan codes: "key", "release", "unmapped"
  MaxPresses  \* bound: scan codes in a behaviour

ASSUME PlatformAssumption ==
  /\ KeyBufSize \in Nat \ {0}
  /\ \A m \in Machines : \A i \in 1 .. Len(Rsdt(m[1]).tables) :
       Len(Rsdt(m[1]).tables[i].entries) \in Nat

Lines == 0 .. 7
Timer == 0
Keyboard == 1

VARIABLES
  firmware, hardware,  \* chosen once
  pc,                  \* how far kmain has come
  acpi, apic_available, apic_enabled, ioapic,
  mask, irr, isr,      \* the PIC: masked, requested and in-service lines
  irq_handlers,        \* lines with a handler
  iflag,               \* the CPU's interrupt flag
  output,              \* the keyboard controller's output buffer
  port,                \* the byte that port 0x60 shows
  key_buf, key_head, key_tail,
  presses,             \* history: scan codes sent
  stored, taken,       \* history: the keys put into the ring, how many left it
  packet               \* the packet last checked

picVars == <<mask, irr, isr, irq_handlers, iflag>>
keyVars == <<output, port, key_buf, key_head, key_tail, presses, stored, taken>>
tableVars == <<acpi, apic_available, apic_enabled, ioapic>>
workVars == <<consoleVars, signalVars, packet>>
restVars == <<netVars, deviceVars, moduleVars, workVars>>
vars == <<firmware, hardware, pc, tableVars, picVars, keyVars, restVars>>

None == [id |-> 0, kind |-> "unmapped"]
NoPacket == [source |-> <<>>, destination |-> <<>>, version |-> 6, payload_length |-> 0,
             data |-> <<>>, length |-> 0]

Init ==
  /\ \E m \in Machines : firmware = m[1] /\ hardware = m[2]
  /\ pc = 1
  /\ acpi = Legacy /\ apic_available = FALSE /\ apic_enabled = FALSE
  /\ ioapic = IoapicReset(hardware.last_pin)
  /\ mask \in {{}, Lines} /\ irr = {} /\ isr = {} /\ irq_handlers = {} /\ iflag = FALSE
  /\ output = None /\ port = None
  /\ key_buf = [i \in 0 .. KeyBufSize - 1 |-> 0] /\ key_head = 0 /\ key_tail = 0
  /\ presses = 0 /\ stored = <<>> /\ taken = 0
  /\ NetBss /\ ModulesBss
  /\ hardware.work # "modules" => linked = <<Example>>
  /\ pmm = PmmInit(hardware.map) /\ initialized = FALSE /\ devices = <<>>
  /\ virtio = VirtioReset /\ present = {}
  /\ packet = NoPacket
  /\ vga_init /\ serial_init /\ SignalsInit

-----------------------------------------------------------------------------
(* kmain, lines 34 to 37: the calls that matter here, in their order. *)
Boot == <<"idt_init", "acpi_init", "smp_init", "apic_init", "ioapic_init",
          "dma_init", "block_init", "virtio_blk_init", "ahci_init", "nvme_init",
          "nic_init", "keyboard_init", "register", "unmask_timer", "unmask_keyboard",
          "ata_init", "net_init", "module_register", "module_load_all",
          "process_enter_user">>
Booting(step) == pc <= Len(Boot) /\ Boot[pc] = step /\ pc' = pc + 1
Running == pc > Len(Boot) /\ iflag
Halted == pc > Len(Boot) /\ ~iflag

(* pic_remap: the first command word also clears the edges seen so far. *)
idt_init ==
  /\ Booting("idt_init")
  /\ mask' = Lines /\ irr' = {} /\ isr' = {}
  /\ UNCHANGED <<firmware, hardware, tableVars, irq_handlers, iflag, keyVars, restVars>>

AcpiInit ==
  /\ Booting("acpi_init")
  /\ acpi' = acpi_init(firmware)
  /\ UNCHANGED <<firmware, hardware, apic_available, apic_enabled, ioapic, picVars,
                 keyVars, restVars>>
smp_init ==
  /\ Booting("smp_init")
  /\ apic_available' = hardware.apic
  /\ UNCHANGED <<firmware, hardware, acpi, apic_enabled, ioapic, picVars, keyVars, restVars>>
ApicInit ==
  /\ Booting("apic_init")
  /\ apic_enabled' = apic_init(apic_available, acpi, hardware.msr)
  /\ UNCHANGED <<firmware, hardware, acpi, apic_available, ioapic, picVars, keyVars, restVars>>
IoapicInit ==
  /\ Booting("ioapic_init")
  /\ ioapic' = ioapic_init(apic_available, acpi, hardware.last_pin)
  /\ UNCHANGED <<firmware, hardware, acpi, apic_available, apic_enabled, picVars, keyVars,
                 restVars>>

(* Mutant: the byte that may be waiting is not read. *)
keyboard_init_only ==
  /\ Booting("keyboard_init")
  /\ UNCHANGED <<firmware, hardware, tableVars, picVars, keyVars, restVars>>
(* The read empties the output buffer and lowers the line.  A request that *)
(* the PIC has already latched goes away with it, or does not: chips and   *)
(* emulators differ.                                                       *)
keyboard_init ==
  /\ Booting("keyboard_init")
  /\ output' = None
  /\ irr' \in {irr, irr \ {Keyboard}}
  /\ UNCHANGED <<firmware, hardware, tableVars, mask, isr, irq_handlers, iflag, port, key_buf,
                 key_head, key_tail, presses, stored, taken, restVars>>

Register ==
  /\ Booting("register")
  /\ irq_handlers' = irq_handlers \cup {Timer, Keyboard}
  /\ UNCHANGED <<firmware, hardware, tableVars, mask, irr, isr, iflag, keyVars, restVars>>
pic_unmask(line) ==
  /\ mask' = mask \ {line}
  /\ UNCHANGED <<firmware, hardware, tableVars, irr, isr, irq_handlers, iflag, keyVars, restVars>>
Unmask ==
  \/ Booting("unmask_timer") /\ pic_unmask(Timer)
  \/ Booting("unmask_keyboard") /\ pic_unmask(Keyboard)
NetInit ==
  /\ Booting("net_init") /\ net_init
  /\ UNCHANGED <<firmware, hardware, tableVars, picVars, keyVars, deviceVars, moduleVars,
                 workVars>>

(* The drivers and the modules; none of them touches an interrupt line. *)
Drivers ==
  /\ \/ Booting("dma_init") /\ dma_init
     \/ Booting("block_init") /\ block_init
     \/ Booting("virtio_blk_init") /\ virtio_blk_init(hardware.pci)
     \/ Booting("ahci_init") /\ ahci_init(hardware.pci)
     \/ Booting("nvme_init") /\ nvme_init(hardware.pci)
     \/ Booting("nic_init") /\ nic_init(hardware.pci)
     \/ Booting("ata_init") /\ ata_init(hardware.drive)
  /\ UNCHANGED <<firmware, hardware, tableVars, picVars, keyVars, netVars, moduleVars,
                 workVars>>
(* The result of module_load_all is ignored. *)
StartModules ==
  /\ \/ Booting("module_register") /\ RegisterAll
     \/ Booting("module_load_all") /\ module_load_all /\ UNCHANGED module_calls
  /\ UNCHANGED <<firmware, hardware, tableVars, picVars, keyVars, netVars, deviceVars,
                 workVars>>

(* The first iret to ring 3 turns interrupts on. *)
process_enter_user ==
  /\ Booting("process_enter_user")
  /\ iflag' = TRUE
  /\ UNCHANGED <<firmware, hardware, tableVars, mask, irr, isr, irq_handlers, keyVars, restVars>>

Kmain == \/ idt_init \/ AcpiInit \/ smp_init \/ ApicInit \/ IoapicInit \/ keyboard_init
         \/ Register \/ Unmask \/ Drivers \/ NetInit \/ StartModules \/ process_enter_user

-----------------------------------------------------------------------------
(* The devices.  A full output buffer keeps line 1 up; a request is an     *)
(* edge, so the next scan code asks again only after a read.               *)
Press(kind) ==
  /\ hardware.work = "keys" /\ presses < MaxPresses /\ output = None
  /\ presses' = presses + 1
  /\ output' = [id |-> presses + 1, kind |-> kind] /\ port' = output'
  /\ irr' = irr \cup {Keyboard}
  /\ UNCHANGED <<firmware, hardware, pc, tableVars, mask, isr, irq_handlers, iflag, key_buf,
                 key_head, key_tail, stored, taken, restVars>>
PitEdge ==
  /\ Timer \notin irr
  /\ irr' = irr \cup {Timer}
  /\ UNCHANGED <<firmware, hardware, pc, tableVars, mask, isr, irq_handlers, iflag, keyVars,
                 restVars>>

(* Mutant: a full ring is not noticed. *)
RoomAlways == TRUE
Room == (key_tail + 1) % KeyBufSize # key_head
(* keyboard_irq: releases and keys without a character are ignored. *)
keyboard_irq ==
  LET store == port.kind = "key" /\ Room
  IN  /\ output' = None
      /\ key_buf' = IF store THEN [key_buf EXCEPT ![key_tail] = port.id] ELSE key_buf
      /\ key_tail' = IF store THEN (key_tail + 1) % KeyBufSize ELSE key_tail
      /\ stored' = IF store THEN Append(stored, port.id) ELSE stored
      /\ UNCHANGED <<port, key_head, presses, taken>>

(* The PIC delivers the most urgent request unless one at least as urgent  *)
(* is in service; the end of interrupt ends the most urgent in service.    *)
Deliverable(line) ==
  /\ iflag /\ line \in irr \ mask
  /\ \A l \in irr \ mask : line <= l
  /\ \A l \in isr : line < l
Eoi(inService) == inService \ (IF inService = {} THEN {} ELSE {Min(inService)})

(* irq_handler: the handler of the line if there is one, then the end of   *)
(* interrupt; a tick may switch.  The gate keeps the interrupt flag off up *)
(* to the iret.                                                            *)
irq_handler(line) ==
  /\ Deliverable(line)
  /\ irr' = irr \ {line}
  /\ isr' = Eoi(isr \cup {line})
  /\ IF line = Keyboard /\ line \in irq_handlers THEN keyboard_irq ELSE UNCHANGED keyVars
  /\ IF line = Timer /\ hardware.work = "printing" THEN Preempt ELSE UNCHANGED consoleVars
  /\ UNCHANGED <<firmware, hardware, pc, tableVars, mask, irq_handlers, iflag, netVars,
                 deviceVars, moduleVars, signalVars, packet>>
(* IRQ7 without a request: nothing is in service, and it is ended anyway. *)
SpuriousIrq ==
  /\ iflag /\ isr' = Eoi(isr)
  /\ UNCHANGED <<firmware, hardware, pc, tableVars, mask, irr, irq_handlers, iflag, keyVars,
                 restVars>>

(* keyboard_getc; only shell_run calls it. *)
keyboard_getc ==
  /\ Running /\ key_head # key_tail
  /\ key_head' = (key_head + 1) % KeyBufSize
  /\ taken' = taken + 1
  /\ UNCHANGED <<firmware, hardware, pc, tableVars, picVars, output, port, key_buf, key_tail,
                 presses, stored, restVars>>
(* SYS_SLEEP waits for ticks inside the gate of the system call, where its *)
(* hlt is never ended; an exception other than a page fault ends in panic, *)
(* which halts too.  Interrupts stay off, and only the devices go on.      *)
ksleep_ms ==
  /\ Running /\ iflag' = FALSE
  /\ UNCHANGED <<firmware, hardware, pc, tableVars, mask, irr, isr, irq_handlers, keyVars,
                 restVars>>
hlt == Halted /\ UNCHANGED vars
(* Keys, sockets, modules, printing, signals and packets share no state.   *)
(* A bound: a system is given one kind of work, and checks one packet.     *)
SocketCall ==
  /\ Running /\ hardware.work = "sockets" /\ NetNext
  /\ UNCHANGED <<firmware, hardware, pc, tableVars, picVars, keyVars, deviceVars, moduleVars,
                 workVars>>
ModuleWork ==
  /\ Running /\ hardware.work = "modules" /\ ModuleCall
  /\ UNCHANGED <<firmware, hardware, pc, tableVars, picVars, keyVars, netVars, deviceVars,
                 workVars>>
PrintWork ==
  /\ Running /\ hardware.work = "printing" /\ Printing
  /\ UNCHANGED <<firmware, hardware, pc, tableVars, picVars, keyVars, netVars, deviceVars,
                 moduleVars, signalVars, packet>>
SignalWork ==
  /\ Running /\ hardware.work = "signals" /\ SignalNext
  /\ UNCHANGED <<firmware, hardware, pc, tableVars, picVars, keyVars, netVars, deviceVars,
                 moduleVars, consoleVars, packet>>
CheckPacket ==
  /\ Running /\ hardware.work = "packets" /\ packet = NoPacket
  /\ packet' \in Packets
  /\ UNCHANGED <<firmware, hardware, pc, tableVars, picVars, keyVars, netVars, deviceVars,
                 moduleVars, consoleVars, signalVars>>

Next == \/ Kmain
        \/ \E k \in ScanKinds : Press(k)
        \/ PitEdge
        \/ \E l \in {Timer, Keyboard} : irq_handler(l)
        \/ SpuriousIrq
        \/ keyboard_getc
        \/ ksleep_ms \/ hlt
        \/ SocketCall
        \/ ModuleWork
        \/ PrintWork
        \/ SignalWork
        \/ CheckPacket

Spec == Init /\ [][Next]_vars
(* The boot code goes on.  Between two edges of the timer there are 10 ms, *)
(* so that a request for the keyboard is served at some time, unless the   *)
(* machine has halted.                                                     *)
FairSpec == Spec /\ WF_vars(Kmain) /\ WF_vars(irq_handler(Timer))
                 /\ SF_vars(irq_handler(Keyboard))

-----------------------------------------------------------------------------
(* Every scan code is read in the end unless the machine halts first       *)
(* (ksleep_ms in a system call): a key that was pressed at any time of the *)
(* boot does not leave the line up without a request, which would silence  *)
(* the keyboard of a running system for good (keyboard_init).              *)
KeysAreRead == (output # None) ~> (output = None \/ Halted)

(* The ring holds the keys that were stored and not yet taken, in order,   *)
(* when the indices wrap around and when it was full; each key was stored  *)
(* at most once, even if its interrupt came late.                          *)
KeysInOrder ==
  /\ (key_tail - key_head + KeyBufSize) % KeyBufSize = Len(stored) - taken
  /\ \A k \in 1 .. Len(stored) - taken :
       key_buf[(key_head + k - 1) % KeyBufSize] = stored[taken + k]
  /\ \A i, j \in DOMAIN stored : i < j => stored[i] < stored[j]

(* The controllers at the default base, as the MADT lists them. *)
DefaultControllers ==
  LET rsdt == Rsdt(firmware)
      madt == rsdt.tables[Min(Madts(rsdt))]
  IN  IF ~rsdt.valid \/ Madts(rsdt) = {} \/ madt.short THEN {}
      ELSE {e \in {madt.entries[i] : i \in Entries(madt, "ioapic")} : e.base = IoapicDefault}
(* A line comes to the CPU one way only: the pins that the kernel prepared *)
(* in the I/O APIC stay masked, as the PIC delivers the lines; they are    *)
(* pins of the controller whose numbering was used; and the PIC delivers   *)
(* no line that has no handler.                                            *)
OneDeliveryPath ==
  /\ iflag => Lines \ mask \subseteq irq_handlers
  /\ \A p \in DOMAIN ioapic.redirection :
       LET r == ioapic.redirection[p]
       IN  r # NoRoute =>
             /\ r.masked
             /\ p = acpi_irq_to_gsi(acpi, r.vector - 32).gsi - ioapic.gsi_base
             /\ DefaultControllers # {} =>
                  \E e \in DefaultControllers : e.gsi = ioapic.gsi_base

(* What pci_read_bar reports of a register is what the device decodes,     *)
(* base and size, with one exception that the arithmetic has: for an I/O   *)
(* register that leaves its upper bits zero the size comes out too large.  *)
BarsAreSized ==
  \A f \in DOMAIN hardware.pci :
    LET bar == hardware.pci[f].bar
        out == pci_read_bar(bar)
    IN  out.ok => /\ out.base = bar.base
                  /\ \/ out.size = bar.size
                     \/ bar.decoded < BarBits /\ out.size > bar.size

(* Both together: the disks that the kernel finds are usable. *)
DisksAreUsable == RegisteredIsReady /\ BarsAreSized

(* The checksums of net.c are the ones of the definition for every packet, *)
(* and sender and receiver agree: filled in, the sum comes out as zero.    *)
(* No packet that net_ipv6_validate accepts announces more than it holds,  *)
(* whatever its length, shorter than a header included.                    *)
PacketsChecked == Verifies(packet, packet.data) /\ Fits(packet, packet.length)
=============================================================================
