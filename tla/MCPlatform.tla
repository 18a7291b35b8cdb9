----------------------------- MODULE MCPlatform -----------------------------
(* Firmware with one or two I/O APICs, in either order, with and without   *)
(* overrides, with tables that are missing or broken; hardware with and    *)
(* without APICs.                                                          *)
EXTENDS Platform, TLC

Cpu(usable) == [type |-> "cpu", enabled |-> usable]
IoApic(base, gsi) == [type |-> "ioapic", base |-> base, gsi |-> gsi]
Override(irq, gsi) ==
  [type |-> "override", source |-> irq, gsi |-> gsi, low |-> TRUE, level |-> FALSE]
Broken == [type |-> "broken"]
Madt(lapic, entries) ==
  [valid |-> TRUE, signature |-> "APIC", short |-> FALSE, lapic |-> lapic, entries |-> entries]
Other == [valid |-> TRUE, signature |-> "FACP", short |-> FALSE, lapic |-> "fee0",
          entries |-> <<>>]
Root(tables) == [present |-> TRUE, valid |-> TRUE, tables |-> tables]
OnlyBios(rsdt) == [ebda |-> NoRsdt, bios |-> rsdt]

Usual == Madt("fee0", <<Cpu(TRUE), Cpu(FALSE), IoApic("fec0", 0), Override(0, 2)>>)
TwoControllers ==
  Madt("fee0", <<Cpu(TRUE), IoApic("fec0", 0), IoApic("fec1", 2), Override(0, 2),
                 Override(1, 1)>>)
OtherFirst == Madt("fee0", <<IoApic("fec1", 0), IoApic("fec0", 2)>>)
SecondHalf == Madt("fee0", <<IoApic("fec0", 1), Override(0, 9), Broken, Cpu(TRUE)>>)

MCFirmwares ==
  {OnlyBios(NoRsdt), OnlyBios(Root(<<Other, Usual>>)), OnlyBios(Root(<<TwoControllers>>)),
   OnlyBios(Root(<<OtherFirst>>)), OnlyBios(Root(<<SecondHalf>>)),
   OnlyBios(Root(<<[Usual EXCEPT !.short = TRUE]>>)),
   [ebda |-> [Root(<<>>) EXCEPT !.valid = FALSE], bios |-> Root(<<Usual>>)]}

(* Registers: of 8 bits, ports below 64. *)
Io(base, size, decoded) ==
  [io |-> TRUE, base |-> base, size |-> size, type |-> 1, decoded |-> decoded, high |-> FALSE]
Mem(base, size, type, high) ==
  [io |-> FALSE, base |-> base, size |-> size, type |-> type, decoded |-> BarBits, high |-> high]
NoBar == Mem(0, 0, 0, FALSE)
Disk(bar, qsize) == 16 :> pci_device("scsi", "virtio", bar, qsize)
Nic == 24 :> pci_device("nic", "other", Mem(64, 32, 4, FALSE), 0)

MCPci ==
  {Disk(bar, 8) : bar \in {Io(32, 8, 8), Io(32, 8, 6), Io(0, 4, 8), Io(192, 8, 8),
                           Mem(128, 32, 0, FALSE), Mem(64, 16, 4, TRUE), NoBar}} \cup
  {Nic, Disk(Io(32, 8, 8), 4), Disk(Io(32, 8, 8), 16) @@ Nic,
   Disk(Io(32, 8, 8), 8) @@ (8 :> pci_device("scsi", "other", Mem(128, 64, 12, FALSE), 0)),
   (8 :> pci_device("ahci", "other", NoBar, 0)) @@ (9 :> pci_device("nvme", "other", NoBar, 0))}
(* Both buffers fit; only the first; neither; the second is not low enough. *)
MCMaps == {{}, 0 .. 3, 0 .. 2, {0, 1, 3, 5}, {0, 2, 3, 4, 5}}

Machine(apic, msr, last_pin, work) ==
  [apic |-> apic, msr |-> msr, last_pin |-> last_pin, work |-> work,
   map |-> {}, pci |-> Nic, drive |-> "ready"]
(* Every firmware meets keys; the variety of devices and of other work     *)
(* needs only one.                                                         *)
MCMachines ==
  MCFirmwares \X
    {Machine(TRUE, "fee0", 2, "keys"), Machine(TRUE, "fee1", -1, "keys"),
     Machine(FALSE, "fee0", -1, "keys")} \cup
  {OnlyBios(NoRsdt)} \X
    ({Machine(FALSE, "fee0", -1, work) :
        work \in {"sockets", "modules", "packets", "printing", "signals"}} \cup
     {[Machine(FALSE, "fee0", -1, "none") EXCEPT !.pci = pci, !.map = map, !.drive = drive] :
        pci \in MCPci, map \in MCMaps, drive \in {"absent", "ready"}} \cup
     {[Machine(FALSE, "fee0", -1, "none") EXCEPT !.drive = drive] : drive \in {"error", "busy"}})

(* Two modules with the same first letter, a dependency on a later module, *)
(* a module that depends on its own letter, one without exit, and one too  *)
(* many.                                                                   *)
MCModuleLists ==
  {<<Example>>,
   <<Module("a", "1", <<>>, "may fail", TRUE), Module("a", "2", <<>>, "none", FALSE),
     Module("b", "", <<"a">>, "may fail", FALSE)>>,
   <<Module("b", "", <<>>, "succeeds", TRUE), Module("c", "1", <<"b", "c">>, "succeeds", TRUE),
     Module("c", "2", <<>>, "may fail", TRUE)>>,
   <<Module("c", "2", <<>>, "may fail", FALSE), Module("c", "1", <<"c">>, "succeeds", TRUE),
     Module("a", "1", <<"c">>, "none", TRUE), Module("b", "", <<>>, "succeeds", TRUE)>>}

(* All segments of up to 5 bytes between some addresses; all headers. *)
MCPackets ==
  [source : {<<0, 0>>, <<2, 2>>}, destination : {<<0, 1>>, <<2, 1>>}, version : {6},
   payload_length : {0}, length : {0}, data : UNION {[1 .. n -> 0 .. 2] : n \in 2 .. 5}] \cup
  [source : {<<>>}, destination : {<<>>}, version : {4, 6}, payload_length : 0 .. 8,
   length : 0 .. 15, data : {<<>>}]
=============================================================================
