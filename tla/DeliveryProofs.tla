--------------------------- MODULE DeliveryProofs ---------------------------
(***************************************************************************)
(* Proofs about the interrupt controllers of Platform: what kmain has set  *)
(* up at each of its steps, for every firmware and every machine.          *)
(***************************************************************************)
EXTENDS Platform, LeastNumbers, TLAPS

-----------------------------------------------------------------------------
(* The controllers.                                                        *)

(* kmain has twenty steps. *)
LEMMA BootLength == Len(Boot) = 20
BY Zenon DEF Boot

(* What must hold of the pins of a controller that is used. *)
RoutesSound(io, a) ==
  \A p \in DOMAIN io.redirection : io.redirection[p] # NoRoute =>
    /\ io.redirection[p].masked
    /\ p = acpi_irq_to_gsi(a, io.redirection[p].vector - 32).gsi - io.gsi_base
Ioapics(g, pins, routes) ==
  [available : {TRUE}, gsi_base : {g}, redirection : [pins -> routes]]
MaskedRoute(a, irq, v) ==
  LET to == acpi_irq_to_gsi(a, irq)
  IN  [vector |-> v, masked |-> TRUE, low |-> to.low, level |-> to.level]
VectorOf(irq, v) == v \in Int /\ v - 32 = irq
InUse(io, a, g, pins, routes) == io \in Ioapics(g, pins, routes) /\ RoutesSound(io, a)

(* ioapic_route_irq, called as ioapic_init calls it, keeps them so. *)
LEMMA RouteKeepsSound ==
  ASSUME NEW a, NEW g, NEW pins, NEW routes, NEW io, InUse(io, a, g, pins, routes),
         NEW irq, NEW v, VectorOf(irq, v), MaskedRoute(a, irq, v) \in routes
  PROVE  InUse(ioapic_route_irq(io, a, irq, v, TRUE), a, g, pins, routes)
<1> DEFINE after == ioapic_route_irq(io, a, irq, v, TRUE)
           to == acpi_irq_to_gsi(a, irq)
           pin == to.gsi - g
           r == MaskedRoute(a, irq, v)
<1>1. io.available = TRUE /\ io.gsi_base = g /\ io.redirection \in [pins -> routes]
  BY Zenon DEF Ioapics, InUse
<1>2. CASE pin \notin pins
  <2>1. after = io
    BY <1>1, <1>2, Zenon DEF ioapic_route_irq
  <2> QED
    BY <2>1, Zenon
<1>3. CASE pin \in pins
  <2>1. after = [io EXCEPT !.redirection[pin] = r]
    BY <1>1, <1>3, Zenon DEF ioapic_route_irq, MaskedRoute
  <2>2. r.vector - 32 = irq /\ r.masked = TRUE /\ r \in routes
    BY Zenon DEF MaskedRoute, VectorOf
  <2> HIDE DEF r, after
  <2> DEFINE R == [io.redirection EXCEPT ![pin] = r]
  <2>3. after \in Ioapics(g, pins, routes) /\ after.redirection = R /\ after.gsi_base = g
    <3>1. R \in [pins -> routes]
      BY <1>1, <1>3, <2>2, Zenon
    <3>2. after = [io EXCEPT !.redirection = R]
      BY <2>1, Zenon
    <3> HIDE DEF R
    <3> QED
      BY <1>1, <3>1, <3>2, Zenon DEF Ioapics, InUse
  <2>4. ASSUME NEW p \in pins, after.redirection[p] # NoRoute
        PROVE  /\ after.redirection[p].masked
               /\ p = acpi_irq_to_gsi(a, after.redirection[p].vector - 32).gsi - g
    <3>1. CASE p = pin
      <4>1. after.redirection[p] = r
        BY <1>1, <1>3, <2>3, <3>1, Zenon
      <4>2. acpi_irq_to_gsi(a, after.redirection[p].vector - 32) = to
        BY <2>2, <4>1, Zenon
      <4> QED
        BY <2>2, <3>1, <4>1, <4>2, Zenon
    <3>2. CASE p # pin
      <4>1. after.redirection[p] = io.redirection[p]
        BY <1>1, <2>3, <3>2, Zenon
      <4> QED
        BY <1>1, <2>4, <4>1, Zenon DEF RoutesSound, InUse
    <3> QED
      BY <3>1, <3>2, Zenon
  <2>5. DOMAIN after.redirection = pins
    BY <2>3, Zenon DEF Ioapics
  <2> QED
    BY <2>3, <2>4, <2>5, Zenon DEF RoutesSound, InUse, after
<1> QED
  BY <1>2, <1>3, Zenon

IsSetUp(io, available, a, last) == io = ioapic_init(available, a, last)
ResetOrRouted(io, a, last) ==
  \/ io = IoapicReset(last)
  \/ /\ RoutesSound(io, a)
     /\ a.ioapic_base = IoapicDefault /\ io.gsi_base = a.ioapic_gsi_base
(* ioapic_init leaves every pin alone, or those it prepared are masked and the
   pins of the interrupts that their vectors are for. *)
LEMMA IoapicIsSound ==
  ASSUME NEW available, NEW a, NEW last, NEW io, IsSetUp(io, available, a, last)
  PROVE  ResetOrRouted(io, a, last)
<1>1. CASE ~available \/ a.ioapic_base # IoapicDefault \/ last < 0
  BY <1>1, Zenon DEF ioapic_init, IsSetUp, ResetOrRouted
<1>2. CASE ~ (~available \/ a.ioapic_base # IoapicDefault \/ last < 0)
  <2> DEFINE routes == {NoRoute, MaskedRoute(a, 0, 32), MaskedRoute(a, 1, 33)}
             g == a.ioapic_gsi_base
             pins == 0 .. last
             io0 == [IoapicReset(last) EXCEPT !.available = TRUE, !.gsi_base = g]
             io1 == ioapic_route_irq(io0, a, 0, 32, TRUE)
  <2>1. io = ioapic_route_irq(io1, a, 1, 33, TRUE)
    BY <1>2, Zenon DEF ioapic_init, IsSetUp
  <2>2. VectorOf(0, 32) /\ VectorOf(1, 33)
    BY DEF VectorOf
  <2>3. /\ NoRoute \in routes
        /\ MaskedRoute(a, 0, 32) \in routes /\ MaskedRoute(a, 1, 33) \in routes
    BY Zenon
  <2> HIDE DEF routes, g
  <2>4. InUse(io0, a, g, pins, routes)
    <3>1. /\ io0.available = TRUE /\ io0.gsi_base = g
          /\ io0.redirection = [p \in 0 .. last |-> NoRoute]
      BY Zenon DEF IoapicReset
    <3>2. io0 \in Ioapics(g, pins, routes)
      BY <2>3, Zenon DEF IoapicReset, Ioapics
    <3> QED
      BY <3>1, <3>2, Zenon DEF RoutesSound, InUse
  <2> HIDE DEF io0, pins
  <2>5. InUse(io1, a, g, pins, routes)
    BY <2>2, <2>3, <2>4, RouteKeepsSound, Zenon
  <2> HIDE DEF io1
  <2>6. InUse(io, a, g, pins, routes)
    BY <2>1, <2>2, <2>3, <2>5, RouteKeepsSound, Zenon
  <2> QED
    BY <1>2, <2>6, Zenon DEF g, Ioapics, InUse, ResetOrRouted
<1> QED
  BY <1>1, <1>2, Zenon

(* If the base that acpi_init took is the default one and the MADT it read lists
   controllers there, the offset is that of one of these. *)
LEMMA ControllerIsListed ==
  ASSUME \A i \in 1 .. Len(Rsdt(firmware).tables) :
           Len(Rsdt(firmware).tables[i].entries) \in Nat,
         NEW a, a = acpi_init(firmware), a.ioapic_base = IoapicDefault,
         DefaultControllers # {}
  PROVE  \E e \in DefaultControllers : e.gsi = a.ioapic_gsi_base
<1> DEFINE rsdt == Rsdt(firmware)
           i == Min(Madts(rsdt))
           madt == rsdt.tables[i]
           found == Entries(madt, "ioapic")
           elsewhere == {k \in found : madt.entries[k].base # IoapicDefault}
           c == IF elsewhere = {} THEN Max(found) ELSE Min(elsewhere)
<1>1. rsdt.valid /\ Madts(rsdt) # {} /\ ~madt.short
  BY Zenon DEF DefaultControllers
<1>2. DefaultControllers =
        {e \in {madt.entries[k] : k \in found} : e.base = IoapicDefault}
  BY <1>1, Zenon DEF DefaultControllers
<1>3. i \in 1 .. Len(rsdt.tables)
  <2>1. Madts(rsdt) \in SUBSET Nat /\ Madts(rsdt) \subseteq 1 .. Len(rsdt.tables)
    BY SMTT(30) DEF Madts
  <2> HIDE DEF rsdt
  <2> QED
    BY <1>1, <2>1, MinOfNaturals, Zenon
<1>4. Len(madt.entries) \in Nat
  BY <1>3, Zenon
<1>5. a.ioapic_base = Controller(madt).base /\ a.ioapic_gsi_base = Controller(madt).gsi
  BY <1>1, Zenon DEF acpi_init, parse_madt
<1> HIDE DEF madt
<1>6. found # {} /\ found \in SUBSET Nat /\ found \in SUBSET (0 .. Len(madt.entries))
  BY <1>2, <1>4, SMTT(30) DEF Entries
<1>7. Controller(madt).base = madt.entries[c].base /\ Controller(madt).gsi = madt.entries[c].gsi
  BY <1>6, Zenon DEF Controller
<1> HIDE DEF found
<1>8. c \in found
  <2>1. CASE elsewhere = {}
    BY <1>4, <1>6, <2>1, MaxOfNaturals, Zenon
  <2>2. CASE elsewhere # {}
    <3>1. elsewhere \in SUBSET Nat
      BY <1>6, Zenon
    <3>2. Min(elsewhere) \in elsewhere
      BY <2>2, <3>1, MinOfNaturals, Zenon
    <3> QED
      BY <2>2, <3>2, Zenon
  <2> QED
    BY <2>1, <2>2, Zenon
<1> HIDE DEF c
<1> QED
  BY <1>2, <1>5, <1>7, <1>8, Zenon

(* What happens at which place of kmain. *)
LEMMA BootOrder ==
  ASSUME NEW k \in 1 .. Len(Boot)
  PROVE  /\ Boot[k] = "idt_init" => k = 1
         /\ Boot[k] = "acpi_init" => k = 2
         /\ Boot[k] = "ioapic_init" => k = 5
         /\ Boot[k] = "register" => k = 13
         /\ Boot[k] \in {"unmask_timer", "unmask_keyboard"} => k \in {14, 15}
         /\ Boot[k] = "process_enter_user" => k = 20
         /\ k = 1 => Boot[k] = "idt_init"
         /\ k = 2 => Boot[k] = "acpi_init"
         /\ k = 5 => Boot[k] = "ioapic_init"
         /\ k = 13 => Boot[k] = "register"
<1>1. k \in 1 .. 20
  BY BootLength, Zenon
<1> QED
  BY <1>1, SMTT(30) DEF Boot

(* The steps of kmain that matter for the delivery of a line; all others leave
   what decides on it alone. *)
machineVars == <<firmware, hardware>>
lineVars == <<mask, irq_handlers, iflag>>
BootStep ==
  \/ pc = 1 /\ mask' = Lines /\ UNCHANGED <<machineVars, acpi, ioapic, irq_handlers, iflag>>
  \/ pc = 2 /\ acpi' = acpi_init(firmware) /\ UNCHANGED <<machineVars, ioapic, lineVars>>
  \/ /\ pc = 5 /\ ioapic' = ioapic_init(apic_available, acpi, hardware.last_pin)
     /\ UNCHANGED <<machineVars, acpi, lineVars>>
  \/ /\ pc = 13 /\ irq_handlers' = irq_handlers \cup {Timer, Keyboard}
     /\ UNCHANGED <<machineVars, acpi, ioapic, mask, iflag>>
  \/ /\ pc \in {14, 15} /\ \E l \in {Timer, Keyboard} : mask' = mask \ {l}
     /\ UNCHANGED <<machineVars, acpi, ioapic, irq_handlers, iflag>>
  \/ pc = 20 /\ iflag' = TRUE /\ UNCHANGED <<machineVars, acpi, ioapic, mask, irq_handlers>>
  \/ /\ pc \in 1 .. 20 \ {1, 2, 5, 13} /\ UNCHANGED <<machineVars, acpi, ioapic, lineVars>>

(* Only the steps of kmain change controllers, masks and handlers; a system that
   halts leaves the interrupt flag off. *)
LEMMA DeliverySteps ==
  ASSUME pc \in Nat \ {0}, [Next]_vars
  PROVE  \/ UNCHANGED <<pc, machineVars, acpi, ioapic, lineVars>>
         \/ pc > 20 /\ UNCHANGED <<pc, machineVars, acpi, ioapic, mask, irq_handlers>>
         \/ pc' = pc + 1 /\ BootStep
<1> USE DEF machineVars, lineVars
<1>1. CASE Kmain
  <2>0. ASSUME NEW step, Booting(step)
        PROVE  pc' = pc + 1 /\ pc \in 1 .. Len(Boot) /\ pc \in 1 .. 20 /\ Boot[pc] = step
    BY <2>0, BootLength DEF Booting
  <2>1. CASE idt_init
    BY <2>0, <2>1, BootOrder, Zenon DEF idt_init, tableVars, BootStep
  <2>2. CASE AcpiInit
    BY <2>0, <2>2, BootOrder, Zenon DEF AcpiInit, picVars, BootStep
  <2>3. CASE IoapicInit
    BY <2>0, <2>3, BootOrder, Zenon DEF IoapicInit, picVars, BootStep
  <2>4. CASE Register
    BY <2>0, <2>4, BootOrder, Zenon DEF Register, tableVars, BootStep
  <2>5. CASE Unmask
    BY <2>0, <2>5, BootOrder, Zenon DEF Unmask, pic_unmask, tableVars, BootStep
  <2>6. CASE process_enter_user
    BY <2>0, <2>6, BootOrder, Zenon DEF process_enter_user, tableVars, BootStep
  <2>7. CASE smp_init \/ ApicInit \/ keyboard_init \/ Drivers \/ NetInit \/ StartModules
    <3>1. /\ UNCHANGED <<machineVars, acpi, ioapic, lineVars>>
          /\ \E step : /\ Booting(step)
                       /\ step \notin {"idt_init", "acpi_init", "ioapic_init", "register"}
      <4>1. CASE smp_init
        BY <4>1 DEF smp_init, picVars
      <4>2. CASE ApicInit
        BY <4>2 DEF ApicInit, picVars
      <4>3. CASE keyboard_init
        BY <4>3 DEF keyboard_init, tableVars
      <4>4. CASE Drivers
        BY <4>4 DEF Drivers, tableVars, picVars
      <4>5. CASE NetInit
        BY <4>5 DEF NetInit, tableVars, picVars
      <4>6. CASE StartModules
        BY <4>6, SMTT(30) DEF StartModules, tableVars, picVars
      <4> QED
        BY <2>7, <4>1, <4>2, <4>3, <4>4, <4>5, <4>6, Zenon
    <3>2. pc' = pc + 1 /\ pc \in 1 .. 20 \ {1, 2, 5, 13}
      BY <2>0, <3>1, BootOrder
    <3> QED
      BY <3>1, <3>2, Zenon DEF BootStep
  <2> QED
    BY <1>1, <2>1, <2>2, <2>3, <2>4, <2>5, <2>6, <2>7, Zenon DEF Kmain
<1>2. CASE \E k \in ScanKinds : Press(k)
  BY <1>2, Zenon DEF Press, tableVars
<1>3. CASE \E l \in {Timer, Keyboard} : irq_handler(l)
  BY <1>3, Zenon DEF irq_handler, tableVars
<1>4. CASE PitEdge \/ SpuriousIrq \/ keyboard_getc \/ CheckPacket
  BY <1>4, Zenon DEF PitEdge, SpuriousIrq, keyboard_getc, CheckPacket, tableVars, picVars
<1>5. CASE SocketCall \/ ModuleWork \/ PrintWork \/ SignalWork
  BY <1>5, Zenon DEF SocketCall, ModuleWork, PrintWork, SignalWork, tableVars, picVars
<1>6. CASE hlt \/ UNCHANGED vars
  BY <1>6, Zenon DEF hlt, vars, tableVars, picVars
<1>7. CASE ksleep_ms
  BY <1>7, BootLength, Zenon DEF ksleep_ms, Running, tableVars
<1> QED
  BY <1>1, <1>2, <1>3, <1>4, <1>5, <1>6, <1>7, Zenon DEF Next

(* How far kmain has come decides what is set up: no line is open before the PIC
   is masked, none of the two that are opened later is without its handler, the
   interrupt flag comes last, and the I/O APIC is as ioapic_init left it. *)
DeliveryInv ==
  /\ pc \in Nat \ {0}
  /\ \E m \in Machines : firmware = m[1] /\ hardware = m[2]
  /\ pc > 1 => Lines \ mask \subseteq {Timer, Keyboard}
  /\ pc > 13 => {Timer, Keyboard} \subseteq irq_handlers
  /\ pc <= 20 => iflag = FALSE
  /\ pc > 2 => acpi = acpi_init(firmware)
  /\ pc <= 5 => ioapic = IoapicReset(hardware.last_pin)
  /\ pc > 5 => \E available : ioapic = ioapic_init(available, acpi, hardware.last_pin)

(* Nothing is set up when the kernel starts. *)
LEMMA DeliveryInvInit ==
  ASSUME Init
  PROVE  DeliveryInv
<1>1. /\ \E m \in Machines : firmware = m[1] /\ hardware = m[2]
      /\ pc = 1 /\ iflag = FALSE /\ ioapic = IoapicReset(hardware.last_pin)
  BY Zenon DEF Init
<1> QED
  BY <1>1 DEF DeliveryInv

(* Every step of kmain sets up what the next one relies on. *)
LEMMA DeliveryInvNext ==
  ASSUME DeliveryInv, [Next]_vars
  PROVE  DeliveryInv'
<1>0. pc \in Nat \ {0}
  BY Zenon DEF DeliveryInv
<1>1. CASE UNCHANGED <<pc, machineVars, acpi, ioapic, lineVars>>
  BY <1>1, Zenon DEF DeliveryInv, machineVars, lineVars
<1>2. CASE pc' = pc + 1 /\ BootStep
  <2> USE <1>0 DEF machineVars, lineVars
  <2>0. pc' = pc + 1
    BY <1>2, Zenon
  <2>1. CASE pc = 1 /\ mask' = Lines /\ UNCHANGED <<machineVars, acpi, ioapic, irq_handlers, iflag>>
    BY <2>0, <2>1 DEF DeliveryInv
  <2>2. CASE pc = 2 /\ acpi' = acpi_init(firmware) /\ UNCHANGED <<machineVars, ioapic, lineVars>>
    BY <2>0, <2>2 DEF DeliveryInv
  <2>3. CASE /\ pc = 5 /\ ioapic' = ioapic_init(apic_available, acpi, hardware.last_pin)
             /\ UNCHANGED <<machineVars, acpi, lineVars>>
    BY <2>0, <2>3 DEF DeliveryInv
  <2>4. CASE /\ pc = 13 /\ irq_handlers' = irq_handlers \cup {Timer, Keyboard}
             /\ UNCHANGED <<machineVars, acpi, ioapic, mask, iflag>>
    BY <2>0, <2>4 DEF DeliveryInv
  <2>5. CASE /\ pc \in {14, 15} /\ \E l \in {Timer, Keyboard} : mask' = mask \ {l}
             /\ UNCHANGED <<machineVars, acpi, ioapic, irq_handlers, iflag>>
    BY <2>0, <2>5 DEF DeliveryInv
  <2>6. CASE /\ pc = 20 /\ iflag' = TRUE
             /\ UNCHANGED <<machineVars, acpi, ioapic, mask, irq_handlers>>
    BY <2>0, <2>6 DEF DeliveryInv
  <2>7. CASE pc \in 1 .. 20 \ {1, 2, 5, 13} /\ UNCHANGED <<machineVars, acpi, ioapic, lineVars>>
    BY <2>0, <2>7, SMTT(30) DEF DeliveryInv
  <2> QED
    BY <1>2, <2>1, <2>2, <2>3, <2>4, <2>5, <2>6, <2>7, Zenon DEF BootStep
<1>3. CASE pc > 20 /\ UNCHANGED <<pc, machineVars, acpi, ioapic, mask, irq_handlers>>
  <2>1. ~ (pc <= 20)
    BY <1>0, <1>3
  <2> QED
    BY <1>3, <2>1, Zenon DEF DeliveryInv, machineVars
<1> QED
  BY <1>0, <1>1, <1>2, <1>3, DeliverySteps, Zenon

(* What kmain has set up leaves each line one way to the CPU, and a handler. *)
LEMMA DeliveryInvImplies ==
  ASSUME DeliveryInv
  PROVE  OneDeliveryPath
<1>1. iflag => Lines \ mask \subseteq irq_handlers
  <2>1. pc > 20 => pc > 13 /\ pc > 1
    BY DEF DeliveryInv
  <2>2. pc > 20 \/ pc <= 20
    BY DEF DeliveryInv
  <2> QED
    BY <2>1, <2>2, Zenon DEF DeliveryInv
<1>2. ASSUME NEW p \in DOMAIN ioapic.redirection, ioapic.redirection[p] # NoRoute
      PROVE  LET r == ioapic.redirection[p]
             IN  /\ r.masked
                 /\ p = acpi_irq_to_gsi(acpi, r.vector - 32).gsi - ioapic.gsi_base
                 /\ DefaultControllers # {} =>
                      \E e \in DefaultControllers : e.gsi = ioapic.gsi_base
  <2>1. ioapic # IoapicReset(hardware.last_pin)
    <3>1. ASSUME NEW last
          PROVE  IoapicReset(last).redirection = [q \in 0 .. last |-> NoRoute]
      BY Zenon DEF IoapicReset
    <3> SUFFICES ASSUME ioapic = IoapicReset(hardware.last_pin)
                 PROVE  FALSE
      BY Zenon
    <3>2. ioapic.redirection = [q \in 0 .. hardware.last_pin |-> NoRoute]
      BY <3>1, Zenon
    <3> QED
      BY <1>2, <3>2, Zenon
  <2>2. pc > 5 /\ pc > 2
    BY <2>1, SMTT(30) DEF DeliveryInv
  <2>3. /\ RoutesSound(ioapic, acpi)
        /\ acpi.ioapic_base = IoapicDefault /\ ioapic.gsi_base = acpi.ioapic_gsi_base
    <3>1. PICK available : IsSetUp(ioapic, available, acpi, hardware.last_pin)
      BY <2>2, Zenon DEF DeliveryInv, IsSetUp
    <3>2. ResetOrRouted(ioapic, acpi, hardware.last_pin)
      BY <3>1, IoapicIsSound, Zenon
    <3> QED
      BY <2>1, <3>2, Zenon DEF ResetOrRouted
  <2>4. acpi = acpi_init(firmware)
    BY <2>2, Zenon DEF DeliveryInv
  <2>5. \A i \in 1 .. Len(Rsdt(firmware).tables) :
          Len(Rsdt(firmware).tables[i].entries) \in Nat
    BY PlatformAssumption, Zenon DEF DeliveryInv
  <2>6. DefaultControllers # {} => \E e \in DefaultControllers : e.gsi = ioapic.gsi_base
    BY <2>3, <2>4, <2>5, ControllerIsListed, Zenon
  <2> QED
    BY <1>2, <2>3, <2>6, Zenon DEF RoutesSound
<1> QED
  BY <1>1, <1>2, Zenon DEF OneDeliveryPath

(* A line comes to the CPU one way only, and never without a handler, whatever
   the firmware's tables say and however the boot of kmain and the devices
   interleave. *)
THEOREM DeliverySound == Spec => []OneDeliveryPath
<1>1. Spec => []DeliveryInv
  BY DeliveryInvInit, DeliveryInvNext, PTL DEF Spec
<1> QED
  BY <1>1, DeliveryInvImplies, PTL
=============================================================================
