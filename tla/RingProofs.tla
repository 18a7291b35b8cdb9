----------------------------- MODULE RingProofs -----------------------------
(***************************************************************************)
(* Proofs about the two rings of Platform, the loopback ring of net.c and  *)
(* the ring of the keyboard, for every size of the rings, every set of     *)
(* machines and lengths, and every bound.                                  *)
(***************************************************************************)
EXTENDS Platform, TLAPS

-----------------------------------------------------------------------------
(* Indices of a ring with n places, as in (tail + 1) % SIZE.               *)

(* An index inside a ring is its own remainder. *)
LEMMA ModBelow ==
  ASSUME NEW n \in Nat \ {0}, NEW x \in 0 .. n - 1
  PROVE  x % n = x
BY SMT

(* An index that has passed the end of a ring once. *)
LEMMA ModOnce ==
  ASSUME NEW n \in Nat \ {0}, NEW x \in n .. 2 * n - 1
  PROVE  x % n = x - n
BY SMT

(* The place k behind h, for at most one turn. *)
LEMMA RingIndex ==
  ASSUME NEW n \in Nat \ {0}, NEW h \in 0 .. n - 1, NEW k \in 0 .. n
  PROVE  (h + k) % n = IF h + k < n THEN h + k ELSE h + k - n
<1>1. CASE h + k < n
  BY <1>1, ModBelow
<1>2. CASE h + k >= n
  BY <1>2, ModOnce
<1> QED
  BY <1>1, <1>2

(* A whole turn leads back. *)
LEMMA RingTurn ==
  ASSUME NEW n \in Nat \ {0}, NEW h \in 0 .. n - 1
  PROVE  (h + n) % n = h
<1>1. h + n \in n .. 2 * n - 1 /\ h + n - n = h
  OBVIOUS
<1> QED
  BY <1>1, ModOnce

(* The tail of a ring that is not full, c places behind the head, is none of
   the places in use; after a put it is c + 1 places behind the head. *)
LEMMA RingPut ==
  ASSUME NEW n \in Nat \ {0}, NEW h \in 0 .. n - 1, NEW c \in 0 .. n - 1
  PROVE  /\ (h + c) % n \in 0 .. n - 1
         /\ (((h + c) % n) + 1) % n = (h + (c + 1)) % n
         /\ \A k \in 1 .. c : (h + k - 1) % n \in 0 .. n - 1 /\ (h + k - 1) % n # (h + c) % n
         /\ (h + (c + 1) - 1) % n = (h + c) % n
<1> DEFINE t == (h + c) % n
<1>1. t = IF h + c < n THEN h + c ELSE h + c - n
  BY RingIndex, c \in 0 .. n, Zenon
<1>2. (h + (c + 1)) % n = IF h + (c + 1) < n THEN h + (c + 1) ELSE h + (c + 1) - n
  BY RingIndex, c + 1 \in 0 .. n, Zenon
<1> HIDE DEF t
<1>3. t \in 0 .. n - 1
  BY <1>1
<1>4. (t + 1) % n = IF t + 1 < n THEN t + 1 ELSE t + 1 - n
  BY <1>3, RingIndex, 1 \in 0 .. n, Zenon
<1>5. ASSUME NEW k \in 1 .. c
      PROVE  (h + k - 1) % n \in 0 .. n - 1 /\ (h + k - 1) % n # t
  <2>1. k - 1 \in 0 .. n /\ h + k - 1 = h + (k - 1)
    OBVIOUS
  <2>2. (h + k - 1) % n = IF h + k - 1 < n THEN h + k - 1 ELSE h + k - 1 - n
    BY <2>1, RingIndex, Zenon
  <2> QED
    BY <1>1, <2>2
<1>6. h + (c + 1) - 1 = h + c
  OBVIOUS
<1>7. (t + 1) % n = (h + (c + 1)) % n
  BY <1>1, <1>2, <1>4
<1> QED
  BY <1>3, <1>5, <1>6, <1>7, Zenon DEF t

(* After a take the places behind the head are the ones that were behind the
   entry taken. *)
LEMMA RingTake ==
  ASSUME NEW n \in Nat \ {0}, NEW h \in 0 .. n - 1, NEW c \in 1 .. n
  PROVE  /\ (h + 1) % n \in 0 .. n - 1
         /\ (((h + 1) % n) + (c - 1)) % n = (h + c) % n
         /\ \A k \in 1 .. c - 1 : (((h + 1) % n) + k - 1) % n = (h + (k + 1) - 1) % n
<1>1. (h + 1) % n = IF h + 1 < n THEN h + 1 ELSE h + 1 - n
  BY RingIndex, 1 \in 0 .. n, Zenon
<1>2. (h + 1) % n \in 0 .. n - 1
  BY <1>1
<1>3. ASSUME NEW k \in 0 .. c - 1
      PROVE  (((h + 1) % n) + k) % n = (h + (k + 1)) % n
  <2>1. (((h + 1) % n) + k) % n =
          IF ((h + 1) % n) + k < n THEN ((h + 1) % n) + k ELSE ((h + 1) % n) + k - n
    BY <1>2, RingIndex, k \in 0 .. n, Zenon
  <2>2. (h + (k + 1)) % n = IF h + (k + 1) < n THEN h + (k + 1) ELSE h + (k + 1) - n
    BY RingIndex, k + 1 \in 0 .. n, Zenon
  <2> QED
    BY <1>1, <2>1, <2>2
<1>4. (((h + 1) % n) + (c - 1)) % n = (h + c) % n
  <2>1. c - 1 \in 0 .. c - 1 /\ (c - 1) + 1 = c
    OBVIOUS
  <2> QED
    BY <1>3, <2>1, Zenon
<1>5. ASSUME NEW k \in 1 .. c - 1
      PROVE  (((h + 1) % n) + k - 1) % n = (h + (k + 1) - 1) % n
  <2>1. /\ k - 1 \in 0 .. c - 1
        /\ ((h + 1) % n) + k - 1 = ((h + 1) % n) + (k - 1)
        /\ h + (k + 1) - 1 = h + ((k - 1) + 1)
    BY <1>2
  <2> QED
    BY <1>3, <2>1, Zenon
<1> QED
  BY <1>2, <1>4, <1>5, Zenon

(* The distance from the head to the tail is the number of entries. *)
LEMMA RingDistance ==
  ASSUME NEW n \in Nat \ {0}, NEW h \in 0 .. n - 1, NEW c \in 0 .. n - 1
  PROVE  (((h + c) % n) - h + n) % n = c
<1> DEFINE t == (h + c) % n
<1>1. t = IF h + c < n THEN h + c ELSE h + c - n
  BY RingIndex, c \in 0 .. n, Zenon
<1> HIDE DEF t
<1>2. CASE h + c < n
  <2>1. t - h + n = c + n /\ c + n \in n .. 2 * n - 1
    BY <1>1, <1>2
  <2> QED
    BY <2>1, ModOnce DEF t
<1>3. CASE ~ (h + c < n)
  <2>1. t - h + n = c
    BY <1>1, <1>3
  <2> QED
    BY <2>1, ModBelow, Zenon DEF t
<1> QED
  BY <1>2, <1>3, Zenon

-----------------------------------------------------------------------------
(* Which steps touch which ring.                                           *)

(* kmain has twenty steps. *)
LEMMA BootLength == Len(Boot) = 20
BY Zenon DEF Boot

(* kmain only goes forward. *)
LEMMA BootGoesOn ==
  ASSUME pc \in Nat, [Next]_vars
  PROVE  pc' \in Nat /\ (pc' = pc \/ (pc' = pc + 1 /\ pc <= Len(Boot)))
<1>1. CASE Kmain
  <2>1. \E step : Booting(step)
    BY <1>1, Zenon DEF Kmain, idt_init, AcpiInit, smp_init, ApicInit, IoapicInit, keyboard_init,
       Register, Unmask, Drivers, NetInit, StartModules, process_enter_user
  <2> QED
    BY <2>1 DEF Booting
<1>2. CASE \E k \in ScanKinds : Press(k)
  BY <1>2, Zenon DEF Press
<1>3. CASE \E l \in {Timer, Keyboard} : irq_handler(l)
  BY <1>3, Zenon DEF irq_handler
<1>4. CASE PitEdge \/ SpuriousIrq \/ keyboard_getc \/ ksleep_ms \/ CheckPacket
  BY <1>4, Zenon DEF PitEdge, SpuriousIrq, keyboard_getc, ksleep_ms, CheckPacket
<1>5. CASE SocketCall \/ ModuleWork \/ PrintWork \/ SignalWork
  BY <1>5, Zenon DEF SocketCall, ModuleWork, PrintWork, SignalWork
<1>6. CASE hlt \/ UNCHANGED vars
  BY <1>6, Zenon DEF hlt, vars
<1> QED
  BY <1>1, <1>2, <1>3, <1>4, <1>5, <1>6, Zenon DEF Next

(* Only net_init at boot and the calls of programs touch the ring of net.c. *)
LEMMA NetSteps ==
  ASSUME [Next]_vars
  PROVE  \/ UNCHANGED netVars
         \/ pc <= Len(Boot) /\ net_init
         \/ Running /\ UNCHANGED pc /\ NetNext
<1>1. CASE Kmain
  <2>1. CASE NetInit
    BY <2>1, Zenon DEF NetInit, Booting
  <2>2. CASE Unmask
    BY <2>2, Zenon DEF Unmask, pic_unmask, restVars
  <2> QED
    BY <1>1, <2>1, <2>2, Zenon DEF Kmain, idt_init, AcpiInit, smp_init, ApicInit, IoapicInit,
       keyboard_init, Register, Drivers, StartModules, process_enter_user, restVars
<1>2. CASE \E k \in ScanKinds : Press(k)
  BY <1>2, Zenon DEF Press, restVars
<1>3. CASE \E l \in {Timer, Keyboard} : irq_handler(l)
  BY <1>3, Zenon DEF irq_handler
<1>4. CASE PitEdge \/ SpuriousIrq \/ keyboard_getc \/ ksleep_ms \/ CheckPacket
  BY <1>4, Zenon DEF PitEdge, SpuriousIrq, keyboard_getc, ksleep_ms, CheckPacket, restVars
<1>5. CASE SocketCall \/ ModuleWork \/ PrintWork \/ SignalWork
  BY <1>5, Zenon DEF SocketCall, ModuleWork, PrintWork, SignalWork
<1>6. CASE hlt \/ UNCHANGED vars
  BY <1>6, Zenon DEF hlt, vars, restVars
<1> QED
  BY <1>1, <1>2, <1>3, <1>4, <1>5, <1>6, Zenon DEF Next

-----------------------------------------------------------------------------
(* The loopback ring.                                                      *)

(* While kmain runs nothing has been sent, as net_init forgets the ring. *)
NetInv ==
  /\ pc \in Nat
  /\ pc <= Len(Boot) => sent = <<>> /\ received = 0
  /\ sent \in Seq(PacketLens) /\ received \in Nat
  /\ queue_len \in [0 .. QueueSize - 1 -> PacketLens \cup {0}]
  /\ queue_head \in 0 .. QueueSize - 1
  /\ queue_count \in 0 .. QueueSize
  /\ queue_tail = (queue_head + queue_count) % QueueSize
  /\ PacketsInOrder

(* The ring is empty when the kernel starts. *)
LEMMA NetInvInit == Init => NetInv
<1> SUFFICES ASSUME Init PROVE NetInv
  BY Zenon
<1> USE LoopbackAssumption
<1>1. NetBss /\ pc = 1
  BY Zenon DEF Init
<1>2. (0 + 0) % QueueSize = 0
  BY ModBelow
<1> QED
  BY <1>1, <1>2 DEF NetInv, NetBss, PacketsInOrder

(* net_init, during boot, leaves the ring empty. *)
LEMMA NetInvInitCall == NetInv /\ pc <= Len(Boot) /\ net_init /\ pc' \in Nat => NetInv'
<1> SUFFICES ASSUME NetInv, pc <= Len(Boot), net_init, pc' \in Nat PROVE NetInv'
  BY Zenon
<1> USE LoopbackAssumption
<1>2. (0 + 0) % QueueSize = 0
  BY ModBelow
<1> QED
  BY <1>2 DEF NetInv, net_init, PacketsInOrder

(* A packet that net_loopback_send accepts goes behind those in the ring. *)
LEMMA NetInvSend ==
  ASSUME NetInv, Running, UNCHANGED pc,
         NEW i \in Sockets, NEW n \in PacketLens, send_sys(i, n)
  PROVE  NetInv'
<1>1. /\ queue_count \in 0 .. QueueSize - 1 /\ queue_count' = queue_count + 1
      /\ queue_head \in 0 .. QueueSize - 1 /\ queue_head' = queue_head
      /\ queue_count = Len(sent) - received /\ received \in Nat /\ Len(sent) \in Nat
      /\ received' = received
  <2>1. /\ queue_count < QueueSize /\ queue_count' = queue_count + 1
        /\ queue_head' = queue_head /\ received' = received
    BY Zenon DEF send_sys, net_loopback_send, CanQueue
  <2>2. /\ queue_count \in 0 .. QueueSize /\ queue_head \in 0 .. QueueSize - 1
        /\ queue_count = Len(sent) - received /\ received \in Nat /\ sent \in Seq(PacketLens)
    BY Zenon DEF NetInv, PacketsInOrder
  <2> QED
    BY <2>1, <2>2, LoopbackAssumption
<1>2. /\ queue_tail' = (queue_head + queue_count') % QueueSize
      /\ queue_len' \in [0 .. QueueSize - 1 -> PacketLens \cup {0}]
      /\ \A k \in 1 .. queue_count :
           queue_len'[(queue_head + k - 1) % QueueSize] = queue_len[(queue_head + k - 1) % QueueSize]
      /\ queue_len'[(queue_head + queue_count' - 1) % QueueSize] = n
  <2> DEFINE S == PacketLens \cup {0}
  <2>1. /\ queue_len \in [0 .. QueueSize - 1 -> S] /\ n \in S
        /\ queue_len' = [queue_len EXCEPT ![queue_tail] = n]
        /\ queue_tail = (queue_head + queue_count) % QueueSize
        /\ queue_tail' = (queue_tail + 1) % QueueSize
    BY Zenon DEF NetInv, send_sys, net_loopback_send
  <2> HIDE DEF S
  <2>2. /\ queue_tail \in 0 .. QueueSize - 1
        /\ queue_tail' = (queue_head + (queue_count + 1)) % QueueSize
        /\ \A k \in 1 .. queue_count : /\ (queue_head + k - 1) % QueueSize \in 0 .. QueueSize - 1
                                       /\ (queue_head + k - 1) % QueueSize # queue_tail
        /\ (queue_head + (queue_count + 1) - 1) % QueueSize = queue_tail
    <3>1. /\ queue_tail = (queue_head + queue_count) % QueueSize
          /\ queue_tail' = (queue_tail + 1) % QueueSize
      BY <2>1, Zenon
    <3>2. /\ QueueSize \in Nat \ {0}
          /\ queue_count \in 0 .. QueueSize - 1 /\ queue_head \in 0 .. QueueSize - 1
      BY <1>1, LoopbackAssumption, Zenon
    <3> QED
      BY <3>1, <3>2, RingPut
  <2>3. queue_len'[queue_tail] = n /\ queue_len' \in [0 .. QueueSize - 1 -> S]
    BY <2>1, <2>2, Zenon
  <2>4. \A j \in 0 .. QueueSize - 1 : j # queue_tail => queue_len'[j] = queue_len[j]
    BY <2>1, Zenon
  <2> QED
    BY <1>1, <2>2, <2>3, <2>4, Zenon DEF S
<1>3. /\ sent' \in Seq(PacketLens)
      /\ Len(sent') = Len(sent) + 1
      /\ \A k \in 1 .. Len(sent) : sent'[k] = sent[k]
      /\ sent'[Len(sent) + 1] = n
  BY DEF NetInv, send_sys, net_loopback_send
<1>4. PacketsInOrder'
  <2>1. \A k \in 1 .. queue_count :
          queue_len[(queue_head + k - 1) % QueueSize] = sent[received + k]
    BY Zenon DEF NetInv, PacketsInOrder
  <2>2. queue_count' = Len(sent') - received'
    BY SMTT(30), <1>1, <1>3
  <2>3. ASSUME NEW k \in 1 .. queue_count'
        PROVE  queue_len'[(queue_head' + k - 1) % QueueSize] = sent'[received' + k]
    <3>1. CASE k = queue_count'
      <4>1. received' + k = Len(sent) + 1
        BY <1>1, <3>1, SMTT(30)
      <4> QED
        BY <1>1, <1>2, <1>3, <3>1, <4>1, Zenon
    <3>2. CASE k # queue_count'
      <4>1. k \in 1 .. queue_count /\ received + k \in 1 .. Len(sent)
        BY <1>1, <3>2
      <4>2. queue_len'[(queue_head + k - 1) % QueueSize] = sent[received + k]
        BY <1>2, <2>1, <4>1, Zenon
      <4> QED
        BY <1>1, <1>3, <4>1, <4>2, Zenon
    <3> QED
      BY <3>1, <3>2, Zenon
  <2> QED
    BY <2>2, <2>3, Zenon DEF PacketsInOrder
<1>5. pc' \in Nat /\ ~ (pc' <= Len(Boot))
  BY BootLength DEF NetInv, Running
<1>6. queue_count' \in 0 .. QueueSize
  BY <1>1, LoopbackAssumption
<1> QED
  BY <1>1, <1>2, <1>3, <1>4, <1>5, <1>6, Zenon DEF NetInv

(* What net_loopback_received takes out is the packet sent first. *)
LEMMA NetInvReceive ==
  ASSUME NetInv, Running, UNCHANGED pc, net_loopback_received
  PROVE  NetInv'
<1>1. /\ queue_count \in 1 .. QueueSize /\ queue_count' = queue_count - 1
      /\ queue_head \in 0 .. QueueSize - 1 /\ queue_head' = (queue_head + 1) % QueueSize
      /\ queue_count = Len(sent) - received /\ received \in Nat /\ Len(sent) \in Nat
      /\ received' = received + 1
  BY LoopbackAssumption DEF NetInv, PacketsInOrder, net_loopback_received
<1>2. queue_len' = queue_len /\ queue_tail' = queue_tail /\ sent' = sent
  BY Zenon DEF net_loopback_received
<1>3. /\ queue_head' \in 0 .. QueueSize - 1
      /\ queue_tail' = (queue_head' + queue_count') % QueueSize
      /\ \A k \in 1 .. queue_count - 1 :
           (queue_head' + k - 1) % QueueSize = (queue_head + (k + 1) - 1) % QueueSize
  <2>1. queue_tail = (queue_head + queue_count) % QueueSize
    BY Zenon DEF NetInv
  <2> QED
    BY <1>1, <1>2, <2>1, RingTake, LoopbackAssumption, Zenon
<1>4. PacketsInOrder'
  <2>1. \A k \in 1 .. queue_count :
          queue_len[(queue_head + k - 1) % QueueSize] = sent[received + k]
    BY Zenon DEF NetInv, PacketsInOrder
  <2>2. queue_count' = Len(sent') - received'
    BY <1>1, <1>2
  <2>3. ASSUME NEW k \in 1 .. queue_count'
        PROVE  queue_len'[(queue_head' + k - 1) % QueueSize] = sent'[received' + k]
    <3>1. /\ k \in 1 .. queue_count - 1 /\ k + 1 \in 1 .. queue_count
          /\ received' + k = received + (k + 1)
      BY <1>1
    <3>2. queue_len[(queue_head + (k + 1) - 1) % QueueSize] = sent[received + (k + 1)]
      BY <2>1, <3>1, Zenon
    <3> QED
      BY <1>2, <1>3, <3>1, <3>2, Zenon
  <2> QED
    BY <2>2, <2>3, Zenon DEF PacketsInOrder
<1>5. pc' \in Nat /\ ~ (pc' <= Len(Boot))
  BY BootLength DEF NetInv, Running
<1>6. queue_count' \in 0 .. QueueSize /\ received' \in Nat
  BY <1>1, LoopbackAssumption
<1> QED
  BY <1>2, <1>3, <1>4, <1>5, <1>6, Zenon DEF NetInv

(* Every step of the system keeps the places of the ring. *)
LEMMA NetInvNext == NetInv /\ [Next]_vars => NetInv'
<1> SUFFICES ASSUME NetInv, [Next]_vars PROVE NetInv'
  BY Zenon
<1>1. pc \in Nat
  BY Zenon DEF NetInv
<1>2. pc' \in Nat /\ (pc' = pc \/ (pc' = pc + 1 /\ pc <= Len(Boot)))
  BY <1>1, BootGoesOn, Zenon
<1>3. CASE UNCHANGED netVars
  <2>1. pc' <= Len(Boot) => pc <= Len(Boot)
    BY <1>1, <1>2, BootLength, Zenon
  <2> QED
    BY <1>2, <1>3, <2>1, Zenon DEF netVars, queueVars, NetInv, PacketsInOrder
<1>4. CASE pc <= Len(Boot) /\ net_init
  BY <1>2, <1>4, NetInvInitCall, Zenon
<1>5. CASE Running /\ UNCHANGED pc /\ NetNext
  <2>1. CASE net_loopback_received
    BY <1>5, <2>1, NetInvReceive, Zenon
  <2>2. CASE \E i \in Sockets, n \in PacketLens : send_sys(i, n)
    BY <1>5, <2>2, NetInvSend, Zenon
  <2>3. CASE UNCHANGED queueVars
    BY <1>5, <2>3, Zenon DEF queueVars, NetInv, PacketsInOrder
  <2>4. NetNext => \/ net_loopback_received
                   \/ \E i \in Sockets, n \in PacketLens : send_sys(i, n)
                   \/ UNCHANGED queueVars
    BY Zenon DEF NetNext, socket_sys, connect_sys, close_socket_sys
  <2> QED
    BY <1>5, <2>1, <2>2, <2>3, <2>4, Zenon
<1> QED
  BY <1>3, <1>4, <1>5, NetSteps, Zenon

(* The loopback ring of net.c never overwrites, loses, repeats or reorders a
   packet that net_loopback_send accepted, for every size of the ring and
   every interleaving of sockets, boot and interrupts. *)
THEOREM PacketsSound == Spec => []PacketsInOrder
<1>1. NetInv => PacketsInOrder
  BY Zenon DEF NetInv
<1> QED
  BY <1>1, NetInvInit, NetInvNext, PTL DEF Spec

-----------------------------------------------------------------------------
(* The keyboard ring.                                                      *)

ringVars == <<port, presses, key_buf, key_head, key_tail, stored, taken>>

(* A key enters the ring in its own interrupt only. *)
LEMMA KeySteps ==
  ASSUME [Next]_vars
  PROVE  \/ UNCHANGED ringVars /\ (Keyboard \in irr' => Keyboard \in irr)
         \/ \E k \in ScanKinds : Press(k)
         \/ Keyboard \in irr /\ Keyboard \notin irr' /\ keyboard_irq
         \/ keyboard_getc
<1>1. CASE Kmain
  <2>1. CASE keyboard_init
    BY <2>1, Zenon DEF keyboard_init, ringVars
  <2>2. CASE idt_init
    BY <2>2, Zenon DEF idt_init, keyVars, ringVars
  <2>3. CASE Unmask
    BY <2>3, Zenon DEF Unmask, pic_unmask, keyVars, ringVars
  <2>4. CASE AcpiInit \/ smp_init \/ ApicInit \/ IoapicInit \/ Drivers \/ NetInit \/ StartModules
    BY <2>4, Zenon DEF AcpiInit, smp_init, ApicInit, IoapicInit, Drivers, NetInit, StartModules,
       picVars, keyVars, ringVars
  <2>5. CASE Register \/ process_enter_user
    BY <2>5, Zenon DEF Register, process_enter_user, keyVars, ringVars
  <2> QED
    BY <1>1, <2>1, <2>2, <2>3, <2>4, <2>5, Zenon DEF Kmain
<1>2. CASE \E l \in {Timer, Keyboard} : irq_handler(l)
  <2>1. PICK l \in {Timer, Keyboard} : irq_handler(l)
    BY <1>2, Zenon
  <2>2. l \in irr /\ irr' = irr \ {l}
    BY <2>1, Zenon DEF irq_handler, Deliverable
  <2>3. CASE l = Keyboard /\ l \in irq_handlers
    BY <2>1, <2>2, <2>3, Zenon DEF irq_handler
  <2>4. CASE ~ (l = Keyboard /\ l \in irq_handlers)
    BY <2>1, <2>2, <2>4, Zenon DEF irq_handler, keyVars, ringVars
  <2> QED
    BY <2>3, <2>4, Zenon
<1>3. CASE PitEdge
  BY <1>3 DEF PitEdge, Timer, Keyboard, keyVars, ringVars
<1>4. CASE SpuriousIrq \/ ksleep_ms
  BY <1>4, Zenon DEF SpuriousIrq, ksleep_ms, keyVars, ringVars
<1>5. CASE SocketCall \/ ModuleWork \/ PrintWork \/ SignalWork \/ CheckPacket
  BY <1>5, Zenon DEF SocketCall, ModuleWork, PrintWork, SignalWork, CheckPacket, picVars, keyVars, ringVars
<1>6. CASE hlt \/ UNCHANGED vars
  BY <1>6, Zenon DEF hlt, vars, picVars, keyVars, ringVars
<1> QED
  BY <1>1, <1>2, <1>3, <1>4, <1>5, <1>6, Zenon DEF Next

(* The number of keys in the ring. *)
Waiting == Len(stored) - taken

(* The last scan code is presses; as long as its interrupt is requested it is
   not in the ring. *)
KeyInv ==
  /\ presses \in Nat /\ port.id = presses
  /\ stored \in Seq(Nat) /\ taken \in Nat
  /\ key_buf \in [0 .. KeyBufSize - 1 -> Nat]
  /\ key_head \in 0 .. KeyBufSize - 1
  /\ Waiting \in 0 .. KeyBufSize - 1
  /\ key_tail = (key_head + Waiting) % KeyBufSize
  /\ \A k \in 1 .. Waiting : key_buf[(key_head + k - 1) % KeyBufSize] = stored[taken + k]
  /\ \A i, j \in DOMAIN stored : i < j => stored[i] < stored[j]
  /\ \A i \in DOMAIN stored : stored[i] <= presses /\ (Keyboard \in irr => stored[i] < presses)

(* The key ring is empty when the kernel starts. *)
LEMMA KeyInvInit == Init => KeyInv
<1> SUFFICES ASSUME Init PROVE KeyInv
  BY Zenon
<1>1. (0 + 0) % KeyBufSize = 0
  BY ModBelow, PlatformAssumption
<1>2. /\ irr = {} /\ port = None /\ presses = 0 /\ stored = <<>> /\ taken = 0
      /\ key_buf = [i \in 0 .. KeyBufSize - 1 |-> 0] /\ key_head = 0 /\ key_tail = 0
  BY Zenon DEF Init
<1> QED
  BY <1>1, <1>2, PlatformAssumption DEF KeyInv, Waiting, None

(* A key press changes the port and the request, and not the ring. *)
LEMMA KeyInvPress ==
  ASSUME KeyInv, NEW k \in ScanKinds, Press(k)
  PROVE  KeyInv'
<1>1. presses' = presses + 1 /\ port' = [id |-> presses + 1, kind |-> k]
  BY Zenon DEF Press
<1>2. UNCHANGED <<key_buf, key_head, key_tail, stored, taken>>
  BY Zenon DEF Press
<1>3. presses' \in Nat /\ port'.id = presses'
  BY <1>1 DEF KeyInv
<1>4. ASSUME NEW i \in DOMAIN stored'
      PROVE  stored'[i] <= presses' /\ (Keyboard \in irr' => stored'[i] < presses')
  <2>1. stored[i] \in Nat /\ stored[i] <= presses /\ presses \in Nat
    BY <1>2 DEF KeyInv
  <2> QED
    BY <1>1, <1>2, <2>1
<1> QED
  BY <1>2, <1>3, <1>4, Zenon DEF KeyInv, Waiting

(* keyboard_getc takes the oldest key. *)
LEMMA KeyInvGetc == KeyInv /\ keyboard_getc => KeyInv'
<1> SUFFICES ASSUME KeyInv, keyboard_getc PROVE KeyInv'
  BY Zenon
<1>1. /\ KeyBufSize \in Nat \ {0} /\ key_head \in 0 .. KeyBufSize - 1
      /\ Waiting \in 0 .. KeyBufSize - 1 /\ taken \in Nat /\ Len(stored) \in Nat
      /\ taken' = taken + 1 /\ key_head' = (key_head + 1) % KeyBufSize
  BY PlatformAssumption, SMTT(30) DEF KeyInv, keyboard_getc
<1>2. UNCHANGED <<port, presses, key_buf, key_tail, stored, irr>>
  BY Zenon DEF keyboard_getc, picVars
<1>3. Waiting # 0
  <2>1. key_head # key_tail /\ key_tail = (key_head + Waiting) % KeyBufSize
    BY Zenon DEF KeyInv, keyboard_getc
  <2>2. (key_head + 0) % KeyBufSize = key_head
    BY <1>1, ModBelow
  <2> QED
    BY <2>1, <2>2, Zenon
<1>4. Waiting \in 1 .. KeyBufSize /\ Waiting' = Waiting - 1
  BY <1>1, <1>2, <1>3 DEF Waiting
<1>5. /\ key_head' \in 0 .. KeyBufSize - 1
      /\ (key_head' + (Waiting - 1)) % KeyBufSize = (key_head + Waiting) % KeyBufSize
      /\ \A k \in 1 .. Waiting - 1 :
           (key_head' + k - 1) % KeyBufSize = (key_head + (k + 1) - 1) % KeyBufSize
  BY <1>1, <1>4, RingTake, Zenon
<1>6. ASSUME NEW k \in 1 .. Waiting'
      PROVE  key_buf'[(key_head' + k - 1) % KeyBufSize] = stored'[taken' + k]
  <2>1. /\ k \in 1 .. Waiting - 1 /\ k + 1 \in 1 .. Waiting
        /\ taken' + k = taken + (k + 1)
    BY <1>1, <1>4
  <2>2. key_buf[(key_head + (k + 1) - 1) % KeyBufSize] = stored[taken + (k + 1)]
    BY <2>1, Zenon DEF KeyInv
  <2> QED
    BY <1>2, <1>5, <2>1, <2>2, Zenon
<1>7. key_tail' = (key_head' + Waiting') % KeyBufSize
  BY <1>2, <1>4, <1>5, Zenon DEF KeyInv
<1>8. taken' \in Nat /\ Waiting' \in 0 .. KeyBufSize - 1
  BY <1>1, <1>4
<1> QED
  BY <1>2, <1>5, <1>6, <1>7, <1>8, Zenon DEF KeyInv

(* keyboard_irq stores a key behind the ones in the ring if there is room; it
   is younger than all of them. *)
LEMMA KeyInvIrq ==
  ASSUME KeyInv, Keyboard \in irr, Keyboard \notin irr', keyboard_irq
  PROVE  KeyInv'
<1> DEFINE store == port.kind = "key" /\ Room
<1>1. UNCHANGED <<port, key_head, presses, taken>>
  BY Zenon DEF keyboard_irq
<1>2. CASE ~store
  <2>1. UNCHANGED <<key_buf, key_tail, stored>>
    BY <1>2, Zenon DEF keyboard_irq
  <2> QED
    BY <1>1, <2>1, Zenon DEF KeyInv, Waiting
<1>3. CASE store
  <2>1. /\ key_buf' = [key_buf EXCEPT ![key_tail] = port.id]
        /\ key_tail' = (key_tail + 1) % KeyBufSize
        /\ stored' = Append(stored, port.id)
    BY <1>3, Zenon DEF keyboard_irq
  <2>2. /\ KeyBufSize \in Nat \ {0} /\ key_head \in 0 .. KeyBufSize - 1
        /\ Waiting \in 0 .. KeyBufSize - 1 /\ taken \in Nat /\ Len(stored) \in Nat
        /\ Waiting = Len(stored) - taken
    BY PlatformAssumption, SMTT(30) DEF KeyInv, Waiting
  <2>3. key_tail = (key_head + Waiting) % KeyBufSize
    BY Zenon DEF KeyInv
  <2>4. /\ key_tail \in 0 .. KeyBufSize - 1
        /\ key_tail' = (key_head + (Waiting + 1)) % KeyBufSize
        /\ \A k \in 1 .. Waiting : /\ (key_head + k - 1) % KeyBufSize \in 0 .. KeyBufSize - 1
                                   /\ (key_head + k - 1) % KeyBufSize # key_tail
        /\ (key_head + (Waiting + 1) - 1) % KeyBufSize = key_tail
    <3>1. key_tail' = (key_tail + 1) % KeyBufSize
      BY <2>1, Zenon
    <3>2. /\ KeyBufSize \in Nat \ {0} /\ key_head \in 0 .. KeyBufSize - 1
          /\ Waiting \in 0 .. KeyBufSize - 1
      BY <2>2, Zenon
    <3> QED
      BY SMTT(30), <2>3, <3>1, <3>2, RingPut
  <2>5. port.id = presses /\ presses \in Nat
    BY Zenon DEF KeyInv
  <2>6. /\ stored' \in Seq(Nat)
        /\ Len(stored') = Len(stored) + 1
        /\ \A k \in 1 .. Len(stored) : stored'[k] = stored[k]
        /\ stored'[Len(stored) + 1] = presses
    BY <2>1, <2>5, SMTT(30) DEF KeyInv
  <2>7. Waiting' = Waiting + 1
    BY <1>1, <2>2, <2>6, SMTT(30) DEF Waiting
  <2>8. Waiting' \in 0 .. KeyBufSize - 1
    <3>1. key_tail' # key_head
      BY <1>3, <2>1, Zenon DEF Room
    <3>2. CASE Waiting = KeyBufSize - 1
      <4>1. key_head + (Waiting + 1) = key_head + KeyBufSize
        BY <2>2, <3>2
      <4>2. (key_head + KeyBufSize) % KeyBufSize = key_head
        BY <2>2, RingTurn, Zenon
      <4> QED
        BY <2>4, <3>1, <4>1, <4>2, Zenon
    <3> QED
      BY <2>2, <2>7, <3>2
  <2>9. key_buf'[key_tail] = presses /\ key_buf' \in [0 .. KeyBufSize - 1 -> Nat]
    BY <2>1, <2>4, <2>5, Zenon DEF KeyInv
  <2>10. \A j \in 0 .. KeyBufSize - 1 : j # key_tail => key_buf'[j] = key_buf[j]
    BY <2>1, Zenon DEF KeyInv
  <2>11. ASSUME NEW k \in 1 .. Waiting'
         PROVE  key_buf'[(key_head' + k - 1) % KeyBufSize] = stored'[taken' + k]
    <3>1. CASE k = Waiting + 1
      <4>1. taken' + k = Len(stored) + 1
        BY <1>1, <2>2, <3>1
      <4> QED
        BY <1>1, <2>4, <2>6, <2>9, <3>1, <4>1, Zenon
    <3>2. CASE k # Waiting + 1
      <4>1. k \in 1 .. Waiting /\ taken + k \in 1 .. Len(stored)
        BY <2>2, <2>7, <3>2
      <4>2. key_buf[(key_head + k - 1) % KeyBufSize] = stored[taken + k]
        BY <4>1, Zenon DEF KeyInv
      <4> QED
        BY <1>1, <2>4, <2>6, <2>10, <4>1, <4>2, Zenon
    <3> QED
      BY <3>1, <3>2, Zenon
  <2>12. \A i \in 1 .. Len(stored) : stored[i] \in Nat /\ stored[i] < presses
    BY SMTT(30) DEF KeyInv
  <2>13. ASSUME NEW i \in DOMAIN stored', NEW j \in DOMAIN stored', i < j
         PROVE  stored'[i] < stored'[j]
    <3>1. i \in 1 .. Len(stored) + 1 /\ j \in 1 .. Len(stored) + 1
      BY <2>6
    <3>2. CASE j = Len(stored) + 1
      BY <2>2, <2>6, <2>12, <2>13, <3>1, <3>2, SMTT(30)
    <3>3. CASE j # Len(stored) + 1
      <4>1. i \in 1 .. Len(stored) /\ j \in 1 .. Len(stored)
        BY <2>2, <2>13, <3>1, <3>3, SMTT(30)
      <4>2. i \in DOMAIN stored /\ j \in DOMAIN stored
        BY <4>1, SMTT(30) DEF KeyInv
      <4>3. stored[i] < stored[j]
        BY <2>13, <4>2, Zenon DEF KeyInv
      <4> QED
        BY <2>6, <4>1, <4>3, Zenon
    <3> QED
      BY <3>2, <3>3, Zenon
  <2>14. ASSUME NEW i \in DOMAIN stored'
         PROVE  stored'[i] <= presses' /\ (Keyboard \in irr' => stored'[i] < presses')
    <3>1. i \in 1 .. Len(stored) + 1
      BY <2>6
    <3> QED
      BY <1>1, <2>2, <2>5, <2>6, <2>12, <3>1, SMTT(30)
  <2>15. key_tail' = (key_head' + Waiting') % KeyBufSize
    BY <1>1, <2>4, <2>7, Zenon
  <2> QED
    BY <1>1, <2>2, <2>5, <2>6, <2>8, <2>9, <2>11, <2>13, <2>14, <2>15, Zenon DEF KeyInv
<1> QED
  BY <1>2, <1>3, Zenon

(* Every step of the system keeps the keys in order. *)
LEMMA KeyInvNext == KeyInv /\ [Next]_vars => KeyInv'
<1> SUFFICES ASSUME KeyInv, [Next]_vars PROVE KeyInv'
  BY Zenon
<1>1. CASE UNCHANGED ringVars /\ (Keyboard \in irr' => Keyboard \in irr)
  BY <1>1, Zenon DEF ringVars, KeyInv, Waiting
<1> QED
  BY <1>1, KeySteps, KeyInvPress, KeyInvIrq, KeyInvGetc, Zenon

(* The keyboard's ring hands out every key that keyboard_irq stored, once and
   in the order of the presses, also when a request outlives the byte it was
   made for, for every size of the ring. *)
THEOREM KeysSound == Spec => []KeysInOrder
<1>1. KeyInv => KeysInOrder
  <2> SUFFICES ASSUME KeyInv PROVE KeysInOrder
    BY Zenon
  <2>1. (key_tail - key_head + KeyBufSize) % KeyBufSize = Waiting
    BY RingDistance, PlatformAssumption, Zenon DEF KeyInv
  <2> QED
    BY <2>1, Zenon DEF KeyInv, KeysInOrder, Waiting
<1> QED
  BY <1>1, KeyInvInit, KeyInvNext, PTL DEF Spec
=============================================================================
