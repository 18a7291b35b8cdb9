------------------------------ MODULE Devices ------------------------------
(***************************************************************************)
(* How kmain finds the disks: PCI lookup and the sizing of base address    *)
(* registers (drivers/pci/pci.c), the handshake with a legacy virtio block *)
(* device and its failure paths (virtio_blk_init), DMA buffers             *)
(* (drivers/dma/dma.c), ATA identification, and the registration with the  *)
(* block layer (drivers/block.c).  AHCI, NVMe and network controllers are  *)
(* looked for and left alone.                                              *)
(*                                                                         *)
(* A machine's functions on bus 0 are a function pci from 8 * slot +       *)
(* function, the order of the scan, to vendor, class and BAR 0.  An        *)
(* identification is the pair of class and subclass.                       *)
(***************************************************************************)
EXTENDS Pmm, Sequences

CONSTANTS
  BarBits,        \* width of a base address register (32)
  PortLimit,      \* ports lie below this (2^16)
  VirtQueueSize,  \* VIRTIO_QUEUE_SIZE
  QueuePages, RequestPages,  \* pages of the two buffers (2 and 1)
  BlockMax        \* BLOCK_MAX_DEVICES

VARIABLES
  pmm,          \* the page allocator
  initialized,  \* of dma.c
  devices,      \* the block layer's devices, in the order of registration
  virtio,       \* status bits and queue address in the device; the driver's
                \* present flag and its two buffers
  present       \* which of ahci.c, nvme.c, nic.c and ata.c found something

deviceVars == <<pmm, initialized, devices, virtio, present>>

(* Bits of the status register. *)
VirtioStatus == {"ack", "driver", "driver_ok", "failed"}
NoBuffer == {}
VirtioReset ==
  [status |-> {}, queue |-> 0, present |-> FALSE,
   queue_dma |-> NoBuffer, request_dma |-> NoBuffer]

-----------------------------------------------------------------------------
(* A function on the bus; an address without one reads as all ones. *)
pci_device(class, vendor, bar, qsize) ==
  [class |-> class, vendor |-> vendor, bar |-> bar, qsize |-> qsize]
read_device(pci, f) == f \in DOMAIN pci
(* pci_find_class: the first function of the class, or -1. *)
pci_find_class(pci, class) ==
  LET of == {f \in 0 .. 255 : read_device(pci, f) /\ pci[f].class = class}
  IN  IF of = {} THEN -1 ELSE Min(of)

(* A register as the device implements it: the size is decoded in the bits *)
(* below 2^decoded (an I/O register may leave the upper ones zero), and    *)
(* the low bits, which hold the type, cannot be written.                   *)
TypeBits(bar) == IF bar.io THEN 4 ELSE 16
Ones(bar) == 2^bar.decoded - bar.size + bar.type
Original(bar) == IF bar.size = 0 THEN 0 ELSE bar.base + bar.type

(* ~mask + 1 *)
SizeOf(mask) == (2^BarBits - mask) % 2^BarBits

(* pci_read_bar writes ones, reads the mask and puts the original back.    *)
(* A 64-bit register above 4 GB is refused before anything is written.     *)
pci_read_bar(bar) ==
  LET mask == (Ones(bar) \div TypeBits(bar)) * TypeBits(bar)
      good == /\ Original(bar) \notin {0, 2^BarBits - 1}
              /\ ~bar.high
              /\ mask \notin {0, 2^BarBits - 1}
  IN  [ok |-> good, io |-> bar.io,
       base |-> (Original(bar) \div TypeBits(bar)) * TypeBits(bar),
       size |-> IF good THEN SizeOf(mask) ELSE 0]

-----------------------------------------------------------------------------
(* dma_alloc fails before dma_init; dma_free gives every page back. *)
dma_alloc(m, n) == IF initialized THEN DmaBuffer(m, n) ELSE NoBuffer
(* Mutant: the failure path keeps the pages. *)
dma_free_nothing(m, buffer) == m
dma_free(m, buffer) == FoldSet(LAMBDA f, acc : Free(acc, f), m, buffer)

(* block_register; every caller passes a present device with 512-byte      *)
(* sectors and a read function.                                            *)
block_register(ds, d) == IF Len(ds) >= BlockMax THEN ds ELSE Append(ds, d)

block_init == devices' = <<>> /\ UNCHANGED <<pmm, initialized, virtio, present>>
dma_init == initialized' = TRUE /\ UNCHANGED <<pmm, devices, virtio, present>>

-----------------------------------------------------------------------------
(* The device virtio_blk_init accepts: the first one of the class, if it   *)
(* is a legacy virtio disk with an I/O register that a port can reach.     *)
IsVirtioBlk(pci) ==
  LET f == pci_find_class(pci, "scsi")
  IN  /\ f # -1 /\ pci[f].vendor = "virtio"
      /\ LET bar == pci_read_bar(pci[f].bar)
         IN  bar.ok /\ bar.io /\ bar.base < PortLimit

(* fail: the status as it is, with FAILED. *)
fail(v) == [v EXCEPT !.status = @ \cup {"failed"}]

(* Reset, ACK and DRIVER, the queue's size, the two buffers, the queue's   *)
(* address, DRIVER_OK, and last the registration.                          *)
virtio_blk_init(pci) ==
  LET f == pci_find_class(pci, "scsi")
      acked == [virtio EXCEPT !.status = {"ack", "driver"}]
      q == dma_alloc(pmm, QueuePages)
      m == Taken(pmm, q)
      r == IF q = NoBuffer THEN NoBuffer ELSE dma_alloc(m, RequestPages)
  IN  /\ \/ ~IsVirtioBlk(pci) /\ UNCHANGED <<pmm, virtio, devices>>
         \/ /\ IsVirtioBlk(pci) /\ pci[f].qsize < VirtQueueSize
            /\ virtio' = fail(acked)
            /\ UNCHANGED <<pmm, devices>>
         \/ /\ IsVirtioBlk(pci) /\ pci[f].qsize >= VirtQueueSize
            /\ q = NoBuffer \/ r = NoBuffer
            /\ pmm' = dma_free(m, q)
            /\ virtio' = fail(acked)
            /\ UNCHANGED devices
         \/ /\ IsVirtioBlk(pci) /\ pci[f].qsize >= VirtQueueSize
            /\ q # NoBuffer /\ r # NoBuffer
            /\ pmm' = Taken(m, r)
            /\ virtio' = [status |-> {"ack", "driver", "driver_ok"}, queue |-> Min(q),
                          present |-> TRUE, queue_dma |-> q, request_dma |-> r]
            /\ devices' = block_register(devices, "virtio")
      /\ UNCHANGED <<initialized, present>>

(* ahci_init, nvme_init and nic_init only remember what they found. *)
Probe(pci, class) ==
  /\ present' = IF pci_find_class(pci, class) = -1 THEN present \ {class}
                ELSE present \cup {class}
  /\ UNCHANGED <<pmm, initialized, devices, virtio>>
ahci_init(pci) == Probe(pci, "ahci")
nvme_init(pci) == Probe(pci, "nvme")
nic_init(pci) == Probe(pci, "nic")

(* ata_init: a drive that is absent, reports an error or stays busy is not *)
(* registered.                                                             *)
ata_init(drive) ==
  /\ \/ drive # "ready" /\ present' = present \ {"ata"} /\ UNCHANGED devices
     \/ /\ drive = "ready"
        /\ present' = present \cup {"ata"}
        /\ devices' = block_register(devices, "ata")
  /\ UNCHANGED <<pmm, initialized, virtio>>

-----------------------------------------------------------------------------
(* Every block device that is registered has been set up to the end: of    *)
(* virtio, that DRIVER_OK is set and FAILED is not, and that the device    *)
(* was given a queue in pages that the allocator counts as taken, apart    *)
(* from the request's.  An attempt that failed, at whichever step, leaves  *)
(* no page taken and the device never told to go.                          *)
RegisteredIsReady ==
  /\ virtio.status \subseteq VirtioStatus
  /\ \A i, j \in DOMAIN devices : i # j => devices[i] # devices[j]
  /\ \A i \in DOMAIN devices : devices[i] = "ata" => "ata" \in present
  /\ IF \E i \in DOMAIN devices : devices[i] = "virtio"
     THEN /\ virtio.present /\ virtio.status = {"ack", "driver", "driver_ok"}
          /\ virtio.queue \in virtio.queue_dma
          /\ virtio.queue_dma \cap virtio.request_dma = {}
          /\ \A f \in virtio.queue_dma \cup virtio.request_dma :
               f \in pmm.bits /\ pmm.refs[f] = 1
     ELSE /\ "driver_ok" \notin virtio.status
          /\ \A f \in Frames : pmm.refs[f] = 0
=============================================================================
