-------------------------------- MODULE Pmm --------------------------------
(***************************************************************************)
(* The physical page allocator (mm/pmm.c) and the contiguous DMA buffers   *)
(* carved out of it (drivers/dma/dma.c).                                   *)
(*                                                                         *)
(* The allocator's statics are one record m: the bitmap as the set of      *)
(* frames whose bit is set, page_refs and the two counts.  Every call      *)
(* holds pmm_lock with interrupts off, so it is an operator from a record  *)
(* to a record; a caller that allocates several pages applies it several   *)
(* times.                                                                  *)
(***************************************************************************)
EXTENDS Integers, FiniteSets, FiniteSetsExt

CONSTANTS
  MaxFrame,     \* largest frame number (MAX_PHYS_PAGES - 1)
  KernelFrames, \* frames below __kernel_end
  MaxRefs,      \* largest value of a page_refs entry (0xffff)
  DmaFrames     \* frames below DMA_MAX_ADDRESS

Frames == 0 .. MaxFrame

(* map: the frames the boot loader's memory map calls available.  A map    *)
(* that lists nothing makes every frame usable.                            *)
Usable(map) == IF map = {} THEN Frames ELSE map

ASSUME PmmAssumption ==
  /\ MaxFrame \in Nat
  /\ KernelFrames \in 1 .. MaxFrame
  /\ MaxRefs \in Nat \ {0}
  /\ DmaFrames \in Nat

(* total_pages_count counts usable frames; the scan of pmm_alloc_page uses *)
(* it as the largest frame number, which a hole in the map makes too low.  *)
PmmInit(map) ==
  [bits |-> (Frames \ Usable(map)) \cup 0 .. KernelFrames - 1,
   refs |-> [f \in Frames |-> 0],
   used |-> Cardinality(Usable(map) \cap 0 .. KernelFrames - 1),
   total |-> Cardinality(Usable(map))]

FreeFrames(m) == {f \in 1 .. m.total - 1 : f \notin m.bits}
NextFrame(m) == Min(FreeFrames(m))
Alloc(m) ==
  LET f == NextFrame(m)
  IN  [m EXCEPT !.bits = @ \cup {f}, !.refs[f] = 1, !.used = @ + 1]

Counted(m, f) == f \in 1 .. m.total - 1 /\ f \in m.bits
Retain(m, f) ==
  IF Counted(m, f) /\ m.refs[f] # MaxRefs
  THEN [m EXCEPT !.refs[f] = @ + 1]
  ELSE m
(* Mutant: the last reference clears the bit but not the count. *)
FreeUncounted(m, f) ==
  IF ~Counted(m, f) THEN m
  ELSE IF m.refs[f] > 1 THEN [m EXCEPT !.refs[f] = @ - 1]
  ELSE [m EXCEPT !.bits = @ \ {f}, !.refs[f] = 0]
Free(m, f) ==
  IF ~Counted(m, f) THEN m
  ELSE IF m.refs[f] > 1 THEN [m EXCEPT !.refs[f] = @ - 1]
  ELSE [m EXCEPT !.bits = @ \ {f}, !.refs[f] = 0,
                 !.used = IF @ > 0 THEN @ - 1 ELSE 0]

(* dma_alloc takes pages one at a time and gives them all back unless they *)
(* come out adjacent and low enough, so a failed call changes nothing.     *)
DmaFits(m, n) ==
  /\ Cardinality(FreeFrames(m)) >= n
  /\ LET first == NextFrame(m)
     IN  first .. first + n - 1 \subseteq FreeFrames(m) \cap 0 .. DmaFrames - 1
DmaBuffer(m, n) ==
  IF DmaFits(m, n) THEN NextFrame(m) .. NextFrame(m) + n - 1 ELSE {}
Taken(m, buffer) ==
  [m EXCEPT !.bits = @ \cup buffer,
            !.refs = [f \in Frames |-> IF f \in buffer THEN 1 ELSE @[f]],
            !.used = @ + Cardinality(buffer)]
DmaAlloc(m, n) == Taken(m, DmaBuffer(m, n))

(* virtio_blk_init takes two buffers and keeps neither unless it gets both *)
DriverFrames(m, queue, request) ==
  LET q == DmaBuffer(m, queue)
      r == DmaBuffer(DmaAlloc(m, queue), request)
  IN  IF q = {} \/ r = {} THEN {} ELSE q \cup r
AfterDriver(m, queue, request) ==
  IF DriverFrames(m, queue, request) = {} THEN m
  ELSE DmaAlloc(DmaAlloc(m, queue), request)
=============================================================================
