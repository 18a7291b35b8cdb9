-------------------------------- MODULE Heap --------------------------------
(***************************************************************************)
(* The kernel heap, mm/heap.c: a list of blocks, each behind its header.   *)
(* It begins as the array heap_area and grows by pages that are mapped     *)
(* from HEAP_VIRT_START on.  Addresses and sizes are in bytes.             *)
(*                                                                         *)
(* The kernel allocates one image buffer at a time; the other clients are  *)
(* modules, which get kmalloc, kfree and krealloc as their interface and   *)
(* run with interrupts off.  They give back only what they hold.           *)
(***************************************************************************)
EXTENDS Integers, Sequences, SequencesExt, FiniteSetsExt

CONSTANTS
  Word,       \* 2^32: sizes are counted modulo this
  HeapStart,  \* address of heap_area
  HeapBytes,  \* HEAP_BYTES
  VirtStart,  \* HEAP_VIRT_START
  PageBytes,  \* PAGE_SIZE
  Sizes,      \* bound: sizes that are asked for
  TablePages, \* pages that heap_table maps (1024)
  MaxPages,   \* bound: pages by which the heap grows
  MaxCalls    \* bound: calls in a behaviour

Header == 16  \* sizeof(block_t)
Align == 8

(* What lies behind heap_area is so far below the pages that blocks which  *)
(* reach beyond the array do not meet them.                                *)
ASSUME HeapAssumption ==
  /\ HeapStart > 0 /\ HeapBytes > Header /\ PageBytes > Header
  /\ VirtStart >= HeapStart + HeapBytes + MaxPages * PageBytes

VARIABLES
  blocks,  \* the list from head on, with address, size and free flag
  pages,   \* (heap_virt_top - HEAP_VIRT_START) / PAGE_SIZE
  held,    \* history: the pointers in use, with the size asked for
  overrun, \* history: the sizes for which krealloc copied past the new block
  panicked, \* the machine has halted
  calls

vars == <<blocks, pages, held, overrun, panicked, calls>>

Block(addr, size) == [addr |-> addr, size |-> size, free |-> TRUE]
Pointer(b) == b.addr + Header
IndexOf(bs, p) == CHOOSE i \in DOMAIN bs : Pointer(bs[i]) = p

Init ==
  /\ blocks = <<Block(HeapStart, HeapBytes - Header)>>
  /\ pages = 0 /\ held = {} /\ overrun = {} /\ panicked = FALSE /\ calls = 0

-----------------------------------------------------------------------------
(* Mutant: the remainder begins before the end of the block. *)
SplitShort(bs, i, n) ==
  IF bs[i].size < n + Header + Align THEN bs
  ELSE ReplaceAt(SubSeq(bs, 1, i), i, [bs[i] EXCEPT !.size = n])
       \o <<Block(bs[i].addr + n, bs[i].size - n - Header)>>
       \o SubSeq(bs, i + 1, Len(bs))
(* split: block i keeps n bytes if a header and eight bytes remain. *)
Split(bs, i, n) ==
  IF bs[i].size < n + Header + Align THEN bs
  ELSE ReplaceAt(SubSeq(bs, 1, i), i, [bs[i] EXCEPT !.size = n])
       \o <<Block(Pointer(bs[i]) + n, bs[i].size - n - Header)>>
       \o SubSeq(bs, i + 1, Len(bs))

(* Mutant: the header of the second block is forgotten. *)
JoinedShort(b, c) == [b EXCEPT !.size = @ + c.size]
Joined(b, c) == [b EXCEPT !.size = @ + Header + c.size]
(* merge: neighbours of the list that are both free become one, whether or *)
(* not they are neighbours in memory.                                      *)
Merge(bs) ==
  FoldLeft(LAMBDA out, b :
             IF out # <<>> /\ Last(out).free /\ b.free
             THEN ReplaceAt(out, Len(out), Joined(Last(out), b)) ELSE Append(out, b),
           <<>>, bs)

(* Mutant: the header is not taken off the page. *)
GrownWhole(bs, from, g) ==
  bs \o [k \in 1 .. g |-> Block(VirtStart + (from + k - 1) * PageBytes, PageBytes)]
(* grow, g times. *)
Grown(bs, from, g) ==
  bs \o [k \in 1 .. g |-> Block(VirtStart + (from + k - 1) * PageBytes, PageBytes - Header)]
(* A page beyond the only table is not mapped, vmm_map says nothing, and   *)
(* the store of its header faults.                                         *)
Mapped(top) == top <= TablePages

Rounded(n) == (((n + Align - 1) % Word) \div Align) * Align
Fits(bs, n) == {i \in DOMAIN bs : bs[i].free /\ bs[i].size >= n}

(* kmalloc for n > 0: the first block that is large enough; the heap grows *)
(* until there is one or none of the avail pages that memory has left is   *)
(* left.  The result 0 is failure.                                         *)
Allocated(bs, from, n, avail) ==
  LET r == Rounded(n)
      g == Min({k \in 0 .. avail : Fits(Grown(bs, from, k), r) # {}} \cup {avail})
      grown == Grown(bs, from, g)
      i == Min(Fits(grown, r))
      cut == Split(grown, i, r)
  IN  IF Fits(grown, r) = {} THEN [blocks |-> grown, pages |-> from + g, ptr |-> 0]
      ELSE [blocks |-> [cut EXCEPT ![i].free = FALSE], pages |-> from + g,
            ptr |-> Pointer(cut[i])]
Freed(bs, p) == Merge([bs EXCEPT ![IndexOf(bs, p)].free = TRUE])

-----------------------------------------------------------------------------
(* After an overrun the list is what the client's bytes say as headers:    *)
(* the model ends there.                                                   *)
Called == ~panicked /\ overrun = {} /\ calls < MaxCalls /\ calls' = calls + 1

Panic == panicked' = TRUE /\ UNCHANGED <<blocks, pages, held, overrun>>

kmalloc(n) ==
  /\ Called /\ n > 0
  /\ \E avail \in 0 .. MaxPages - pages :
       LET a == Allocated(blocks, pages, n, avail)
       IN  \/ ~Mapped(a.pages) /\ Panic
           \/ /\ Mapped(a.pages)
              /\ blocks' = a.blocks /\ pages' = a.pages
              /\ held' = held \cup {[ptr |-> q, asked |-> n] : q \in {a.ptr} \ {0}}
              /\ UNCHANGED <<overrun, panicked>>

kfree(h) ==
  /\ Called
  /\ blocks' = Freed(blocks, h.ptr)
  /\ held' = held \ {h}
  /\ UNCHANGED <<pages, overrun, panicked>>

(* krealloc of a block: nothing is left of it, it is large enough, or it   *)
(* moves.  The size it is cut to is not rounded.                           *)
ReallocInPlace(h, n) ==
  /\ Called /\ n > 0
  /\ blocks[IndexOf(blocks, h.ptr)].size >= n
  /\ blocks' = Split(blocks, IndexOf(blocks, h.ptr), n)
  /\ held' = (held \ {h}) \cup {[ptr |-> h.ptr, asked |-> n]}
  /\ UNCHANGED <<pages, overrun, panicked>>
(* The copy writes as many bytes as the old block has, without a look at   *)
(* the new one: beyond its end they overwrite the header of the block that *)
(* follows, which kfree then reads.                                        *)
Copied(bs, p) == bs[IndexOf(bs, p)].size
ReallocMove(h, n) ==
  /\ Called /\ n > 0
  /\ blocks[IndexOf(blocks, h.ptr)].size < n
  /\ \E avail \in 0 .. MaxPages - pages :
       LET a == Allocated(blocks, pages, n, avail)
           Fails == a.ptr = 0
           Overruns == Copied(a.blocks, h.ptr) > a.blocks[IndexOf(a.blocks, a.ptr)].size
       IN  \/ ~Mapped(a.pages) /\ Panic
           \/ /\ Mapped(a.pages) /\ Fails
              /\ blocks' = a.blocks /\ pages' = a.pages
              /\ UNCHANGED <<held, overrun, panicked>>
           \/ /\ Mapped(a.pages) /\ ~Fails /\ ~Overruns
              /\ blocks' = Freed(a.blocks, h.ptr) /\ pages' = a.pages
              /\ held' = (held \ {h}) \cup {[ptr |-> a.ptr, asked |-> n]}
              /\ UNCHANGED <<overrun, panicked>>
           \/ /\ Mapped(a.pages) /\ ~Fails /\ Overruns
              /\ blocks' = a.blocks /\ pages' = a.pages
              /\ overrun' = {n}
              /\ UNCHANGED <<held, panicked>>
krealloc(h, n) == \/ n = 0 /\ kfree(h)
                  \/ ReallocInPlace(h, n)
                  \/ ReallocMove(h, n)

Next == \/ \E n \in Sizes : kmalloc(n)
        \/ \E h \in held : kfree(h)
        \/ \E h \in held, n \in Sizes : krealloc(h, n)

Spec == Init /\ [][Next]_vars

-----------------------------------------------------------------------------
(* Blocks do not overlap, their headers included: what kmalloc and         *)
(* krealloc return is used by nobody else and holds the bytes asked for,   *)
(* and it stays so while its neighbours are split, merged and moved.  The  *)
(* exception are sizes that rounding takes past 2^32: the block they get   *)
(* is too small, and they alone make the copy of krealloc leave its block, *)
(* over the header behind it, which ends all of this.                      *)
HeldApart ==
  /\ \A n \in overrun : n > Word - Align
  /\ overrun = {} =>
       /\ \A i, j \in DOMAIN blocks :
            i # j => \/ Pointer(blocks[i]) + blocks[i].size <= blocks[j].addr
                     \/ Pointer(blocks[j]) + blocks[j].size <= blocks[i].addr
       /\ \A h \in held : \E b \in Range(blocks) :
            /\ Pointer(b) = h.ptr /\ ~b.free
            /\ h.asked <= Word - Align => h.asked <= b.size

(* As long as krealloc has not overwritten a header (HeldApart says when   *)
(* it does), every byte of the array and of the pages belongs to one       *)
(* header or one block of the list, however often blocks were split and    *)
(* merged, and a block that is not free is held by somebody: the heap      *)
(* leaks nothing.                                                          *)
Accounted ==
  overrun = {} =>
    /\ MapThenSumSet(LAMBDA b : Header + b.size, Range(blocks))
         = HeapBytes + pages * PageBytes
    /\ Cardinality({b \in Range(blocks) : ~b.free}) = Cardinality(held)

(* As long as krealloc has not overwritten a header, a block lies in the   *)
(* array or in pages that heap_table maps, with one exception: merge joins *)
(* the free end of the array to the first page as if they were neighbours  *)
(* in memory.  Only after this, when the header of the first page is gone  *)
(* from the list, do blocks reach beyond the array.                        *)
InsideHeap ==
  overrun = {} =>
    /\ pages <= TablePages
    /\ \A b \in Range(blocks) :
         LET end == Pointer(b) + b.size
         IN  \/ end <= HeapStart + HeapBytes
             \/ VirtStart <= b.addr /\ end <= VirtStart + pages * PageBytes
             \/ /\ b.addr < VirtStart /\ pages > 0
                /\ \A c \in Range(blocks) : c.addr # VirtStart
=============================================================================
