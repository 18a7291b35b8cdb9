------------------------------ MODULE MCMemory ------------------------------
(* Memory of ten frames with a hole in the map at frame 3, two user pages  *)
(* with page tables and one without.  The executables: one that is         *)
(* accepted, one with a segment in the page of the stack, and one that     *)
(* fails after its first segment.  The flags for mmap: none, and PAGE_COW  *)
(* with the lowest bit of the frame number.                                *)
EXTENDS Memory

MCAvailable == (0 .. 9) \ {3}
MCFlags == {[cow |-> FALSE, frame |-> [f \in Frames |-> f]],
            [cow |-> TRUE, frame |-> [f \in Frames |-> f + 1 - (f % 2)]]}
Text == [page |-> 1, write |-> FALSE, holds |-> "text"]
Bss == [page |-> 1, write |-> TRUE, holds |-> "zero"]
AtStack == [page |-> StackPage, write |-> TRUE, holds |-> "zero"]
MCImages == {Image(TRUE, TRUE, <<Bss>>), Image(TRUE, TRUE, <<AtStack>>),
             Image(TRUE, FALSE, <<Text>>)}
=============================================================================
