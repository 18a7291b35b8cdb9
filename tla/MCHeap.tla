------------------------------- MODULE MCHeap -------------------------------
(* A heap of 144 bytes that may grow by two pages of 64, with memory for a *)
(* third, which the page table has no room for.  The sizes: not a          *)
(* multiple of 8, one that needs a page, one larger than a page, and one   *)
(* that rounding takes past the word.                                      *)
EXTENDS Heap
=============================================================================
