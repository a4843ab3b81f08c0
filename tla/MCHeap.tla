------------------------------- MODULE MCHeap -------------------------------
(* A small heap: two-byte units and an unaligned start, so that the first unit *)
(* is skipped to, the tail is cut off, and half of the units are misaligned.   *)
EXTENDS Heap
=============================================================================
