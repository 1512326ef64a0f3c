----------------------------- MODULE MCMMAlloc -----------------------------
(* The allocator for TLC.  The size in a header that was merged away grows   *)
(* whenever a stale prev leads there; such words are followed up to the      *)
(* size of the heap.                                                         *)
EXTENDS MMAlloc

Bounded == \A a \in Addresses : mem[a] \in 0..HeapWords \cup Addresses
=============================================================================
