----------------------------- MODULE MCSlabHeap -----------------------------
EXTENDS SlabHeap
=============================================================================
