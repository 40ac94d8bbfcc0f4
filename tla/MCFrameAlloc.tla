---------------------------- MODULE MCFrameAlloc ----------------------------
(***************************************************************************)
(* Small memory maps for FrameAlloc.                                       *)
(***************************************************************************)
EXTENDS FrameAlloc

\* A frame below HighFrame, a reserved hole, then a region that takes the bitmap
\* at its start and has room for ten frames behind it.
TwoRegions == <<[base |-> 1, len |-> 1], [base |-> 4, len |-> 12]>>

\* Room for nine frames that starts late in a byte, then reserved memory, then
\* the region that takes the bitmap.
LongRegions == <<[base |-> 7, len |-> 9], [base |-> 20, len |-> 2]>>
=============================================================================
