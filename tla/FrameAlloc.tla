----------------------------- MODULE FrameAlloc -----------------------------
(***************************************************************************)
(* The physical frame allocator, framealloc_t (memory/framealloc.cpp): a   *)
(* bitmap with one bit per 4 KiB frame, searched first fit.  Frames and    *)
(* bit positions are the same numbers: addr_to_idx and idx_to_addr are     *)
(* inverse on frame addresses.  A call is one action: interrupt handlers    *)
(* that allocate in the middle of a call are not part of this module.      *)
(***************************************************************************)
EXTENDS Integers, Sequences

CONSTANTS
  Regions,        \* usable_memory_regions: a sequence of [base, len], in frames
  NumFrames,      \* total_mem_bytes / frame_size
  FrameBytes,     \* frame_size: bytes of bitmap that fit in one frame
  HighFrame,      \* the frame of address 0x100000
  StrayBits,      \* how many bits behind the bitmap an overrun can read
  Sizes           \* the num of the alloc_contiguous_frames calls

ASSUME LayoutAssumption ==
  /\ NumFrames \in Nat /\ HighFrame \in Nat /\ StrayBits \in Nat
  /\ FrameBytes \in Nat \ {0}
  /\ Regions \in Seq([base : Nat, len : Nat])
  /\ Sizes \subseteq Nat \ {0}

VARIABLES
  used,   \* the bits that are set, the stray ones behind the bitmap included
  live,   \* the allocations clients hold, [base, num] records
  oom     \* the call that ended in kpanic("Out of Memory!")

vars == <<used, live, oom>>

(***************************************************************************)
(* The layout the constructor computes.                                    *)
(***************************************************************************)
BitmapSize == (NumFrames \div 8) + (IF NumFrames % 8 # 0 THEN 1 ELSE 0)

Bits == 0 .. 8 * BitmapSize - 1

Stray == 8 * BitmapSize .. 8 * BitmapSize + StrayBits - 1

Run(base, num) == base .. base + num - 1

Usable == UNION {Run(Regions[i].base, Regions[i].len) : i \in DOMAIN Regions}

\* The regions the constructor's search accepts for the bitmap.
FitsBitmap(r) == /\ r.base + r.len > HighFrame
                 /\ r.len * FrameBytes >= BitmapSize

\* The search does not stop at a hit: the last region that fits wins.
BitmapBase ==
  LET fits == {i \in DOMAIN Regions : FitsBitmap(Regions[i])}
  IN  Regions[CHOOSE i \in fits : \A j \in fits : j <= i].base

\* cur <= first + bitmap_size: one frame more than the bitmap may need.
BitmapFrames == Run(BitmapBase, (BitmapSize \div FrameBytes) + 1)

\* Some region fits ("Could not find suitable region for PMM bitmap!" is not
\* reached); of finitely many, one is the last.
ASSUME BitmapAssumption ==
  \E i \in DOMAIN Regions :
    /\ FitsBitmap(Regions[i])
    /\ \A j \in DOMAIN Regions : FitsBitmap(Regions[j]) => j <= i

Allocatable == (Usable \ BitmapFrames) \cap Bits

(***************************************************************************)
(* The constructor: every bit set, the usable regions cleared, the         *)
(* bitmap's own frames set again.  The bytes behind the bitmap are         *)
(* whatever the memory held.                                               *)
(***************************************************************************)
\* Mutant of Init: the bitmap's own frames stay free.
InitBitmapUnprotected ==
  /\ \E garbage \in SUBSET Stray : used = (Bits \cup garbage) \ Usable
  /\ live = {}
  /\ oom = [call |-> "none", num |-> 0]

Init ==
  /\ \E garbage \in SUBSET Stray :
       used = ((Bits \cup garbage) \ Usable) \cup BitmapFrames
  /\ live = {}
  /\ oom = [call |-> "none", num |-> 0]

Running == oom.call = "none"

(***************************************************************************)
(* find_free_frame and find_contiguous_frames.                             *)
(***************************************************************************)
\* Mutant of Walk: the increment never carries into the next byte.
WalkNoCarry(f, i) == [byte |-> f \div 8, bit |-> ((f % 8) + i) % 9]

\* The bit that i increments of next lead to from bit f.  The test before an
\* increment is bitidx + 1 > 8, so a byte has nine positions, 0 to 8.
Walk(f, i) == LET s == (f % 8) + i IN [byte |-> (f \div 8) + (s \div 9), bit |-> s % 9]

\* is_frame_used: a byte has no bit 8, so that position always reads as free.
IsFrameUsed(idx) == idx.bit # 8 /\ 8 * idx.byte + idx.bit \in used

\* Mutant of StartsRun: i < num - 1 where the code has i < num.
StartsRunShort(f, num) ==
  /\ f \notin used
  /\ \A i \in 1 .. num - 2 : ~IsFrameUsed(Walk(f, i))

\* The frame itself and the num positions after it must read as free.
StartsRun(f, num) ==
  /\ f \notin used
  /\ \A i \in 1 .. num : ~IsFrameUsed(Walk(f, i))

FirstFree(f) ==
  /\ f \in Bits \ used
  /\ \A g \in 0 .. f - 1 : g \in used

FirstRun(f, num) ==
  /\ f \in Bits
  /\ StartsRun(f, num)
  /\ \A g \in 0 .. f - 1 : ~StartsRun(g, num)

(***************************************************************************)
(* The operations.                                                         *)
(***************************************************************************)
HandOut(base, num) ==
  /\ used' = used \cup Run(base, num)
  /\ live' = live \cup {[base |-> base, num |-> num]}
  /\ UNCHANGED oom

OutOfMemory(call, num) ==
  /\ oom' = [call |-> call, num |-> num]
  /\ UNCHANGED <<used, live>>

AllocFrame ==
  /\ Running
  /\ \/ \E f \in Bits : FirstFree(f) /\ HandOut(f, 1)
     \/ Bits \subseteq used /\ OutOfMemory("alloc_frame", 1)

\* Mutant of AllocContiguousFrames: only the first free frame is tried.
AllocContiguousFirstHole(num) ==
  /\ Running
  /\ \/ \E f \in Bits : FirstFree(f) /\ StartsRun(f, num) /\ HandOut(f, num)
     \/ /\ \A f \in Bits : FirstFree(f) => ~StartsRun(f, num)
        /\ OutOfMemory("alloc_contiguous_frames", num)

AllocContiguousFrames(num) ==
  /\ Running
  /\ \/ \E f \in Bits : FirstRun(f, num) /\ HandOut(f, num)
     \/ /\ \A f \in Bits : ~StartsRun(f, num)
        /\ OutOfMemory("alloc_contiguous_frames", num)

\* Mutant of FreeContiguousFrames: num is not passed on, one frame is freed.
FreeContiguousFirstOnly(a) ==
  /\ Running
  /\ used' = used \ {a.base}
  /\ live' = live \ {a}
  /\ UNCHANGED oom

FreeContiguousFrames(a) ==
  /\ Running
  /\ used' = used \ Run(a.base, a.num)
  /\ live' = live \ {a}
  /\ UNCHANGED oom

FreeFrame(f) ==
  /\ Running
  /\ used' = used \ {f}
  /\ live' = live \ {[base |-> f, num |-> 1]}
  /\ UNCHANGED oom

\* kpanic never returns.
Halted == ~Running /\ UNCHANGED vars

\* A client frees what it holds, and frees it once.
Next ==
  \/ AllocFrame
  \/ \E num \in Sizes : AllocContiguousFrames(num)
  \/ \E a \in live : FreeContiguousFrames(a)
  \/ \E a \in live : a.num = 1 /\ FreeFrame(a.base)
  \/ Halted

Spec == Init /\ [][Next]_vars
-----------------------------------------------------------------------------
(***************************************************************************)
(* Properties.                                                             *)
(***************************************************************************)
\* Bits, allocations and the out-of-memory record have the types of the code:
\* the set bits are bit positions, an allocation has a base and a length.
TypeOK ==
  /\ used \subseteq Nat
  /\ live \subseteq [base : Nat, num : Nat \ {0}]
  /\ oom \in [call : {"none", "alloc_frame", "alloc_contiguous_frames"}, num : Nat]

\* No frame is in two outstanding allocations, whatever was allocated and freed
\* before: the run find_contiguous_frames returns is free up to its last frame.
AllocationsDisjoint ==
  \A a, b \in live :
    a # b => Run(a.base, a.num) \cap Run(b.base, b.num) = {}

\* "Mark all frames as used, then mark all 'usable space' as free"
\* (framealloc.cpp:38): only usable memory is ever handed out, and of that never
\* the frames that hold the bitmap.
OnlyUsableHandedOut ==
  \A a \in live : Run(a.base, a.num) \subseteq Allocatable

\* The bitmap and the clients agree frame by frame: a set bit of allocatable
\* memory is held by a client, a clear one by nobody.  A run marked with other
\* bounds than it was found or freed with would leak or free a frame.
BitmapAgrees ==
  LET held == UNION {Run(a.base, a.num) : a \in live}
  IN  used \cap Allocatable = held \cap Allocatable

\* The search gives up too early (it wants one free frame more than it hands
\* out) but by no more than that one frame: when a call for num frames ends in
\* "Out of Memory!", no num + 1 consecutive frames of the bitmap are free, and
\* alloc_frame only gives up when no frame is free.
PanicsOnlyWhenTight ==
  ~Running =>
    LET need == IF oom.call = "alloc_frame" THEN 1 ELSE oom.num + 1
    IN  \A f \in Bits : Run(f, need) \subseteq Bits => Run(f, need) \cap used # {}

\* The allocator keeps the promise of FramePool: each call that returns takes a
\* run of frames nobody held.
Pool == INSTANCE FramePool WITH
          Frames <- Allocatable,
          Sizes <- Sizes \cup {1},
          free <- Allocatable \ used,
          held <- live

ImplementsPool == Pool!PoolSpec

\* A run that ends at the last bit of the bitmap can spill over it; where the
\* memory map keeps that last frame in reserve (as firmware maps do: their
\* highest regions are reserved) no run gets there.
LastFrameReserved == 8 * BitmapSize - 1 \notin Usable
=============================================================================
