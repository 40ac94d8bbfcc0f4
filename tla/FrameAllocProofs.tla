-------------------------- MODULE FrameAllocProofs --------------------------
(***************************************************************************)
(* Proofs about FrameAlloc, for every memory map and every bitmap size.    *)
(***************************************************************************)
EXTENDS FrameAlloc, SequenceTheorems, TLAPS

LEMMA LayoutTypes ==
  /\ BitmapSize \in Nat
  /\ Bits \subseteq Nat
  /\ Stray \subseteq Nat
  /\ BitmapFrames \subseteq Nat
<1>1. BitmapSize \in Nat
  BY LayoutAssumption DEF BitmapSize
<1>2. Bits \subseteq Nat /\ Stray \subseteq Nat
  BY <1>1, LayoutAssumption DEF Bits, Stray
<1>3. BitmapBase \in Nat
  <2> DEFINE fits == {i \in DOMAIN Regions : FitsBitmap(Regions[i])}
             last == CHOOSE i \in fits : \A j \in fits : j <= i
  <2>1. \E i \in fits : \A j \in fits : j <= i
    BY BitmapAssumption
  <2>2. last \in fits
    BY <2>1
  <2>3. last \in DOMAIN Regions
    BY <2>2
  <2>4. \A i \in DOMAIN Regions : Regions[i] \in [base : Nat, len : Nat]
    BY LayoutAssumption, ElementOfSeq, DOMAIN Regions = 1 .. Len(Regions)
  <2>5. Regions[last].base \in Nat
    BY <2>3, <2>4
  <2> QED
    BY <2>5 DEF BitmapBase
<1>4. BitmapFrames \subseteq Nat
  BY <1>1, <1>3, LayoutAssumption DEF BitmapFrames, Run
<1> QED
  BY <1>1, <1>2, <1>4

\* Where the walk over nine positions per byte meets the frames that follow f:
\* up to eight frames further on it has passed bit 8 at most once, so frame
\* f + j is read as position j or as position j + 1.
LEMMA WalkMeetsFrame ==
  ASSUME NEW f \in Nat, NEW j \in 1 .. 8
  PROVE  \E i \in {j, j + 1} :
           /\ Walk(f, i).bit # 8
           /\ 8 * Walk(f, i).byte + Walk(f, i).bit = f + j
<1> DEFINE b == f \div 8
           k == f % 8
<1>1. b \in Nat /\ k \in 0 .. 7 /\ f = 8 * b + k
  OBVIOUS
<1>2. \A i \in Nat : Walk(f, i) = [byte |-> b + ((k + i) \div 9), bit |-> (k + i) % 9]
  BY DEF Walk
<1> HIDE DEF b, k
<1>3. CASE k + j <= 7
  <2>1. (k + j) \div 9 = 0 /\ (k + j) % 9 = k + j
    BY <1>1, <1>3
  <2>2. Walk(f, j) = [byte |-> b, bit |-> k + j]
    BY <1>1, <1>2, <2>1
  <2> QED
    BY <1>1, <1>3, <2>2
<1>4. CASE k + j > 7
  <2>1. (k + (j + 1)) \div 9 = 1 /\ (k + (j + 1)) % 9 = k + j - 8
    BY <1>1, <1>4
  <2>2. Walk(f, j + 1) = [byte |-> b + 1, bit |-> k + j - 8]
    BY <1>1, <1>2, <2>1
  <2> QED
    BY <1>1, <1>4, <2>2
<1> QED
  BY <1>1, <1>3, <1>4

\* The search keeps its word for up to nine frames: the run it stops at is free.
LEMMA StartsRunIsFree ==
  ASSUME NEW f \in Nat, NEW num \in 1 .. 9, StartsRun(f, num)
  PROVE  Run(f, num) \cap used = {}
<1> SUFFICES ASSUME NEW g \in Run(f, num), g \in used
             PROVE  FALSE
  OBVIOUS
<1>1. CASE g = f
  BY <1>1 DEF StartsRun
<1>2. CASE g # f
  <2>1. g - f \in 1 .. num - 1 /\ g - f \in 1 .. 8
    BY <1>2 DEF Run
  <2>2. PICK i \in {g - f, g - f + 1} :
          /\ Walk(f, i).bit # 8
          /\ 8 * Walk(f, i).byte + Walk(f, i).bit = f + (g - f)
    BY <2>1, WalkMeetsFrame
  <2>3. i \in 1 .. num
    BY <2>1
  <2>4. f + (g - f) = g
    BY DEF Run
  <2>5. ~IsFrameUsed(Walk(f, i))
    BY <2>3 DEF StartsRun
  <2> QED
    BY <2>2, <2>4, <2>5 DEF IsFrameUsed
<1> QED
  BY <1>1, <1>2
-----------------------------------------------------------------------------
\* Type correctness.
THEOREM TypeCorrect == Spec => []TypeOK
<1>1. Init => TypeOK
  <2> SUFFICES ASSUME Init PROVE TypeOK
    OBVIOUS
  <2>1. PICK garbage \in SUBSET Stray :
          used = ((Bits \cup garbage) \ Usable) \cup BitmapFrames
    BY DEF Init
  <2>2. used \subseteq Nat
    BY <2>1, LayoutTypes
  <2> QED
    BY <2>2 DEF Init, TypeOK
<1>2. TypeOK /\ [Next]_vars => TypeOK'
  <2> SUFFICES ASSUME TypeOK, [Next]_vars
               PROVE  TypeOK'
    OBVIOUS
  <2>1. ASSUME NEW f \in Bits, NEW num \in Nat \ {0}, HandOut(f, num)
        PROVE  TypeOK'
    <3>1. f \in Nat /\ Run(f, num) \subseteq Nat
      BY <2>1, LayoutTypes DEF Run
    <3>2. [base |-> f, num |-> num] \in [base : Nat, num : Nat \ {0}]
      BY <3>1
    <3> QED
      BY <2>1, <3>1, <3>2 DEF HandOut, TypeOK
  <2>2. CASE AllocFrame
    <3>1. CASE Bits \subseteq used /\ OutOfMemory("alloc_frame", 1)
      BY <3>1 DEF OutOfMemory, TypeOK
    <3>2. CASE \E f \in Bits : FirstFree(f) /\ HandOut(f, 1)
      BY <2>1, <3>2, 1 \in Nat \ {0}
    <3> QED
      BY <2>2, <3>1, <3>2 DEF AllocFrame
  <2>3. ASSUME NEW num \in Sizes, AllocContiguousFrames(num)
        PROVE  TypeOK'
    <3>1. num \in Nat \ {0}
      BY LayoutAssumption
    <3>2. CASE OutOfMemory("alloc_contiguous_frames", num)
      BY <3>1, <3>2 DEF OutOfMemory, TypeOK
    <3>3. CASE \E f \in Bits : FirstRun(f, num) /\ HandOut(f, num)
      BY <2>1, <3>1, <3>3
    <3> QED
      BY <2>3, <3>2, <3>3 DEF AllocContiguousFrames
  <2>4. ASSUME NEW a \in live, FreeContiguousFrames(a)
        PROVE  TypeOK'
    BY <2>4 DEF FreeContiguousFrames, TypeOK
  <2>5. ASSUME NEW a \in live, FreeFrame(a.base)
        PROVE  TypeOK'
    BY <2>5 DEF FreeFrame, TypeOK
  <2>6. CASE Halted
    BY <2>6 DEF Halted, vars, TypeOK
  <2>7. CASE UNCHANGED vars
    BY <2>7 DEF vars, TypeOK
  <2> QED
    BY <2>2, <2>3, <2>4, <2>5, <2>6, <2>7 DEF Next
<1> QED
  BY <1>1, <1>2, PTL DEF Spec

-----------------------------------------------------------------------------
\* What a call does to the bitmap and to the clients when no request is longer
\* than nine frames: it takes a free run, gives a held one back, or neither.
Takes(f, num) == Run(f, num) \cap used = {} /\ HandOut(f, num)

GivesBack(a) == used' = used \ Run(a.base, a.num) /\ live' = live \ {a}

LEMMA StepShape ==
  ASSUME Sizes \subseteq 1 .. 9, TypeOK, [Next]_vars
  PROVE  \/ \E f \in Bits, num \in Sizes \cup {1} : Takes(f, num)
         \/ \E a \in live : GivesBack(a)
         \/ UNCHANGED <<used, live>>
<1>1. CASE AllocFrame
  <2>1. ASSUME NEW f \in Bits, FirstFree(f), HandOut(f, 1)
        PROVE  Takes(f, 1)
    <3>1. Run(f, 1) = {f}
      BY LayoutTypes DEF Run
    <3> QED
      BY <2>1, <3>1 DEF FirstFree, Takes
  <2> QED
    BY <1>1, <2>1 DEF AllocFrame, OutOfMemory
<1>2. ASSUME NEW num \in Sizes, AllocContiguousFrames(num)
      PROVE  \/ \E f \in Bits : Takes(f, num)
             \/ UNCHANGED <<used, live>>
  <2>1. ASSUME NEW f \in Bits, FirstRun(f, num), HandOut(f, num)
        PROVE  Takes(f, num)
    <3>1. f \in Nat /\ num \in 1 .. 9
      BY LayoutTypes
    <3>2. Run(f, num) \cap used = {}
      BY <2>1, <3>1, StartsRunIsFree DEF FirstRun
    <3> QED
      BY <2>1, <3>2 DEF Takes
  <2> QED
    BY <1>2, <2>1 DEF AllocContiguousFrames, OutOfMemory
<1>3. ASSUME NEW a \in live, FreeContiguousFrames(a)
      PROVE  GivesBack(a)
  BY <1>3 DEF FreeContiguousFrames, GivesBack
<1>4. ASSUME NEW a \in live, a.num = 1, FreeFrame(a.base)
      PROVE  GivesBack(a)
  <2>1. a = [base |-> a.base, num |-> 1] /\ Run(a.base, 1) = {a.base}
    BY <1>4 DEF TypeOK, Run
  <2> QED
    BY <1>4, <2>1 DEF FreeFrame, GivesBack
<1>5. CASE Halted \/ UNCHANGED vars
  BY <1>5 DEF Halted, vars
<1> QED
  BY <1>1, <1>2, <1>3, <1>4, <1>5 DEF Next

\* The inductive core: what a client holds is marked, and no two clients hold
\* the same frame.
HeldAreMarked == \A a \in live : Run(a.base, a.num) \subseteq used

DisjointInv == TypeOK /\ HeldAreMarked /\ AllocationsDisjoint

LEMMA DisjointInvHolds ==
  ASSUME Sizes \subseteq 1 .. 9
  PROVE  Spec => []DisjointInv
<1>1. Init => HeldAreMarked /\ AllocationsDisjoint
  BY DEF Init, HeldAreMarked, AllocationsDisjoint
<1>2. DisjointInv /\ [Next]_vars => (HeldAreMarked /\ AllocationsDisjoint)'
  <2> SUFFICES ASSUME DisjointInv, [Next]_vars
               PROVE  HeldAreMarked' /\ AllocationsDisjoint'
    OBVIOUS
  <2>1. ASSUME NEW f \in Bits, NEW num \in Sizes \cup {1}, Takes(f, num)
        PROVE  HeldAreMarked' /\ AllocationsDisjoint'
    BY <2>1 DEF Takes, HandOut, DisjointInv, HeldAreMarked, AllocationsDisjoint
  <2>2. ASSUME NEW a \in live, GivesBack(a)
        PROVE  HeldAreMarked' /\ AllocationsDisjoint'
    BY <2>2 DEF GivesBack, DisjointInv, HeldAreMarked, AllocationsDisjoint
  <2>3. CASE UNCHANGED <<used, live>>
    BY <2>3 DEF DisjointInv, HeldAreMarked, AllocationsDisjoint
  <2> QED
    BY <2>1, <2>2, <2>3, StepShape DEF DisjointInv
<1> QED
  BY <1>1, <1>2, TypeCorrect, PTL DEF Spec, DisjointInv

\* No frame has two holders, as long as nobody asks for more than nine frames
\* at once (the run FrameAlloc_ten shows that ten are too many).
THEOREM NoDoubleAllocation ==
  ASSUME Sizes \subseteq 1 .. 9
  PROVE  Spec => []AllocationsDisjoint
<1>1. DisjointInv => AllocationsDisjoint
  BY DEF DisjointInv
<1> QED
  BY <1>1, DisjointInvHolds, PTL
-----------------------------------------------------------------------------
\* Frames outside the allocatable memory are marked for good; where the last
\* frame of the bitmap is one of them, no free run spills over the end.
ReservedInv == DisjointInv /\ (Bits \ Allocatable) \subseteq used /\ OnlyUsableHandedOut

LEMMA TakesAllocatable ==
  ASSUME LastFrameReserved, (Bits \ Allocatable) \subseteq used,
         NEW f \in Bits, NEW num \in Nat \ {0}, Run(f, num) \cap used = {}
  PROVE  Run(f, num) \subseteq Allocatable
<1> DEFINE last == 8 * BitmapSize - 1
<1>1. BitmapSize \in Nat /\ f \in Nat /\ f <= last
  BY LayoutTypes DEF Bits
<1>2. last \in Bits /\ last \notin Allocatable
  BY <1>1 DEF LastFrameReserved, Allocatable, Bits
<1>3. last \notin Run(f, num)
  BY <1>2
<1>4. f + num - 1 < last
  BY <1>1, <1>3 DEF Run
<1>5. Run(f, num) \subseteq Bits
  BY <1>1, <1>4 DEF Run, Bits
<1> QED
  BY <1>5

LEMMA ReservedInvHolds ==
  ASSUME Sizes \subseteq 1 .. 9, LastFrameReserved
  PROVE  Spec => []ReservedInv
<1> DEFINE Marked == (Bits \ Allocatable) \subseteq used
<1>1. Init => Marked /\ OnlyUsableHandedOut
  BY DEF Init, Allocatable, OnlyUsableHandedOut
<1>2. DisjointInv /\ Marked /\ OnlyUsableHandedOut /\ [Next]_vars
        => (Marked /\ OnlyUsableHandedOut)'
  <2> SUFFICES ASSUME DisjointInv, Marked, OnlyUsableHandedOut, [Next]_vars
               PROVE  Marked' /\ OnlyUsableHandedOut'
    OBVIOUS
  <2>1. ASSUME NEW f \in Bits, NEW num \in Sizes \cup {1}, Takes(f, num)
        PROVE  Marked' /\ OnlyUsableHandedOut'
    <3>1. num \in Nat \ {0}
      BY LayoutAssumption
    <3>2. Run(f, num) \subseteq Allocatable
      BY <2>1, <3>1, TakesAllocatable DEF Takes
    <3> QED
      BY <2>1, <3>2 DEF Takes, HandOut, OnlyUsableHandedOut
  <2>2. ASSUME NEW a \in live, GivesBack(a)
        PROVE  Marked' /\ OnlyUsableHandedOut'
    BY <2>2 DEF GivesBack, OnlyUsableHandedOut
  <2>3. CASE UNCHANGED <<used, live>>
    BY <2>3 DEF OnlyUsableHandedOut
  <2> QED
    BY <2>1, <2>2, <2>3, StepShape DEF DisjointInv
<1> QED
  BY <1>1, <1>2, DisjointInvHolds, PTL DEF Spec, ReservedInv

\* Clients only ever get usable memory, never the bitmap's own frames: for
\* requests of up to nine frames and a memory map whose last frame is reserved.
THEOREM ReservedStaysReserved ==
  ASSUME Sizes \subseteq 1 .. 9, LastFrameReserved
  PROVE  Spec => []OnlyUsableHandedOut
<1>1. ReservedInv => OnlyUsableHandedOut
  BY DEF ReservedInv
<1> QED
  BY <1>1, ReservedInvHolds, PTL

\* No frame leaks and none is freed under its holder: over allocatable memory
\* the set bits are exactly the frames clients hold.
THEOREM BitmapAgreesWithClients ==
  ASSUME Sizes \subseteq 1 .. 9
  PROVE  Spec => []BitmapAgrees
<1> DEFINE Held(L) == UNION {Run(b.base, b.num) : b \in L}
<1>1. Init => BitmapAgrees
  BY DEF Init, BitmapAgrees, Allocatable
<1>2. DisjointInv /\ BitmapAgrees /\ [Next]_vars => BitmapAgrees'
  <2> SUFFICES ASSUME DisjointInv, BitmapAgrees, [Next]_vars
               PROVE  BitmapAgrees'
    OBVIOUS
  <2>1. ASSUME NEW f \in Bits, NEW num \in Sizes \cup {1}, Takes(f, num)
        PROVE  BitmapAgrees'
    <3> DEFINE new == [base |-> f, num |-> num]
    <3>1. Held(live \cup {new}) = Held(live) \cup Run(f, num)
      <4>1. \A x : Held(live \cup {x}) = Held(live) \cup Run(x.base, x.num)
        BY Zenon
      <4>2. new.base = f /\ new.num = num
        OBVIOUS
      <4> QED
        BY <4>1, <4>2
    <3> HIDE DEF Held
    <3>2. used' \cap Allocatable = Held(live') \cap Allocatable
      BY <2>1, <3>1 DEF Takes, HandOut, BitmapAgrees, Held
    <3> QED
      BY <3>2 DEF BitmapAgrees, Held
  <2>2. ASSUME NEW a \in live, GivesBack(a)
        PROVE  BitmapAgrees'
    <3>1. ASSUME NEW b \in live \ {a}
          PROVE  Run(b.base, b.num) \cap Run(a.base, a.num) = {}
      BY DEF DisjointInv, AllocationsDisjoint
    <3>2. Held(live \ {a}) = Held(live) \ Run(a.base, a.num)
      BY <3>1
    <3> HIDE DEF Held
    <3>3. used' \cap Allocatable = Held(live') \cap Allocatable
      BY <2>2, <3>2 DEF GivesBack, BitmapAgrees, Held
    <3> QED
      BY <3>3 DEF BitmapAgrees, Held
  <2>3. CASE UNCHANGED <<used, live>>
    BY <2>3 DEF BitmapAgrees
  <2> QED
    BY <2>1, <2>2, <2>3, StepShape DEF DisjointInv
<1> QED
  BY <1>1, <1>2, DisjointInvHolds, PTL DEF Spec

-----------------------------------------------------------------------------
\* The search does not read past frame f + num before it has made num checks.
LEMMA WalkStaysNear ==
  ASSUME NEW f \in Nat, NEW i \in Nat \ {0}, Walk(f, i).bit # 8
  PROVE  8 * Walk(f, i).byte + Walk(f, i).bit \in f .. f + i
<1> DEFINE b == f \div 8
           k == f % 8
           q == (k + i) \div 9
           r == (k + i) % 9
<1>1. b \in Nat /\ k \in 0 .. 7 /\ f = 8 * b + k
  OBVIOUS
<1>2. q \in Nat /\ r \in 0 .. 8 /\ k + i = 9 * q + r
  BY <1>1
<1>3. Walk(f, i) = [byte |-> b + q, bit |-> r]
  BY DEF Walk
<1> HIDE DEF b, k, q, r
<1>4. r # 8
  BY <1>3
<1>5. 8 * (b + q) + r = f + i - q
  BY <1>1, <1>2
<1>6. q <= i
  BY <1>1, <1>2
<1> QED
  BY <1>2, <1>3, <1>5, <1>6

\* num + 1 free frames in a row are always good enough for the search.
LEMMA OneFrameToSpare ==
  ASSUME TypeOK, NEW f \in Nat, NEW num \in Nat, Run(f, num + 1) \cap used = {}
  PROVE  StartsRun(f, num)
<1>1. f \notin used
  BY DEF Run
<1>2. ASSUME NEW i \in 1 .. num, IsFrameUsed(Walk(f, i))
      PROVE  FALSE
  <2>1. 8 * Walk(f, i).byte + Walk(f, i).bit \in f .. f + i
    BY <1>2, WalkStaysNear DEF IsFrameUsed
  <2>2. 8 * Walk(f, i).byte + Walk(f, i).bit \in Run(f, num + 1)
    BY <2>1 DEF Run
  <2> QED
    BY <1>2, <2>2 DEF IsFrameUsed
<1> QED
  BY <1>1, <1>2 DEF StartsRun

\* A call ends in "Out of Memory!" only if one frame more than it asked for is
\* nowhere free in a row; this needs no bound on the requests.
THEOREM NoEarlyPanic == Spec => []PanicsOnlyWhenTight
<1>1. Init => PanicsOnlyWhenTight
  BY DEF Init, PanicsOnlyWhenTight, Running
<1>2. TypeOK /\ PanicsOnlyWhenTight /\ [Next]_vars => PanicsOnlyWhenTight'
  <2> SUFFICES ASSUME TypeOK, PanicsOnlyWhenTight, [Next]_vars
               PROVE  PanicsOnlyWhenTight'
    OBVIOUS
  <2>1. ASSUME UNCHANGED oom, Running
        PROVE  PanicsOnlyWhenTight'
    BY <2>1 DEF PanicsOnlyWhenTight, Running
  <2>2. CASE AllocFrame
    <3>1. CASE Bits \subseteq used /\ OutOfMemory("alloc_frame", 1)
      <4>1. ASSUME NEW f \in Bits
            PROVE  f \in Run(f, 1) /\ f \in used
        BY <3>1, LayoutTypes DEF Run
      <4> QED
        BY <3>1, <4>1 DEF OutOfMemory, PanicsOnlyWhenTight, Running
    <3> QED
      BY <2>1, <2>2, <3>1 DEF AllocFrame, HandOut
  <2>3. ASSUME NEW num \in Sizes, AllocContiguousFrames(num)
        PROVE  PanicsOnlyWhenTight'
    <3>1. CASE /\ \A f \in Bits : ~StartsRun(f, num)
               /\ OutOfMemory("alloc_contiguous_frames", num)
      <4>1. ASSUME NEW f \in Bits
            PROVE  Run(f, num + 1) \cap used # {}
        BY <3>1, OneFrameToSpare, LayoutTypes, LayoutAssumption
      <4>2. used' = used /\ oom' = [call |-> "alloc_contiguous_frames", num |-> num]
        BY <3>1 DEF OutOfMemory
      <4> QED
        BY <4>1, <4>2 DEF PanicsOnlyWhenTight
    <3> QED
      BY <2>1, <2>3, <3>1 DEF AllocContiguousFrames, HandOut
  <2>4. ASSUME NEW a \in live, FreeContiguousFrames(a)
        PROVE  PanicsOnlyWhenTight'
    BY <2>1, <2>4 DEF FreeContiguousFrames
  <2>5. ASSUME NEW a \in live, FreeFrame(a.base)
        PROVE  PanicsOnlyWhenTight'
    BY <2>1, <2>5 DEF FreeFrame
  <2>6. CASE Halted \/ UNCHANGED vars
    BY <2>6 DEF Halted, vars, PanicsOnlyWhenTight, Running
  <2> QED
    BY <2>2, <2>3, <2>4, <2>5, <2>6 DEF Next
<1> QED
  BY <1>1, <1>2, TypeCorrect, PTL DEF Spec

-----------------------------------------------------------------------------
\* The bitmap allocator implements the abstract pool of frames.
THEOREM ImplementsFramePool ==
  ASSUME Sizes \subseteq 1 .. 9, LastFrameReserved
  PROVE  Spec => ImplementsPool
<1>1. Init => Pool!PoolInit
  BY DEF Init, Pool!PoolInit, Allocatable
<1>2. ReservedInv /\ [Next]_vars => [Pool!PoolNext]_(Pool!poolVars)
  <2> SUFFICES ASSUME ReservedInv, [Next]_vars
               PROVE  Pool!PoolNext \/ UNCHANGED Pool!poolVars
    OBVIOUS
  <2> USE DEF Pool!PoolNext, Pool!Take, Pool!GiveBack, Pool!Run, Pool!poolVars, Run
  <2>1. ASSUME NEW f \in Bits, NEW num \in Sizes \cup {1}, Takes(f, num)
        PROVE  Pool!PoolNext
    <3>1. num \in Nat \ {0} /\ f \in Nat
      BY LayoutAssumption, LayoutTypes
    <3>2. Run(f, num) \subseteq Allocatable
      BY <2>1, <3>1, TakesAllocatable DEF Takes, ReservedInv
    <3>3. f \in Allocatable
      BY <3>1, <3>2
    <3>4. Pool!Take(f, num)
      BY <2>1, <3>2 DEF Takes, HandOut
    <3> QED
      BY <3>3, <3>4
  <2>2. ASSUME NEW a \in live, GivesBack(a)
        PROVE  Pool!PoolNext
    <3>1. Run(a.base, a.num) \subseteq Allocatable
      BY DEF ReservedInv, OnlyUsableHandedOut
    <3>2. Pool!GiveBack(a)
      BY <2>2, <3>1 DEF GivesBack
    <3> QED
      BY <3>2
  <2>3. CASE UNCHANGED <<used, live>>
    BY <2>3
  <2> QED
    BY <2>1, <2>2, <2>3, StepShape DEF ReservedInv, DisjointInv
<1> QED
  BY <1>1, <1>2, ReservedInvHolds, PTL DEF Spec, ImplementsPool, Pool!PoolSpec
=============================================================================
