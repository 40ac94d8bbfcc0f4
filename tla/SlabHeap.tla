------------------------------ MODULE SlabHeap ------------------------------
(***************************************************************************)
(* The kernel heap (memory/allocation.cpp): a circular doubly linked list  *)
(* of slabs, each a slab_t header followed by its data, searched first     *)
(* fit, split on allocation and merged with its list neighbours when       *)
(* freed.  Headers are modelled at their addresses with the fields of the  *)
(* code.  The heap grows by runs of frames from the frame allocator; the   *)
(* usable memory left to it is one region, so runs come in ascending       *)
(* order, and the frames of the page tables that map them lie in between.  *)
(* Every slab of the kernel has the same permissions (readonly and         *)
(* executable are false in all its calls), so they are left out.           *)
(***************************************************************************)
EXTENDS Integers, FiniteSets

CONSTANTS
  H,            \* sizeof(slab_t)
  P,            \* PAGE_SIZE_BYTES
  FirstFrame,   \* the first frame that is free when Allocation::init runs
  MemFrames,    \* the end of usable memory, as a frame number
  LowMapped,    \* frames addrspace_t::bootstrap has mapped at their low address
  Fan,          \* entries of a page table
  Bytes,        \* numbytes of the unaligned requests
  AlignedPages  \* pages of the aligned requests ("we just assume its divisible")

ASSUME HeapAssumption ==
  /\ H \in Nat \ {0} /\ P \in Nat /\ P > 2 * H
  /\ FirstFrame \in Nat /\ MemFrames \in Nat
  /\ Fan \in Nat \ {0}
  /\ LowMapped \subseteq Nat
  /\ Bytes \subseteq Nat \ {0}
  /\ AlignedPages \subseteq Nat \ {0}

VARIABLES
  slab,       \* the headers in the list: address -> slab_t
  nextFrame,  \* the first free frame
  mapped,     \* frames mapped at their low address
  pages,      \* frames the heap was given
  blocks,     \* what clients hold: [slab, bytes, aligned]
  apart,      \* has a slab been joined to memory that does not adjoin it?
  halted      \* kpanic("Out of Memory!")

vars == <<slab, nextFrame, mapped, pages, blocks, apart, halted>>

slab_head == FirstFrame * P

Header(next, previous, size, is_free) ==
  [next |-> next, previous |-> previous, size |-> size, is_free |-> is_free]

find_last_slab(h) == h[slab_head].previous

\* Where the data of slab s ends.
End(h, s) == s + H + h[s].size

\* Mutant of Inserted: nx->previous is not set.
InsertedOneWay(h, p, nx, psize, s, size) ==
  [a \in DOMAIN h \cup {s} |->
    IF a = s
    THEN Header(nx, p, size, TRUE)
    ELSE Header(IF a = p THEN s ELSE h[a].next,
                h[a].previous,
                IF a = p THEN psize ELSE h[a].size,
                h[a].is_free)]

\* Header s, free and with size bytes of data, linked in between the slabs p
\* and nx; p is left with psize bytes.
Inserted(h, p, nx, psize, s, size) ==
  [a \in DOMAIN h \cup {s} |->
    IF a = s
    THEN Header(nx, p, size, TRUE)
    ELSE Header(IF a = p THEN s ELSE h[a].next,
                IF a = nx THEN s ELSE h[a].previous,
                IF a = p THEN psize ELSE h[a].size,
                h[a].is_free)]

\* slab->is_free = value.
Marked(h, s, value) ==
  [a \in DOMAIN h |-> IF a = s THEN Header(h[a].next, h[a].previous, h[a].size, value)
                      ELSE h[a]]

(***************************************************************************)
(* create_new_pages.                                                       *)
(***************************************************************************)
\* create_page_table_entry hands map_address the physical address where it
\* takes the virtual one: the low address of the first frame is what is mapped,
\* and each level of its tables that is missing takes one frame.
TablesMissing(f, low) ==
  LET missing(span) == IF \E g \in low : g \div span = f \div span THEN 0 ELSE 1
  IN  missing(Fan) + missing(Fan * Fan) + missing(Fan * Fan * Fan)

\* The new pages as one free slab, behind the tail of the list.
Appended(h, page, num_pages) ==
  LET last == find_last_slab(h)
  IN  Inserted(h, last, slab_head, h[last].size, page, num_pages * P - H)

\* The frames a growth takes: its pages, then the tables that map the first.
TakeFrames(num_pages) ==
  LET tables == TablesMissing(nextFrame, mapped)
  IN  /\ nextFrame + num_pages + tables <= MemFrames
      /\ nextFrame' = nextFrame + num_pages + tables
      /\ mapped' = mapped \cup {nextFrame}
      /\ pages' = pages \cup (nextFrame .. nextFrame + num_pages - 1)

\* The contiguous search may want one frame more than the run it hands out.
OutOfMemory(num_pages) ==
  /\ LET tables == TablesMissing(nextFrame, mapped)
     IN  nextFrame + num_pages + (IF tables = 0 THEN 1 ELSE tables) > MemFrames
  /\ halted' = TRUE
  /\ UNCHANGED <<slab, nextFrame, mapped, pages, blocks, apart>>

(***************************************************************************)
(* The state after Allocation::init: one page, one free slab.              *)
(***************************************************************************)
Init ==
  /\ slab = [a \in {slab_head} |-> Header(slab_head, slab_head, P - H, TRUE)]
  /\ nextFrame = FirstFrame + 1 + TablesMissing(FirstFrame, LowMapped)
  /\ mapped = LowMapped \cup {FirstFrame}
  /\ pages = {FirstFrame}
  /\ blocks = {}
  /\ apart = FALSE
  /\ halted = FALSE

(***************************************************************************)
(* kallocate without alignment.                                            *)
(***************************************************************************)
Fits(s, numbytes) == slab[s].is_free /\ slab[s].size >= numbytes

\* The i-th slab in list order, counted from the head.
NthSlab[i \in Nat] == IF i = 0 THEN slab_head ELSE slab[NthSlab[i - 1]].next

\* find_free_slab: the first slab in list order that fits.
FirstFit(s, numbytes) ==
  /\ Fits(s, numbytes)
  /\ \E i \in 0 .. Cardinality(DOMAIN slab) - 1 :
       /\ NthSlab[i] = s
       /\ \A j \in 0 .. i - 1 : ~Fits(NthSlab[j], numbytes)

NoFit(numbytes) == \A s \in DOMAIN slab : ~Fits(s, numbytes)

\* Mutant of Carved: the header of the new slab is not subtracted.
CarvedNoHeader(h, s, numbytes) ==
  LET rest == h[s].size - numbytes
  IN  Marked(IF rest > 0
             THEN Inserted(h, s, h[s].next, numbytes, s + H + numbytes, rest)
             ELSE h,
             s, FALSE)

\* What numbytes leave of slab s becomes a slab of its own, if it can hold a
\* header and at least a byte; s is marked used.
Carved(h, s, numbytes) ==
  LET rest == h[s].size - numbytes - H
  IN  Marked(IF rest > 0
             THEN Inserted(h, s, h[s].next, numbytes, s + H + numbytes, rest)
             ELSE h,
             s, FALSE)

\* numbytes and a header, in pages, rounded up.
PagesFor(numbytes) == (numbytes + H + P - 1) \div P

Kallocate(numbytes) ==
  /\ ~halted
  /\ \/ \E s \in DOMAIN slab :
          /\ FirstFit(s, numbytes)
          /\ slab' = Carved(slab, s, numbytes)
          /\ blocks' = blocks \cup {[slab |-> s, bytes |-> numbytes, aligned |-> FALSE]}
          /\ UNCHANGED <<nextFrame, mapped, pages, apart, halted>>
     \/ /\ NoFit(numbytes)
        /\ TakeFrames(PagesFor(numbytes))
        /\ LET page == nextFrame * P
           IN  /\ slab' = Carved(Appended(slab, page, PagesFor(numbytes)), page, numbytes)
               /\ blocks' = blocks \cup {[slab |-> page, bytes |-> numbytes, aligned |-> FALSE]}
        /\ UNCHANGED <<apart, halted>>
     \/ NoFit(numbytes) /\ OutOfMemory(PagesFor(numbytes))

(***************************************************************************)
(* kallocate with alignment.                                               *)
(***************************************************************************)
TailHasRoom ==
  LET last == find_last_slab(slab)
  IN  slab[last].is_free /\ slab[last].size >= H

\* A header cut from the end of the free tail takes over the new pages, whose
\* own header is dropped.  Its data begins where the tail ends, which need not be where
\* the new pages begin: the tables of an earlier growth can lie in between.
KallocateBehindTail(num_pages) ==
  LET last == find_last_slab(slab)
      new_slab == last + slab[last].size
  IN  /\ TailHasRoom
      /\ TakeFrames(num_pages)
      /\ slab' = Marked(Inserted(slab, last, slab_head, slab[last].size - H,
                                 new_slab, num_pages * P),
                        new_slab, FALSE)
      /\ blocks' = blocks \cup
           {[slab |-> new_slab, bytes |-> num_pages * P, aligned |-> TRUE]}
      /\ apart' = (apart \/ End(slab, last) # nextFrame * P)
      /\ UNCHANGED halted

\* Mutant of KallocateNewPages: the header begins where the data should.
KallocateNewPagesOffByHeader(num_pages) ==
  LET page == nextFrame * P
      new_rhs == page + P
      h == Appended(slab, page, num_pages + 1)
  IN  /\ ~TailHasRoom
      /\ TakeFrames(num_pages + 1)
      /\ slab' = Marked(Inserted(h, page, slab_head, P - H, new_rhs, num_pages * P - H),
                        new_rhs, FALSE)
      /\ blocks' = blocks \cup
           {[slab |-> new_rhs, bytes |-> num_pages * P - H, aligned |-> TRUE]}
      /\ UNCHANGED <<apart, halted>>

\* One page more than asked for: the first one is a free slab that ends one
\* header before the page boundary.
KallocateNewPages(num_pages) ==
  LET page == nextFrame * P
      new_rhs == page + P - H
      h == Appended(slab, page, num_pages + 1)
  IN  /\ ~TailHasRoom
      /\ TakeFrames(num_pages + 1)
      /\ slab' = Marked(Inserted(h, page, slab_head, P - 2 * H, new_rhs, num_pages * P),
                        new_rhs, FALSE)
      /\ blocks' = blocks \cup
           {[slab |-> new_rhs, bytes |-> num_pages * P, aligned |-> TRUE]}
      /\ UNCHANGED <<apart, halted>>

KallocateAligned(num_pages) ==
  /\ ~halted
  /\ \/ KallocateBehindTail(num_pages)
     \/ KallocateNewPages(num_pages)
     \/ OutOfMemory(num_pages + (IF TailHasRoom THEN 0 ELSE 1))

(***************************************************************************)
(* kfree.                                                                  *)
(***************************************************************************)
\* Mutant of Merged: the header of the removed slab is lost.
MergedLosesHeader(h, s) ==
  LET old_next == h[s].next
  IN  [a \in DOMAIN h \ {old_next} |->
        Header(IF a = s THEN h[old_next].next ELSE h[a].next,
               IF a = h[old_next].next THEN s ELSE h[a].previous,
               IF a = s THEN h[s].size + h[old_next].size ELSE h[a].size,
               h[a].is_free)]

\* Slab s absorbs the next slab in the list.
Merged(h, s) ==
  LET old_next == h[s].next
  IN  [a \in DOMAIN h \ {old_next} |->
        Header(IF a = s THEN h[old_next].next ELSE h[a].next,
               IF a = h[old_next].next THEN s ELSE h[a].previous,
               IF a = s THEN h[s].size + h[old_next].size + H ELSE h[a].size,
               h[a].is_free)]

\* Mutant of MergedWithNext: the next slab is not tested for being free.
MergedWithAnyNext(h, s) ==
  IF h[s].next # slab_head THEN Merged(h, s) ELSE h

MergedWithNext(h, s) ==
  IF h[s].next # slab_head /\ h[h[s].next].is_free THEN Merged(h, s) ELSE h

MergedWithPrevious(h, s) ==
  IF s # slab_head /\ h[h[s].previous].is_free THEN Merged(h, h[s].previous) ELSE h

\* A header was dropped that did not lie right behind the slab before it.
MergedApart == \E a \in DOMAIN slab \ DOMAIN slab' : End(slab, slab[a].previous) # a

\* Mutant of Kfree: only the next slab is merged.
KfreeForwardOnly(b) ==
  /\ ~halted
  /\ slab' = MergedWithNext(Marked(slab, b.slab, TRUE), b.slab)
  /\ blocks' = blocks \ {b}
  /\ apart' = (apart \/ MergedApart)
  /\ UNCHANGED <<nextFrame, mapped, pages, halted>>

Kfree(b) ==
  /\ ~halted
  /\ LET h == Marked(slab, b.slab, TRUE)
     IN  slab' = MergedWithPrevious(MergedWithNext(h, b.slab), b.slab)
  /\ blocks' = blocks \ {b}
  /\ apart' = (apart \/ MergedApart)
  /\ UNCHANGED <<nextFrame, mapped, pages, halted>>

\* kpanic never returns.
Halted == halted /\ UNCHANGED vars

Next ==
  \/ \E numbytes \in Bytes : Kallocate(numbytes)
  \/ \E num_pages \in AlignedPages : KallocateAligned(num_pages)
  \/ \E b \in blocks : Kfree(b)
  \/ Halted

Spec == Init /\ [][Next]_vars
-----------------------------------------------------------------------------
(***************************************************************************)
(* Properties.                                                             *)
(***************************************************************************)
Data(b) == b.slab + H .. b.slab + H + b.bytes - 1

\* The links of slab headers lead to slabs of the list.
IsSlabList(h) ==
  /\ DOMAIN h \subseteq Nat
  /\ slab_head \in DOMAIN h
  /\ h \in [DOMAIN h -> [next : DOMAIN h, previous : DOMAIN h, size : Nat, is_free : BOOLEAN]]

\* next and previous are inverse to each other, next ascends from the head to
\* the tail without leaving a slab out, and a slab ends before the next begins.
InOrder(h) ==
  \A a \in DOMAIN h :
    /\ h[h[a].next].previous = a
    /\ h[h[a].previous].next = a
    /\ h[a].next = slab_head => \A b \in DOMAIN h : b <= a
    /\ h[a].next # slab_head =>
         /\ End(h, a) <= h[a].next
         /\ \A b \in DOMAIN h : b <= a \/ h[a].next <= b

\* The types of slab_t and of the bookkeeping.
TypeOK ==
  /\ IsSlabList(slab)
  /\ nextFrame \in Nat
  /\ mapped \subseteq Nat
  /\ pages \subseteq Nat
  /\ blocks \subseteq [slab : Nat, bytes : Nat, aligned : BOOLEAN]
  /\ {apart, halted} \subseteq BOOLEAN

\* However slabs were split, merged and appended, the list is one ring through
\* all of them in order of their addresses, and no two of them overlap.
ListInOrder == InOrder(slab)

\* The memory kallocate returned to different clients does not overlap, and no
\* slab header lies inside of any of it.
BlocksDisjoint ==
  /\ \A b, c \in blocks : b # c => Data(b) \cap Data(c) = {}
  /\ \A b \in blocks, a \in DOMAIN slab : Data(b) \cap (a .. a + H - 1) = {}

\* While a client holds a block, its slab is in the list, marked used and large
\* enough: no free of a neighbour merges it away.
BlocksBacked ==
  \A b \in blocks :
    /\ b.slab \in DOMAIN slab
    /\ ~slab[b.slab].is_free
    /\ slab[b.slab].size >= b.bytes

\* An aligned block begins on a page boundary, on either path and whatever the
\* heap looks like at the time.
AlignedBlocks == \A b \in blocks : b.aligned => (b.slab + H) % P = 0

\* Headers and data cover the pages the heap was given, all of them and nothing else:
\* splitting and merging lose no byte and make none up.  Once slabs have been joined that
\* do not adjoin, this is no longer so - what lies in between counts as the heap's then.
PagesCovered ==
  ~apart =>
    UNION {a .. End(slab, a) - 1 : a \in DOMAIN slab}
      = UNION {f * P .. (f + 1) * P - 1 : f \in pages}

\* Slabs that are free although the next one in the list is free, too.
FreePairs(h) ==
  {a \in DOMAIN h : h[a].next # slab_head /\ h[a].is_free /\ h[h[a].next].is_free}

\* Merging is complete: kfree never leaves one more pair of free neighbours than
\* there was (growth for an aligned request can add one that stays).
MergingComplete ==
  [][blocks' \subseteq blocks => Cardinality(FreePairs(slab')) <= Cardinality(FreePairs(slab))]_vars

\* A slab that is not freed keeps its size: the block a client holds is
\* neither grown nor cut by what others allocate and free.
HeldSlabsStable ==
  [][\A b \in blocks \cap blocks' : slab'[b.slab].size = slab[b.slab].size]_vars
=============================================================================
