--------------------------- MODULE SlabHeapProofs ---------------------------
(***************************************************************************)
(* Proofs about SlabHeap, for every header size, page size, request size   *)
(* and amount of memory.                                                   *)
(***************************************************************************)
EXTENDS SlabHeap, FiniteSetTheorems, TLAPS

\* What the functions that rewrite the list may rely on and must establish:
\* an ordered list all of which lies below an address.
HeapBelow(h, top) ==
  /\ IsSlabList(h)
  /\ InOrder(h)
  /\ \A a \in DOMAIN h : End(h, a) <= top

\* No slab that is in use is removed, freed or resized.
UsedKept(h, g) ==
  \A a \in DOMAIN h :
    ~h[a].is_free => /\ a \in DOMAIN g
                     /\ ~g[a].is_free
                     /\ g[a].size = h[a].size

LEMMA HeaderFields ==
  ASSUME NEW n, NEW p, NEW z, NEW f
  PROVE  /\ Header(n, p, z, f).next = n
         /\ Header(n, p, z, f).previous = p
         /\ Header(n, p, z, f).size = z
         /\ Header(n, p, z, f).is_free = f
BY DEF Header

\* Slabs of an ordered list do not overlap, neighbours in the list or not.
LEMMA SlabsApart ==
  ASSUME NEW h, IsSlabList(h), InOrder(h),
         NEW a \in DOMAIN h, NEW b \in DOMAIN h, a < b
  PROVE  End(h, a) <= b
<1>1. a \in Nat /\ b \in Nat /\ h[a].next \in Nat /\ h[a].size \in Nat
  BY DEF IsSlabList
<1>2. h[a].next # slab_head
  BY <1>1 DEF InOrder
<1>3. End(h, a) <= h[a].next /\ (b <= a \/ h[a].next <= b)
  BY <1>2 DEF InOrder
<1> QED
  BY <1>1, <1>3, HeapAssumption DEF End

\* Reading the fields of a list by name.
LEMMA SlabListFields ==
  ASSUME NEW h, IsSlabList(h)
  PROVE  /\ DOMAIN h \subseteq Nat /\ slab_head \in DOMAIN h
         /\ \A a \in DOMAIN h : /\ a \in Nat
                                /\ h[a].next \in DOMAIN h /\ h[a].previous \in DOMAIN h
                                /\ h[a].size \in Nat /\ h[a].is_free \in BOOLEAN
BY DEF IsSlabList

LEMMA SlabListFromFields ==
  ASSUME NEW D, NEW h, h = [a \in D |-> h[a]],
         D \subseteq Nat, slab_head \in D,
         \A a \in D : h[a] \in [next : D, previous : D, size : Nat, is_free : BOOLEAN]
  PROVE  IsSlabList(h)
BY DEF IsSlabList

\* There is room for a header s with size bytes of data behind slab p, once p
\* is cut to psize bytes; the heap then ends below newtop.
RoomBehind(h, top, p, psize, s, size, newtop) ==
  /\ HeapBelow(h, top) /\ top \in Nat
  /\ p \in DOMAIN h /\ psize \in Nat /\ s \in Nat /\ size \in Nat
  /\ newtop \in Nat /\ top <= newtop
  /\ p + H + psize <= s
  /\ s + H + size <= newtop
  /\ h[p].next # slab_head => s + H + size <= h[p].next

\* The list g is h with the free slab s linked in behind p.
LinkedIn(h, g, p, s, size, newtop) ==
  /\ HeapBelow(g, newtop)
  /\ s \notin DOMAIN h /\ DOMAIN g = DOMAIN h \cup {s}
  /\ g[s] = Header(h[p].next, p, size, TRUE)
  /\ \A a \in DOMAIN h : /\ g[a].is_free = h[a].is_free
                         /\ a # p => g[a].size = h[a].size

\* A slab linked in between two neighbours, where there is room for it.
LEMMA InsertedInOrder ==
  ASSUME NEW h, NEW top, NEW p, NEW psize, NEW s, NEW size, NEW newtop,
         RoomBehind(h, top, p, psize, s, size, newtop)
  PROVE  LinkedIn(h, Inserted(h, p, h[p].next, psize, s, size), p, s, size, newtop)
<1> USE DEF RoomBehind
<1> DEFINE nx == h[p].next
           g == Inserted(h, p, nx, psize, s, size)
<1>0. IsSlabList(h) /\ InOrder(h) /\ H \in Nat \ {0}
  BY HeapAssumption DEF HeapBelow
<1>1. /\ DOMAIN h \subseteq Nat /\ slab_head \in DOMAIN h /\ nx \in DOMAIN h
      /\ \A a \in DOMAIN h : /\ a \in Nat
                             /\ h[a].next \in DOMAIN h /\ h[a].previous \in DOMAIN h
                             /\ h[a].size \in Nat /\ h[a].is_free \in BOOLEAN
  BY <1>0, SlabListFields
<1>2. \A a \in DOMAIN h : a <= p \/ (nx # slab_head /\ nx <= a)
  BY <1>0, <1>1 DEF InOrder
<1>3. p < s /\ s \notin DOMAIN h /\ \A a \in DOMAIN h : a < s \/ s < a
  <2>1. p \in Nat /\ nx \in Nat /\ p < s
    <3>1. p \in Nat /\ nx \in Nat
      BY <1>1
    <3> QED
      BY <1>0, <3>1
  <2>2. nx # slab_head => s < nx
    BY <1>0, <2>1
  <2>3. ASSUME NEW a \in DOMAIN h
        PROVE  a < s \/ s < a
    <3>1. a \in Nat
      BY <1>1
    <3> QED
      BY <3>1, <2>1, <2>2, <1>2
  <2> QED
    BY <2>1, <2>3
<1>4. /\ DOMAIN g = DOMAIN h \cup {s}
      /\ g[s] = Header(nx, p, size, TRUE)
      /\ \A a \in DOMAIN h :
           g[a] = Header(IF a = p THEN s ELSE h[a].next,
                         IF a = nx THEN s ELSE h[a].previous,
                         IF a = p THEN psize ELSE h[a].size,
                         h[a].is_free)
  BY <1>3 DEF Inserted
<1>5. /\ g[s].next = nx /\ g[s].previous = p /\ g[s].size = size /\ g[s].is_free = TRUE
      /\ g[p].next = s /\ g[p].size = psize
      /\ g[nx].previous = s
      /\ \A a \in DOMAIN h : /\ a # p => g[a].next = h[a].next
                             /\ a # nx => g[a].previous = h[a].previous
                             /\ a # p => g[a].size = h[a].size
                             /\ g[a].is_free = h[a].is_free
  <2> HIDE DEF g, nx
  <2>1. p # s /\ nx # s /\ p \in DOMAIN h /\ nx \in DOMAIN h
    BY <1>1, <1>3
  <2>2. ASSUME NEW a \in DOMAIN h
        PROVE  /\ g[a].next = IF a = p THEN s ELSE h[a].next
               /\ g[a].previous = IF a = nx THEN s ELSE h[a].previous
               /\ g[a].size = IF a = p THEN psize ELSE h[a].size
               /\ g[a].is_free = h[a].is_free
    BY <1>4 DEF Header
  <2>3. /\ g[s].next = nx /\ g[s].previous = p
        /\ g[s].size = size /\ g[s].is_free = TRUE
    BY <1>4 DEF Header
  <2> QED
    BY <2>1, <2>2, <2>3
<1>6. IsSlabList(g)
  <2>1. \A a \in DOMAIN g :
          g[a] \in [next : DOMAIN g, previous : DOMAIN g, size : Nat, is_free : BOOLEAN]
    <3>1. g[s] \in [next : DOMAIN g, previous : DOMAIN g, size : Nat, is_free : BOOLEAN]
      <4> HIDE DEF g, nx
      <4>1. nx \in DOMAIN g /\ p \in DOMAIN g
        BY <1>1, <1>4
      <4> QED
        BY <1>4, <4>1 DEF Header
    <3>2. ASSUME NEW a \in DOMAIN h
          PROVE  g[a] \in [next : DOMAIN g, previous : DOMAIN g, size : Nat, is_free : BOOLEAN]
      <4> DEFINE n == IF a = p THEN s ELSE h[a].next
                 q == IF a = nx THEN s ELSE h[a].previous
                 z == IF a = p THEN psize ELSE h[a].size
      <4>1. n \in DOMAIN g /\ q \in DOMAIN g /\ z \in Nat /\ h[a].is_free \in BOOLEAN
        BY <1>1, <1>4
      <4>2. g[a] = Header(n, q, z, h[a].is_free)
        BY <1>4
      <4> HIDE DEF n, q, z, g
      <4> QED
        BY <4>1, <4>2 DEF Header
    <3> QED
      BY <1>4, <3>1, <3>2
  <2>2. g = [a \in DOMAIN g |-> g[a]]
    BY DEF Inserted
  <2>3. DOMAIN g \subseteq Nat /\ slab_head \in DOMAIN g
    BY <1>1, <1>4
  <2> QED
    BY <2>1, <2>2, <2>3, SlabListFromFields
<1> HIDE DEF g, nx
<1>7. InOrder(g)
  <2>1. /\ g[g[s].next].previous = s /\ g[g[s].previous].next = s
        /\ g[s].next = slab_head => \A b \in DOMAIN g : b <= s
        /\ g[s].next # slab_head =>
             /\ End(g, s) <= g[s].next
             /\ \A b \in DOMAIN g : b <= s \/ g[s].next <= b
    <3>1. g[nx].previous = s /\ g[p].next = s
      BY <1>5
    <3>2. nx = slab_head => \A b \in DOMAIN g : b <= s
      <4>1. nx = slab_head => \A b \in DOMAIN h : b < s
        BY <1>1, <1>2, <1>3
      <4>2. \A b \in DOMAIN h : b \in Nat /\ (b < s => b <= s)
        BY <1>1
      <4>3. s <= s
        OBVIOUS
      <4> QED
        BY <1>4, <4>1, <4>2, <4>3
    <3>3. nx # slab_head => s + H + size <= nx
      BY DEF nx
    <3>4. nx # slab_head => \A b \in DOMAIN g : b <= s \/ nx <= b
      <4>1. \A b \in DOMAIN h : b <= s \/ nx <= b
        BY <1>1, <1>2, <1>3
      <4> QED
        BY <1>4, <4>1
    <3>5. End(g, s) = s + H + size
      BY <1>5 DEF End
    <3> QED
      BY <1>5, <3>1, <3>2, <3>3, <3>4, <3>5
  <2>2. /\ g[g[p].next].previous = p /\ g[g[p].previous].next = p
        /\ g[p].next = slab_head => \A b \in DOMAIN g : b <= p
        /\ g[p].next # slab_head =>
             /\ End(g, p) <= g[p].next
             /\ \A b \in DOMAIN g : b <= p \/ g[p].next <= b
    <3>1. g[g[p].previous].next = p
      <4>1. h[h[p].previous].next = p /\ h[p].previous \in DOMAIN h
        BY <1>0, <1>1 DEF InOrder
      <4>2. CASE nx = p
        <5>1. g[p].previous = s
          BY <1>5, <4>2
        <5> QED
          BY <1>5, <4>2, <5>1
      <4>3. CASE nx # p
        <5>1. g[p].previous = h[p].previous
          BY <1>5, <4>3
        <5>2. h[p].previous # p
          BY <4>1, <4>3 DEF nx
        <5> QED
          BY <1>5, <4>1, <5>1, <5>2
      <4> QED
        BY <4>2, <4>3
    <3>2. g[g[p].next].previous = p
      BY <1>5
    <3>3. End(g, p) <= s
      BY <1>5 DEF End
    <3>4. s # slab_head
      BY <1>1, <1>3
    <3>5. \A b \in DOMAIN g : b <= p \/ s <= b
      <4>1. \A b \in DOMAIN h : b <= p \/ s <= b
        <5> SUFFICES ASSUME NEW b \in DOMAIN h
                     PROVE  b <= p \/ s <= b
          OBVIOUS
        <5>1. CASE b <= p
          BY <5>1
        <5>2. CASE nx # slab_head /\ nx <= b
          <6>1. b \in Nat /\ nx \in Nat /\ s + H + size <= nx
            BY <1>1, <5>2 DEF nx
          <6> QED
            BY <1>0, <5>2, <6>1
        <5> QED
          BY <1>2, <5>1, <5>2
      <4> QED
        BY <1>4, <4>1
    <3> QED
      BY <1>5, <3>1, <3>2, <3>3, <3>4, <3>5
  <2>3. ASSUME NEW a \in DOMAIN h, a # p
        PROVE  /\ g[g[a].next].previous = a /\ g[g[a].previous].next = a
               /\ g[a].next = slab_head => \A b \in DOMAIN g : b <= a
               /\ g[a].next # slab_head =>
                    /\ End(g, a) <= g[a].next
                    /\ \A b \in DOMAIN g : b <= a \/ g[a].next <= b
    <3>1. /\ h[h[a].next].previous = a /\ h[h[a].previous].next = a
          /\ h[h[p].next].previous = p
          /\ h[a].next # nx
      BY <1>0, <2>3 DEF InOrder, nx
    <3>2. g[g[a].next].previous = a
      <4>1. g[a].next = h[a].next /\ h[a].next \in DOMAIN h
        BY <1>1, <1>5, <2>3
      <4> QED
        BY <1>5, <3>1, <4>1
    <3>3. g[g[a].previous].next = a
      <4>1. CASE a = nx
        BY <1>5, <4>1
      <4>2. CASE a # nx
        <5>1. g[a].previous = h[a].previous /\ h[a].previous \in DOMAIN h
          BY <1>1, <1>5, <4>2
        <5>2. h[a].previous # p
          BY <3>1, <4>2 DEF nx
        <5> QED
          BY <1>5, <3>1, <5>1, <5>2
      <4> QED
        BY <4>1, <4>2
    <3>4. g[a].next = h[a].next /\ End(g, a) = End(h, a)
      BY <1>5, <2>3 DEF End
    <3>5. /\ h[a].next = slab_head => \A b \in DOMAIN h : b <= a
          /\ h[a].next # slab_head =>
               /\ End(h, a) <= h[a].next
               /\ \A b \in DOMAIN h : b <= a \/ h[a].next <= b
      BY <1>0 DEF InOrder
    <3>6. CASE h[a].next = slab_head
      <4>1. nx # slab_head
        BY <3>1, <3>6
      <4>2. p <= a /\ nx <= a
        BY <1>1, <1>2, <2>3, <3>5, <3>6
      <4>3. s < a
        <5>1. s + H + size <= nx /\ a \in Nat /\ nx \in Nat
          BY <1>1, <4>1 DEF nx
        <5> QED
          BY <1>0, <4>2, <5>1
      <4> QED
        BY <1>1, <1>4, <3>2, <3>3, <3>4, <3>5, <3>6, <4>3
    <3>7. CASE h[a].next # slab_head
      <4>1. p <= a \/ h[a].next <= p
        BY <3>5, <3>7
      <4>2. s <= a \/ h[a].next <= s
        <5>1. a \in Nat /\ nx \in Nat /\ h[a].next \in Nat /\ p \in Nat
          BY <1>1
        <5>2. CASE h[a].next <= p
          BY <1>3, <5>1, <5>2
        <5>3. CASE p <= a
          <6>1. nx # slab_head /\ nx <= a
            BY <1>2, <2>3, <5>1, <5>3
          <6>2. s + H + size <= nx
            BY <6>1 DEF nx
          <6> QED
            BY <1>0, <5>1, <6>1, <6>2
        <5> QED
          BY <4>1, <5>2, <5>3
      <4> QED
        BY <1>1, <1>4, <3>2, <3>3, <3>4, <3>5, <3>7, <4>2
    <3> QED
      BY <3>6, <3>7
  <2> QED
    <3> SUFFICES ASSUME NEW a \in DOMAIN g
                 PROVE  /\ g[g[a].next].previous = a /\ g[g[a].previous].next = a
                        /\ g[a].next = slab_head => \A b \in DOMAIN g : b <= a
                        /\ g[a].next # slab_head =>
                             /\ End(g, a) <= g[a].next
                             /\ \A b \in DOMAIN g : b <= a \/ g[a].next <= b
      BY DEF InOrder
    <3>1. a = s \/ a = p \/ (a \in DOMAIN h /\ a # p)
      BY <1>4
    <3> QED
      BY <2>1, <2>2, <2>3, <3>1
<1>8. \A a \in DOMAIN g : End(g, a) <= newtop
  <2>1. End(g, s) <= newtop
    BY <1>5 DEF End
  <2>2. End(g, p) <= newtop
    BY <1>0, <1>1, <1>5 DEF End
  <2>3. ASSUME NEW a \in DOMAIN h, a # p
        PROVE  End(g, a) <= newtop
    <3>0. End(h, a) <= top
      BY DEF HeapBelow
    <3>1. End(g, a) = End(h, a) /\ End(h, a) <= top
      BY <1>5, <2>3, <3>0 DEF End
    <3>2. End(h, a) \in Nat
      <4>1. a \in Nat /\ h[a].size \in Nat
        BY <1>1
      <4> QED
        BY <1>0, <4>1 DEF End
    <3> QED
      BY <3>1, <3>2
  <2> QED
    BY <1>4, <2>1, <2>2, <2>3
<1> QED
  BY <1>3, <1>4, <1>5, <1>6, <1>7, <1>8 DEF HeapBelow, LinkedIn, g, nx

\* The list g is h with n new pages as its last slab.
GrownBy(h, g, page, n) ==
  /\ HeapBelow(g, page + n * P)
  /\ page \notin DOMAIN h /\ DOMAIN g = DOMAIN h \cup {page}
  /\ g[page] = Header(slab_head, find_last_slab(h), n * P - H, TRUE)
  /\ \A a \in DOMAIN h : g[a].is_free = h[a].is_free /\ g[a].size = h[a].size

\* create_new_pages appends its slab behind the tail.
LEMMA AppendedInOrder ==
  ASSUME NEW h, NEW page \in Nat, NEW n \in Nat, HeapBelow(h, page), n * P - H \in Nat
  PROVE  GrownBy(h, Appended(h, page, n), page, n)
<1> DEFINE last == h[slab_head].previous
           g == Inserted(h, last, h[last].next, h[last].size, page, n * P - H)
<1>1. /\ last \in DOMAIN h /\ last \in Nat /\ h[last].size \in Nat
      /\ IsSlabList(h) /\ InOrder(h)
      /\ H \in Nat /\ P \in Nat
  BY SlabListFields, HeapAssumption DEF HeapBelow
<1>2. h[last].next = slab_head
  BY <1>1, SlabListFields DEF InOrder
<1>3. last + H + h[last].size <= page
  BY <1>1 DEF HeapBelow, End
<1>4. n * P \in Nat
  BY <1>1
<1>5. page <= page + n * P /\ page + H + (n * P - H) <= page + n * P
  BY <1>1, <1>4
<1>6. g = Appended(h, page, n)
  BY <1>2 DEF Appended, find_last_slab
<1>7. /\ HeapBelow(g, page + n * P)
      /\ page \notin DOMAIN h /\ DOMAIN g = DOMAIN h \cup {page}
      /\ g[page] = Header(h[last].next, last, n * P - H, TRUE)
      /\ \A a \in DOMAIN h : /\ g[a].is_free = h[a].is_free
                             /\ a # last => g[a].size = h[a].size
  <2> DEFINE size == n * P - H
             newtop == page + n * P
             psize == h[last].size
  <2>1. newtop \in Nat /\ size \in Nat /\ psize \in Nat
    BY <1>1, <1>4
  <2>2. page <= newtop /\ page + H + size <= newtop /\ last + H + psize <= page
    BY <1>3, <1>5
  <2>3. last \in DOMAIN h /\ (h[last].next # slab_head => page + H + size <= h[last].next)
    BY <1>1, <1>2
  <2>4. RoomBehind(h, page, last, psize, page, size, newtop)
    BY <2>1, <2>2, <2>3 DEF RoomBehind
  <2>5. LinkedIn(h, g, last, page, size, newtop)
    BY <2>4, InsertedInOrder
  <2> HIDE DEF g
  <2> QED
    BY <2>5 DEF LinkedIn
<1>8. g[last].size = h[last].size
  BY <1>1, <1>7 DEF Inserted, Header
<1> HIDE DEF g, last
<1> QED
  BY <1>2, <1>6, <1>7, <1>8 DEF GrownBy, find_last_slab, last

\* The list g is h with slab s marked.
OnlyMarked(h, g, s, value, top) ==
  /\ HeapBelow(g, top)
  /\ DOMAIN g = DOMAIN h
  /\ g[s].is_free = value
  /\ \A a \in DOMAIN h : /\ g[a].next = h[a].next
                         /\ g[a].previous = h[a].previous
                         /\ g[a].size = h[a].size
                         /\ a # s => g[a].is_free = h[a].is_free

\* Setting is_free changes nothing else.
LEMMA MarkedInOrder ==
  ASSUME NEW h, NEW top, HeapBelow(h, top), NEW s \in DOMAIN h, NEW value \in BOOLEAN
  PROVE  OnlyMarked(h, Marked(h, s, value), s, value, top)
<1> DEFINE g == Marked(h, s, value)
<1>1. IsSlabList(h) /\ InOrder(h)
  BY DEF HeapBelow
<1>2. /\ DOMAIN g = DOMAIN h
      /\ \A a \in DOMAIN h :
           g[a] = IF a = s THEN Header(h[a].next, h[a].previous, h[a].size, value) ELSE h[a]
  BY DEF Marked
<1>3. /\ g[s].is_free = value
      /\ \A a \in DOMAIN h : /\ g[a].next = h[a].next
                             /\ g[a].previous = h[a].previous
                             /\ g[a].size = h[a].size
                             /\ a # s => g[a].is_free = h[a].is_free
  BY <1>2 DEF Header
<1>4. IsSlabList(g)
  <2>1. g = [a \in DOMAIN g |-> g[a]]
    BY DEF Marked
  <2>2. ASSUME NEW a \in DOMAIN h
        PROVE  g[a] \in [next : DOMAIN g, previous : DOMAIN g, size : Nat, is_free : BOOLEAN]
    BY <1>1, <1>2 DEF IsSlabList, Header
  <2>3. DOMAIN g \subseteq Nat /\ slab_head \in DOMAIN g
    BY <1>1, <1>2 DEF IsSlabList
  <2> HIDE DEF g
  <2> QED
    BY <1>2, <2>1, <2>2, <2>3, SlabListFromFields
<1> HIDE DEF g
<1>5. \A a \in DOMAIN h : End(g, a) = End(h, a)
  BY <1>3 DEF End
<1>6. InOrder(g)
  <2> SUFFICES ASSUME NEW a \in DOMAIN h
               PROVE  /\ g[g[a].next].previous = a /\ g[g[a].previous].next = a
                      /\ g[a].next = slab_head => \A b \in DOMAIN h : b <= a
                      /\ g[a].next # slab_head =>
                           /\ End(g, a) <= g[a].next
                           /\ \A b \in DOMAIN h : b <= a \/ g[a].next <= b
    BY <1>2 DEF InOrder
  <2>1. h[a].next \in DOMAIN h /\ h[a].previous \in DOMAIN h
    BY <1>1, SlabListFields
  <2>2. /\ h[h[a].next].previous = a /\ h[h[a].previous].next = a
        /\ h[a].next = slab_head => \A b \in DOMAIN h : b <= a
        /\ h[a].next # slab_head =>
             /\ End(h, a) <= h[a].next
             /\ \A b \in DOMAIN h : b <= a \/ h[a].next <= b
    BY <1>1 DEF InOrder
  <2> QED
    BY <1>3, <1>5, <2>1, <2>2
<1> QED
  BY <1>2, <1>3, <1>4, <1>5, <1>6 DEF HeapBelow, OnlyMarked, g

-----------------------------------------------------------------------------
\* What every path of kallocate does to the list: slab s, which nobody held,
\* is now in use and large enough, and slabs that were in use are untouched.
Allocates(h, g, s, numbytes, top) ==
  /\ HeapBelow(g, top)
  /\ UsedKept(h, g)
  /\ s \in DOMAIN g /\ ~g[s].is_free /\ g[s].size >= numbytes
  /\ s \in DOMAIN h => h[s].is_free

LEMMA LinkedInKeepsUsed ==
  ASSUME NEW h, NEW g, NEW p \in DOMAIN h, NEW s, NEW size, NEW newtop,
         LinkedIn(h, g, p, s, size, newtop), h[p].is_free
  PROVE  UsedKept(h, g)
BY DEF LinkedIn, UsedKept

\* slab->is_free = false, the last step of every path.
LEMMA MarkedAllocates ==
  ASSUME NEW h, NEW g, NEW top, NEW s \in DOMAIN g, NEW numbytes,
         HeapBelow(g, top), UsedKept(h, g), g[s].size >= numbytes,
         s \in DOMAIN h => h[s].is_free
  PROVE  Allocates(h, Marked(g, s, FALSE), s, numbytes, top)
<1> DEFINE k == Marked(g, s, FALSE)
<1>1. /\ HeapBelow(k, top)
      /\ DOMAIN k = DOMAIN g
      /\ k[s].is_free = FALSE
      /\ \A a \in DOMAIN g : /\ k[a].size = g[a].size
                             /\ a # s => k[a].is_free = g[a].is_free
  <2>1. FALSE \in BOOLEAN
    OBVIOUS
  <2> HIDE DEF k
  <2>2. OnlyMarked(g, k, s, FALSE, top)
    BY <2>1, MarkedInOrder DEF k
  <2> QED
    BY <2>2 DEF OnlyMarked
<1> HIDE DEF k
<1>2. UsedKept(h, k)
  BY <1>1 DEF UsedKept
<1> QED
  BY <1>1, <1>2 DEF Allocates, k

\* A free slab that fits, split or taken whole.
LEMMA CarvedAllocates ==
  ASSUME NEW h, NEW top \in Nat, NEW s \in DOMAIN h, NEW numbytes \in Nat,
         HeapBelow(h, top), h[s].is_free, h[s].size >= numbytes
  PROVE  Allocates(h, Carved(h, s, numbytes), s, numbytes, top)
<1> DEFINE rest == h[s].size - numbytes - H
           new_slab == s + H + numbytes
           g == Inserted(h, s, h[s].next, numbytes, new_slab, rest)
<1>1. s \in Nat /\ h[s].size \in Nat /\ H \in Nat \ {0} /\ End(h, s) <= top
  BY SlabListFields, HeapAssumption DEF HeapBelow
<1>2. CASE rest > 0
  <2>1. new_slab \in Nat /\ rest \in Nat
    BY <1>1, <1>2
  <2>2. s + H + numbytes <= new_slab
    BY <1>1
  <2>3. new_slab + H + rest = End(h, s)
    BY <1>1 DEF End
  <2>4. h[s].next # slab_head => End(h, s) <= h[s].next
    BY DEF HeapBelow, InOrder
  <2>5. RoomBehind(h, top, s, numbytes, new_slab, rest, top)
    <3>1. top <= top /\ new_slab + H + rest <= top
      BY <1>1, <2>3
    <3>2. h[s].next # slab_head => new_slab + H + rest <= h[s].next
      BY <2>3, <2>4
    <3> HIDE DEF new_slab, rest
    <3> QED
      BY <2>1, <2>2, <3>1, <3>2 DEF RoomBehind, new_slab
  <2>6. LinkedIn(h, g, s, new_slab, rest, top)
    BY <2>5, InsertedInOrder
  <2>7. g[s].size = numbytes
    <3>1. s # new_slab
      BY <1>1
    <3> QED
      BY <3>1 DEF Inserted, Header
  <2>8. UsedKept(h, g)
    BY <2>6, LinkedInKeepsUsed
  <2>9. Carved(h, s, numbytes) = Marked(g, s, FALSE)
    BY <1>2 DEF Carved
  <2>10. HeapBelow(g, top) /\ s \in DOMAIN g
    BY <2>6 DEF LinkedIn
  <2>11. g[s].size >= numbytes
    BY <2>7
  <2> HIDE DEF g
  <2> QED
    BY <2>8, <2>9, <2>10, <2>11, MarkedAllocates
<1>3. CASE ~(rest > 0)
  <2>1. Carved(h, s, numbytes) = Marked(h, s, FALSE)
    BY <1>3 DEF Carved
  <2>2. UsedKept(h, h)
    BY DEF UsedKept
  <2> QED
    BY <2>1, <2>2, MarkedAllocates
<1> QED
  BY <1>2, <1>3

LEMMA UsedKeptTransitive ==
  ASSUME NEW h, NEW g, NEW k, UsedKept(h, g), UsedKept(g, k)
  PROVE  UsedKept(h, k)
BY DEF UsedKept

\* New pages, from which the request is carved.
LEMMA GrownAllocates ==
  ASSUME NEW h, NEW page \in Nat, NEW n \in Nat, NEW numbytes \in Nat,
         HeapBelow(h, page), n * P - H \in Nat, n * P - H >= numbytes
  PROVE  Allocates(h, Carved(Appended(h, page, n), page, numbytes), page, numbytes, page + n * P)
<1> DEFINE g == Appended(h, page, n)
           top == page + n * P
<1>1. /\ HeapBelow(g, top)
      /\ page \notin DOMAIN h /\ DOMAIN g = DOMAIN h \cup {page}
      /\ g[page] = Header(slab_head, find_last_slab(h), n * P - H, TRUE)
      /\ \A a \in DOMAIN h : g[a].is_free = h[a].is_free /\ g[a].size = h[a].size
  <2> HIDE DEF g
  <2>1. GrownBy(h, g, page, n)
    BY AppendedInOrder DEF g
  <2> QED
    BY <2>1 DEF GrownBy
<1>2. top \in Nat
  <2>1. n * P \in Nat
    BY HeapAssumption
  <2> QED
    BY <2>1
<1> HIDE DEF g, top
<1>3. g[page].is_free /\ g[page].size >= numbytes
  <2>1. g[page].is_free = TRUE /\ g[page].size = n * P - H
    BY <1>1 DEF Header
  <2> QED
    BY <2>1
<1>4. Allocates(g, Carved(g, page, numbytes), page, numbytes, top)
  BY <1>1, <1>2, <1>3, CarvedAllocates
<1>5. UsedKept(h, g)
  BY <1>1 DEF UsedKept
<1>6. UsedKept(h, Carved(g, page, numbytes))
  BY <1>4, <1>5, UsedKeptTransitive DEF Allocates
<1>7. Allocates(h, Carved(g, page, numbytes), page, numbytes, top)
  BY <1>1, <1>4, <1>6 DEF Allocates
<1> QED
  BY <1>7 DEF g, top

\* A header cut from the end of the free tail that takes over new pages.
LEMMA BehindTailAllocates ==
  ASSUME NEW h, NEW page \in Nat, NEW m \in Nat, HeapBelow(h, page),
         h[find_last_slab(h)].is_free, h[find_last_slab(h)].size >= H
  PROVE  LET last == find_last_slab(h)
             s == last + h[last].size
         IN  Allocates(h,
                       Marked(Inserted(h, last, slab_head, h[last].size - H, s, m), s, FALSE),
                       s, m, page + m)
<1> DEFINE last == h[slab_head].previous
           s == last + h[last].size
           psize == h[last].size - H
           g == Inserted(h, last, slab_head, psize, s, m)
<1>1. /\ last \in DOMAIN h /\ last \in Nat /\ h[last].size \in Nat
      /\ IsSlabList(h) /\ InOrder(h) /\ H \in Nat \ {0}
  BY SlabListFields, HeapAssumption DEF HeapBelow
<1>2. h[last].next = slab_head
  BY <1>1, SlabListFields DEF InOrder
<1>3. last + H + h[last].size <= page
  BY <1>1 DEF HeapBelow, End
<1>4. h[last].is_free /\ h[last].size >= H
  BY DEF find_last_slab
<1>5. /\ psize \in Nat /\ s \in Nat /\ page + m \in Nat /\ page <= page + m
      /\ last + H + psize <= s /\ s + H + m <= page + m
  BY <1>1, <1>3, <1>4
<1> HIDE DEF last, s, psize
<1>6. RoomBehind(h, page, last, psize, s, m, page + m)
  BY <1>1, <1>2, <1>5 DEF RoomBehind
<1>7. LinkedIn(h, g, last, s, m, page + m)
  BY <1>2, <1>6, InsertedInOrder
<1> HIDE DEF g
<1>8. UsedKept(h, g)
  BY <1>1, <1>4, <1>7, LinkedInKeepsUsed
<1>9. HeapBelow(g, page + m) /\ s \in DOMAIN g /\ s \notin DOMAIN h /\ g[s].size = m
  BY <1>7 DEF LinkedIn, Header
<1>10. g[s].size >= m
  BY <1>9
<1>11. Allocates(h, Marked(g, s, FALSE), s, m, page + m)
  BY <1>8, <1>9, <1>10, MarkedAllocates
<1> QED
  BY <1>11 DEF find_last_slab, last, s, psize, g

\* New pages, cut one header before the first page boundary.
LEMMA NewPagesAllocate ==
  ASSUME NEW h, NEW page \in Nat, NEW n \in Nat, HeapBelow(h, page)
  PROVE  LET g == Appended(h, page, n + 1)
             s == page + P - H
         IN  Allocates(h, Marked(Inserted(g, page, slab_head, P - 2 * H, s, n * P), s, FALSE),
                       s, n * P, page + (n + 1) * P)
<1> DEFINE g == Appended(h, page, n + 1)
           s == page + P - H
           m == n * P
           top == page + (n + 1) * P
           k == Inserted(g, page, slab_head, P - 2 * H, s, m)
<1>1. /\ H \in Nat \ {0} /\ P \in Nat /\ P > 2 * H
  BY HeapAssumption
<1>2. m \in Nat /\ (n + 1) * P = m + P /\ n + 1 \in Nat
  BY <1>1
<1>3. /\ top \in Nat /\ (n + 1) * P - H \in Nat /\ P - 2 * H \in Nat /\ s \in Nat
      /\ page + H + (P - 2 * H) <= s /\ s + H + m <= top
  <2> HIDE DEF m
  <2>1. top = page + m + P
    BY <1>1, <1>2
  <2> QED
    BY <1>1, <1>2, <2>1
<1>4. GrownBy(h, g, page, n + 1)
  BY <1>2, <1>3, AppendedInOrder
<1> HIDE DEF g
<1>5. g[page].next = slab_head /\ g[page].is_free = TRUE /\ page \in DOMAIN g
  BY <1>4 DEF GrownBy, Header
<1>6. RoomBehind(g, top, page, P - 2 * H, s, m, top)
  <2>1. top <= top /\ HeapBelow(g, top)
    BY <1>3, <1>4 DEF GrownBy
  <2> HIDE DEF top, s, m
  <2> QED
    BY <1>2, <1>3, <1>5, <2>1 DEF RoomBehind
<1>7. LinkedIn(g, k, page, s, m, top)
  <2> HIDE DEF top, s, m
  <2> QED
    BY <1>5, <1>6, InsertedInOrder
<1> HIDE DEF k
<1>8. UsedKept(h, k)
  <2>1. UsedKept(h, g)
    BY <1>4 DEF GrownBy, UsedKept
  <2>2. UsedKept(g, k)
    BY <1>5, <1>7, LinkedInKeepsUsed
  <2> QED
    BY <2>1, <2>2, UsedKeptTransitive
<1>9. HeapBelow(k, top) /\ s \in DOMAIN k /\ s \notin DOMAIN h /\ k[s].size = m
  BY <1>4, <1>7 DEF LinkedIn, GrownBy, Header
<1>10. k[s].size >= m
  BY <1>2, <1>9
<1>11. Allocates(h, Marked(k, s, FALSE), s, m, top)
  BY <1>8, <1>9, <1>10, MarkedAllocates
<1> QED
  BY <1>11 DEF g, k

-----------------------------------------------------------------------------
\* A slab that absorbs the next one in the list.  The gap that may lie between
\* them does not matter here: the sum of their sizes does not reach further
\* than the end of the second.
LEMMA MergedInOrder ==
  ASSUME NEW h, NEW top \in Nat, HeapBelow(h, top), NEW s \in DOMAIN h,
         h[s].next # slab_head, h[s].is_free, h[h[s].next].is_free
  PROVE  /\ HeapBelow(Merged(h, s), top)
         /\ UsedKept(h, Merged(h, s))
<1> DEFINE o == h[s].next
           nx == h[o].next
           g == Merged(h, s)
<1>1. /\ DOMAIN h \subseteq Nat /\ slab_head \in DOMAIN h
      /\ o \in DOMAIN h /\ nx \in DOMAIN h
      /\ \A a \in DOMAIN h : /\ a \in Nat
                             /\ h[a].next \in DOMAIN h /\ h[a].previous \in DOMAIN h
                             /\ h[a].size \in Nat /\ h[a].is_free \in BOOLEAN
      /\ IsSlabList(h) /\ InOrder(h) /\ H \in Nat \ {0}
  BY SlabListFields, HeapAssumption DEF HeapBelow
<1>2. End(h, s) <= o /\ s # o /\ \A a \in DOMAIN h : a <= s \/ o <= a
  <2>1. End(h, s) <= o /\ \A a \in DOMAIN h : a <= s \/ o <= a
    BY <1>1 DEF InOrder
  <2>2. s \in Nat /\ o \in Nat /\ h[s].size \in Nat /\ H \in Nat \ {0}
    BY <1>1
  <2>3. s + H + h[s].size <= o
    BY <2>1 DEF End
  <2>4. s # o
    <3> HIDE DEF o
    <3> QED
      BY <2>2, <2>3
  <2> QED
    BY <2>1, <2>4
<1>3. nx # o
  <2>1. h[o].previous = s /\ h[nx].previous = o
    BY <1>1 DEF InOrder
  <2> QED
    BY <1>2, <2>1
<1>4. /\ DOMAIN g = DOMAIN h \ {o}
      /\ \A a \in DOMAIN g :
           g[a] = Header(IF a = s THEN nx ELSE h[a].next,
                         IF a = nx THEN s ELSE h[a].previous,
                         IF a = s THEN h[s].size + h[o].size + H ELSE h[a].size,
                         h[a].is_free)
  BY DEF Merged
<1> HIDE DEF g, o, nx
<1>5. \A a \in DOMAIN g :
        /\ g[a].next = IF a = s THEN nx ELSE h[a].next
        /\ g[a].previous = IF a = nx THEN s ELSE h[a].previous
        /\ g[a].size = IF a = s THEN h[s].size + h[o].size + H ELSE h[a].size
        /\ g[a].is_free = h[a].is_free
  BY <1>4 DEF Header
<1>6. s \in DOMAIN g /\ nx \in DOMAIN g /\ slab_head \in DOMAIN g
  <2>1. slab_head # o
    BY DEF o
  <2> QED
    BY <1>1, <1>2, <1>3, <1>4, <2>1
<1>7. \A a \in DOMAIN g : /\ a # s => h[a].next \in DOMAIN g
                          /\ a # nx => h[a].previous \in DOMAIN g
  <2>1. \A a \in DOMAIN h : /\ h[a].next = o => a = s
                            /\ h[a].previous = o => a = nx
    <3> SUFFICES ASSUME NEW a \in DOMAIN h
                 PROVE  /\ h[a].next = o => a = s
                        /\ h[a].previous = o => a = nx
      OBVIOUS
    <3>1. h[h[a].next].previous = a /\ h[h[a].previous].next = a
      BY <1>1 DEF InOrder
    <3>2. h[o].previous = s
      BY <1>1 DEF InOrder, o
    <3> QED
      BY <3>1, <3>2 DEF nx
  <2> QED
    BY <1>1, <1>4, <2>1
<1>8. IsSlabList(g)
  <2>1. ASSUME NEW a \in DOMAIN g
        PROVE  g[a] \in [next : DOMAIN g, previous : DOMAIN g, size : Nat, is_free : BOOLEAN]
    <3> DEFINE n == IF a = s THEN nx ELSE h[a].next
               q == IF a = nx THEN s ELSE h[a].previous
               z == IF a = s THEN h[s].size + h[o].size + H ELSE h[a].size
    <3>1. n \in DOMAIN g /\ q \in DOMAIN g /\ h[a].is_free \in BOOLEAN
      BY <1>1, <1>4, <1>6, <1>7
    <3>2. z \in Nat
      <4>1. /\ h[s].size \in Nat /\ h[o].size \in Nat /\ h[a].size \in Nat
            /\ H \in Nat
        BY <1>1, <1>4
      <4> QED
        BY <4>1
    <3>3. g[a] = Header(n, q, z, h[a].is_free)
      BY <1>4
    <3> HIDE DEF n, q, z
    <3> QED
      BY <3>1, <3>2, <3>3 DEF Header
  <2>2. g = [a \in DOMAIN g |-> g[a]]
    BY DEF Merged, g
  <2>3. DOMAIN g \subseteq Nat
    BY <1>1, <1>4
  <2> QED
    BY <1>6, <2>1, <2>2, <2>3, SlabListFromFields
<1>9. End(g, s) <= End(h, o)
  <2>1. s \in Nat /\ o \in Nat /\ h[s].size \in Nat /\ h[o].size \in Nat
    BY <1>1
  <2>2. g[s].size = h[s].size + h[o].size + H
    BY <1>5, <1>6
  <2>3. s + H + h[s].size <= o /\ H \in Nat
    BY <1>1, <1>2 DEF End
  <2>4. s + H + (h[s].size + h[o].size + H) <= o + H + h[o].size
    BY <2>1, <2>3
  <2> QED
    BY <2>2, <2>4 DEF End
<1>10. InOrder(g)
  <2> SUFFICES ASSUME NEW a \in DOMAIN g
               PROVE  /\ g[g[a].next].previous = a /\ g[g[a].previous].next = a
                      /\ g[a].next = slab_head => \A b \in DOMAIN g : b <= a
                      /\ g[a].next # slab_head =>
                           /\ End(g, a) <= g[a].next
                           /\ \A b \in DOMAIN g : b <= a \/ g[a].next <= b
    BY DEF InOrder
  <2>1. a \in DOMAIN h /\ a # o
    BY <1>4
  <2>2. /\ h[h[a].next].previous = a /\ h[h[a].previous].next = a
        /\ h[a].next = slab_head => \A b \in DOMAIN h : b <= a
        /\ h[a].next # slab_head =>
             /\ End(h, a) <= h[a].next
             /\ \A b \in DOMAIN h : b <= a \/ h[a].next <= b
    BY <1>1, <2>1 DEF InOrder
  <2>3. /\ h[nx].previous = o /\ h[o].previous = s
        /\ nx = slab_head => \A b \in DOMAIN h : b <= o
        /\ nx # slab_head => /\ End(h, o) <= nx
                             /\ \A b \in DOMAIN h : b <= o \/ nx <= b
    BY <1>1 DEF InOrder, o, nx
  <2>4. g[g[a].next].previous = a
    <3>1. CASE a = s
      BY <1>5, <1>6, <3>1
    <3>2. CASE a # s
      <4>1. g[a].next = h[a].next /\ h[a].next \in DOMAIN g
        BY <1>5, <1>7, <3>2
      <4>2. h[a].next # nx
        BY <2>1, <2>2, <2>3
      <4> QED
        BY <1>5, <2>2, <4>1, <4>2
    <3> QED
      BY <3>1, <3>2
  <2>5. g[g[a].previous].next = a
    <3>1. CASE a = nx
      BY <1>5, <1>6, <3>1
    <3>2. CASE a # nx
      <4>1. g[a].previous = h[a].previous /\ h[a].previous \in DOMAIN g
        BY <1>5, <1>7, <3>2
      <4>2. h[a].previous # s
        BY <2>1, <2>2 DEF o
      <4> QED
        BY <1>5, <2>2, <4>1, <4>2
    <3> QED
      BY <3>1, <3>2
  <2>6. CASE a = s
    <3>1. g[a].next = nx
      BY <1>5, <2>6
    <3>2. \A b \in DOMAIN g : b <= o => b <= s
      <4> SUFFICES ASSUME NEW b \in DOMAIN g, b <= o
                   PROVE  b <= s
        OBVIOUS
      <4>1. b \in Nat /\ o \in Nat /\ b # o
        BY <1>1, <1>4
      <4>2. b <= s \/ o <= b
        BY <1>2, <1>4
      <4> QED
        BY <4>1, <4>2
    <3>3. nx = slab_head => \A b \in DOMAIN g : b <= a
      BY <1>4, <2>3, <2>6, <3>2
    <3>4. nx # slab_head => \A b \in DOMAIN g : b <= a \/ nx <= b
      BY <1>4, <2>3, <2>6, <3>2
    <3>5. nx # slab_head => End(g, a) <= nx
      <4>1. End(g, s) \in Int /\ End(h, o) \in Int /\ nx \in Int
        <5>1. g[s].size \in Nat /\ h[o].size \in Nat /\ s \in Nat /\ o \in Nat /\ nx \in Nat
          BY <1>1, <1>6, <1>8, SlabListFields
        <5>2. H \in Nat
          BY <1>1
        <5> QED
          BY <5>1, <5>2 DEF End
      <4> HIDE DEF End
      <4> QED
        BY <1>9, <2>3, <2>6, <4>1
    <3> QED
      BY <2>4, <2>5, <3>1, <3>3, <3>4, <3>5
  <2>7. CASE a # s
    <3>1. g[a].next = h[a].next /\ g[a].size = h[a].size
      BY <1>5, <2>7
    <3>2. End(g, a) = End(h, a)
      BY <3>1 DEF End
    <3> QED
      BY <1>4, <2>2, <2>4, <2>5, <3>1, <3>2
  <2> QED
    BY <2>6, <2>7
<1>11. \A a \in DOMAIN g : End(g, a) <= top
  <2>1. End(h, o) <= top
    BY <1>1 DEF HeapBelow
  <2>2. End(g, s) <= top
    <3>1. /\ g[s].size \in Nat /\ h[o].size \in Nat
          /\ s \in Nat /\ o \in Nat /\ H \in Nat
      BY <1>1, <1>6, <1>8, SlabListFields
    <3>2. End(g, s) \in Int /\ End(h, o) \in Int
      BY <3>1 DEF End
    <3> HIDE DEF End
    <3> QED
      BY <1>9, <2>1, <3>2
  <2>3. ASSUME NEW a \in DOMAIN g, a # s
        PROVE  End(g, a) <= top
    <3>1. End(h, a) <= top
      BY <1>4 DEF HeapBelow
    <3> QED
      BY <1>5, <2>3, <3>1 DEF End
  <2> QED
    BY <2>2, <2>3
<1>12. UsedKept(h, g)
  BY <1>4, <1>5 DEF UsedKept, o
<1> QED
  BY <1>8, <1>10, <1>11, <1>12 DEF HeapBelow, g

\* kfree: the slab is marked free and merged with the neighbours that are free.
LEMMA KfreeInOrder ==
  ASSUME NEW h, NEW top \in Nat, HeapBelow(h, top), NEW s \in DOMAIN h
  PROVE  LET f == Marked(h, s, TRUE)
             g == MergedWithPrevious(MergedWithNext(f, s), s)
         IN  HeapBelow(g, top) /\ UsedKept(f, g)
<1> DEFINE f == Marked(h, s, TRUE)
           m == MergedWithNext(f, s)
           g == MergedWithPrevious(m, s)
<1>1. HeapBelow(f, top) /\ s \in DOMAIN f /\ f[s].is_free
  <2> HIDE DEF f
  <2>1. TRUE \in BOOLEAN
    OBVIOUS
  <2>2. OnlyMarked(h, f, s, TRUE, top)
    BY <2>1, MarkedInOrder DEF f
  <2> QED
    BY <2>2 DEF OnlyMarked
<1> HIDE DEF f
<1>2. HeapBelow(m, top) /\ UsedKept(f, m) /\ s \in DOMAIN m /\ m[s].is_free
  <2>1. CASE f[s].next # slab_head /\ f[f[s].next].is_free
    <3>1. m = Merged(f, s)
      BY <2>1 DEF MergedWithNext
    <3>2. HeapBelow(m, top) /\ UsedKept(f, m)
      BY <1>1, <2>1, <3>1, MergedInOrder
    <3>3. f[s].next # s
      <4>2. s \in Nat /\ f[s].size \in Nat /\ H \in Nat \ {0}
        BY <1>1, SlabListFields, HeapAssumption DEF HeapBelow
      <4>3. s + H + f[s].size <= f[s].next
        BY <1>1, <2>1 DEF HeapBelow, InOrder, End
      <4> QED
        BY <4>2, <4>3
    <3>4. s \in DOMAIN m /\ m[s].is_free
      BY <1>1, <3>1, <3>3 DEF Merged, Header
    <3> QED
      BY <3>2, <3>4
  <2>2. CASE ~(f[s].next # slab_head /\ f[f[s].next].is_free)
    <3>1. m = f
      BY <2>2 DEF MergedWithNext
    <3> QED
      BY <1>1, <3>1 DEF UsedKept
  <2> QED
    BY <2>1, <2>2
<1> HIDE DEF m
<1>3. HeapBelow(g, top) /\ UsedKept(m, g)
  <2>1. CASE s # slab_head /\ m[m[s].previous].is_free
    <3> DEFINE p == m[s].previous
    <3>1. p \in DOMAIN m /\ m[p].next = s
      BY <1>2, SlabListFields DEF HeapBelow, InOrder
    <3>2. g = Merged(m, p)
      BY <2>1 DEF MergedWithPrevious
    <3> HIDE DEF p, g
    <3>3. m[p].is_free
      BY <2>1 DEF p
    <3> QED
      BY <1>2, <2>1, <3>1, <3>2, <3>3, MergedInOrder
  <2>2. CASE ~(s # slab_head /\ m[m[s].previous].is_free)
    <3>1. g = m
      BY <2>2 DEF MergedWithPrevious
    <3> QED
      BY <1>2, <3>1 DEF UsedKept
  <2> QED
    BY <2>1, <2>2
<1>4. UsedKept(f, g)
  BY <1>2, <1>3, UsedKeptTransitive
<1> QED
  BY <1>3, <1>4 DEF f, m, g

-----------------------------------------------------------------------------
\* The inductive invariant.  Beyond the properties themselves it needs to know
\* that the heap ends below the next free frame, so that new pages lie behind
\* every slab, and that no two clients hold the same slab.
HeapInv ==
  /\ nextFrame \in Nat
  /\ HeapBelow(slab, nextFrame * P)
  /\ blocks \subseteq [slab : Nat, bytes : Nat, aligned : BOOLEAN]
  /\ BlocksBacked
  /\ \A b, c \in blocks : b # c => b.slab # c.slab

\* An allocation extends the invariant to the new block ...
LEMMA AllocationStep ==
  ASSUME HeapInv, NEW s, NEW numbytes \in Nat, NEW aligned \in BOOLEAN,
         nextFrame' \in Nat,
         Allocates(slab, slab', s, numbytes, nextFrame' * P),
         blocks' = blocks \cup {[slab |-> s, bytes |-> numbytes, aligned |-> aligned]}
  PROVE  HeapInv' /\ \A b \in blocks \cap blocks' : slab'[b.slab].size = slab[b.slab].size
<1> DEFINE new == [slab |-> s, bytes |-> numbytes, aligned |-> aligned]
<1>1. /\ HeapBelow(slab', nextFrame' * P) /\ UsedKept(slab, slab')
      /\ s \in DOMAIN slab' /\ ~slab'[s].is_free /\ slab'[s].size >= numbytes
      /\ s \in DOMAIN slab => slab[s].is_free
  BY DEF Allocates
<1>2. s \in Nat
  BY <1>1 DEF HeapBelow, IsSlabList
<1>3. new \in [slab : Nat, bytes : Nat, aligned : BOOLEAN]
      /\ new.slab = s /\ new.bytes = numbytes
  BY <1>2
<1>4. \A b \in blocks : /\ b.slab \in DOMAIN slab /\ ~slab[b.slab].is_free
                        /\ slab[b.slab].size >= b.bytes
  BY DEF HeapInv, BlocksBacked
<1>5. \A b \in blocks : /\ b.slab # s
                        /\ b.slab \in DOMAIN slab' /\ ~slab'[b.slab].is_free
                        /\ slab'[b.slab].size = slab[b.slab].size
  BY <1>1, <1>4 DEF UsedKept
<1> HIDE DEF new
<1>6. blocks' = blocks \cup {new}
  BY DEF new
<1>7. BlocksBacked'
  BY <1>1, <1>3, <1>4, <1>5, <1>6 DEF BlocksBacked
<1>8. (\A b, c \in blocks : b # c => b.slab # c.slab)'
  BY <1>3, <1>5, <1>6 DEF HeapInv
<1>9. (blocks \subseteq [slab : Nat, bytes : Nat, aligned : BOOLEAN])'
  BY <1>3, <1>6 DEF HeapInv
<1> QED
  BY <1>1, <1>5, <1>7, <1>8, <1>9 DEF HeapInv

\* ... and a free takes its block out of it.
LEMMA FreeStep ==
  ASSUME HeapInv, NEW b \in blocks, Kfree(b)
  PROVE  HeapInv' /\ \A c \in blocks \cap blocks' : slab'[c.slab].size = slab[c.slab].size
<1> DEFINE f == Marked(slab, b.slab, TRUE)
<1>1. b.slab \in DOMAIN slab /\ nextFrame * P \in Nat /\ HeapBelow(slab, nextFrame * P)
  BY HeapAssumption DEF HeapInv, BlocksBacked
<1>2. HeapBelow(slab', nextFrame * P) /\ UsedKept(f, slab')
  <2>1. slab' = MergedWithPrevious(MergedWithNext(f, b.slab), b.slab)
    BY DEF Kfree
  <2> HIDE DEF f
  <2> QED
    BY <1>1, <2>1, KfreeInOrder DEF f
<1>3. /\ DOMAIN f = DOMAIN slab
      /\ \A a \in DOMAIN slab : /\ f[a].size = slab[a].size
                                /\ a # b.slab => f[a].is_free = slab[a].is_free
  BY DEF Marked, Header
<1>4. blocks' = blocks \ {b} /\ nextFrame' = nextFrame
  BY DEF Kfree
<1>5. \A c \in blocks : /\ c.slab \in DOMAIN slab /\ ~slab[c.slab].is_free
                        /\ slab[c.slab].size >= c.bytes
                        /\ c # b => c.slab # b.slab
  BY DEF HeapInv, BlocksBacked
<1> HIDE DEF f
<1>6. \A c \in blocks' : /\ c.slab \in DOMAIN slab' /\ ~slab'[c.slab].is_free
                         /\ slab'[c.slab].size = slab[c.slab].size
  BY <1>2, <1>3, <1>4, <1>5 DEF UsedKept
<1>7. BlocksBacked'
  BY <1>4, <1>5, <1>6 DEF BlocksBacked
<1> QED
  BY <1>2, <1>4, <1>6, <1>7 DEF HeapInv

\* Rounding up to pages leaves room for the header and the request.
LEMMA PagesForEnough ==
  ASSUME NEW numbytes \in Nat
  PROVE  /\ PagesFor(numbytes) \in Nat
         /\ PagesFor(numbytes) * P - H \in Nat
         /\ PagesFor(numbytes) * P - H >= numbytes
<1> DEFINE x == numbytes + H + P - 1
           q == x \div P
           r == x % P
<1>1. H \in Nat /\ P \in Nat \ {0}
  BY HeapAssumption
<1>2. x \in Nat
  BY <1>1
<1> HIDE DEF x
<1>3. q \in Nat /\ r \in 0 .. P - 1
  BY <1>1, <1>2
<1>4. x = q * P + r
  BY <1>1, <1>2
<1> HIDE DEF q, r
<1>5. q * P \in Nat
  BY <1>1, <1>3
<1>6. q * P >= numbytes + H
  BY <1>1, <1>3, <1>4, <1>5 DEF x
<1> QED
  BY <1>1, <1>3, <1>5, <1>6 DEF PagesFor, q, x

LEMMA TablesMissingRange ==
  ASSUME NEW f, NEW low
  PROVE  TablesMissing(f, low) \in 0 .. 3
<1> DEFINE missing(span) == IF \E g \in low : g \div span = f \div span THEN 0 ELSE 1
<1>1. \A span : missing(span) \in {0, 1}
  OBVIOUS
<1> HIDE DEF missing
<1>2. missing(Fan) + missing(Fan * Fan) + missing(Fan * Fan * Fan) \in 0 .. 3
  <2>1. /\ missing(Fan) \in {0, 1} /\ missing(Fan * Fan) \in {0, 1}
        /\ missing(Fan * Fan * Fan) \in {0, 1}
    BY <1>1
  <2> QED
    BY <2>1
<1> QED
  BY <1>2 DEF TablesMissing, missing

LEMMA FramesTaken ==
  ASSUME nextFrame \in Nat, NEW n \in Nat, TakeFrames(n)
  PROVE  /\ nextFrame' \in Nat
         /\ nextFrame * P \in Nat /\ n * P \in Nat /\ nextFrame' * P \in Nat
         /\ nextFrame * P + n * P <= nextFrame' * P
<1>1. PICK k \in 0 .. 3 : nextFrame' = nextFrame + n + k
  BY TablesMissingRange DEF TakeFrames
<1>2. P \in Nat
  BY HeapAssumption
<1>3. nextFrame' * P = nextFrame * P + n * P + k * P
  BY <1>1, <1>2
<1>4. k * P \in Nat /\ nextFrame * P \in Nat /\ n * P \in Nat
  BY <1>1, <1>2
<1> QED
  BY <1>1, <1>2, <1>3, <1>4

LEMMA AllocatesBelow ==
  ASSUME NEW h, NEW g, NEW s, NEW numbytes, NEW top \in Nat, NEW newtop \in Nat,
         Allocates(h, g, s, numbytes, top), top <= newtop
  PROVE  Allocates(h, g, s, numbytes, newtop)
<1>1. ASSUME NEW a \in DOMAIN g
      PROVE  End(g, a) <= newtop
  <2>1. IsSlabList(g) /\ End(g, a) <= top
    BY DEF Allocates, HeapBelow
  <2>2. a \in Nat /\ g[a].size \in Nat /\ H \in Nat
    BY <2>1, SlabListFields, HeapAssumption
  <2>3. End(g, a) \in Nat
    BY <2>2 DEF End
  <2> QED
    BY <2>1, <2>3
<1> QED
  BY <1>1 DEF Allocates, HeapBelow

\* One kallocate call, whichever path it takes.
LEMMA KallocateStep ==
  ASSUME HeapInv, NEW numbytes \in Bytes, Kallocate(numbytes)
  PROVE  HeapInv' /\ \A b \in blocks \cap blocks' : slab'[b.slab].size = slab[b.slab].size
<1>1. numbytes \in Nat /\ nextFrame \in Nat /\ nextFrame * P \in Nat /\ FALSE \in BOOLEAN
  BY HeapAssumption DEF HeapInv
<1>2. HeapBelow(slab, nextFrame * P)
  BY DEF HeapInv
<1>3. ASSUME NEW s \in DOMAIN slab, FirstFit(s, numbytes),
             slab' = Carved(slab, s, numbytes),
             blocks' = blocks \cup {[slab |-> s, bytes |-> numbytes, aligned |-> FALSE]},
             UNCHANGED <<nextFrame, mapped, pages, halted>>
      PROVE  HeapInv' /\ \A b \in blocks \cap blocks' : slab'[b.slab].size = slab[b.slab].size
  <2>1. slab[s].is_free /\ slab[s].size >= numbytes
    BY <1>3 DEF FirstFit, Fits
  <2>2. Allocates(slab, slab', s, numbytes, nextFrame * P)
    BY <1>1, <1>2, <1>3, <2>1, CarvedAllocates
  <2>3. nextFrame' = nextFrame
    BY <1>3
  <2>4. Allocates(slab, slab', s, numbytes, nextFrame' * P) /\ nextFrame' \in Nat
    BY <1>1, <2>2, <2>3
  <2> QED
    BY <1>1, <1>3, <2>4, AllocationStep
<1>4. ASSUME TakeFrames(PagesFor(numbytes)),
             slab' = Carved(Appended(slab, nextFrame * P, PagesFor(numbytes)),
                            nextFrame * P, numbytes),
             blocks' = blocks \cup
               {[slab |-> nextFrame * P, bytes |-> numbytes, aligned |-> FALSE]}
      PROVE  HeapInv' /\ \A b \in blocks \cap blocks' : slab'[b.slab].size = slab[b.slab].size
  <2> DEFINE n == PagesFor(numbytes)
             page == nextFrame * P
  <2>1. n \in Nat /\ n * P - H \in Nat /\ n * P - H >= numbytes
    BY <1>1, PagesForEnough
  <2>2. /\ nextFrame' \in Nat /\ page + n * P \in Nat /\ nextFrame' * P \in Nat
        /\ page + n * P <= nextFrame' * P
    BY <1>1, <1>4, <2>1, FramesTaken
  <2> HIDE DEF n
  <2>3. Allocates(slab, slab', page, numbytes, page + n * P)
    <3>1. page \in Nat /\ HeapBelow(slab, page)
      BY <1>1, <1>2
    <3>2. slab' = Carved(Appended(slab, page, n), page, numbytes)
      BY <1>4 DEF n
    <3> HIDE DEF page
    <3> QED
      BY <1>1, <2>1, <3>1, <3>2, GrownAllocates
  <2>4. Allocates(slab, slab', page, numbytes, nextFrame' * P)
    BY <2>2, <2>3, AllocatesBelow
  <2> QED
    BY <1>1, <1>4, <2>2, <2>4, AllocationStep
<1>5. CASE OutOfMemory(PagesFor(numbytes))
  BY <1>5 DEF OutOfMemory, HeapInv, BlocksBacked
<1> QED
  BY <1>3, <1>4, <1>5 DEF Kallocate

LEMMA KallocateAlignedStep ==
  ASSUME HeapInv, NEW num_pages \in AlignedPages, KallocateAligned(num_pages)
  PROVE  HeapInv' /\ \A b \in blocks \cap blocks' : slab'[b.slab].size = slab[b.slab].size
<1> DEFINE page == nextFrame * P
           m == num_pages * P
<1>1. /\ num_pages \in Nat /\ nextFrame \in Nat /\ page \in Nat /\ m \in Nat
      /\ TRUE \in BOOLEAN
  BY HeapAssumption DEF HeapInv
<1>2. HeapBelow(slab, page)
  BY DEF HeapInv
<1>3. CASE KallocateBehindTail(num_pages)
  <2> DEFINE last == find_last_slab(slab)
             s == last + slab[last].size
  <2>1. /\ slab[last].is_free /\ slab[last].size >= H
        /\ slab' = Marked(Inserted(slab, last, slab_head, slab[last].size - H, s, m), s, FALSE)
        /\ blocks' = blocks \cup {[slab |-> s, bytes |-> m, aligned |-> TRUE]}
    BY <1>3 DEF KallocateBehindTail, TailHasRoom
  <2>2. /\ nextFrame' \in Nat /\ page + m \in Nat /\ nextFrame' * P \in Nat
        /\ page + m <= nextFrame' * P
    BY <1>1, <1>3, FramesTaken DEF KallocateBehindTail
  <2> HIDE DEF page, m
  <2>3. Allocates(slab, slab', s, m, page + m)
    BY <1>1, <1>2, <2>1, BehindTailAllocates
  <2> HIDE DEF s
  <2>4. Allocates(slab, slab', s, m, nextFrame' * P)
    BY <2>2, <2>3, AllocatesBelow
  <2> QED
    BY <1>1, <2>1, <2>2, <2>4, AllocationStep
<1>4. CASE KallocateNewPages(num_pages)
  <2> DEFINE s == page + P - H
             g == Appended(slab, page, num_pages + 1)
             top == page + (num_pages + 1) * P
  <2>1. /\ slab' = Marked(Inserted(g, page, slab_head, P - 2 * H, s, m), s, FALSE)
        /\ blocks' = blocks \cup {[slab |-> s, bytes |-> m, aligned |-> TRUE]}
    BY <1>4 DEF KallocateNewPages
  <2>2. /\ nextFrame' \in Nat /\ top \in Nat /\ nextFrame' * P \in Nat
        /\ top <= nextFrame' * P
    <3>1. num_pages + 1 \in Nat /\ TakeFrames(num_pages + 1)
      BY <1>1, <1>4 DEF KallocateNewPages
    <3> QED
      BY <1>1, <3>1, FramesTaken
  <2> HIDE DEF page
  <2>3. Allocates(slab, slab', s, m, top)
    BY <1>1, <1>2, <2>1, NewPagesAllocate
  <2> HIDE DEF s, m, top
  <2>4. Allocates(slab, slab', s, m, nextFrame' * P)
    BY <2>2, <2>3, AllocatesBelow
  <2> QED
    BY <1>1, <2>1, <2>2, <2>4, AllocationStep
<1>5. ASSUME NEW n, OutOfMemory(n)
      PROVE  HeapInv' /\ \A b \in blocks \cap blocks' : slab'[b.slab].size = slab[b.slab].size
  BY <1>5 DEF OutOfMemory, HeapInv, BlocksBacked
<1> QED
  BY <1>3, <1>4, <1>5 DEF KallocateAligned

LEMMA HeapInvInit == Init => HeapInv
<1> SUFFICES ASSUME Init PROVE HeapInv
  OBVIOUS
<1>1. H \in Nat \ {0} /\ P \in Nat /\ P > 2 * H /\ FirstFrame \in Nat
  BY HeapAssumption
<1>2. PICK k \in 0 .. 3 : nextFrame = FirstFrame + 1 + k
  BY TablesMissingRange DEF Init
<1>3. slab_head \in Nat /\ slab_head + P <= nextFrame * P /\ nextFrame \in Nat
  <2>1. nextFrame * P = FirstFrame * P + P + k * P
    BY <1>1, <1>2
  <2>2. k * P \in Nat /\ FirstFrame * P \in Nat
    BY <1>1, <1>2
  <2> QED
    BY <1>1, <1>2, <2>1, <2>2 DEF slab_head
<1>4. /\ DOMAIN slab = {slab_head}
      /\ slab[slab_head] = Header(slab_head, slab_head, P - H, TRUE)
      /\ slab = [a \in {slab_head} |-> slab[a]]
  BY DEF Init
<1>5. IsSlabList(slab)
  <2>1. P - H \in Nat
    BY <1>1
  <2>2. slab[slab_head] \in [next : {slab_head}, previous : {slab_head},
                             size : Nat, is_free : BOOLEAN]
    BY <1>4, <2>1 DEF Header
  <2>3. slab \in [{slab_head} -> [next : {slab_head}, previous : {slab_head},
                                  size : Nat, is_free : BOOLEAN]]
    BY <1>4, <2>2, Zenon
  <2>4. {slab_head} \subseteq Nat
    BY <1>3
  <2> QED
    BY <1>4, <2>3, <2>4 DEF IsSlabList
<1>6. /\ slab[slab_head].next = slab_head /\ slab[slab_head].previous = slab_head
      /\ slab[slab_head].size = P - H
  BY <1>4 DEF Header
<1>7. InOrder(slab)
  <2>1. slab_head <= slab_head
    BY <1>3
  <2> SUFFICES ASSUME NEW a \in {slab_head}
               PROVE  /\ slab[slab[a].next].previous = a
                      /\ slab[slab[a].previous].next = a
                      /\ \A b \in {slab_head} : b <= a
                      /\ slab[a].next = slab_head
    BY <1>4, Zenon DEF InOrder
  <2> QED
    BY <1>6, <2>1
<1>8. End(slab, slab_head) <= nextFrame * P
  BY <1>1, <1>3, <1>6 DEF End
<1>9. blocks = {}
  BY DEF Init
<1> QED
  BY <1>3, <1>4, <1>5, <1>7, <1>8, <1>9 DEF HeapInv, HeapBelow, BlocksBacked

LEMMA HeapInvStep ==
  ASSUME HeapInv, [Next]_vars
  PROVE  HeapInv' /\ \A b \in blocks \cap blocks' : slab'[b.slab].size = slab[b.slab].size
<1>1. CASE Halted \/ UNCHANGED vars
  BY <1>1 DEF Halted, vars, HeapInv, BlocksBacked
<1> QED
  BY <1>1, KallocateStep, KallocateAlignedStep, FreeStep DEF Next

LEMMA HeapInvHolds == Spec => []HeapInv
<1>1. HeapInv /\ [Next]_vars => HeapInv'
  BY HeapInvStep
<1> QED
  BY <1>1, HeapInvInit, PTL DEF Spec

-----------------------------------------------------------------------------
\* The list is one ring in order of addresses, and slabs do not overlap.
THEOREM ListStaysInOrder == Spec => []ListInOrder
<1>1. HeapInv => ListInOrder
  BY DEF HeapInv, HeapBelow, ListInOrder
<1> QED
  BY <1>1, HeapInvHolds, PTL

\* A client's slab stays in the list, in use and large enough.
THEOREM BlocksStayBacked == Spec => []BlocksBacked
<1>1. HeapInv => BlocksBacked
  BY DEF HeapInv
<1> QED
  BY <1>1, HeapInvHolds, PTL

\* Clients never share memory, and never hold memory with a slab_t in it.
THEOREM BlocksStayDisjoint == Spec => []BlocksDisjoint
<1>1. HeapInv => BlocksDisjoint
  <2> SUFFICES ASSUME HeapInv PROVE BlocksDisjoint
    OBVIOUS
  <2>1. /\ IsSlabList(slab) /\ InOrder(slab) /\ H \in Nat \ {0}
        /\ \A b \in blocks : /\ b.slab \in DOMAIN slab /\ b.bytes \in Nat
                             /\ slab[b.slab].size >= b.bytes
        /\ \A b, c \in blocks : b # c => b.slab # c.slab
    BY HeapAssumption DEF HeapInv, HeapBelow, BlocksBacked
  <2>2. ASSUME NEW b \in blocks, NEW a \in DOMAIN slab, NEW x \in Data(b)
        PROVE  /\ a \in Nat /\ b.slab \in Nat /\ x \in Int
               /\ b.slab + H <= x
               /\ a <= b.slab \/ x < a
    <3>1. /\ a \in Nat /\ b.slab \in Nat /\ slab[b.slab].size \in Nat /\ b.bytes \in Nat
          /\ b.slab \in DOMAIN slab /\ slab[b.slab].size >= b.bytes
      BY <2>1, SlabListFields
    <3>2. x \in Int /\ b.slab + H <= x /\ x <= b.slab + H + b.bytes - 1
      BY <2>1, <3>1 DEF Data
    <3>3. CASE b.slab < a
      <4>1. b.slab + H + slab[b.slab].size <= a
        BY <2>1, <3>1, <3>3, SlabsApart DEF End
      <4> QED
        BY <2>1, <3>1, <3>2, <4>1
    <3> QED
      BY <3>1, <3>2, <3>3
  <2>3. ASSUME NEW b \in blocks, NEW a \in DOMAIN slab
        PROVE  Data(b) \cap (a .. a + H - 1) = {}
    <3> SUFFICES ASSUME NEW x \in Data(b), x \in a .. a + H - 1
                 PROVE  FALSE
      OBVIOUS
    <3>1. /\ a \in Nat /\ b.slab \in Nat /\ x \in Int
          /\ b.slab + H <= x /\ (a <= b.slab \/ x < a)
      BY <2>2
    <3> QED
      BY <2>1, <3>1
  <2>4. ASSUME NEW b \in blocks, NEW c \in blocks, b # c
        PROVE  Data(b) \cap Data(c) = {}
    <3> SUFFICES ASSUME NEW x \in Data(b), x \in Data(c)
                 PROVE  FALSE
      OBVIOUS
    <3>1. b.slab \in DOMAIN slab /\ c.slab \in DOMAIN slab /\ b.slab # c.slab
      BY <2>1, <2>4
    <3>2. /\ b.slab \in Nat /\ c.slab \in Nat /\ x \in Int
          /\ b.slab + H <= x /\ (c.slab <= b.slab \/ x < c.slab)
          /\ c.slab + H <= x /\ (b.slab <= c.slab \/ x < b.slab)
      BY <2>2, <3>1
    <3> QED
      BY <2>1, <3>1, <3>2
  <2> QED
    BY <2>3, <2>4 DEF BlocksDisjoint
<1> QED
  BY <1>1, HeapInvHolds, PTL

\* What others allocate and free never changes the size of a held slab.
THEOREM HeldSlabsStayStable == Spec => HeldSlabsStable
<1>1. HeapInv /\ [Next]_vars =>
        [\A b \in blocks \cap blocks' : slab'[b.slab].size = slab[b.slab].size]_vars
  BY HeapInvStep
<1> QED
  BY <1>1, HeapInvHolds, PTL DEF Spec, HeldSlabsStable

\* Type correctness.
THEOREM TypeCorrect == Spec => []TypeOK
<1> DEFINE Rest == /\ mapped \subseteq Nat /\ pages \subseteq Nat
                   /\ apart \in BOOLEAN /\ halted \in BOOLEAN
<1>1. Init => Rest
  BY HeapAssumption DEF Init
<1>2. HeapInv /\ Rest /\ [Next]_vars => Rest'
  <2> SUFFICES ASSUME HeapInv, Rest, [Next]_vars
               PROVE  Rest'
    OBVIOUS
  <2>1. ASSUME NEW n \in Nat, TakeFrames(n), apart' \in BOOLEAN, UNCHANGED halted
        PROVE  Rest'
    <3>1. nextFrame \in Nat
      BY DEF HeapInv
    <3>2. nextFrame .. nextFrame + n - 1 \subseteq Nat
      BY <3>1
    <3> QED
      BY <2>1, <3>1, <3>2 DEF TakeFrames
  <2>2. ASSUME NEW n, OutOfMemory(n)
        PROVE  Rest'
    BY <2>2 DEF OutOfMemory
  <2>3. ASSUME NEW numbytes \in Bytes, Kallocate(numbytes)
        PROVE  Rest'
    <3>1. PagesFor(numbytes) \in Nat
      BY HeapAssumption, PagesForEnough
    <3> QED
      BY <2>1, <2>2, <2>3, <3>1 DEF Kallocate
  <2>4. ASSUME NEW num_pages \in AlignedPages, KallocateAligned(num_pages)
        PROVE  Rest'
    <3>1. num_pages \in Nat /\ num_pages + 1 \in Nat
      BY HeapAssumption
    <3>2. CASE KallocateBehindTail(num_pages)
      <4>1. apart' \in BOOLEAN
        BY <3>2, Zenon DEF KallocateBehindTail
      <4> QED
        BY <2>1, <3>1, <3>2, <4>1 DEF KallocateBehindTail
    <3> QED
      BY <2>1, <2>2, <2>4, <3>1, <3>2 DEF KallocateAligned, KallocateNewPages
  <2>5. ASSUME NEW b \in blocks, Kfree(b)
        PROVE  Rest'
    <3>1. apart' \in BOOLEAN
      BY <2>5, Zenon DEF Kfree
    <3> QED
      BY <2>5, <3>1 DEF Kfree
  <2>6. CASE Halted \/ UNCHANGED vars
    BY <2>6 DEF Halted, vars
  <2> QED
    BY <2>3, <2>4, <2>5, <2>6 DEF Next
<1>3. HeapInv /\ Rest => TypeOK
  BY DEF HeapInv, HeapBelow, TypeOK
<1> QED
  BY <1>1, <1>2, <1>3, HeapInvHolds, PTL DEF Spec

-----------------------------------------------------------------------------
(***************************************************************************)
(* AlignedBlocks.  An aligned block is cut where the free tail ends, or    *)
(* one header before a page boundary.  The tail can come from any history  *)
(* of splitting and merging, over pages with gaps in between: what all of  *)
(* it keeps is that a gap behind a slab is a multiple of a page.           *)
(***************************************************************************)
Multiple(x) == \E k \in Int : x = k * P

\* The gap behind a slab, or where the tail ends.
Gap(h, a) == (IF h[a].next = slab_head THEN 0 ELSE h[a].next) - End(h, a)

GapsPaged(h) == \A a \in DOMAIN h : Multiple(Gap(h, a))

AlignedInv ==
  /\ GapsPaged(slab)
  /\ \A b \in blocks : b.aligned => Multiple(b.slab + H)

LEMMA Multiples ==
  ASSUME NEW x \in Int, NEW y \in Int, Multiple(x), Multiple(y)
  PROVE  Multiple(x + y) /\ Multiple(x - y) /\ Multiple(0 - x)
<1>1. P \in Int
  BY HeapAssumption
<1>2. PICK k \in Int, l \in Int : x = k * P /\ y = l * P
  BY DEF Multiple
<1>3. /\ x + y = (k + l) * P /\ x - y = (k - l) * P /\ 0 - x = (0 - k) * P
      /\ k + l \in Int /\ k - l \in Int /\ 0 - k \in Int
  BY <1>1, <1>2
<1> QED
  BY <1>3 DEF Multiple

LEMMA SomeMultiples ==
  Multiple(0) /\ Multiple(P) /\ \A n \in Int : Multiple(n * P) /\ n * P \in Int
<1>1. P \in Int /\ 0 = 0 * P /\ P = 1 * P
  BY HeapAssumption
<1> QED
  BY <1>1 DEF Multiple

LEMMA MultipleRemainder ==
  ASSUME NEW x \in Nat, Multiple(x)
  PROVE  x % P = 0
<1>1. P \in Nat \ {0}
  BY HeapAssumption
<1>2. PICK k \in Int : x = k * P
  BY DEF Multiple
<1>3. k \in Nat
  BY <1>1, <1>2
<1>4. ASSUME NEW n \in Nat, NEW d \in Nat \ {0}, NEW q \in Nat, n = q * d
      PROVE  n % d = 0
  BY <1>4, SMTT(60)
<1> QED
  BY <1>1, <1>2, <1>3, <1>4

\* A header linked in behind p: only the gaps around it are new.
LEMMA InsertedGaps ==
  ASSUME NEW h, IsSlabList(h), GapsPaged(h), NEW p \in DOMAIN h, NEW psize \in Nat,
         NEW s \in Nat, NEW size \in Nat, s \notin DOMAIN h,
         Multiple(s - (p + H + psize)),
         Multiple((IF h[p].next = slab_head THEN 0 ELSE h[p].next) - (s + H + size))
  PROVE  GapsPaged(Inserted(h, p, h[p].next, psize, s, size))
<1> DEFINE g == Inserted(h, p, h[p].next, psize, s, size)
<1>1. slab_head \in DOMAIN h /\ s # slab_head /\ s # p
  BY SlabListFields
<1>2. /\ DOMAIN g = DOMAIN h \cup {s}
      /\ g[s] = Header(h[p].next, p, size, TRUE)
      /\ \A a \in DOMAIN h :
           g[a] = Header(IF a = p THEN s ELSE h[a].next,
                         IF a = h[p].next THEN s ELSE h[a].previous,
                         IF a = p THEN psize ELSE h[a].size,
                         h[a].is_free)
  BY <1>1 DEF Inserted
<1> HIDE DEF g
<1>3. /\ g[s].next = h[p].next /\ g[s].size = size
      /\ g[p].next = s /\ g[p].size = psize
      /\ \A a \in DOMAIN h \ {p} : g[a].next = h[a].next /\ g[a].size = h[a].size
  BY <1>2 DEF Header
<1>4. ASSUME NEW a \in DOMAIN g
      PROVE  Multiple(Gap(g, a))
  <2>1. CASE a = s
    BY <1>3, <2>1 DEF Gap, End
  <2>2. CASE a = p
    BY <1>1, <1>3, <2>2 DEF Gap, End
  <2>3. CASE a # s /\ a # p
    BY <1>2, <1>3, <2>3 DEF GapsPaged, Gap, End
  <2> QED
    BY <2>1, <2>2, <2>3
<1> QED
  BY <1>4 DEF GapsPaged, g

LEMMA MarkedGaps ==
  ASSUME NEW h, NEW s, NEW value, GapsPaged(h)
  PROVE  GapsPaged(Marked(h, s, value))
<1> DEFINE g == Marked(h, s, value)
<1>1. /\ DOMAIN g = DOMAIN h
      /\ \A a \in DOMAIN h :
           g[a] = IF a = s THEN Header(h[a].next, h[a].previous, h[a].size, value) ELSE h[a]
  BY DEF Marked
<1> HIDE DEF g
<1>2. \A a \in DOMAIN h : g[a].next = h[a].next /\ g[a].size = h[a].size
  BY <1>1 DEF Header
<1> QED
  BY <1>1, <1>2 DEF GapsPaged, Gap, End, g

\* A slab that absorbs the next one: its size leaves out the gap between them, which does
\* not matter for a multiple of a page.
LEMMA MergedGaps ==
  ASSUME NEW h, IsSlabList(h), InOrder(h), GapsPaged(h), NEW s \in DOMAIN h,
         h[s].next # slab_head
  PROVE  GapsPaged(Merged(h, s))
<1> DEFINE o == h[s].next
           nx == h[o].next
           after == IF nx = slab_head THEN 0 ELSE nx
           g == Merged(h, s)
<1>1. /\ s \in Nat /\ o \in DOMAIN h /\ o \in Nat /\ nx \in Nat
      /\ h[s].size \in Nat /\ h[o].size \in Nat /\ H \in Nat
  BY SlabListFields, HeapAssumption
<1>2. /\ DOMAIN g = DOMAIN h \ {o}
      /\ \A a \in DOMAIN g :
           g[a] = Header(IF a = s THEN nx ELSE h[a].next,
                         IF a = nx THEN s ELSE h[a].previous,
                         IF a = s THEN h[s].size + h[o].size + H ELSE h[a].size,
                         h[a].is_free)
  BY DEF Merged
<1> HIDE DEF g
<1>3. /\ s \in DOMAIN g => g[s].next = nx /\ g[s].size = h[s].size + h[o].size + H
      /\ \A a \in DOMAIN g \ {s} : a \in DOMAIN h /\ g[a].next = h[a].next /\ g[a].size = h[a].size
  <2> HIDE DEF o, nx
  <2>1. \A a \in DOMAIN g :
          /\ g[a].next = IF a = s THEN nx ELSE h[a].next
          /\ g[a].size = IF a = s THEN h[s].size + h[o].size + H ELSE h[a].size
    BY <1>2 DEF Header
  <2> QED
    BY <1>2, <2>1
<1>4. Multiple(after - (s + H + (h[s].size + h[o].size + H)))
  <2>1. Multiple(o - (s + H + h[s].size)) /\ Multiple(after - (o + H + h[o].size))
    BY <1>1 DEF GapsPaged, Gap, End
  <2>2. after \in Int
    BY <1>1
  <2> HIDE DEF o, nx, after
  <2>3. (o - (s + H + h[s].size)) + (after - (o + H + h[o].size))
          = after - (s + H + (h[s].size + h[o].size + H))
    BY <1>1, <2>2
  <2>4. o - (s + H + h[s].size) \in Int /\ after - (o + H + h[o].size) \in Int
    BY <1>1, <2>2
  <2>5. Multiple((o - (s + H + h[s].size)) + (after - (o + H + h[o].size)))
    BY <2>1, <2>4, Multiples
  <2> QED
    BY <2>3, <2>5
<1>5. ASSUME NEW a \in DOMAIN g
      PROVE  Multiple(Gap(g, a))
  <2>1. CASE a = s
    BY <1>3, <1>4, <2>1 DEF Gap, End
  <2>2. CASE a # s
    BY <1>2, <1>3, <2>2 DEF GapsPaged, Gap, End
  <2> QED
    BY <2>1, <2>2
<1> QED
  BY <1>5 DEF GapsPaged, g

LEMMA CarvedGaps ==
  ASSUME NEW h, NEW top \in Nat, NEW s \in DOMAIN h, NEW numbytes \in Nat,
         HeapBelow(h, top), GapsPaged(h)
  PROVE  GapsPaged(Carved(h, s, numbytes))
<1> DEFINE rest == h[s].size - numbytes - H
           new_slab == s + H + numbytes
<1>1. IsSlabList(h) /\ InOrder(h) /\ s \in Nat /\ h[s].size \in Nat /\ H \in Nat \ {0}
  BY SlabListFields, HeapAssumption DEF HeapBelow
<1>2. CASE rest > 0
  <2>1. new_slab \in Nat /\ rest \in Nat /\ s < new_slab
    BY <1>1, <1>2
  <2>2. new_slab \notin DOMAIN h
    <3> SUFFICES ASSUME new_slab \in DOMAIN h PROVE FALSE
      OBVIOUS
    <3>1. s + H + h[s].size <= new_slab
      BY <1>1, <2>1, SlabsApart DEF End
    <3> QED
      BY <1>1, <1>2, <3>1
  <2>3. Multiple(new_slab - (s + H + numbytes))
    <3>1. new_slab - (s + H + numbytes) = 0
      BY <1>1
    <3> QED
      BY <3>1, SomeMultiples
  <2>4. Multiple((IF h[s].next = slab_head THEN 0 ELSE h[s].next) - (new_slab + H + rest))
    <3>1. new_slab + H + rest = s + H + h[s].size
      BY <1>1
    <3> QED
      BY <3>1 DEF GapsPaged, Gap, End
  <2> HIDE DEF new_slab, rest
  <2>5. GapsPaged(Inserted(h, s, h[s].next, numbytes, new_slab, rest))
    BY <1>1, <2>1, <2>2, <2>3, <2>4, InsertedGaps
  <2>6. Carved(h, s, numbytes)
          = Marked(Inserted(h, s, h[s].next, numbytes, new_slab, rest), s, FALSE)
    BY <1>2 DEF Carved, new_slab, rest
  <2> QED
    BY <2>5, <2>6, MarkedGaps
<1>3. CASE ~(rest > 0)
  <2>1. Carved(h, s, numbytes) = Marked(h, s, FALSE)
    BY <1>3 DEF Carved
  <2> QED
    BY <2>1, MarkedGaps
<1> QED
  BY <1>2, <1>3

\* The tail of an ordered list.
LEMMA LastSlab ==
  ASSUME NEW h, NEW top \in Nat, HeapBelow(h, top)
  PROVE  LET last == find_last_slab(h)
         IN  /\ last \in DOMAIN h /\ last \in Nat /\ h[last].size \in Nat
             /\ h[last].next = slab_head
             /\ \A a \in DOMAIN h : a <= last
             /\ last + H + h[last].size <= top
<1> DEFINE last == h[slab_head].previous
<1>1. /\ last \in DOMAIN h /\ last \in Nat /\ h[last].size \in Nat
      /\ IsSlabList(h) /\ InOrder(h)
  BY SlabListFields DEF HeapBelow
<1>2. h[last].next = slab_head /\ slab_head \in DOMAIN h
  BY <1>1, SlabListFields DEF InOrder
<1>3. \A a \in DOMAIN h : a <= last
  BY <1>1, <1>2 DEF InOrder
<1>4. last + H + h[last].size <= top
  BY <1>1 DEF HeapBelow, End
<1> QED
  BY <1>1, <1>2, <1>3, <1>4 DEF find_last_slab

LEMMA AppendedGaps ==
  ASSUME NEW h, NEW page \in Nat, NEW n \in Nat, HeapBelow(h, page), n * P - H \in Nat,
         GapsPaged(h), Multiple(page)
  PROVE  GapsPaged(Appended(h, page, n))
<1> DEFINE last == find_last_slab(h)
           size == n * P - H
<1>1. /\ last \in DOMAIN h /\ last \in Nat /\ h[last].size \in Nat
      /\ h[last].next = slab_head /\ last + H + h[last].size <= page
      /\ \A a \in DOMAIN h : a <= last
  BY LastSlab
<1>2. IsSlabList(h) /\ H \in Nat \ {0}
  BY HeapAssumption DEF HeapBelow
<1>3. page \notin DOMAIN h
  BY <1>1, <1>2
<1>4. Multiple(page - (last + H + h[last].size))
  <2>1. Multiple(0 - (last + H + h[last].size))
    BY <1>1 DEF GapsPaged, Gap, End
  <2>2. 0 - (last + H + h[last].size) \in Int
        /\ page + (0 - (last + H + h[last].size)) = page - (last + H + h[last].size)
    BY <1>1, <1>2
  <2>3. Multiple(page + (0 - (last + H + h[last].size)))
    BY <2>1, <2>2, Multiples
  <2> QED
    BY <2>2, <2>3
<1>5. Multiple(0 - (page + H + size))
  <2>1. n * P \in Int /\ Multiple(n * P)
    BY SomeMultiples
  <2>2. page + n * P \in Int /\ page + H + size = page + n * P
    BY <1>2, <2>1
  <2>3. Multiple(page + n * P)
    BY <2>1, Multiples
  <2>4. Multiple(0 - (page + n * P))
    BY <2>2, <2>3, Multiples
  <2> QED
    BY <2>2, <2>4
<1> HIDE DEF last, size
<1>6. size \in Nat
  BY DEF size
<1>7. GapsPaged(Inserted(h, last, h[last].next, h[last].size, page, size))
  BY <1>1, <1>2, <1>3, <1>4, <1>5, <1>6, InsertedGaps
<1> QED
  BY <1>1, <1>7 DEF Appended, last, size

LEMMA KfreeGaps ==
  ASSUME NEW h, NEW top \in Nat, HeapBelow(h, top), NEW s \in DOMAIN h, GapsPaged(h)
  PROVE  GapsPaged(MergedWithPrevious(MergedWithNext(Marked(h, s, TRUE), s), s))
<1> DEFINE f == Marked(h, s, TRUE)
           m == MergedWithNext(f, s)
           g == MergedWithPrevious(m, s)
<1>1. HeapBelow(f, top) /\ s \in DOMAIN f /\ f[s].is_free /\ GapsPaged(f)
  <2> HIDE DEF f
  <2>1. TRUE \in BOOLEAN
    OBVIOUS
  <2>2. OnlyMarked(h, f, s, TRUE, top) /\ GapsPaged(f)
    BY <2>1, MarkedInOrder, MarkedGaps DEF f
  <2> QED
    BY <2>2 DEF OnlyMarked
<1> HIDE DEF f
<1>2. HeapBelow(m, top) /\ s \in DOMAIN m /\ GapsPaged(m)
  <2>1. CASE f[s].next # slab_head /\ f[f[s].next].is_free
    <3>1. m = Merged(f, s)
      BY <2>1 DEF MergedWithNext
    <3>2. HeapBelow(m, top) /\ GapsPaged(m)
      BY <1>1, <2>1, <3>1, MergedInOrder, MergedGaps DEF HeapBelow
    <3>3. f[s].next # s
      <4>2. s \in Nat /\ f[s].size \in Nat /\ H \in Nat \ {0}
        BY <1>1, SlabListFields, HeapAssumption DEF HeapBelow
      <4>3. s + H + f[s].size <= f[s].next
        BY <1>1, <2>1 DEF HeapBelow, InOrder, End
      <4> QED
        BY <4>2, <4>3
    <3>4. s \in DOMAIN m
      BY <1>1, <3>1, <3>3 DEF Merged
    <3> QED
      BY <3>2, <3>4
  <2>2. CASE ~(f[s].next # slab_head /\ f[f[s].next].is_free)
    <3>1. m = f
      BY <2>2 DEF MergedWithNext
    <3> QED
      BY <1>1, <3>1
  <2> QED
    BY <2>1, <2>2
<1> HIDE DEF m
<1>3. GapsPaged(g)
  <2>1. CASE s # slab_head /\ m[m[s].previous].is_free
    <3> DEFINE p == m[s].previous
    <3>1. p \in DOMAIN m /\ m[p].next = s
      BY <1>2, SlabListFields DEF HeapBelow, InOrder
    <3>2. g = Merged(m, p)
      BY <2>1 DEF MergedWithPrevious
    <3> HIDE DEF p, g
    <3> QED
      BY <1>2, <2>1, <3>1, <3>2, MergedGaps DEF HeapBelow
  <2>2. CASE ~(s # slab_head /\ m[m[s].previous].is_free)
    BY <1>2, <2>2 DEF MergedWithPrevious
  <2> QED
    BY <2>1, <2>2
<1> QED
  BY <1>3 DEF f, m, g

LEMMA AlignedInvInit == Init => AlignedInv
<1> SUFFICES ASSUME Init PROVE AlignedInv
  OBVIOUS
<1>1. /\ slab_head \in Int /\ H \in Int /\ P \in Int /\ Multiple(P) /\ Multiple(slab_head)
  BY SomeMultiples, HeapAssumption DEF slab_head
<1>2. DOMAIN slab = {slab_head} /\ slab[slab_head] = Header(slab_head, slab_head, P - H, TRUE)
  BY DEF Init
<1>3. Gap(slab, slab_head) = 0 - (slab_head + P)
  BY <1>1, <1>2 DEF Gap, End, Header
<1>4. Multiple(0 - (slab_head + P))
  <2>1. Multiple(slab_head + P) /\ slab_head + P \in Int
    BY <1>1, Multiples
  <2> QED
    BY <2>1, Multiples
<1>5. blocks = {}
  BY DEF Init
<1> QED
  BY <1>2, <1>3, <1>4, <1>5 DEF AlignedInv, GapsPaged

\* What is aligned stays so: a block is where it was allocated.
LEMMA NewBlockAligned ==
  ASSUME AlignedInv, GapsPaged(slab'), NEW s, NEW numbytes, NEW aligned \in BOOLEAN,
         blocks' = blocks \cup {[slab |-> s, bytes |-> numbytes, aligned |-> aligned]},
         aligned => Multiple(s + H)
  PROVE  AlignedInv'
BY DEF AlignedInv, GapsPaged, Multiple, Gap, End, slab_head

LEMMA KallocateAligns ==
  ASSUME HeapInv, AlignedInv, NEW numbytes \in Bytes, Kallocate(numbytes)
  PROVE  AlignedInv'
<1>1. numbytes \in Nat /\ nextFrame \in Nat /\ nextFrame * P \in Nat /\ FALSE \in BOOLEAN
  BY HeapAssumption DEF HeapInv
<1>2. HeapBelow(slab, nextFrame * P) /\ GapsPaged(slab)
  BY DEF HeapInv, AlignedInv
<1>3. ASSUME NEW s \in DOMAIN slab, slab' = Carved(slab, s, numbytes),
             blocks' = blocks \cup {[slab |-> s, bytes |-> numbytes, aligned |-> FALSE]}
      PROVE  AlignedInv'
  <2>1. GapsPaged(slab')
    BY <1>1, <1>2, <1>3, CarvedGaps
  <2> QED
    BY <1>1, <1>3, <2>1, NewBlockAligned
<1>4. ASSUME slab' = Carved(Appended(slab, nextFrame * P, PagesFor(numbytes)),
                            nextFrame * P, numbytes),
             blocks' = blocks \cup
               {[slab |-> nextFrame * P, bytes |-> numbytes, aligned |-> FALSE]}
      PROVE  AlignedInv'
  <2> DEFINE n == PagesFor(numbytes)
             page == nextFrame * P
             g == Appended(slab, page, n)
  <2>1. n \in Nat /\ n * P - H \in Nat /\ page + n * P \in Nat /\ Multiple(page)
    <3>1. n \in Nat /\ n * P - H \in Nat
      BY <1>1, PagesForEnough
    <3>2. n * P \in Nat
      BY <3>1, HeapAssumption
    <3>3. Multiple(page)
      BY <1>1, SomeMultiples
    <3> QED
      BY <1>1, <3>1, <3>2, <3>3
  <2> HIDE DEF n
  <2>2. GrownBy(slab, g, page, n) /\ GapsPaged(g)
    <3> HIDE DEF page
    <3>1. page \in Nat /\ HeapBelow(slab, page)
      BY <1>1, <1>2 DEF page
    <3> QED
      BY <1>2, <2>1, <3>1, AppendedInOrder, AppendedGaps
  <2> HIDE DEF g
  <2>3. HeapBelow(g, page + n * P) /\ page \in DOMAIN g
    BY <2>2 DEF GrownBy
  <2>4. GapsPaged(slab')
    <3>1. slab' = Carved(g, page, numbytes)
      BY <1>4 DEF g, n
    <3> HIDE DEF page
    <3> QED
      BY <1>1, <2>1, <2>2, <2>3, <3>1, CarvedGaps
  <2> QED
    BY <1>1, <1>4, <2>4, NewBlockAligned
<1>5. CASE OutOfMemory(PagesFor(numbytes))
  BY <1>5 DEF OutOfMemory, AlignedInv
<1> QED
  BY <1>3, <1>4, <1>5 DEF Kallocate

LEMMA KallocateAlignedAligns ==
  ASSUME HeapInv, AlignedInv, NEW num_pages \in AlignedPages, KallocateAligned(num_pages)
  PROVE  AlignedInv'
<1> DEFINE page == nextFrame * P
           m == num_pages * P
<1>1. /\ num_pages \in Nat /\ nextFrame \in Nat /\ page \in Nat /\ m \in Nat
      /\ TRUE \in BOOLEAN /\ H \in Nat \ {0} /\ P \in Nat /\ P > 2 * H
      /\ Multiple(page) /\ Multiple(m) /\ Multiple(P)
  BY HeapAssumption, SomeMultiples DEF HeapInv
<1>2. HeapBelow(slab, page) /\ GapsPaged(slab) /\ IsSlabList(slab)
  BY DEF HeapInv, HeapBelow, AlignedInv
<1>3. CASE KallocateBehindTail(num_pages)
  <2> DEFINE last == find_last_slab(slab)
             s == last + slab[last].size
             psize == slab[last].size - H
             g == Inserted(slab, last, slab[last].next, psize, s, m)
  <2>1. /\ last \in DOMAIN slab /\ last \in Nat /\ slab[last].size \in Nat
        /\ slab[last].next = slab_head
        /\ \A a \in DOMAIN slab : a <= last
    BY <1>1, <1>2, LastSlab
  <2>2. /\ slab[last].size >= H
        /\ slab' = Marked(g, s, FALSE)
        /\ blocks' = blocks \cup {[slab |-> s, bytes |-> m, aligned |-> TRUE]}
    BY <1>3, <2>1 DEF KallocateBehindTail, TailHasRoom
  <2>3. Multiple(s + H) /\ s + H \in Int
    <3>1. 0 - (last + H + slab[last].size) \in Int /\ Multiple(0 - (last + H + slab[last].size))
      BY <1>1, <1>2, <2>1 DEF GapsPaged, Gap, End
    <3>2. Multiple(0 - (0 - (last + H + slab[last].size)))
      BY <3>1, Multiples
    <3>3. 0 - (0 - (last + H + slab[last].size)) = s + H /\ s + H \in Int
      BY <1>1, <2>1
    <3> QED
      BY <3>2, <3>3
  <2>4. psize \in Nat /\ s \in Nat /\ s > last
    BY <1>1, <2>1, <2>2
  <2>5. s \notin DOMAIN slab
    BY <2>1, <2>4
  <2>6. Multiple(s - (last + H + psize))
    <3>1. s - (last + H + psize) = 0
      BY <1>1, <2>1
    <3> QED
      BY <3>1, SomeMultiples
  <2>7. Multiple(0 - (s + H + m))
    <3> HIDE DEF s, m
    <3>1. s + H \in Int /\ m \in Int /\ Multiple(s + H) /\ Multiple(m)
      BY <1>1, <2>3
    <3>2. Multiple((s + H) + m)
      BY <3>1, Multiples
    <3>3. (s + H) + m \in Int
      BY <3>1
    <3> QED
      BY <3>2, <3>3, Multiples
  <2> HIDE DEF s, psize, m, last
  <2>8. GapsPaged(g)
    BY <1>1, <1>2, <2>1, <2>4, <2>5, <2>6, <2>7, InsertedGaps
  <2>9. GapsPaged(slab')
    BY <2>2, <2>8, MarkedGaps
  <2> QED
    BY <1>1, <2>2, <2>3, <2>9, NewBlockAligned
<1>4. CASE KallocateNewPages(num_pages)
  <2> DEFINE s == page + P - H
             n == num_pages + 1
             g == Appended(slab, page, n)
             k == Inserted(g, page, g[page].next, P - 2 * H, s, m)
  <2>1. /\ n \in Nat /\ n * P = m + P /\ n * P - H \in Nat /\ P - 2 * H \in Nat
        /\ s \in Nat /\ page < s
    <3>1. n * P = m + P
      BY <1>1
    <3> HIDE DEF m
    <3> QED
      BY <1>1, <3>1
  <2>2. GrownBy(slab, g, page, n) /\ GapsPaged(g)
    <3> HIDE DEF page, n, g
    <3> QED
      BY <1>1, <1>2, <2>1, AppendedInOrder, AppendedGaps DEF g
  <2> HIDE DEF g
  <2>3. /\ HeapBelow(g, page + n * P) /\ page \in DOMAIN g /\ IsSlabList(g)
        /\ g[page].next = slab_head /\ g[page].size = n * P - H
    BY <2>2 DEF GrownBy, Header, HeapBelow
  <2>4. /\ slab' = Marked(k, s, FALSE)
        /\ blocks' = blocks \cup {[slab |-> s, bytes |-> m, aligned |-> TRUE]}
    BY <1>4, <2>3 DEF KallocateNewPages, g
  <2>5. s \notin DOMAIN g
    <3> SUFFICES ASSUME s \in DOMAIN g PROVE FALSE
      OBVIOUS
    <3>1. page + H + g[page].size <= s
      BY <2>1, <2>3, SlabsApart DEF End, HeapBelow
    <3> HIDE DEF m, n, page
    <3>2. g[page].size = n * P - H
      BY <2>3
    <3>3. n * P = m + P
      BY <2>1
    <3>4. g[page].size = m + P - H
      BY <1>1, <3>2, <3>3
    <3>5. page + H + (m + P - H) <= page + P - H
      BY <3>1, <3>4 DEF s
    <3> QED
      BY <1>1, <3>5
  <2>6. s + H = page + P /\ Multiple(s + H) /\ s + H \in Int
    <3>1. s + H = page + P
      BY <1>1
    <3> QED
      BY <1>1, <3>1, Multiples
  <2>7. Multiple(s - (page + H + (P - 2 * H)))
    <3>1. s - (page + H + (P - 2 * H)) = 0
      BY <1>1
    <3> QED
      BY <3>1, SomeMultiples
  <2>8. Multiple(0 - (s + H + m))
    <3> HIDE DEF s, m
    <3>1. s + H \in Int /\ m \in Int /\ Multiple(s + H) /\ Multiple(m)
      BY <1>1, <2>6
    <3>2. Multiple((s + H) + m)
      BY <3>1, Multiples
    <3>3. (s + H) + m \in Int
      BY <3>1
    <3> QED
      BY <3>2, <3>3, Multiples
  <2> HIDE DEF s, m, page
  <2>9. GapsPaged(k)
    BY <1>1, <2>1, <2>2, <2>3, <2>5, <2>7, <2>8, InsertedGaps
  <2>10. GapsPaged(slab')
    BY <2>4, <2>9, MarkedGaps
  <2> QED
    BY <1>1, <2>4, <2>6, <2>10, NewBlockAligned
<1>5. ASSUME NEW n, OutOfMemory(n)
      PROVE  AlignedInv'
  BY <1>5 DEF OutOfMemory, AlignedInv
<1> QED
  BY <1>3, <1>4, <1>5 DEF KallocateAligned

\* An aligned block begins on a page boundary, whatever the heap has been through.
THEOREM BlocksStayAligned == Spec => []AlignedBlocks
<1>1. HeapInv /\ AlignedInv /\ [Next]_vars => AlignedInv'
  <2> SUFFICES ASSUME HeapInv, AlignedInv, [Next]_vars PROVE AlignedInv'
    OBVIOUS
  <2>1. ASSUME NEW b \in blocks, Kfree(b)
        PROVE  AlignedInv'
    <3>1. b.slab \in DOMAIN slab /\ nextFrame * P \in Nat /\ HeapBelow(slab, nextFrame * P)
      BY HeapAssumption DEF HeapInv, BlocksBacked
    <3>2. slab' = MergedWithPrevious(MergedWithNext(Marked(slab, b.slab, TRUE), b.slab), b.slab)
          /\ blocks' = blocks \ {b}
      BY <2>1 DEF Kfree
    <3>3. GapsPaged(slab')
      BY <3>1, <3>2, KfreeGaps DEF AlignedInv
    <3> QED
      BY <3>2, <3>3 DEF AlignedInv
  <2>2. CASE Halted \/ UNCHANGED vars
    BY <2>2 DEF Halted, vars, AlignedInv
  <2> QED
    BY <2>1, <2>2, KallocateAligns, KallocateAlignedAligns DEF Next
<1>2. HeapInv /\ AlignedInv => AlignedBlocks
  <2> SUFFICES ASSUME HeapInv, AlignedInv, NEW b \in blocks, b.aligned
               PROVE  (b.slab + H) % P = 0
    BY DEF AlignedBlocks
  <2>1. b.slab + H \in Nat
    BY HeapAssumption DEF HeapInv
  <2> QED
    BY <2>1, MultipleRemainder DEF AlignedInv
<1> QED
  BY <1>1, <1>2, AlignedInvInit, HeapInvHolds, PTL DEF Spec

-----------------------------------------------------------------------------
(***************************************************************************)
(* MergingComplete.  Freeing a slab makes it part of at most two new       *)
(* pairs, one for each free neighbour, and merging with a neighbour leaves *)
(* one pair less.                                                          *)
(***************************************************************************)
LEMMA FreePairsFinite ==
  ASSUME NEW h, NEW top \in Nat, HeapBelow(h, top)
  PROVE  IsFiniteSet(FreePairs(h)) /\ Cardinality(FreePairs(h)) \in Nat
<1>1. IsSlabList(h) /\ H \in Nat
  BY HeapAssumption DEF HeapBelow
<1>2. FreePairs(h) \in SUBSET Nat
  BY <1>1, SlabListFields DEF FreePairs
<1>3. ASSUME NEW a \in FreePairs(h)
      PROVE  a <= top
  <2>1. a \in DOMAIN h
    BY DEF FreePairs
  <2>2. a \in Nat /\ h[a].size \in Nat /\ a + H + h[a].size <= top
    BY <1>1, <2>1, SlabListFields DEF HeapBelow, End
  <2> QED
    BY <1>1, <2>2
<1> QED
  BY <1>2, <1>3, FS_BoundedSetOfNaturals, FS_CardinalityType

\* A set with at most so many more elements.
LEMMA AddMaybe ==
  ASSUME NEW S, IsFiniteSet(S), NEW x, NEW b \in BOOLEAN
  PROVE  LET T == S \cup (IF b THEN {x} ELSE {})
         IN  /\ IsFiniteSet(T) /\ Cardinality(T) \in Nat /\ Cardinality(S) \in Nat
             /\ Cardinality(T) <= Cardinality(S) + (IF b THEN 1 ELSE 0)
<1>1. Cardinality(S) \in Nat
  BY FS_CardinalityType
<1>2. CASE b
  <2>1. S \cup (IF b THEN {x} ELSE {}) = S \cup {x}
    BY <1>2
  <2> QED
    BY <1>1, <1>2, <2>1, FS_AddElement
<1>3. CASE ~b
  <2>1. S \cup (IF b THEN {x} ELSE {}) = S
    BY <1>3
  <2> QED
    BY <1>1, <1>3, <2>1
<1> QED
  BY <1>2, <1>3

\* A used slab that is freed pairs up with its free neighbours.
LEMMA MarkedPairs ==
  ASSUME NEW h, NEW top \in Nat, HeapBelow(h, top), NEW s \in DOMAIN h,
         NEW f, f = Marked(h, s, TRUE)
  PROVE  FreePairs(f) \subseteq
           (FreePairs(h) \cup (IF f[s].next # slab_head /\ f[f[s].next].is_free THEN {s} ELSE {}))
             \cup (IF s # slab_head /\ f[f[s].previous].is_free THEN {f[s].previous} ELSE {})
<1>1. OnlyMarked(h, f, s, TRUE, top)
  <2>1. TRUE \in BOOLEAN
    OBVIOUS
  <2> QED
    BY <2>1, MarkedInOrder
<1>2. /\ DOMAIN f = DOMAIN h /\ IsSlabList(f) /\ InOrder(f)
      /\ \A a \in DOMAIN h : /\ f[a].next = h[a].next /\ f[a].previous = h[a].previous
                             /\ a # s => f[a].is_free = h[a].is_free
  BY <1>1 DEF OnlyMarked, HeapBelow
<1> SUFFICES ASSUME NEW a \in FreePairs(f)
             PROVE  \/ a \in FreePairs(h)
                    \/ a = s /\ f[s].next # slab_head /\ f[f[s].next].is_free
                    \/ a = f[s].previous /\ s # slab_head /\ f[f[s].previous].is_free
  OBVIOUS
<1>3. a \in DOMAIN f /\ f[a].next # slab_head /\ f[a].is_free /\ f[f[a].next].is_free
  BY DEF FreePairs
<1>4. f[a].next \in DOMAIN f /\ f[f[a].next].previous = a
  BY <1>2, <1>3, SlabListFields DEF InOrder
<1>5. CASE a = s
  BY <1>3, <1>5
<1>6. CASE f[a].next = s
  BY <1>3, <1>4, <1>6
<1>7. CASE a # s /\ f[a].next # s
  BY <1>2, <1>3, <1>4, <1>7 DEF FreePairs
<1> QED
  BY <1>5, <1>6, <1>7

\* Merging a pair leaves at least one pair less.
LEMMA MergedPairs ==
  ASSUME NEW h, NEW top \in Nat, HeapBelow(h, top), NEW s \in DOMAIN h,
         h[s].next # slab_head, h[s].is_free, h[h[s].next].is_free
  PROVE  Cardinality(FreePairs(Merged(h, s))) + 1 <= Cardinality(FreePairs(h))
<1> DEFINE o == h[s].next
           nx == h[o].next
           g == Merged(h, s)
           F == FreePairs(h)
           b == o \in F
<1>1. /\ IsSlabList(h) /\ InOrder(h) /\ s \in Nat /\ o \in DOMAIN h /\ nx \in DOMAIN h
      /\ \A a \in DOMAIN h : h[a].next \in DOMAIN h
      /\ \A a \in DOMAIN h : h[h[a].next].previous = a
  BY SlabListFields DEF HeapBelow, InOrder
<1>2. o # s
  <2>1. h[s].size \in Nat /\ H \in Nat \ {0} /\ s + H + h[s].size <= o
    BY <1>1, SlabListFields, HeapAssumption DEF InOrder, End
  <2> QED
    BY <1>1, <2>1
<1>3. /\ DOMAIN g = DOMAIN h \ {o}
      /\ \A a \in DOMAIN g :
           g[a] = Header(IF a = s THEN nx ELSE h[a].next,
                         IF a = nx THEN s ELSE h[a].previous,
                         IF a = s THEN h[s].size + h[o].size + H ELSE h[a].size,
                         h[a].is_free)
  BY DEF Merged
<1> HIDE DEF g, o, nx
<1>4. \A a \in DOMAIN g : g[a].next = (IF a = s THEN nx ELSE h[a].next) /\ g[a].is_free = h[a].is_free
  BY <1>3 DEF Header
<1>5. nx # o /\ \A a \in DOMAIN g : a # s => h[a].next # o
  <2>1. h[o].previous = s /\ h[nx].previous = o
    BY <1>1 DEF o, nx
  <2> QED
    BY <1>1, <1>2, <1>3, <2>1
<1>6. FreePairs(g) \subseteq ((F \ {s}) \ {o}) \cup (IF b THEN {s} ELSE {})
  <2> SUFFICES ASSUME NEW a \in FreePairs(g)
               PROVE  (a \in F /\ a # s /\ a # o) \/ (o \in F /\ a = s)
    OBVIOUS
  <2>1. a \in DOMAIN g /\ g[a].next # slab_head /\ g[a].is_free /\ g[g[a].next].is_free
    BY DEF FreePairs
  <2>2. CASE a = s
    <3>1. nx # slab_head /\ h[nx].is_free /\ h[o].is_free
      BY <1>1, <1>3, <1>4, <1>5, <2>1, <2>2 DEF o
    <3> QED
      BY <1>1, <2>2, <3>1 DEF FreePairs, nx
  <2>3. CASE a # s
    <3>1. /\ a \in DOMAIN h /\ a # o /\ h[a].next # slab_head /\ h[a].is_free
          /\ h[h[a].next].is_free
      BY <1>1, <1>3, <1>4, <1>5, <2>1, <2>3
    <3>2. a \in F
      BY <3>1 DEF FreePairs
    <3> QED
      BY <2>3, <3>1, <3>2
  <2> QED
    BY <2>2, <2>3
<1>7. s \in F /\ IsFiniteSet(F) /\ Cardinality(F) \in Nat
  BY FreePairsFinite DEF FreePairs
<1> HIDE DEF F
<1> DEFINE S == (F \ {s}) \ {o}
           T == S \cup (IF b THEN {s} ELSE {})
<1>8. /\ IsFiniteSet(S) /\ Cardinality(S) \in Nat
      /\ Cardinality(S) = Cardinality(F) - (IF b THEN 2 ELSE 1)
  <2>1. IsFiniteSet(F \ {s}) /\ Cardinality(F \ {s}) = Cardinality(F) - 1
    BY <1>7, FS_RemoveElement
  <2>2. IsFiniteSet(S) /\ Cardinality(S) = IF o \in F \ {s} THEN Cardinality(F \ {s}) - 1
                                                           ELSE Cardinality(F \ {s})
    BY <2>1, FS_RemoveElement
  <2>3. Cardinality(S) \in Nat
    BY <2>2, FS_CardinalityType
  <2> QED
    BY <1>2, <1>7, <2>1, <2>2, <2>3
<1>9. /\ IsFiniteSet(T) /\ Cardinality(T) \in Nat
      /\ Cardinality(T) <= Cardinality(S) + (IF b THEN 1 ELSE 0)
  <2> HIDE DEF S
  <2>1. b \in BOOLEAN
    OBVIOUS
  <2> HIDE DEF b
  <2> QED
    BY <1>8, <2>1, AddMaybe
<1>10. /\ IsFiniteSet(FreePairs(g)) /\ Cardinality(FreePairs(g)) \in Nat
       /\ Cardinality(FreePairs(g)) <= Cardinality(T)
  <2>1. FreePairs(g) \in SUBSET T
    BY <1>6
  <2> HIDE DEF T
  <2> QED
    BY <1>9, <2>1, FS_Subset, FS_CardinalityType
<1>11. Cardinality(FreePairs(g)) + 1 <= Cardinality(F)
  <2> HIDE DEF S, T, b
  <2>1. CASE b
    BY <1>7, <1>8, <1>9, <1>10, <2>1
  <2>2. CASE ~b
    BY <1>7, <1>8, <1>9, <1>10, <2>2
  <2> QED
    BY <2>1, <2>2
<1> QED
  BY <1>11 DEF g, F

\* The slab before the one that is freed is the same after merging with the next.
LEMMA PreviousKept ==
  ASSUME NEW h, NEW top \in Nat, HeapBelow(h, top), NEW s \in DOMAIN h, s # slab_head
  PROVE  h[s].next # slab_head =>
           /\ h[s].previous # h[s].next
           /\ s \in DOMAIN Merged(h, s)
           /\ Merged(h, s)[s].previous = h[s].previous
           /\ h[s].previous \in DOMAIN Merged(h, s)
           /\ Merged(h, s)[h[s].previous].is_free = h[h[s].previous].is_free
<1> SUFFICES ASSUME h[s].next # slab_head
             PROVE  /\ h[s].previous # h[s].next
                    /\ s \in DOMAIN Merged(h, s)
                    /\ Merged(h, s)[s].previous = h[s].previous
                    /\ h[s].previous \in DOMAIN Merged(h, s)
                    /\ Merged(h, s)[h[s].previous].is_free = h[h[s].previous].is_free
  OBVIOUS
<1> DEFINE o == h[s].next
           p == h[s].previous
           nx == h[o].next
           g == Merged(h, s)
<1>1. /\ IsSlabList(h) /\ InOrder(h) /\ s \in Nat /\ H \in Nat \ {0}
      /\ o \in DOMAIN h /\ p \in DOMAIN h /\ nx \in DOMAIN h
      /\ o \in Nat /\ p \in Nat /\ nx \in Nat
      /\ h[s].size \in Nat /\ h[p].size \in Nat /\ h[o].size \in Nat
  BY SlabListFields, HeapAssumption DEF HeapBelow
<1>2. s < o
  <2>1. s + H + h[s].size <= o
    BY <1>1 DEF InOrder, End
  <2> QED
    BY <1>1, <2>1
<1>3. p < s
  <2>1. h[p].next = s
    BY <1>1 DEF InOrder
  <2>2. p + H + h[p].size <= s
    BY <1>1, <2>1 DEF InOrder, End
  <2> QED
    BY <1>1, <2>2
<1>4. nx # s
  <2> SUFFICES ASSUME nx = s PROVE FALSE
    OBVIOUS
  <2>1. o + H + h[o].size <= nx
    BY <1>1 DEF InOrder, End
  <2> QED
    BY <1>1, <1>2, <2>1
<1>5. /\ DOMAIN g = DOMAIN h \ {o}
      /\ \A a \in DOMAIN g :
           g[a] = Header(IF a = s THEN nx ELSE h[a].next,
                         IF a = nx THEN s ELSE h[a].previous,
                         IF a = s THEN h[s].size + h[o].size + H ELSE h[a].size,
                         h[a].is_free)
  BY DEF Merged
<1> HIDE DEF g, o, p, nx
<1>6. s \in DOMAIN g /\ p \in DOMAIN g /\ p # o
  BY <1>1, <1>2, <1>3, <1>5
<1>7. g[s].previous = p /\ g[p].is_free = h[p].is_free
  BY <1>4, <1>5, <1>6 DEF Header, p
<1> QED
  BY <1>6, <1>7 DEF g, o, p

LEMMA KfreePairs ==
  ASSUME NEW h, NEW top \in Nat, HeapBelow(h, top), NEW s \in DOMAIN h
  PROVE  LET g == MergedWithPrevious(MergedWithNext(Marked(h, s, TRUE), s), s)
         IN  Cardinality(FreePairs(g)) <= Cardinality(FreePairs(h))
<1> DEFINE f == Marked(h, s, TRUE)
           m == MergedWithNext(f, s)
           g == MergedWithPrevious(m, s)
           A == f[s].next # slab_head /\ f[f[s].next].is_free
           B == s # slab_head /\ f[f[s].previous].is_free
<1>1. HeapBelow(f, top) /\ s \in DOMAIN f /\ f[s].is_free
  <2> HIDE DEF f
  <2>1. TRUE \in BOOLEAN
    OBVIOUS
  <2>2. OnlyMarked(h, f, s, TRUE, top)
    BY <2>1, MarkedInOrder DEF f
  <2> QED
    BY <2>2 DEF OnlyMarked
<1>2. FreePairs(f) \subseteq
        (FreePairs(h) \cup (IF A THEN {s} ELSE {})) \cup (IF B THEN {f[s].previous} ELSE {})
  <2> HIDE DEF f
  <2> QED
    BY MarkedPairs DEF f
<1> HIDE DEF f
<1>3. A \in BOOLEAN /\ B \in BOOLEAN
  OBVIOUS
<1>4. m = IF A THEN Merged(f, s) ELSE f
  BY DEF MergedWithNext
<1>5. HeapBelow(m, top) /\ s \in DOMAIN m /\ m[s].is_free
  <2>1. CASE A
    <3>1. HeapBelow(m, top) /\ UsedKept(f, m)
      BY <1>1, <1>4, <2>1, MergedInOrder
    <3>2. f[s].next # s
      <4>1. s \in Nat /\ f[s].size \in Nat /\ H \in Nat \ {0}
        BY <1>1, SlabListFields, HeapAssumption DEF HeapBelow
      <4>2. s + H + f[s].size <= f[s].next
        BY <1>1, <2>1 DEF HeapBelow, InOrder, End
      <4> QED
        BY <4>1, <4>2
    <3>3. s \in DOMAIN m /\ m[s].is_free
      BY <1>1, <1>4, <2>1, <3>2 DEF Merged, Header
    <3> QED
      BY <3>1, <3>3
  <2>2. CASE ~A
    BY <1>1, <1>4, <2>2
  <2> QED
    BY <2>1, <2>2
<1>6. g = IF B THEN Merged(m, m[s].previous) ELSE m
  <2>1. s # slab_head => m[m[s].previous].is_free = f[f[s].previous].is_free
    BY <1>1, <1>4, PreviousKept
  <2> QED
    BY <2>1 DEF MergedWithPrevious
<1>7. B => /\ m[s].previous \in DOMAIN m /\ m[m[s].previous].next = s
           /\ m[m[s].previous].is_free
  <2>1. m[s].previous \in DOMAIN m /\ m[m[s].previous].next = s
    BY <1>5, SlabListFields DEF HeapBelow, InOrder
  <2>2. s # slab_head => m[m[s].previous].is_free = f[f[s].previous].is_free
    BY <1>1, <1>4, PreviousKept
  <2> QED
    BY <2>1, <2>2
<1> DEFINE F(k) == Cardinality(FreePairs(k))
<1>8. F(h) \in Nat /\ F(f) \in Nat /\ F(m) \in Nat /\ IsFiniteSet(FreePairs(h))
  <2> HIDE DEF m
  <2> QED
    BY <1>1, <1>5, FreePairsFinite
<1>9. F(f) <= F(h) + (IF A THEN 1 ELSE 0) + (IF B THEN 1 ELSE 0)
  <2> DEFINE S == FreePairs(h) \cup (IF A THEN {s} ELSE {})
             T == S \cup (IF B THEN {f[s].previous} ELSE {})
  <2> HIDE DEF A, B
  <2>1. IsFiniteSet(S) /\ Cardinality(S) \in Nat /\ Cardinality(S) <= F(h) + (IF A THEN 1 ELSE 0)
    BY <1>3, <1>8, AddMaybe
  <2> HIDE DEF S
  <2>2. IsFiniteSet(T) /\ Cardinality(T) \in Nat /\ Cardinality(T) <= Cardinality(S) + (IF B THEN 1 ELSE 0)
    BY <1>3, <2>1, AddMaybe
  <2>3. FreePairs(f) \in SUBSET T
    BY <1>2 DEF S
  <2> HIDE DEF T
  <2>4. F(f) <= Cardinality(T)
    BY <2>2, <2>3, FS_Subset
  <2> QED
    BY <1>8, <2>1, <2>2, <2>4
<1>10. F(m) + (IF A THEN 1 ELSE 0) <= F(f)
  <2>1. CASE A
    <3>1. F(Merged(f, s)) + 1 <= F(f)
      BY <1>1, <2>1, MergedPairs
    <3> QED
      BY <1>4, <2>1, <3>1
  <2>2. CASE ~A
    BY <1>4, <1>8, <2>2
  <2> QED
    BY <2>1, <2>2
<1>11. F(g) + (IF B THEN 1 ELSE 0) <= F(m)
  <2> HIDE DEF m
  <2>1. CASE B
    <3>1. F(Merged(m, m[s].previous)) + 1 <= F(m)
      BY <1>5, <1>7, <2>1, MergedPairs
    <3> QED
      BY <1>6, <2>1, <3>1
  <2>2. CASE ~B
    BY <1>6, <1>8, <2>2
  <2> QED
    BY <2>1, <2>2
<1>12. F(g) \in Nat
  <2>1. g = MergedWithPrevious(MergedWithNext(Marked(h, s, TRUE), s), s)
    BY DEF f
  <2>2. HeapBelow(g, top)
    BY <2>1, KfreeInOrder
  <2> HIDE DEF g
  <2> QED
    BY <2>2, FreePairsFinite
<1>13. F(g) <= F(h)
  <2> HIDE DEF A, B, F, g, m
  <2> QED
    BY <1>8, <1>9, <1>10, <1>11, <1>12
<1> QED
  BY <1>13 DEF f

\* What kallocate returns was not in use: a step that adds no block allocates nothing.
LEMMA NothingAllocated ==
  ASSUME HeapInv, blocks' \subseteq blocks,
         \/ \E numbytes \in Bytes : Kallocate(numbytes)
         \/ \E num_pages \in AlignedPages : KallocateAligned(num_pages)
  PROVE  slab' = slab
<1>1. /\ H \in Nat \ {0} /\ P \in Nat /\ P > 2 * H
      /\ nextFrame * P \in Nat /\ HeapBelow(slab, nextFrame * P)
      /\ \A b \in blocks : b.slab \in DOMAIN slab /\ ~slab[b.slab].is_free
  BY HeapAssumption DEF HeapInv, BlocksBacked
<1>2. \A a \in DOMAIN slab : a < nextFrame * P
  <2> SUFFICES ASSUME NEW a \in DOMAIN slab PROVE a < nextFrame * P
    OBVIOUS
  <2>1. a \in Nat /\ slab[a].size \in Nat /\ a + H + slab[a].size <= nextFrame * P
    BY <1>1, SlabListFields DEF HeapBelow, End
  <2> QED
    BY <1>1, <2>1
<1>3. ASSUME NEW s, NEW bytes, NEW aligned,
             blocks' = blocks \cup {[slab |-> s, bytes |-> bytes, aligned |-> aligned]},
             s \in DOMAIN slab => slab[s].is_free
      PROVE  FALSE
  <2> DEFINE b == [slab |-> s, bytes |-> bytes, aligned |-> aligned]
  <2>1. b \in blocks /\ b.slab = s
    BY <1>3
  <2> QED
    BY <1>1, <1>3, <2>1
<1>4. ASSUME NEW numbytes \in Bytes, Kallocate(numbytes)
      PROVE  slab' = slab
  <2>1. \A s \in DOMAIN slab : FirstFit(s, numbytes) => slab[s].is_free
    BY DEF FirstFit, Fits
  <2>2. nextFrame * P \notin DOMAIN slab
    BY <1>1, <1>2
  <2> QED
    BY <1>3, <1>4, <2>1, <2>2 DEF Kallocate, OutOfMemory
<1>5. ASSUME NEW num_pages \in AlignedPages, KallocateAligned(num_pages)
      PROVE  slab' = slab
  <2>1. CASE KallocateBehindTail(num_pages)
    <3> DEFINE last == find_last_slab(slab)
               new_slab == last + slab[last].size
    <3>1. /\ last \in Nat /\ slab[last].size \in Nat
          /\ \A a \in DOMAIN slab : a <= last
      BY <1>1, LastSlab
    <3>2. slab[last].size >= H
      BY <2>1 DEF KallocateBehindTail, TailHasRoom
    <3>3. new_slab \notin DOMAIN slab
      BY <1>1, <3>1, <3>2
    <3> QED
      BY <1>3, <2>1, <3>3 DEF KallocateBehindTail
  <2>2. CASE KallocateNewPages(num_pages)
    <3> DEFINE new_rhs == nextFrame * P + P - H
    <3>1. new_rhs >= nextFrame * P /\ new_rhs \in Nat
      BY <1>1
    <3>2. \A a \in DOMAIN slab : a \in Nat
      BY <1>1, SlabListFields DEF HeapBelow
    <3> HIDE DEF new_rhs
    <3>3. new_rhs \notin DOMAIN slab
      BY <1>1, <1>2, <3>1, <3>2
    <3> QED
      BY <1>3, <2>2, <3>3 DEF KallocateNewPages, new_rhs
  <2> QED
    BY <1>5, <2>1, <2>2 DEF KallocateAligned, OutOfMemory
<1> QED
  BY <1>4, <1>5

\* A kfree adds no pair of free neighbours to those there are: the slab it frees is merged
\* with the one behind and the one before.  Pairs that the growth for an aligned request
\* has left are not joined by it.
THEOREM MergingStaysComplete == Spec => MergingComplete
<1>1. HeapInv /\ [Next]_vars =>
        [blocks' \subseteq blocks =>
           Cardinality(FreePairs(slab')) <= Cardinality(FreePairs(slab))]_vars
  <2> SUFFICES ASSUME HeapInv, Next, blocks' \subseteq blocks
               PROVE  Cardinality(FreePairs(slab')) <= Cardinality(FreePairs(slab))
    OBVIOUS
  <2>1. nextFrame * P \in Nat /\ HeapBelow(slab, nextFrame * P)
        /\ \A b \in blocks : b.slab \in DOMAIN slab
    BY HeapAssumption DEF HeapInv, BlocksBacked
  <2>2. Cardinality(FreePairs(slab)) \in Nat
    BY <2>1, FreePairsFinite
  <2>3. CASE slab' = slab
    BY <2>2, <2>3
  <2>4. ASSUME NEW b \in blocks, Kfree(b)
        PROVE  Cardinality(FreePairs(slab')) <= Cardinality(FreePairs(slab))
    <3>1. slab' = MergedWithPrevious(MergedWithNext(Marked(slab, b.slab, TRUE), b.slab), b.slab)
      BY <2>4 DEF Kfree
    <3> QED
      BY <2>1, <3>1, KfreePairs
  <2>5. CASE Halted
    BY <2>3, <2>5 DEF Halted, vars
  <2> QED
    BY <2>3, <2>4, <2>5, NothingAllocated DEF Next
<1> QED
  BY <1>1, HeapInvHolds, PTL DEF Spec, MergingComplete

-----------------------------------------------------------------------------
(***************************************************************************)
(* PagesCovered.  Each of splitting, merging and growing is followed by    *)
(* what it does to the bytes that slabs cover: what is cut from one slab   *)
(* goes to the other, and merging keeps all of it if the slabs adjoin.     *)
(***************************************************************************)
Covered(h, x) == \E a \in DOMAIN h : a <= x /\ x < End(h, a)

InPages(frames, x) == \E f \in frames : f * P <= x /\ x < (f + 1) * P

\* Both lists cover the same bytes.
SameCover(g, h) == \A x \in Int : Covered(g, x) <=> Covered(h, x)

\* The list g covers what h does, and the bytes from one address up to another.
CoverGrown(h, g, from, to) ==
  \A x \in Int : Covered(g, x) <=> Covered(h, x) \/ (from <= x /\ x < to)

CoverInv ==
  /\ pages \subseteq Nat
  /\ ~apart => \A x \in Int : Covered(slab, x) <=> InPages(pages, x)

\* Slab s is new, slab p cut to psize bytes, and the others are where they were.
InsertedAt(h, g, p, psize, s, size) ==
  /\ DOMAIN g = DOMAIN h \cup {s}
  /\ End(g, s) = s + H + size /\ End(g, p) = p + H + psize
  /\ \A a \in DOMAIN h : a # p => End(g, a) = End(h, a)

LEMMA InsertedSlabs ==
  ASSUME NEW h, IsSlabList(h), NEW p \in DOMAIN h, NEW psize \in Nat,
         NEW s \in Nat, NEW size \in Nat, s \notin DOMAIN h,
         NEW g, g = Inserted(h, p, h[p].next, psize, s, size)
  PROVE  InsertedAt(h, g, p, psize, s, size)
<1>1. /\ DOMAIN g = DOMAIN h \cup {s}
      /\ g[s] = Header(h[p].next, p, size, TRUE)
      /\ \A a \in DOMAIN h :
           g[a] = Header(IF a = p THEN s ELSE h[a].next,
                         IF a = h[p].next THEN s ELSE h[a].previous,
                         IF a = p THEN psize ELSE h[a].size,
                         h[a].is_free)
  BY DEF Inserted
<1>2. /\ g[s].size = size /\ g[p].size = psize
      /\ \A a \in DOMAIN h : a # p => g[a].size = h[a].size
  <2>1. g[s].size = size
    BY <1>1 DEF Header
  <2>2. ASSUME NEW a \in DOMAIN h
        PROVE  g[a].size = IF a = p THEN psize ELSE h[a].size
    <3> DEFINE n == IF a = p THEN s ELSE h[a].next
               q == IF a = h[p].next THEN s ELSE h[a].previous
               z == IF a = p THEN psize ELSE h[a].size
    <3>1. g[a] = Header(n, q, z, h[a].is_free)
      BY <1>1
    <3> HIDE DEF n, q, z
    <3>2. g[a].size = z
      BY <3>1 DEF Header
    <3> QED
      BY <3>2 DEF z
  <2> QED
    BY <2>1, <2>2
<1> QED
  BY <1>1, <1>2 DEF End, InsertedAt

\* A header at s would lie right behind slab p, were that cut to psize bytes.
RightBehind(s, p, psize) == s = p + H + psize

\* ... and if it comes right behind what p is cut to, what is covered grows by what it
\* reaches beyond the old end of p.
LEMMA SplitCover ==
  ASSUME NEW h, IsSlabList(h), NEW p \in DOMAIN h, NEW psize \in Nat,
         NEW s \in Nat, NEW size \in Nat, s \notin DOMAIN h,
         RightBehind(s, p, psize), End(h, p) <= s + H + size,
         NEW g, g = Inserted(h, p, h[p].next, psize, s, size)
  PROVE  CoverGrown(h, g, End(h, p), s + H + size)
<1> DEFINE e == End(h, p)
           e2 == s + H + size
<1>1. /\ DOMAIN g = DOMAIN h \cup {s}
      /\ End(g, s) = e2 /\ End(g, p) = s
      /\ \A a \in DOMAIN h : a # p => End(g, a) = End(h, a)
  <2>1. InsertedAt(h, g, p, psize, s, size)
    BY InsertedSlabs
  <2> QED
    BY <2>1 DEF InsertedAt, RightBehind
<1>2. p \in Nat /\ h[p].size \in Nat /\ H \in Nat \ {0} /\ e \in Int /\ e2 \in Int /\ e <= e2
      /\ p <= e /\ p < s
  <2>1. p \in Nat /\ h[p].size \in Nat /\ H \in Nat \ {0}
    BY SlabListFields, HeapAssumption
  <2>2. e = p + H + h[p].size
    BY DEF End
  <2>3. e <= e2
    OBVIOUS
  <2> HIDE DEF e
  <2> QED
    BY <2>1, <2>2, <2>3 DEF RightBehind
<1> HIDE DEF e, e2
<1>3. ASSUME NEW x \in Int
      PROVE  Covered(g, x) <=> Covered(h, x) \/ (e <= x /\ x < e2)
  <2>1. ASSUME NEW a \in DOMAIN g, a <= x, x < End(g, a)
        PROVE  Covered(h, x) \/ (e <= x /\ x < e2)
    <3>1. CASE a # s /\ a # p
      BY <1>1, <2>1, <3>1 DEF Covered
    <3>2. CASE a = s \/ a = p
      <4>1. p <= x /\ x < e2
        <5>1. s <= e2
          BY <1>2 DEF e2
        <5> QED
          BY <1>1, <1>2, <2>1, <3>2, <5>1
      <4>2. CASE x < e
        BY <4>1, <4>2 DEF Covered, e
      <4>3. CASE e <= x
        BY <4>1, <4>3
      <4> QED
        BY <1>2, <4>2, <4>3
    <3> QED
      BY <3>1, <3>2
  <2>2. ASSUME NEW a \in DOMAIN h, a <= x, x < End(h, a)
        PROVE  Covered(g, x)
    <3>1. CASE a # p
      BY <1>1, <2>2, <3>1 DEF Covered
    <3>2. CASE a = p
      <4>1. x < e
        BY <2>2, <3>2 DEF e
      <4>2. CASE x < s
        BY <1>1, <2>2, <3>2, <4>2 DEF Covered
      <4>3. CASE s <= x
        <5>1. x < End(g, s)
          BY <1>1, <1>2, <4>1
        <5> QED
          BY <1>1, <4>3, <5>1 DEF Covered
      <4> QED
        BY <4>2, <4>3
    <3> QED
      BY <3>1, <3>2
  <2>3. ASSUME e <= x, x < e2
        PROVE  Covered(g, x)
    <3>1. CASE x < s
      <4>1. p <= x /\ p \in DOMAIN g
        BY <1>1, <1>2, <2>3
      <4> QED
        BY <1>1, <3>1, <4>1 DEF Covered
    <3>2. CASE s <= x
      BY <1>1, <2>3, <3>2 DEF Covered
    <3> QED
      BY <3>1, <3>2
  <2>4. Covered(g, x) => Covered(h, x) \/ (e <= x /\ x < e2)
    BY <2>1 DEF Covered
  <2>5. Covered(h, x) => Covered(g, x)
    BY <2>2 DEF Covered
  <2> QED
    BY <2>3, <2>4, <2>5
<1> QED
  BY <1>3 DEF CoverGrown, e, e2

LEMMA MarkedCover ==
  ASSUME NEW h, NEW s \in DOMAIN h, NEW value
  PROVE  SameCover(Marked(h, s, value), h)
<1> DEFINE g == Marked(h, s, value)
<1>1. /\ DOMAIN g = DOMAIN h
      /\ \A a \in DOMAIN h :
           g[a] = IF a = s THEN Header(h[a].next, h[a].previous, h[a].size, value) ELSE h[a]
  BY DEF Marked
<1> HIDE DEF g
<1>2. \A a \in DOMAIN h : End(g, a) = End(h, a)
  BY <1>1 DEF Header, End
<1> QED
  BY <1>1, <1>2 DEF SameCover, Covered, g

\* New pages as a slab of their own.
LEMMA AppendedCover ==
  ASSUME NEW h, NEW page \in Nat, NEW n \in Nat, HeapBelow(h, page), n * P - H \in Nat
  PROVE  CoverGrown(h, Appended(h, page, n), page, page + n * P)
<1> DEFINE last == find_last_slab(h)
           size == n * P - H
           g == Appended(h, page, n)
<1>1. /\ last \in DOMAIN h /\ h[last].size \in Nat /\ h[last].next = slab_head
      /\ IsSlabList(h)
  BY LastSlab DEF HeapBelow
<1>2. page \notin DOMAIN h
  <2>1. GrownBy(h, g, page, n)
    BY AppendedInOrder
  <2> QED
    BY <2>1 DEF GrownBy
<1>3. page + H + size = page + n * P
  <2>1. n * P \in Int /\ H \in Int
    BY HeapAssumption
  <2> QED
    BY <2>1
<1> HIDE DEF last
<1>4. /\ DOMAIN g = DOMAIN h \cup {page}
      /\ End(g, page) = page + H + size
      /\ End(g, last) = last + H + h[last].size
      /\ \A a \in DOMAIN h : a # last => End(g, a) = End(h, a)
  <2>1. g = Inserted(h, last, h[last].next, h[last].size, page, size)
    BY <1>1 DEF Appended, last
  <2> HIDE DEF g, size
  <2>2. size \in Nat
    BY DEF size
  <2> QED
    BY <1>1, <1>2, <2>1, <2>2, InsertedSlabs DEF InsertedAt
<1> HIDE DEF g
<1>5. \A a \in DOMAIN h : End(g, a) = End(h, a)
  BY <1>4 DEF End
<1> HIDE DEF g, size
<1>6. \A x \in Int : Covered(g, x) <=> Covered(h, x) \/ (page <= x /\ x < End(g, page))
  BY <1>4, <1>5 DEF Covered
<1> QED
  BY <1>3, <1>4, <1>6 DEF CoverGrown, g

\* A slab that absorbs the one right behind it.
LEMMA MergedCover ==
  ASSUME NEW h, IsSlabList(h), InOrder(h), NEW s \in DOMAIN h,
         h[s].next # slab_head, End(h, s) = h[s].next
  PROVE  SameCover(Merged(h, s), h)
<1> DEFINE o == h[s].next
           g == Merged(h, s)
<1>1. /\ s \in Nat /\ o \in DOMAIN h /\ o \in Nat
      /\ h[s].size \in Nat /\ h[o].size \in Nat /\ H \in Nat \ {0}
      /\ s + H + h[s].size = o
  BY SlabListFields, HeapAssumption DEF End
<1>2. /\ DOMAIN g = DOMAIN h \ {o}
      /\ \A a \in DOMAIN g :
           g[a] = Header(IF a = s THEN h[o].next ELSE h[a].next,
                         IF a = h[o].next THEN s ELSE h[a].previous,
                         IF a = s THEN h[s].size + h[o].size + H ELSE h[a].size,
                         h[a].is_free)
  BY DEF Merged
<1> HIDE DEF g, o
<1>3. s # o /\ s \in DOMAIN g
  BY <1>1, <1>2
<1>4. /\ g[s].size = h[s].size + h[o].size + H
      /\ \A a \in DOMAIN g : a # s => g[a].size = h[a].size
  BY <1>2, <1>3 DEF Header
<1>5. End(g, s) = End(h, o) /\ End(h, s) = o /\ s < o /\ o <= End(h, o)
  BY <1>1, <1>4 DEF End
<1>6. \A a \in DOMAIN g : a # s => End(g, a) = End(h, a)
  BY <1>4 DEF End
<1>7. End(h, o) \in Int
  BY <1>1 DEF End
<1>8. ASSUME NEW x \in Int
      PROVE  Covered(g, x) <=> Covered(h, x)
  <2>1. ASSUME NEW a \in DOMAIN g, a <= x, x < End(g, a)
        PROVE  Covered(h, x)
    <3>1. CASE a # s
      BY <1>2, <1>6, <2>1, <3>1 DEF Covered
    <3>2. CASE a = s
      <4>1. CASE x < o
        BY <1>5, <2>1, <3>2, <4>1 DEF Covered
      <4>2. CASE o <= x
        BY <1>1, <1>5, <2>1, <3>2, <4>2 DEF Covered
      <4> QED
        BY <1>1, <4>1, <4>2
    <3> QED
      BY <3>1, <3>2
  <2>2. ASSUME NEW a \in DOMAIN h, a <= x, x < End(h, a)
        PROVE  Covered(g, x)
    <3>1. CASE a # s /\ a # o
      BY <1>2, <1>6, <2>2, <3>1 DEF Covered
    <3>2. CASE a = s \/ a = o
      <4>1. s <= x /\ x < End(g, s)
        BY <1>1, <1>5, <1>7, <2>2, <3>2
      <4> QED
        BY <1>3, <4>1 DEF Covered
    <3> QED
      BY <3>1, <3>2
  <2> QED
    BY <2>1, <2>2 DEF Covered
<1> QED
  BY <1>8 DEF SameCover, g

LEMMA SameCoverTransitive ==
  ASSUME NEW f, NEW g, NEW h, SameCover(f, g), SameCover(g, h)
  PROVE  SameCover(f, h)
BY DEF SameCover

\* kfree, if every header it drops lay right behind the slab before it.
LEMMA KfreeCover ==
  ASSUME NEW h, NEW top \in Nat, HeapBelow(h, top), NEW s \in DOMAIN h,
         NEW g, g = MergedWithPrevious(MergedWithNext(Marked(h, s, TRUE), s), s),
         \A a \in DOMAIN h \ DOMAIN g : End(h, h[a].previous) = a
  PROVE  SameCover(g, h)
<1> DEFINE f == Marked(h, s, TRUE)
           m == MergedWithNext(f, s)
           A == f[s].next # slab_head /\ f[f[s].next].is_free
           B == s # slab_head /\ m[m[s].previous].is_free
<1>1. HeapBelow(f, top) /\ s \in DOMAIN f /\ f[s].is_free /\ DOMAIN f = DOMAIN h
      /\ \A a \in DOMAIN h : /\ f[a].next = h[a].next /\ f[a].previous = h[a].previous
                             /\ f[a].size = h[a].size
  <2> HIDE DEF f
  <2>1. TRUE \in BOOLEAN
    OBVIOUS
  <2>2. OnlyMarked(h, f, s, TRUE, top)
    BY <2>1, MarkedInOrder DEF f
  <2> QED
    BY <2>2 DEF OnlyMarked
<1>2. SameCover(f, h)
  BY MarkedCover
<1>3. g = MergedWithPrevious(m, s) /\ m = IF A THEN Merged(f, s) ELSE f
  BY DEF MergedWithNext
<1> HIDE DEF f, m
<1>4. /\ IsSlabList(f) /\ InOrder(f) /\ IsSlabList(h) /\ InOrder(h)
      /\ \A a \in DOMAIN h : End(f, a) = End(h, a)
  BY <1>1 DEF HeapBelow, End
<1>5. g = IF B THEN Merged(m, m[s].previous) ELSE m
  BY <1>3 DEF MergedWithPrevious
<1>6. DOMAIN m \subseteq DOMAIN f /\ DOMAIN g \subseteq DOMAIN m
  <2>1. \A k, a : DOMAIN Merged(k, a) = DOMAIN k \ {k[a].next}
    BY DEF Merged
  <2>2. DOMAIN m \subseteq DOMAIN f
    BY <1>3, <2>1
  <2>3. DOMAIN g \subseteq DOMAIN m
    <3>1. B => g = Merged(m, m[s].previous)
      BY <1>5
    <3>2. ~B => g = m
      BY <1>5
    <3> HIDE DEF B
    <3> QED
      BY <2>1, <3>1, <3>2
  <2> QED
    BY <2>2, <2>3
<1>7. SameCover(m, f) /\ HeapBelow(m, top)
  <2>1. CASE A
    <3>1. f[s].next \in DOMAIN h /\ f[s].next \notin DOMAIN m
      BY <1>1, <1>3, <1>4, <2>1, SlabListFields DEF Merged
    <3>2. h[f[s].next].previous = s
      BY <1>1, <1>4 DEF InOrder
    <3>3. End(f, s) = f[s].next
      BY <1>4, <1>6, <3>1, <3>2
    <3>4. SameCover(Merged(f, s), f)
      BY <1>1, <1>4, <2>1, <3>3, MergedCover
    <3>5. HeapBelow(Merged(f, s), top)
      BY <1>1, <2>1, MergedInOrder
    <3> QED
      BY <1>3, <2>1, <3>4, <3>5
  <2>2. CASE ~A
    BY <1>1, <1>3, <2>2 DEF SameCover
  <2> QED
    BY <2>1, <2>2
<1>8. SameCover(g, m)
  <2>1. CASE B
    <3> DEFINE p == m[s].previous
    <3>1. /\ s \in DOMAIN m /\ p = h[s].previous /\ p \in DOMAIN m
      <4>1. CASE A
        <5>1. /\ s \in DOMAIN m /\ m[s].previous = f[s].previous
              /\ f[s].previous \in DOMAIN m
          BY <1>1, <1>3, <2>1, <4>1, PreviousKept
        <5> QED
          BY <1>1, <5>1
      <4>2. CASE ~A
        BY <1>1, <1>3, <1>4, <4>2, SlabListFields
      <4> QED
        BY <4>1, <4>2
    <3>2. IsSlabList(m) /\ InOrder(m)
      BY <1>7 DEF HeapBelow
    <3>3. m[p].next = s
      BY <3>1, <3>2 DEF InOrder
    <3>4. s \notin DOMAIN g
      <4>1. g = Merged(m, p)
        BY <1>5, <2>1
      <4>2. DOMAIN Merged(m, p) = DOMAIN m \ {m[p].next}
        BY DEF Merged
      <4> HIDE DEF p
      <4> QED
        BY <3>3, <4>1, <4>2
    <3>5. End(h, p) = s
      BY <3>1, <3>4
    <3>6. p # s
      <4>1. p \in Nat /\ h[p].size \in Nat /\ H \in Nat \ {0}
        BY <1>1, <1>4, <1>6, <3>1, SlabListFields, HeapAssumption
      <4>2. p + H + h[p].size = s
        BY <3>5 DEF End
      <4> HIDE DEF p
      <4> QED
        BY <4>1, <4>2
    <3>7. End(m, p) = s
      <4>1. m[p].size = h[p].size
        <5>1. CASE A
          <6> HIDE DEF p
          <6> QED
            BY <1>1, <1>3, <1>6, <3>1, <3>6, <5>1 DEF Merged, Header
        <5>2. CASE ~A
          BY <1>1, <1>3, <3>1, <5>2
        <5> QED
          BY <5>1, <5>2
      <4> QED
        BY <3>5, <4>1 DEF End
    <3> QED
      BY <1>5, <2>1, <3>1, <3>2, <3>3, <3>7, MergedCover
  <2>2. CASE ~B
    BY <1>5, <2>2 DEF SameCover
  <2> QED
    BY <2>1, <2>2
<1> QED
  BY <1>2, <1>7, <1>8, SameCoverTransitive

\* A byte is in one of n pages in a row just if it is between their ends.
LEMMA PagesInARow ==
  ASSUME NEW k \in Nat, NEW n \in Nat, NEW x \in Int
  PROVE  InPages(k .. k + n - 1, x) <=> k * P <= x /\ x < k * P + n * P
<1>1. P \in Nat \ {0}
  BY HeapAssumption
<1>2. ASSUME NEW f \in k .. k + n - 1, f * P <= x, x < (f + 1) * P
      PROVE  k * P <= x /\ x < k * P + n * P
  <2> DEFINE i == f - k
             j == n - 1 - i
  <2>1. i \in Nat /\ j \in Nat /\ f = k + i /\ n = i + 1 + j
    OBVIOUS
  <2> HIDE DEF i, j
  <2>2. i * P \in Nat /\ j * P \in Nat /\ k * P \in Nat
    BY <1>1, <2>1
  <2>3. f * P = k * P + i * P /\ (f + 1) * P = k * P + i * P + P
        /\ n * P = i * P + P + j * P
    BY <1>1, <2>1
  <2> QED
    BY <1>1, <1>2, <2>2, <2>3
<1>3. ASSUME k * P <= x, x < k * P + n * P
      PROVE  \E f \in k .. k + n - 1 : f * P <= x /\ x < (f + 1) * P
  <2> DEFINE y == x - k * P
             q == y \div P
             r == y % P
  <2>1. k * P \in Nat /\ n * P \in Nat /\ y \in Nat
    BY <1>1, <1>3
  <2>2. q \in Nat /\ r \in 0 .. P - 1 /\ y = q * P + r
    <3> HIDE DEF y
    <3>1. ASSUME NEW a \in Nat, NEW d \in Nat \ {0}
          PROVE  a \div d \in Nat /\ a % d \in 0 .. d - 1 /\ a = (a \div d) * d + (a % d)
      BY SMTT(60)
    <3> QED
      BY <1>1, <2>1, <3>1
  <2> HIDE DEF q, r
  <2>3. q < n
    <3> SUFFICES ASSUME n <= q PROVE FALSE
      BY <2>2
    <3> DEFINE i == q - n
    <3>1. i \in Nat /\ q = n + i
      BY <2>2
    <3> HIDE DEF i
    <3>2. q * P = n * P + i * P /\ i * P \in Nat
      BY <1>1, <3>1
    <3>3. y < n * P
      BY <1>3, <2>1
    <3> HIDE DEF y
    <3> QED
      BY <2>1, <2>2, <3>2, <3>3
  <2>4. (k + q) * P = k * P + q * P /\ ((k + q) + 1) * P = k * P + q * P + P /\ q * P \in Nat
    BY <1>1, <2>2
  <2>5. x = k * P + q * P + r
    BY <2>1, <2>2, <2>4
  <2>6. (k + q) * P <= x /\ x < ((k + q) + 1) * P
    BY <1>1, <2>1, <2>2, <2>4, <2>5
  <2>7. k + q \in k .. k + n - 1
    BY <2>2, <2>3
  <2> QED
    BY <2>6, <2>7
<1> QED
  BY <1>2, <1>3 DEF InPages

LEMMA PagesTaken ==
  ASSUME nextFrame \in Nat, pages \subseteq Nat, NEW n \in Nat, TakeFrames(n)
  PROVE  /\ pages' \subseteq Nat
         /\ \A x \in Int : InPages(pages', x) <=>
              InPages(pages, x) \/ (nextFrame * P <= x /\ x < nextFrame * P + n * P)
<1>1. pages' = pages \cup (nextFrame .. nextFrame + n - 1)
  BY DEF TakeFrames
<1>2. nextFrame .. nextFrame + n - 1 \subseteq Nat
  OBVIOUS
<1>3. ASSUME NEW x \in Int
      PROVE  InPages(pages', x) <=>
               InPages(pages, x) \/ (nextFrame * P <= x /\ x < nextFrame * P + n * P)
  <2>1. PICK k \in Nat : k = nextFrame
    OBVIOUS
  <2>2. InPages(k .. k + n - 1, x) <=> k * P <= x /\ x < k * P + n * P
    BY PagesInARow
  <2>3. InPages(pages', x) <=> InPages(pages, x) \/ InPages(k .. k + n - 1, x)
    BY <1>1, <2>1 DEF InPages
  <2> QED
    BY <2>1, <2>2, <2>3
<1> QED
  BY <1>1, <1>2, <1>3

\* Splitting covers what there was.
LEMMA CarvedCover ==
  ASSUME NEW h, NEW top \in Nat, NEW s \in DOMAIN h, NEW numbytes \in Nat, HeapBelow(h, top)
  PROVE  SameCover(Carved(h, s, numbytes), h)
<1> DEFINE rest == h[s].size - numbytes - H
           new_slab == s + H + numbytes
           g == Inserted(h, s, h[s].next, numbytes, new_slab, rest)
<1>1. IsSlabList(h) /\ InOrder(h) /\ s \in Nat /\ h[s].size \in Nat /\ H \in Nat \ {0}
  BY SlabListFields, HeapAssumption DEF HeapBelow
<1>2. CASE rest > 0
  <2>1. new_slab \in Nat /\ rest \in Nat /\ s < new_slab
    BY <1>1, <1>2
  <2>2. new_slab \notin DOMAIN h
    <3> SUFFICES ASSUME new_slab \in DOMAIN h PROVE FALSE
      OBVIOUS
    <3>1. s + H + h[s].size <= new_slab
      BY <1>1, <2>1, SlabsApart DEF End
    <3> QED
      BY <1>1, <1>2, <3>1
  <2>3. new_slab + H + rest = End(h, s) /\ End(h, s) \in Int /\ End(h, s) <= new_slab + H + rest
    BY <1>1 DEF End
  <2>4. Carved(h, s, numbytes) = Marked(g, s, FALSE)
    BY <1>2 DEF Carved
  <2>5. s \in DOMAIN g
    BY DEF Inserted
  <2>6. CoverGrown(h, g, End(h, s), new_slab + H + rest)
    <3>1. RightBehind(new_slab, s, numbytes)
      BY DEF RightBehind
    <3>2. g = Inserted(h, s, h[s].next, numbytes, new_slab, rest)
      OBVIOUS
    <3> HIDE DEF new_slab, rest, g
    <3> QED
      BY <1>1, <2>1, <2>2, <2>3, <3>1, <3>2, SplitCover
  <2> HIDE DEF g, new_slab, rest
  <2>7. SameCover(g, h)
    BY <2>3, <2>6 DEF CoverGrown, SameCover
  <2>8. SameCover(Marked(g, s, FALSE), g)
    BY <2>5, MarkedCover
  <2> QED
    BY <2>4, <2>7, <2>8, SameCoverTransitive
<1>3. CASE ~(rest > 0)
  <2>1. Carved(h, s, numbytes) = Marked(h, s, FALSE)
    BY <1>3 DEF Carved
  <2> QED
    BY <2>1, MarkedCover
<1> QED
  BY <1>2, <1>3

LEMMA CoverInvInit == Init => CoverInv
<1> SUFFICES ASSUME Init PROVE CoverInv
  OBVIOUS
<1>1. FirstFrame \in Nat /\ H \in Nat /\ P \in Nat /\ slab_head \in Nat
  BY HeapAssumption DEF slab_head
<1>2. DOMAIN slab = {slab_head} /\ slab[slab_head] = Header(slab_head, slab_head, P - H, TRUE)
  BY DEF Init
<1>3. End(slab, slab_head) = slab_head + P
  BY <1>1, <1>2 DEF End, Header
<1>4. \A x \in Int : Covered(slab, x) <=> slab_head <= x /\ x < slab_head + P
  BY <1>2, <1>3 DEF Covered
<1>5. (FirstFrame + 1) * P = slab_head + P
  BY <1>1 DEF slab_head
<1>6. pages = {FirstFrame}
  BY DEF Init
<1>7. \A x \in Int : InPages(pages, x) <=> slab_head <= x /\ x < slab_head + P
  BY <1>5, <1>6 DEF InPages, slab_head
<1> QED
  BY <1>1, <1>4, <1>6, <1>7 DEF CoverInv

\* A growth whose pages the list covers as well.
LEMMA GrowthCovers ==
  ASSUME nextFrame \in Nat, CoverInv, NEW n \in Nat, TakeFrames(n),
         apart \in BOOLEAN, apart' \in BOOLEAN, ~apart' => ~apart,
         ~apart' => CoverGrown(slab, slab', nextFrame * P, nextFrame * P + n * P)
  PROVE  CoverInv'
<1>1. /\ pages' \subseteq Nat
      /\ \A x \in Int : InPages(pages', x) <=>
           InPages(pages, x) \/ (nextFrame * P <= x /\ x < nextFrame * P + n * P)
  BY PagesTaken DEF CoverInv
<1>2. ASSUME ~apart', NEW x \in Int
      PROVE  Covered(slab', x) <=> InPages(pages', x)
  <2>1. Covered(slab, x) <=> InPages(pages, x)
    BY <1>2 DEF CoverInv
  <2>2. Covered(slab', x) <=>
          Covered(slab, x) \/ (nextFrame * P <= x /\ x < nextFrame * P + n * P)
    BY <1>2 DEF CoverGrown
  <2> QED
    BY <1>1, <2>1, <2>2
<1>3. (~apart => \A x \in Int : Covered(slab, x) <=> InPages(pages, x))'
  BY <1>2
<1> QED
  BY <1>1, <1>3 DEF CoverInv

LEMMA SameCoverKeeps ==
  ASSUME CoverInv, ~apart' => ~apart /\ SameCover(slab', slab), pages' = pages
  PROVE  CoverInv'
<1>1. ASSUME ~apart', NEW x \in Int
      PROVE  Covered(slab', x) <=> InPages(pages', x)
  <2>1. Covered(slab, x) <=> InPages(pages, x)
    BY <1>1 DEF CoverInv
  <2>2. Covered(slab', x) <=> Covered(slab, x)
    BY <1>1 DEF SameCover
  <2>3. InPages(pages', x) <=> InPages(pages, x)
    BY DEF InPages
  <2> QED
    BY <2>1, <2>2, <2>3
<1>2. (~apart => \A x \in Int : Covered(slab, x) <=> InPages(pages, x))'
  BY <1>1
<1>3. (pages \subseteq Nat)'
  BY DEF CoverInv
<1> QED
  BY <1>2, <1>3 DEF CoverInv

LEMMA NothingMoved ==
  ASSUME CoverInv, UNCHANGED <<slab, pages, apart>>
  PROVE  CoverInv'
BY DEF CoverInv, Covered, InPages, End

LEMMA KallocateCovers ==
  ASSUME HeapInv, apart \in BOOLEAN, CoverInv, NEW numbytes \in Bytes, Kallocate(numbytes)
  PROVE  CoverInv'
<1> DEFINE n == PagesFor(numbytes)
           page == nextFrame * P
           g == Appended(slab, page, n)
<1>1. /\ numbytes \in Nat /\ nextFrame \in Nat /\ page \in Nat
      /\ n \in Nat /\ n * P - H \in Nat /\ page + n * P \in Nat
  <2>1. numbytes \in Nat /\ nextFrame \in Nat /\ page \in Nat /\ H \in Nat /\ P \in Nat
    BY HeapAssumption DEF HeapInv
  <2>2. n \in Nat /\ n * P - H \in Nat
    BY <2>1, PagesForEnough
  <2>3. n * P \in Nat
    BY <2>1, <2>2
  <2> QED
    BY <2>1, <2>2, <2>3
<1>2. HeapBelow(slab, page)
  BY DEF HeapInv
<1>3. ASSUME NEW s \in DOMAIN slab, slab' = Carved(slab, s, numbytes),
             UNCHANGED <<pages, apart>>
      PROVE  CoverInv'
  <2>1. SameCover(slab', slab)
    BY <1>1, <1>2, <1>3, CarvedCover
  <2> QED
    BY <1>3, <2>1, SameCoverKeeps
<1>4. ASSUME TakeFrames(n), slab' = Carved(g, page, numbytes), UNCHANGED apart
      PROVE  CoverInv'
  <2> HIDE DEF n
  <2>1. CoverGrown(slab, slab', page, page + n * P)
    <3> HIDE DEF page, g
    <3>1. CoverGrown(slab, g, page, page + n * P) /\ GrownBy(slab, g, page, n)
      BY <1>1, <1>2, AppendedCover, AppendedInOrder DEF g
    <3>2. HeapBelow(g, page + n * P) /\ page \in DOMAIN g
      BY <3>1 DEF GrownBy
    <3>3. SameCover(slab', g)
      BY <1>1, <1>4, <3>2, CarvedCover
    <3> QED
      BY <3>1, <3>3 DEF CoverGrown, SameCover
  <2> QED
    BY <1>1, <1>4, <2>1, GrowthCovers
<1>5. CASE OutOfMemory(n)
  BY <1>5, NothingMoved DEF OutOfMemory
<1> QED
  BY <1>3, <1>4, <1>5 DEF Kallocate

LEMMA KallocateAlignedCovers ==
  ASSUME HeapInv, apart \in BOOLEAN, CoverInv,
         NEW num_pages \in AlignedPages, KallocateAligned(num_pages)
  PROVE  CoverInv'
<1> DEFINE page == nextFrame * P
           m == num_pages * P
<1>1. /\ num_pages \in Nat /\ nextFrame \in Nat /\ page \in Nat /\ m \in Nat
      /\ H \in Nat \ {0} /\ P \in Nat /\ P > 2 * H
  BY HeapAssumption DEF HeapInv
<1>2. HeapBelow(slab, page) /\ IsSlabList(slab)
  BY DEF HeapInv, HeapBelow
<1>3. CASE KallocateBehindTail(num_pages)
  <2> DEFINE last == find_last_slab(slab)
             s == last + slab[last].size
             psize == slab[last].size - H
             g == Inserted(slab, last, slab[last].next, psize, s, m)
  <2>1. /\ last \in DOMAIN slab /\ last \in Nat /\ slab[last].size \in Nat
        /\ slab[last].next = slab_head
        /\ \A a \in DOMAIN slab : a <= last
    BY <1>1, <1>2, LastSlab
  <2>2. slab[last].size >= H /\ slab' = Marked(g, s, FALSE) /\ TakeFrames(num_pages)
    BY <1>3, <2>1 DEF KallocateBehindTail, TailHasRoom
  <2>3. apart' = (apart \/ End(slab, last) # page)
    BY <1>3 DEF KallocateBehindTail
  <2>4. apart' \in BOOLEAN /\ (~apart' => ~apart /\ End(slab, last) = page)
    BY <2>3, Zenon
  <2>5. psize \in Nat /\ s \in Nat /\ s > last /\ s = last + H + psize
        /\ s + H = End(slab, last)
    BY <1>1, <2>1, <2>2 DEF End
  <2>6. s \notin DOMAIN slab
    BY <2>1, <2>5
  <2>7. ASSUME ~apart'
        PROVE  CoverGrown(slab, slab', page, page + m)
    <3>1. End(slab, last) = page
      BY <2>4, <2>7
    <3>2. s + H + m = page + m /\ page <= page + m
      BY <1>1, <2>5, <3>1
    <3> HIDE DEF last, s, psize, m, page
    <3>3. CoverGrown(slab, g, End(slab, last), s + H + m)
      <4>1. RightBehind(s, last, psize)
        BY <2>5 DEF RightBehind
      <4>2. End(slab, last) <= s + H + m
        BY <3>1, <3>2
      <4>3. g = Inserted(slab, last, slab[last].next, psize, s, m)
        OBVIOUS
      <4> HIDE DEF g
      <4> QED
        BY <1>1, <1>2, <2>1, <2>5, <2>6, <4>1, <4>2, <4>3, SplitCover
    <3>4. CoverGrown(slab, g, page, page + m)
      BY <3>1, <3>2, <3>3
    <3>5. s \in DOMAIN g
      BY DEF Inserted
    <3> HIDE DEF g
    <3>6. SameCover(slab', g)
      BY <2>2, <3>5, MarkedCover
    <3> QED
      BY <3>4, <3>6 DEF CoverGrown, SameCover
  <2> HIDE DEF last, s, g
  <2> QED
    BY <1>1, <2>2, <2>4, <2>7, GrowthCovers
<1>4. CASE KallocateNewPages(num_pages)
  <2> DEFINE s == page + P - H
             n == num_pages + 1
             g == Appended(slab, page, n)
             k == Inserted(g, page, g[page].next, P - 2 * H, s, m)
  <2>1. /\ n \in Nat /\ n * P = m + P /\ n * P - H \in Nat /\ P - 2 * H \in Nat
        /\ s \in Nat /\ page < s /\ s = page + H + (P - 2 * H)
        /\ s + H + m = page + n * P
    <3>1. n * P = m + P
      BY <1>1
    <3> HIDE DEF m
    <3> QED
      BY <1>1, <3>1
  <2>2. GrownBy(slab, g, page, n) /\ CoverGrown(slab, g, page, page + n * P)
    <3> HIDE DEF page, n, g
    <3> QED
      BY <1>1, <1>2, <2>1, AppendedInOrder, AppendedCover DEF g
  <2> HIDE DEF g
  <2>3. /\ HeapBelow(g, page + n * P) /\ page \in DOMAIN g /\ IsSlabList(g) /\ InOrder(g)
        /\ g[page].next = slab_head /\ g[page].size = n * P - H
    BY <2>2 DEF GrownBy, Header, HeapBelow
  <2>4. slab' = Marked(k, s, FALSE) /\ TakeFrames(n) /\ apart' = apart
    BY <1>4, <2>3 DEF KallocateNewPages, g
  <2>5. End(g, page) = page + n * P
    <3> HIDE DEF n, page
    <3>1. n * P \in Int
      BY <1>1, <2>1
    <3> QED
      BY <1>1, <2>1, <2>3, <3>1 DEF End
  <2>6. s \notin DOMAIN g
    <3> SUFFICES ASSUME s \in DOMAIN g PROVE FALSE
      OBVIOUS
    <3>1. page + n * P <= s
      BY <2>1, <2>3, <2>5, SlabsApart
    <3> HIDE DEF m, n, page, s
    <3> QED
      BY <1>1, <2>1, <3>1
  <2>7. s \in DOMAIN k
    BY DEF Inserted
  <2> HIDE DEF s, m, page, n
  <2>8. CoverGrown(g, k, End(g, page), s + H + m)
    <3>1. End(g, page) <= s + H + m
      <4>1. n * P \in Int
        BY <1>1, <2>1
      <4> QED
        BY <1>1, <2>1, <2>5, <4>1
    <3>2. RightBehind(s, page, P - 2 * H)
      BY <2>1 DEF RightBehind
    <3>3. k = Inserted(g, page, g[page].next, P - 2 * H, s, m)
      OBVIOUS
    <3> HIDE DEF k
    <3> QED
      BY <1>1, <2>1, <2>3, <2>6, <3>1, <3>2, <3>3, SplitCover
  <2> HIDE DEF k
  <2>9. SameCover(k, g)
    <3>1. End(g, page) = s + H + m /\ End(g, page) \in Int
      <4>1. n * P \in Int
        BY <1>1, <2>1
      <4> QED
        BY <1>1, <2>1, <2>5, <4>1
    <3> QED
      BY <2>8, <3>1 DEF CoverGrown, SameCover
  <2>10. SameCover(slab', k)
    BY <2>4, <2>7, MarkedCover
  <2>11. CoverGrown(slab, slab', page, page + n * P)
    BY <2>2, <2>9, <2>10 DEF CoverGrown, SameCover
  <2> QED
    BY <1>1, <2>1, <2>4, <2>11, GrowthCovers DEF page
<1>5. ASSUME NEW n, OutOfMemory(n)
      PROVE  CoverInv'
  BY <1>5, NothingMoved DEF OutOfMemory
<1> QED
  BY <1>3, <1>4, <1>5 DEF KallocateAligned

LEMMA KfreeCovers ==
  ASSUME HeapInv, apart \in BOOLEAN, CoverInv, NEW b \in blocks, Kfree(b)
  PROVE  CoverInv'
<1>1. b.slab \in DOMAIN slab /\ nextFrame * P \in Nat /\ HeapBelow(slab, nextFrame * P)
  BY HeapAssumption DEF HeapInv, BlocksBacked
<1>2. /\ slab' = MergedWithPrevious(MergedWithNext(Marked(slab, b.slab, TRUE), b.slab), b.slab)
      /\ apart' = (apart \/ MergedApart)
      /\ pages' = pages
  BY DEF Kfree
<1>3. ~apart' => ~apart /\ ~MergedApart
  BY <1>2, Zenon
<1>4. ASSUME ~MergedApart
      PROVE  SameCover(slab', slab)
  <2>1. \A a \in DOMAIN slab \ DOMAIN slab' : End(slab, slab[a].previous) = a
    BY <1>4 DEF MergedApart
  <2> QED
    BY <1>1, <1>2, <2>1, KfreeCover
<1> QED
  BY <1>2, <1>3, <1>4, SameCoverKeeps

\* Until slabs are joined that do not adjoin, the heap's slabs are the heap's pages.
THEOREM PagesStayCovered == Spec => []PagesCovered
<1>1. HeapInv /\ TypeOK /\ CoverInv /\ [Next]_vars => CoverInv'
  <2> SUFFICES ASSUME HeapInv, apart \in BOOLEAN, CoverInv, [Next]_vars PROVE CoverInv'
    BY DEF TypeOK
  <2>1. CASE Halted \/ UNCHANGED vars
    BY <2>1, NothingMoved DEF Halted, vars
  <2> QED
    BY <2>1, KallocateCovers, KallocateAlignedCovers, KfreeCovers DEF Next
<1>2. HeapInv /\ CoverInv => PagesCovered
  <2> SUFFICES ASSUME HeapInv, CoverInv, ~apart
               PROVE  UNION {a .. End(slab, a) - 1 : a \in DOMAIN slab}
                        = UNION {f * P .. (f + 1) * P - 1 : f \in pages}
    BY DEF PagesCovered
  <2>1. ASSUME NEW a \in DOMAIN slab
        PROVE  a .. End(slab, a) - 1 = {x \in Int : a <= x /\ x < End(slab, a)}
    <3>1. a \in Nat /\ slab[a].size \in Nat /\ H \in Nat
      BY SlabListFields, HeapAssumption DEF HeapInv, HeapBelow
    <3>2. End(slab, a) \in Int
      BY <3>1 DEF End
    <3> QED
      BY <3>1, <3>2
  <2>2. ASSUME NEW f \in pages
        PROVE  f * P .. (f + 1) * P - 1 = {x \in Int : f * P <= x /\ x < (f + 1) * P}
    <3>1. f * P \in Int /\ (f + 1) * P \in Int
      BY HeapAssumption DEF CoverInv
    <3> QED
      BY <3>1
  <2>3. \A x : x \in UNION {a .. End(slab, a) - 1 : a \in DOMAIN slab}
                 <=> x \in Int /\ Covered(slab, x)
    BY <2>1 DEF Covered
  <2>4. \A x : x \in UNION {f * P .. (f + 1) * P - 1 : f \in pages}
                 <=> x \in Int /\ InPages(pages, x)
    BY <2>2 DEF InPages
  <2> QED
    BY <2>3, <2>4 DEF CoverInv
<1> QED
  BY <1>1, <1>2, CoverInvInit, HeapInvHolds, TypeCorrect, PTL DEF Spec
=============================================================================
