-------------------------- MODULE AddrSpaceProofs --------------------------
(***************************************************************************)
(* Proofs about AddrSpace: the four levels of tables implement PageMap,    *)
(* and all the kernel touches is mapped when its tables come into force,   *)
(* for every map and for tables of any even size.                          *)
(***************************************************************************)
EXTENDS AddrSpace, FiniteSetTheorems, WellFoundedInduction, TLAPS

-----------------------------------------------------------------------------
(***************************************************************************)
(* The digits of a page number.                                            *)
(***************************************************************************)
LEMMA Division ==
  ASSUME NEW n \in Nat, NEW d \in Nat \ {0}, NEW q \in Int, NEW r \in Int,
         q = n \div d, r = n % d
  PROVE  n = q * d + r /\ r \in 0 .. d - 1 /\ q \in Nat
OBVIOUS

LEMMA QuotientOf ==
  ASSUME NEW n \in Nat, NEW d \in Nat \ {0}, NEW q \in Nat, NEW r \in 0 .. d - 1, n = q * d + r
  PROVE  n \div d = q
BY SMTT(60)

\* A quotient is as much smaller as the divisor is large.
LEMMA QuotientBelow ==
  ASSUME NEW n \in Nat, NEW d \in Nat \ {0}, NEW m \in Nat, n < m * d
  PROVE  n \div d \in 0 .. m - 1
<1>1. PICK q \in Int, r \in Int : q = n \div d /\ r = n % d
  OBVIOUS
<1>2. n = q * d + r /\ r \in 0 .. d - 1 /\ q \in Nat
  BY <1>1, Division
<1>3. q >= m => q * d >= m * d
  BY <1>2, SMTT(60)
<1>4. q * d \in Nat /\ m * d \in Nat
  BY <1>2
<1> QED
  BY <1>1, <1>2, <1>3, <1>4

\* Dividing twice is dividing by the product.
LEMMA TwoDivisions ==
  ASSUME NEW n \in Nat, NEW a \in Nat \ {0}, NEW b \in Nat \ {0}
  PROVE  n \div (b * a) = (n \div a) \div b
<1>1. PICK q \in Int, r \in Int : q = n \div a /\ r = n % a
  OBVIOUS
<1>2. n = q * a + r /\ r \in 0 .. a - 1 /\ q \in Nat
  BY <1>1, Division
<1>3. PICK p \in Int, s \in Int : p = q \div b /\ s = q % b
  OBVIOUS
<1>4. q = p * b + s /\ s \in 0 .. b - 1 /\ p \in Nat
  BY <1>2, <1>3, Division
<1>5. n = p * (b * a) + (s * a + r)
  <2>1. (p * b + s) * a = p * (b * a) + s * a
    BY <1>4, SMTT(60)
  <2>2. p * (b * a) \in Int /\ s * a \in Int
    BY <1>4
  <2> QED
    BY <1>2, <1>4, <2>1, <2>2
<1>6. s * a + r \in 0 .. b * a - 1 /\ b * a \in Nat \ {0}
  <2>1. s * a <= (b - 1) * a /\ (b - 1) * a = b * a - a
    BY <1>4, SMTT(60)
  <2>2. s * a \in Nat /\ b * a \in Nat
    BY <1>4
  <2> QED
    BY <1>2, <2>1, <2>2
<1>7. n \div (b * a) = p
  <2> DEFINE d == b * a
             t == s * a + r
  <2>1. d \in Nat \ {0} /\ t \in 0 .. d - 1 /\ n = p * d + t
    BY <1>5, <1>6
  <2>2. n \div d = p
    <3> HIDE DEF d, t
    <3> QED
      BY <2>1, <1>4, QuotientOf
  <2> QED
    BY <2>2
<1> QED
  BY <1>1, <1>3, <1>7

Index == 0 .. Fan - 1

\* The offsets are the digits of the page's number.
LEMMA OffsetDigits ==
  ASSUME NEW v \in Pages
  PROVE  \E q1, q2, q3 \in Nat :
           /\ q1 = v \div Fan /\ q2 = q1 \div Fan /\ q3 = q2 \div Fan
           /\ Offset(v, 0) = v % Fan /\ Offset(v, 1) = q1 % Fan
           /\ Offset(v, 2) = q2 % Fan /\ Offset(v, 3) = q3
           /\ q3 \in Index
<1>1. Fan \in Nat \ {0}
  BY AddressAssumption
<1>2. /\ Fan * Fan \in Nat \ {0}
      /\ Fan * Fan * Fan \in Nat \ {0}
      /\ NumPages \in Nat
  <2>1. \A a, b \in Nat \ {0} : a * b \in Nat \ {0}
    BY SMTT(60)
  <2> QED
    BY <1>1, <2>1 DEF NumPages
<1>3. v \in Nat /\ v < NumPages
  BY <1>2 DEF Pages
<1>4. PICK q1 \in Nat : q1 = v \div Fan
  BY <1>1, <1>3
<1>5. PICK q2 \in Nat : q2 = q1 \div Fan
  BY <1>1, <1>4
<1>6. PICK q3 \in Nat : q3 = q2 \div Fan
  BY <1>1, <1>5
<1>7. v \div (Fan * Fan) = q2
  BY <1>1, <1>3, <1>4, <1>5, TwoDivisions
<1>8. v \div (Fan * Fan * Fan) = q3
  <2>1. Fan * Fan * Fan = Fan * (Fan * Fan)
    BY <1>1, SMTT(60)
  <2>2. v \div (Fan * (Fan * Fan)) = (v \div (Fan * Fan)) \div Fan
    BY <1>1, <1>2, <1>3, TwoDivisions
  <2> QED
    BY <1>6, <1>7, <2>1, <2>2
<1>9. q3 \in Index
  <2>1. q1 < Fan * Fan * Fan
    BY <1>1, <1>2, <1>3, <1>4, QuotientBelow DEF NumPages
  <2>2. q2 < Fan * Fan
    BY <1>1, <1>2, <1>4, <1>5, <2>1, QuotientBelow
  <2> QED
    BY <1>1, <1>5, <1>6, <2>2, QuotientBelow DEF Index
<1>10. /\ Offset(v, 0) = v % Fan /\ Offset(v, 1) = q1 % Fan
       /\ Offset(v, 2) = q2 % Fan /\ Offset(v, 3) = q3
  BY <1>4, <1>7, <1>8 DEF Offset
<1> QED
  BY <1>4, <1>5, <1>6, <1>9, <1>10

\* They are indices of tables, and no two pages have the same four.
LEMMA OffsetIndex ==
  ASSUME NEW v \in Pages
  PROVE  /\ Offset(v, 0) \in Index /\ Offset(v, 1) \in Index
         /\ Offset(v, 2) \in Index /\ Offset(v, 3) \in Index
<1>1. PICK q1, q2, q3 \in Nat :
           /\ Offset(v, 0) = v % Fan /\ Offset(v, 1) = q1 % Fan
           /\ Offset(v, 2) = q2 % Fan /\ Offset(v, 3) = q3
           /\ q3 \in Index
  BY OffsetDigits
<1>2. v \in Int /\ Fan \in Nat \ {0}
  BY AddressAssumption DEF Pages
<1>3. v % Fan \in Index /\ q1 % Fan \in Index /\ q2 % Fan \in Index
  BY <1>2 DEF Index
<1> QED
  BY <1>1, <1>3

LEMMA OffsetsDetermine ==
  ASSUME NEW v \in Pages, NEW w \in Pages,
         Offset(v, 0) = Offset(w, 0), Offset(v, 1) = Offset(w, 1),
         Offset(v, 2) = Offset(w, 2), Offset(v, 3) = Offset(w, 3)
  PROVE  v = w
<1>1. PICK a1, a2, a3 \in Nat :
           /\ a1 = v \div Fan /\ a2 = a1 \div Fan /\ a3 = a2 \div Fan
           /\ Offset(v, 0) = v % Fan /\ Offset(v, 1) = a1 % Fan
           /\ Offset(v, 2) = a2 % Fan /\ Offset(v, 3) = a3
  BY OffsetDigits
<1>2. PICK b1, b2, b3 \in Nat :
           /\ b1 = w \div Fan /\ b2 = b1 \div Fan /\ b3 = b2 \div Fan
           /\ Offset(w, 0) = w % Fan /\ Offset(w, 1) = b1 % Fan
           /\ Offset(w, 2) = b2 % Fan /\ Offset(w, 3) = b3
  BY OffsetDigits
<1>3. ASSUME NEW m \in Nat, NEW n \in Nat, m \div Fan = n \div Fan, m % Fan = n % Fan
      PROVE  m = n
  <2>1. Fan \in Nat \ {0}
    BY AddressAssumption
  <2>2. PICK q \in Int, r \in Int : q = m \div Fan /\ r = m % Fan
    BY <2>1
  <2>3. m = q * Fan + r
    BY <2>1, <2>2, Division
  <2>4. n = q * Fan + r
    BY <1>3, <2>1, <2>2, Division
  <2> QED
    BY <2>3, <2>4
<1>4. a2 = b2
  BY <1>1, <1>2, <1>3
<1>5. a1 = b1
  BY <1>1, <1>2, <1>3, <1>4
<1>6. v \in Nat /\ w \in Nat
  BY DEF Pages
<1> QED
  BY <1>1, <1>2, <1>3, <1>5, <1>6

\* The offset of the memory is half of the addresses.
LEMMA TwoHalves == hhdm_offset \in Nat /\ NumPages = 2 * hhdm_offset /\ NumPages \in Nat
<1>1. Fan \in Nat \ {0}
  BY AddressAssumption
<1>2. PICK k \in Nat : Fan = k + k
  <2>1. Fan = 2 * (Fan \div 2) /\ Fan \div 2 \in Nat
    BY <1>1, AddressAssumption
  <2> QED
    BY <1>1, <2>1
<1>3. PICK m \in Nat : m = Fan * Fan * Fan
  BY <1>1
<1>4. PICK h \in Nat : h = m * k
  BY <1>2, <1>3
<1>5. NumPages = h + h
  <2>1. m * (k + k) = m * k + m * k
    BY <1>2, <1>3, SMTT(60)
  <2> QED
    BY <1>2, <1>3, <1>4, <2>1 DEF NumPages
<1>6. hhdm_offset = h
  BY <1>4, <1>5 DEF hhdm_offset
<1> QED
  BY <1>4, <1>5, <1>6

-----------------------------------------------------------------------------
(***************************************************************************)
(* The tables are a tree of four levels: entries above the last level lead *)
(* to tables one level down, and no two entries to the same one.           *)
(***************************************************************************)
Tree(d, level) ==
  /\ DOMAIN d \subseteq Int
  /\ level \in [DOMAIN d -> 0 .. 3]
  /\ \A t \in DOMAIN d : d[t] \in [Index -> Int \cup {Absent}]
  /\ \A t \in DOMAIN d, i \in Index :
       level[t] > 0 /\ d[t][i] # Absent =>
         d[t][i] \in DOMAIN d /\ level[d[t][i]] = level[t] - 1
  /\ \A t, u \in DOMAIN d, i, j \in Index :
       level[t] > 0 /\ level[u] > 0 /\ d[t][i] # Absent /\ d[t][i] = d[u][j] =>
         t = u /\ i = j

\* Entry and Translate in tables that are not those of the state.
EntryIn(d, t, i) == IF t = Absent THEN Absent ELSE d[t][i]

TranslateIn(d, root, v) ==
  EntryIn(d, EntryIn(d, EntryIn(d, EntryIn(d, root, Offset(v, 3)), Offset(v, 2)),
                     Offset(v, 1)), Offset(v, 0))

\* The tables of a level, or none.
At(d, level, k) == {t \in DOMAIN d : level[t] = k} \cup {Absent}

LEMMA EntryAt ==
  ASSUME NEW d, NEW level, Tree(d, level), NEW k \in 1 .. 3, NEW t \in At(d, level, k),
         NEW i \in Index
  PROVE  EntryIn(d, t, i) \in At(d, level, k - 1)
<1>1. CASE t = Absent
  BY <1>1 DEF EntryIn, At
<1>2. CASE t # Absent
  <2>1. t \in DOMAIN d /\ level[t] = k
    BY <1>2 DEF At
  <2>2. d[t][i] # Absent => d[t][i] \in DOMAIN d /\ level[d[t][i]] = k - 1
    BY <2>1 DEF Tree
  <2> QED
    BY <1>2, <2>2 DEF EntryIn, At
<1> QED
  BY <1>1, <1>2

\* The walk down to the last table.
LEMMA WalkAt ==
  ASSUME NEW d, NEW level, Tree(d, level), NEW root \in DOMAIN d, level[root] = 3,
         NEW v \in Pages
  PROVE  \E t2 \in At(d, level, 2), t1 \in At(d, level, 1), t0 \in At(d, level, 0) :
           /\ t2 = EntryIn(d, root, Offset(v, 3))
           /\ t1 = EntryIn(d, t2, Offset(v, 2))
           /\ t0 = EntryIn(d, t1, Offset(v, 1))
           /\ TranslateIn(d, root, v) = EntryIn(d, t0, Offset(v, 0))
<1> DEFINE t2 == EntryIn(d, root, Offset(v, 3))
           t1 == EntryIn(d, t2, Offset(v, 2))
           t0 == EntryIn(d, t1, Offset(v, 1))
<1>1. root \in At(d, level, 3)
  BY DEF At
<1>2. t2 \in At(d, level, 3 - 1)
  BY <1>1, OffsetIndex, EntryAt
<1>3. t1 \in At(d, level, 2 - 1)
  BY <1>2, OffsetIndex, EntryAt
<1>4. t0 \in At(d, level, 1 - 1)
  BY <1>3, OffsetIndex, EntryAt
<1>5. t2 \in At(d, level, 2) /\ t1 \in At(d, level, 1) /\ t0 \in At(d, level, 0)
  BY <1>2, <1>3, <1>4
<1>6. TranslateIn(d, root, v) = EntryIn(d, t0, Offset(v, 0))
  BY DEF TranslateIn
<1> QED
  BY <1>5, <1>6

\* A table more, entered where there was none: what is translated stays as it is.
WithTable(d, t, i, new) ==
  [u \in DOMAIN d \cup {new} |-> IF u = new THEN NoEntries ELSE [d EXCEPT ![t][i] = new][u]]

WithLevel(d, level, t, new) ==
  [u \in DOMAIN d \cup {new} |-> IF u = new THEN level[t] - 1 ELSE level[u]]

\* What is there stays: the tables, their levels, their entries, all translations.
Extended(d, level, d2, level2) ==
  /\ DOMAIN d \subseteq DOMAIN d2
  /\ \A t \in DOMAIN d : level2[t] = level[t]
  /\ \A t \in DOMAIN d, i \in Index : d[t][i] # Absent => d2[t][i] = d[t][i]
  /\ \A root \in DOMAIN d, v \in Pages :
       level[root] = 3 => TranslateIn(d2, root, v) = TranslateIn(d, root, v)

LEMMA TableAdded ==
  ASSUME NEW d, NEW level, Tree(d, level), NEW t \in DOMAIN d, level[t] > 0, NEW i \in Index,
         d[t][i] = Absent, NEW new \in Int, new \notin DOMAIN d
  PROVE  LET d2 == WithTable(d, t, i, new)
             level2 == WithLevel(d, level, t, new)
         IN  /\ Tree(d2, level2)
             /\ Extended(d, level, d2, level2)
             /\ new \in DOMAIN d2 /\ level2[new] = level[t] - 1
             /\ d2[t][i] = new
<1> DEFINE d2 == WithTable(d, t, i, new)
           level2 == WithLevel(d, level, t, new)
<1>1. /\ DOMAIN d2 = DOMAIN d \cup {new}
      /\ d2[new] = [j \in Index |-> Absent]
      /\ \A u \in DOMAIN d, j \in Index : d2[u][j] = IF u = t /\ j = i THEN new ELSE d[u][j]
      /\ \A u \in DOMAIN d : d2[u] \in [Index -> Int \cup {Absent}]
  <2>1. \A u \in DOMAIN d : d[u] \in [Index -> Int \cup {Absent}]
    BY DEF Tree
  <2>2. \A u \in DOMAIN d : d2[u] = IF u = t THEN [d[t] EXCEPT ![i] = new] ELSE d[u]
    BY DEF WithTable
  <2> QED
    BY <2>1, <2>2 DEF WithTable, NoEntries, Index
<1>2. /\ level2 \in [DOMAIN d2 -> 0 .. 3]
      /\ level2[new] = level[t] - 1
      /\ \A u \in DOMAIN d : level2[u] = level[u]
  BY <1>1 DEF WithLevel, Tree
<1>3. Absent \notin Int
  BY AddressAssumption
<1> HIDE DEF d2, level2
<1>4. Tree(d2, level2)
  <2>1. \A u \in DOMAIN d2 : d2[u] \in [Index -> Int \cup {Absent}]
    BY <1>1
  <2>2. ASSUME NEW u \in DOMAIN d2, NEW j \in Index, level2[u] > 0, d2[u][j] # Absent
        PROVE  d2[u][j] \in DOMAIN d2 /\ level2[d2[u][j]] = level2[u] - 1
    <3>1. u \in DOMAIN d
      BY <1>1, <2>2
    <3>2. CASE u = t /\ j = i
      BY <1>1, <1>2, <3>1, <3>2
    <3>3. CASE ~(u = t /\ j = i)
      <4>1. d2[u][j] = d[u][j]
        BY <1>1, <3>1, <3>3
      <4>2. d[u][j] \in DOMAIN d /\ level[d[u][j]] = level[u] - 1
        BY <1>2, <2>2, <3>1, <4>1 DEF Tree
      <4> QED
        BY <1>1, <1>2, <3>1, <4>1, <4>2
    <3> QED
      BY <3>2, <3>3
  <2>3. ASSUME NEW u \in DOMAIN d2, NEW w \in DOMAIN d2, NEW j \in Index, NEW k \in Index,
               level2[u] > 0, level2[w] > 0, d2[u][j] # Absent, d2[u][j] = d2[w][k]
        PROVE  u = w /\ j = k
    <3>1. u \in DOMAIN d /\ w \in DOMAIN d
      BY <1>1, <2>3
    <3>2. d[u][j] # Absent => d[u][j] \in DOMAIN d
      BY <1>2, <2>3, <3>1 DEF Tree
    <3>3. d[w][k] # Absent => d[w][k] \in DOMAIN d
      BY <1>2, <2>3, <3>1 DEF Tree
    <3>4. CASE u = t /\ j = i
      BY <1>1, <2>3, <3>1, <3>3, <3>4, <1>3
    <3>5. CASE w = t /\ k = i
      BY <1>1, <2>3, <3>1, <3>2, <3>5, <1>3
    <3>6. CASE ~(u = t /\ j = i) /\ ~(w = t /\ k = i)
      <4>1. d[u][j] = d[w][k] /\ d[u][j] # Absent
        BY <1>1, <2>3, <3>1, <3>6
      <4> QED
        BY <1>2, <2>3, <3>1, <4>1 DEF Tree
    <3> QED
      BY <3>4, <3>5, <3>6
  <2>4. DOMAIN d2 \subseteq Int
    BY <1>1 DEF Tree
  <2> QED
    BY <1>2, <2>1, <2>2, <2>3, <2>4 DEF Tree
<1>5. ASSUME NEW x, NEW x2, NEW k \in 0 .. 3, x \in At(d, level, k), NEW j \in Index,
             x2 = x \/ (x2 = new /\ x = Absent)
      PROVE  LET y == EntryIn(d, x, j)
                 y2 == EntryIn(d2, x2, j)
             IN  y2 = y \/ (y2 = new /\ y = Absent /\ k > 0)
  <2>1. CASE x = Absent
    BY <1>1, <1>3, <1>5, <2>1 DEF EntryIn
  <2>2. CASE x # Absent
    <3>1. x \in DOMAIN d /\ level[x] = k /\ x2 = x
      BY <1>5, <2>2 DEF At
    <3> QED
      BY <1>1, <2>2, <3>1 DEF EntryIn
  <2> QED
    BY <2>1, <2>2
<1>6. ASSUME NEW root \in DOMAIN d, NEW v \in Pages, level[root] = 3
      PROVE  TranslateIn(d2, root, v) = TranslateIn(d, root, v)
  <2>1. PICK t2 \in At(d, level, 2), t1 \in At(d, level, 1), t0 \in At(d, level, 0) :
           /\ t2 = EntryIn(d, root, Offset(v, 3))
           /\ t1 = EntryIn(d, t2, Offset(v, 2))
           /\ t0 = EntryIn(d, t1, Offset(v, 1))
           /\ TranslateIn(d, root, v) = EntryIn(d, t0, Offset(v, 0))
    BY <1>6, WalkAt
  <2>2. root \in At(d, level, 3)
    BY <1>6 DEF At
  <2> DEFINE s2 == EntryIn(d2, root, Offset(v, 3))
             s1 == EntryIn(d2, s2, Offset(v, 2))
             s0 == EntryIn(d2, s1, Offset(v, 1))
  <2>3. s2 = t2 \/ (s2 = new /\ t2 = Absent)
    BY <1>5, <2>1, <2>2, OffsetIndex
  <2>4. s1 = t1 \/ (s1 = new /\ t1 = Absent)
    BY <1>5, <2>1, <2>3, OffsetIndex
  <2>5. s0 = t0 \/ (s0 = new /\ t0 = Absent)
    BY <1>5, <2>1, <2>4, OffsetIndex
  <2>6. EntryIn(d2, s0, Offset(v, 0)) = EntryIn(d, t0, Offset(v, 0))
    BY <1>5, <2>5, OffsetIndex
  <2> QED
    BY <2>1, <2>6 DEF TranslateIn
<1>7. \A u \in DOMAIN d, j \in Index : d[u][j] # Absent => d2[u][j] = d[u][j]
  BY <1>1
<1>8. Extended(d, level, d2, level2)
  BY <1>1, <1>2, <1>6, <1>7 DEF Extended
<1> QED
  BY <1>1, <1>2, <1>4, <1>8 DEF d2, level2

-----------------------------------------------------------------------------
(***************************************************************************)
(* Frames for tables, and the walk of map_page.                            *)
(***************************************************************************)
LEMMA LeastNat ==
  ASSUME NEW S \in SUBSET Nat, S # {}
  PROVE  \E m \in S : \A n \in S : m <= n
<1>1. PICK m \in S : \A n \in S : ~ (<<n, m>> \in OpToRel(<, Nat))
  BY NatLessThanWellFounded, WFMin
<1>2. \A n \in S : ~ (n < m)
  BY <1>1 DEF OpToRel
<1> QED
  BY <1>2

LEMMA FirstFreeIsFree ==
  ASSUME NEW bits, ~(PMM!Bits \subseteq bits)
  PROVE  FirstFree(bits) \in PMM!Bits \ bits /\ FirstFree(bits) \in Int
<1>1. PMM!Bits \subseteq Nat
  BY AddressAssumption
<1>2. \E f \in PMM!Bits \ bits : \A g \in PMM!Bits \ bits : f <= g
  BY <1>1, LeastNat
<1>3. FirstFree(bits) \in PMM!Bits \ bits
  BY <1>2 DEF FirstFree
<1>4. \A f \in PMM!Bits : f \in Int
  BY <1>1
<1> HIDE DEF FirstFree
<1> QED
  BY <1>3, <1>4, Zenon

Walk(t, oom, bits, d) == [table |-> t, oom |-> oom, used |-> bits, dir |-> d]

LEMMA ExtendedTransitive ==
  ASSUME NEW d, NEW level, Tree(d, level), NEW d2, NEW level2, NEW d3, NEW level3,
         Extended(d, level, d2, level2), Extended(d2, level2, d3, level3)
  PROVE  Extended(d, level, d3, level3)
<1>1. DOMAIN d \subseteq DOMAIN d2 /\ DOMAIN d2 \subseteq DOMAIN d3
  BY DEF Extended
<1>2. \A t \in DOMAIN d : level2[t] = level[t] /\ level3[t] = level[t]
  BY <1>1 DEF Extended
<1>3. \A t \in DOMAIN d, i \in Index : d[t][i] # Absent => d3[t][i] = d[t][i]
  BY <1>1 DEF Extended
<1>4. \A root \in DOMAIN d, v \in Pages :
         level[root] = 3 => TranslateIn(d3, root, v) = TranslateIn(d, root, v)
  BY <1>1, <1>2 DEF Extended
<1> QED
  BY <1>1, <1>2, <1>3, <1>4 DEF Extended

LEMMA ExtendedReflexive ==
  ASSUME NEW d, NEW level
  PROVE  Extended(d, level, d, level)
BY DEF Extended

\* One level down from t: its entry leads to s afterwards, and nothing is lost.
Lower(w, d, level, t, i, s, bits, d2, level2) ==
  /\ w = Walk(s, FALSE, bits, d2)
  /\ Tree(d2, level2)
  /\ Extended(d, level, d2, level2)
  /\ DOMAIN d2 \subseteq bits
  /\ s \in DOMAIN d2 /\ level2[s] = level[t] - 1
  /\ d2[t][i] = s

LEMMA DescendStep ==
  ASSUME NEW d, NEW level, Tree(d, level), NEW t \in DOMAIN d, level[t] > 0,
         NEW i \in Index, NEW bits, DOMAIN d \subseteq bits
  PROVE  \/ Descend(Walk(t, FALSE, bits, d), i) = Walk(t, TRUE, bits, d)
         \/ \E s, bits2, d2, level2 :
              Lower(Descend(Walk(t, FALSE, bits, d), i), d, level, t, i, s, bits2, d2, level2)
<1> DEFINE w == Walk(t, FALSE, bits, d)
           new == FirstFree(bits)
<1>1. w.table = t /\ w.oom = FALSE /\ w.used = bits /\ w.dir = d
  BY DEF Walk
<1>2. CASE d[t][i] # Absent
  <2>1. Descend(w, i) = [w EXCEPT !.table = d[t][i]]
    BY <1>1, <1>2 DEF Descend
  <2>2. Descend(w, i) = Walk(d[t][i], FALSE, bits, d)
    BY <2>1 DEF Walk
  <2>3. d[t][i] \in DOMAIN d /\ level[d[t][i]] = level[t] - 1
    BY <1>2 DEF Tree
  <2>4. Lower(Descend(w, i), d, level, t, i, d[t][i], bits, d, level)
    BY <2>2, <2>3, ExtendedReflexive DEF Lower
  <2> QED
    BY <2>4
<1>3. CASE d[t][i] = Absent /\ PMM!Bits \subseteq bits
  <2>1. Descend(w, i) = [w EXCEPT !.oom = TRUE]
    BY <1>1, <1>3 DEF Descend
  <2> QED
    BY <2>1 DEF Walk
<1>4. CASE d[t][i] = Absent /\ ~(PMM!Bits \subseteq bits)
  <2>1. new \in Int /\ new \notin DOMAIN d
    BY <1>4, FirstFreeIsFree
  <2>2. Descend(w, i) = Walk(new, FALSE, bits \cup {new}, WithTable(d, t, i, new))
    BY <1>1, <1>4 DEF Descend, WithTable, Walk
  <2> DEFINE d2 == WithTable(d, t, i, new)
             level2 == WithLevel(d, level, t, new)
  <2> HIDE DEF new
  <2>3. /\ Tree(d2, level2)
        /\ Extended(d, level, d2, level2)
        /\ new \in DOMAIN d2 /\ level2[new] = level[t] - 1
        /\ d2[t][i] = new
    BY <1>4, <2>1, TableAdded
  <2>4. DOMAIN d2 \subseteq bits \cup {new}
    BY DEF WithTable
  <2> HIDE DEF w, d2, level2
  <2>5. Descend(w, i) = Walk(new, FALSE, bits \cup {new}, d2)
    BY <2>2 DEF d2
  <2>6. Lower(Descend(w, i), d, level, t, i, new, bits \cup {new}, d2, level2)
    BY <2>3, <2>4, <2>5 DEF Lower
  <2> QED
    BY <2>6 DEF w
<1> QED
  BY <1>2, <1>3, <1>4

LEMMA DescendStopped ==
  ASSUME NEW t, NEW bits, NEW d, NEW i
  PROVE  Descend(Walk(t, TRUE, bits, d), i) = Walk(t, TRUE, bits, d)
BY DEF Descend, Walk

\* The walk of map_page as a whole.
Down(root, bits, d, v) ==
  Descend(Descend(Descend(Walk(root, FALSE, bits, d), Offset(v, 3)), Offset(v, 2)), Offset(v, 1))

Path(d, level, root, v, t0) ==
  \E t2, t1 \in DOMAIN d :
    /\ level[t2] = 2 /\ level[t1] = 1
    /\ d[root][Offset(v, 3)] = t2
    /\ d[t2][Offset(v, 2)] = t1
    /\ d[t1][Offset(v, 1)] = t0

Descended(w, d, level, root, v, t0, oom, bits, d2, level2) ==
  /\ w = Walk(t0, oom, bits, d2)
  /\ oom \in BOOLEAN
  /\ Tree(d2, level2)
  /\ Extended(d, level, d2, level2)
  /\ DOMAIN d2 \subseteq bits
  /\ ~oom => t0 \in DOMAIN d2 /\ level2[t0] = 0 /\ Path(d2, level2, root, v, t0)

LEMMA DownStep ==
  ASSUME NEW d, NEW level, Tree(d, level), NEW root \in DOMAIN d, level[root] = 3,
         NEW v \in Pages, NEW bits, DOMAIN d \subseteq bits
  PROVE  \E t0, oom, bits2, d2, level2 :
           Descended(Down(root, bits, d, v), d, level, root, v, t0, oom, bits2, d2, level2)
<1> DEFINE w1 == Descend(Walk(root, FALSE, bits, d), Offset(v, 3))
           w2 == Descend(w1, Offset(v, 2))
           w3 == Descend(w2, Offset(v, 1))
           Goal == \E t0, oom, bits2, d2, level2 :
                     Descended(w3, d, level, root, v, t0, oom, bits2, d2, level2)
<1>1. Absent \notin Int
  BY AddressAssumption
<1>2. Offset(v, 3) \in Index /\ Offset(v, 2) \in Index /\ Offset(v, 1) \in Index
  BY OffsetIndex
<1>3. ASSUME NEW s, NEW b2, NEW d2, NEW level2,
             Tree(d2, level2), Extended(d, level, d2, level2), DOMAIN d2 \subseteq b2,
             w3 = Walk(s, TRUE, b2, d2)
      PROVE  Goal
  <2>1. Descended(w3, d, level, root, v, s, TRUE, b2, d2, level2)
    BY <1>3 DEF Descended
  <2> QED
    BY <2>1
<1>4. ASSUME w1 = Walk(root, TRUE, bits, d)
      PROVE  Goal
  <2>1. w3 = Walk(root, TRUE, bits, d)
    BY <1>4, DescendStopped
  <2>2. Extended(d, level, d, level)
    BY ExtendedReflexive
  <2> HIDE DEF w1, w2, w3, Goal
  <2> QED
    BY <1>3, <2>1, <2>2
<1>5. ASSUME NEW t2, NEW ba, NEW da, NEW la,
             Lower(w1, d, level, root, Offset(v, 3), t2, ba, da, la)
      PROVE  Goal
  <2>1. /\ w1 = Walk(t2, FALSE, ba, da) /\ Tree(da, la) /\ Extended(d, level, da, la)
        /\ DOMAIN da \subseteq ba /\ t2 \in DOMAIN da /\ la[t2] = level[root] - 1
        /\ da[root][Offset(v, 3)] = t2
    BY <1>5, Zenon DEF Lower
  <2>2. root \in DOMAIN da /\ t2 # Absent /\ la[t2] = 2
    BY <1>1, <2>1 DEF Extended, Tree
  <2>3. CASE w2 = Walk(t2, TRUE, ba, da)
    <3>1. w3 = Walk(t2, TRUE, ba, da)
      BY <2>3, DescendStopped
    <3> HIDE DEF w1, w2, w3, Goal
    <3> QED
      BY <1>3, <2>1, <3>1
  <2>4. ASSUME NEW t1, NEW bb, NEW db, NEW lb,
               Lower(w2, da, la, t2, Offset(v, 2), t1, bb, db, lb)
        PROVE  Goal
    <3>1. /\ w2 = Walk(t1, FALSE, bb, db) /\ Tree(db, lb) /\ Extended(da, la, db, lb)
          /\ DOMAIN db \subseteq bb /\ t1 \in DOMAIN db /\ lb[t1] = la[t2] - 1
          /\ db[t2][Offset(v, 2)] = t1
      BY <2>4, Zenon DEF Lower
    <3>2. Extended(d, level, db, lb)
      BY <2>1, <3>1, ExtendedTransitive
    <3>3. /\ db[root][Offset(v, 3)] = t2 /\ root \in DOMAIN db
          /\ t2 \in DOMAIN db /\ lb[t2] = 2 /\ t1 # Absent /\ lb[t1] = 1
      BY <1>1, <1>2, <2>1, <2>2, <3>1 DEF Extended, Tree
    <3>4. CASE w3 = Walk(t1, TRUE, bb, db)
      <4> HIDE DEF w1, w2, w3, Goal
      <4> QED
        BY <1>3, <3>1, <3>2, <3>4
    <3>5. ASSUME NEW t0, NEW bc, NEW dc, NEW lc,
                 Lower(w3, db, lb, t1, Offset(v, 1), t0, bc, dc, lc)
          PROVE  Goal
      <4>1. /\ w3 = Walk(t0, FALSE, bc, dc) /\ Tree(dc, lc) /\ Extended(db, lb, dc, lc)
            /\ DOMAIN dc \subseteq bc /\ t0 \in DOMAIN dc /\ lc[t0] = lb[t1] - 1
            /\ dc[t1][Offset(v, 1)] = t0
        BY <3>5, Zenon DEF Lower
      <4>2. Extended(d, level, dc, lc)
        BY <3>1, <3>2, <4>1, ExtendedTransitive
      <4>3. /\ dc[root][Offset(v, 3)] = t2 /\ t2 \in DOMAIN dc /\ lc[t2] = 2
            /\ dc[t2][Offset(v, 2)] = t1 /\ t1 \in DOMAIN dc /\ lc[t1] = 1 /\ lc[t0] = 0
        BY <1>2, <2>2, <3>1, <3>3, <4>1 DEF Extended
      <4>4. Path(dc, lc, root, v, t0)
        BY <4>1, <4>3, Zenon DEF Path
      <4>5. Descended(w3, d, level, root, v, t0, FALSE, bc, dc, lc)
        BY <4>1, <4>2, <4>3, <4>4 DEF Descended
      <4> QED
        BY <4>5
    <3>6. \/ w3 = Walk(t1, TRUE, bb, db)
          \/ \E s, b, e, l : Lower(w3, db, lb, t1, Offset(v, 1), s, b, e, l)
      <4>1. lb[t1] > 0
        BY <3>3
      <4> QED
        BY <1>2, <3>1, <4>1, DescendStep
    <3> HIDE DEF w1, w2, w3, Goal
    <3> QED
      BY <3>4, <3>5, <3>6
  <2>5. \/ w2 = Walk(t2, TRUE, ba, da)
        \/ \E s, b, e, l : Lower(w2, da, la, t2, Offset(v, 2), s, b, e, l)
    <3>1. la[t2] > 0
      BY <2>2
    <3> QED
      BY <1>2, <2>1, <3>1, DescendStep
  <2> HIDE DEF w1, w2, w3, Goal
  <2> QED
    BY <2>3, <2>4, <2>5
<1>6. \/ w1 = Walk(root, TRUE, bits, d)
      \/ \E s, b, e, l : Lower(w1, d, level, root, Offset(v, 3), s, b, e, l)
  <2>1. level[root] > 0
    OBVIOUS
  <2> QED
    BY <1>2, <2>1, DescendStep
<1>7. Goal
  <2> HIDE DEF w1, w2, w3, Goal
  <2> QED
    BY <1>4, <1>5, <1>6
<1> QED
  BY <1>7 DEF Down

WithEntry(d, t, i, phys) == [d EXCEPT ![t][i] = phys]

\* The entry at the end of the walk: it is the translation of that page alone.
LEMMA EntryWritten ==
  ASSUME NEW d, NEW level, Tree(d, level), NEW root \in DOMAIN d, level[root] = 3,
         NEW v \in Pages, NEW t0 \in DOMAIN d, level[t0] = 0, Path(d, level, root, v, t0),
         NEW phys \in Int
  PROVE  LET d2 == WithEntry(d, t0, Offset(v, 0), phys)
         IN  /\ DOMAIN d2 = DOMAIN d
             /\ Tree(d2, level)
             /\ TranslateIn(d2, root, v) = phys
             /\ \A u \in Pages \ {v} : TranslateIn(d2, root, u) = TranslateIn(d, root, u)
<1> DEFINE d2 == WithEntry(d, t0, Offset(v, 0), phys)
<1>1. Absent \notin Int /\ Absent \notin DOMAIN d
  BY AddressAssumption DEF Tree
<1>2. PICK t2, t1 \in DOMAIN d :
         /\ level[t2] = 2 /\ level[t1] = 1
         /\ d[root][Offset(v, 3)] = t2
         /\ d[t2][Offset(v, 2)] = t1
         /\ d[t1][Offset(v, 1)] = t0
  BY DEF Path
<1>3. /\ DOMAIN d2 = DOMAIN d
      /\ \A t \in DOMAIN d : d2[t] \in [Index -> Int \cup {Absent}]
      /\ \A t \in DOMAIN d, i \in Index :
           d2[t][i] = IF t = t0 /\ i = Offset(v, 0) THEN phys ELSE d[t][i]
  <2>1. \A t \in DOMAIN d : d[t] \in [Index -> Int \cup {Absent}]
    BY DEF Tree
  <2>2. DOMAIN d2 = DOMAIN d
    BY DEF WithEntry
  <2>3. \A t \in DOMAIN d : d2[t] = IF t = t0 THEN [d[t0] EXCEPT ![Offset(v, 0)] = phys] ELSE d[t]
    BY DEF WithEntry
  <2> QED
    BY <2>1, <2>2, <2>3, OffsetIndex
<1> HIDE DEF d2
<1>4. \A t \in DOMAIN d, i \in Index : level[t] > 0 => d2[t][i] = d[t][i]
  BY <1>3
<1>5. Tree(d2, level)
  <2>1. \A t \in DOMAIN d, i \in Index :
          level[t] > 0 /\ d[t][i] # Absent =>
            d[t][i] \in DOMAIN d /\ level[d[t][i]] = level[t] - 1
    BY DEF Tree
  <2>2. \A t, u \in DOMAIN d, i, j \in Index :
          level[t] > 0 /\ level[u] > 0 /\ d[t][i] # Absent /\ d[t][i] = d[u][j] =>
            t = u /\ i = j
    BY DEF Tree
  <2>3. DOMAIN d \subseteq Int /\ level \in [DOMAIN d -> 0 .. 3]
    BY DEF Tree
  <2> QED
    BY <1>3, <1>4, <2>1, <2>2, <2>3 DEF Tree
<1>6. ASSUME NEW u \in Pages, TranslateIn(d2, root, u) # TranslateIn(d, root, u)
      PROVE  u = v
  <2>1. PICK s2 \in At(d, level, 2), s1 \in At(d, level, 1), s0 \in At(d, level, 0) :
           /\ s2 = EntryIn(d, root, Offset(u, 3))
           /\ s1 = EntryIn(d, s2, Offset(u, 2))
           /\ s0 = EntryIn(d, s1, Offset(u, 1))
           /\ TranslateIn(d, root, u) = EntryIn(d, s0, Offset(u, 0))
    BY WalkAt
  <2>2. ASSUME NEW k \in 1 .. 3, NEW x \in At(d, level, k), NEW i \in Index
        PROVE  EntryIn(d2, x, i) = EntryIn(d, x, i)
    BY <1>4, <2>2 DEF EntryIn, At
  <2>3. root \in At(d, level, 3)
    BY DEF At
  <2>4. /\ s2 = EntryIn(d2, root, Offset(u, 3))
        /\ s1 = EntryIn(d2, s2, Offset(u, 2))
        /\ s0 = EntryIn(d2, s1, Offset(u, 1))
    BY <2>1, <2>2, <2>3, OffsetIndex
  <2>5. TranslateIn(d2, root, u) = EntryIn(d2, s0, Offset(u, 0))
    BY <2>4 DEF TranslateIn
  <2>6. s0 = t0 /\ Offset(u, 0) = Offset(v, 0)
    <3>1. s0 # Absent /\ s0 \in DOMAIN d
      BY <1>6, <2>1, <2>5 DEF EntryIn, At
    <3>2. d2[s0][Offset(u, 0)] # d[s0][Offset(u, 0)]
      BY <1>6, <2>1, <2>5, <3>1 DEF EntryIn
    <3> QED
      BY <1>3, <3>1, <3>2, OffsetIndex
  <2>7. s1 \in DOMAIN d /\ level[s1] = 1 /\ d[s1][Offset(u, 1)] = t0
    BY <1>1, <2>1, <2>6 DEF EntryIn, At
  <2>8. s1 = t1 /\ Offset(u, 1) = Offset(v, 1)
    BY <1>1, <1>2, <2>7, OffsetIndex DEF Tree
  <2>9. s2 \in DOMAIN d /\ level[s2] = 2 /\ d[s2][Offset(u, 2)] = t1
    BY <1>1, <2>1, <2>8, <1>2 DEF EntryIn, At
  <2>10. s2 = t2 /\ Offset(u, 2) = Offset(v, 2)
    BY <1>1, <1>2, <2>9, OffsetIndex DEF Tree
  <2>11. d[root][Offset(u, 3)] = t2
    BY <1>1, <1>2, <2>1, <2>10 DEF EntryIn
  <2>12. Offset(u, 3) = Offset(v, 3)
    BY <1>1, <1>2, <2>11, OffsetIndex DEF Tree
  <2> QED
    BY <2>6, <2>8, <2>10, <2>12, OffsetsDetermine
<1>7. TranslateIn(d2, root, v) = phys
  <2>1. /\ EntryIn(d2, root, Offset(v, 3)) = t2
        /\ EntryIn(d2, t2, Offset(v, 2)) = t1
        /\ EntryIn(d2, t1, Offset(v, 1)) = t0
        /\ EntryIn(d2, t0, Offset(v, 0)) = phys
    BY <1>1, <1>2, <1>3, <1>4, OffsetIndex DEF EntryIn
  <2> QED
    BY <2>1 DEF TranslateIn
<1> QED
  BY <1>3, <1>5, <1>6, <1>7 DEF d2

-----------------------------------------------------------------------------
(***************************************************************************)
(* map_page as a whole.                                                    *)
(***************************************************************************)
\* The tables behind pml4 are a tree in frames that are taken.
Rooted == /\ DOMAIN dir \subseteq used
          /\ \E level : Tree(dir, level) /\ pml4 \in DOMAIN dir /\ level[pml4] = 3

LEMMA TranslateHere == \A v : Translate(v) = TranslateIn(dir, pml4, v)
BY DEF Translate, TranslateIn, Entry, EntryIn

LEMMA MapPageStep ==
  ASSUME Rooted, NEW v \in Pages, NEW phys \in Int, NEW bits, used \subseteq bits,
         halted = FALSE, map_page(v, phys, bits), pml4' = pml4
  PROVE  /\ Rooted'
         /\ halted' \in BOOLEAN
         /\ \A u \in Pages \ {v} : Translate(u)' = Translate(u)
         /\ Translate(v)' = IF halted' THEN Translate(v) ELSE phys
<1>1. PICK level : Tree(dir, level) /\ pml4 \in DOMAIN dir /\ level[pml4] = 3
  BY DEF Rooted
<1>2. DOMAIN dir \subseteq bits
  BY DEF Rooted
<1>3. PICK t0, oom, bits2, d2, level2 :
        Descended(Down(pml4, bits, dir, v), dir, level, pml4, v, t0, oom, bits2, d2, level2)
  BY <1>1, <1>2, DownStep
<1>4. /\ Down(pml4, bits, dir, v) = Walk(t0, oom, bits2, d2)
      /\ oom \in BOOLEAN
      /\ Tree(d2, level2) /\ Extended(dir, level, d2, level2) /\ DOMAIN d2 \subseteq bits2
      /\ ~oom => t0 \in DOMAIN d2 /\ level2[t0] = 0 /\ Path(d2, level2, pml4, v, t0)
  BY <1>3, Zenon DEF Descended
<1>5. /\ pml4 \in DOMAIN d2 /\ level2[pml4] = 3
      /\ \A u \in Pages : TranslateIn(d2, pml4, u) = TranslateIn(dir, pml4, u)
  BY <1>1, <1>4 DEF Extended
<1>6. \A u : Translate(u)' = TranslateIn(dir', pml4, u)
  BY DEF Translate, TranslateIn, Entry, EntryIn
<1> DEFINE w == Down(pml4, bits, dir, v)
<1>7. IF w.oom
      THEN halted' = TRUE /\ used' = w.used /\ dir' = w.dir
      ELSE /\ dir' = [w.dir EXCEPT ![w.table][Offset(v, 0)] = phys]
           /\ used' = w.used
           /\ UNCHANGED halted
  BY DEF map_page, Down, Walk
<1>8. w.oom = oom /\ w.table = t0 /\ w.used = bits2 /\ w.dir = d2
  BY <1>4 DEF Walk
<1> HIDE DEF w
<1>9. CASE oom
  <2>1. halted' = TRUE /\ used' = bits2 /\ dir' = d2
    BY <1>7, <1>8, <1>9
  <2>2. Rooted'
    BY <1>4, <1>5, <2>1 DEF Rooted
  <2> QED
    BY <1>5, <1>6, <2>1, <2>2, TranslateHere
<1>10. CASE ~oom
  <2>1. /\ dir' = [d2 EXCEPT ![t0][Offset(v, 0)] = phys]
        /\ used' = bits2 /\ halted' = FALSE
    BY <1>7, <1>8, <1>10
  <2> DEFINE d3 == WithEntry(d2, t0, Offset(v, 0), phys)
  <2>4. /\ Tree(d2, level2) /\ pml4 \in DOMAIN d2 /\ level2[pml4] = 3
        /\ t0 \in DOMAIN d2 /\ level2[t0] = 0 /\ Path(d2, level2, pml4, v, t0)
    BY <1>4, <1>5, <1>10
  <2>5. /\ DOMAIN d3 = DOMAIN d2
        /\ Tree(d3, level2)
        /\ TranslateIn(d3, pml4, v) = phys
        /\ \A u \in Pages \ {v} : TranslateIn(d3, pml4, u) = TranslateIn(d2, pml4, u)
    BY <2>4, EntryWritten
  <2> HIDE DEF d3
  <2>6. dir' = d3
    BY <2>1 DEF d3, WithEntry
  <2>2. /\ DOMAIN dir' = DOMAIN d2
        /\ Tree(dir', level2)
        /\ TranslateIn(dir', pml4, v) = phys
        /\ \A u \in Pages \ {v} : TranslateIn(dir', pml4, u) = TranslateIn(d2, pml4, u)
    BY <2>5, <2>6
  <2>3. Rooted'
    BY <1>4, <1>5, <2>1, <2>2 DEF Rooted
  <2> QED
    BY <1>5, <1>6, <2>1, <2>2, <2>3, TranslateHere
<1> QED
  BY <1>4, <1>9, <1>10

-----------------------------------------------------------------------------
(***************************************************************************)
(* The memory map.                                                         *)
(***************************************************************************)
LEMMA GreatestNat ==
  ASSUME NEW S \in SUBSET Nat, S # {}, NEW bound \in Nat, \A n \in S : n <= bound
  PROVE  \E m \in S : \A n \in S : n <= m
<1> DEFINE T == {bound - n : n \in S}
<1>1. T \in SUBSET Nat /\ T # {}
  <2>1. \A n \in S : bound - n \in Nat
    OBVIOUS
  <2> QED
    BY <2>1
<1>2. PICK k \in T : \A l \in T : k <= l
  BY <1>1, LeastNat
<1>3. PICK m \in S : k = bound - m
  BY <1>2
<1>4. ASSUME NEW n \in S PROVE n <= m
  <2>1. bound - n \in T
    OBVIOUS
  <2>2. k <= bound - n
    BY <1>2, <2>1
  <2> QED
    BY <1>3, <2>2
<1> QED
  BY <1>4

LEMMA EntryFields ==
  /\ Len(Entries) \in Nat /\ DOMAIN Entries = 1 .. Len(Entries)
  /\ \A i \in DOMAIN Entries : Entries[i].type \in Types /\ Entries[i].base \in Nat
                               /\ Entries[i].len \in Nat
<1>1. Entries \in Seq([type : Types, base : Nat, len : Nat])
  BY MemmapAssumption
<1>2. Len(Entries) \in Nat /\ DOMAIN Entries = 1 .. Len(Entries)
  BY <1>1
<1>3. \A i \in DOMAIN Entries : Entries[i] \in [type : Types, base : Nat, len : Nat]
  <2> DEFINE Fields == [type : Types, base : Nat, len : Nat]
  <2>1. Entries \in Seq(Fields)
    BY <1>1
  <2> HIDE DEF Fields
  <2>2. \A i \in DOMAIN Entries : Entries[i] \in Fields
    BY <1>2, <2>1
  <2> QED
    BY <2>2 DEF Fields
<1> QED
  BY <1>2, <1>3

\* A region's variable has an entry of that type, the one that ends last.
LEMMA RegionIsLast ==
  ASSUME NEW type \in Types
  PROVE  /\ Region(type).base \in Nat /\ Region(type).len \in Nat
         /\ \A i \in OfType(type) : RegionEnd(Entries[i]) <= RegionEnd(Region(type))
         /\ OfType(type) # {} => \E i \in OfType(type) : Region(type) = Entries[i]
<1>1. CASE OfType(type) = {}
  BY <1>1 DEF Region
<1>2. CASE OfType(type) # {}
  <2>1. OfType(type) \in SUBSET Nat /\ \A n \in OfType(type) : n <= Len(Entries)
    BY EntryFields DEF OfType
  <2>2. \E i \in OfType(type) : \A j \in OfType(type) : j <= i
    BY <1>2, <2>1, EntryFields, GreatestNat
  <2>3. PICK i \in OfType(type) :
          Region(type) = Entries[i] /\ \A j \in OfType(type) : j <= i
    BY <1>2, <2>2 DEF Region
  <2>4. i \in DOMAIN Entries
    BY DEF OfType
  <2>5. ASSUME NEW j \in OfType(type)
        PROVE  RegionEnd(Entries[j]) <= RegionEnd(Region(type))
    <3>1. j \in DOMAIN Entries /\ j <= i /\ j \in Nat /\ i \in Nat
      BY <2>1, <2>3 DEF OfType
    <3>2. j < i => Entries[j].base + Entries[j].len <= Entries[i].base
      BY <2>4, <3>1, MemmapAssumption
    <3>3. /\ Entries[j].base \in Nat /\ Entries[j].len \in Nat
          /\ Entries[i].base \in Nat /\ Entries[i].len \in Nat
      BY <2>4, <3>1, EntryFields
    <3>4. CASE j = i
      BY <2>3, <3>3, <3>4 DEF RegionEnd
    <3>5. CASE j < i
      BY <2>3, <3>2, <3>3, <3>5 DEF RegionEnd
    <3> QED
      BY <3>1, <3>4, <3>5
  <2> QED
    BY <2>3, <2>4, <2>5, EntryFields
<1> QED
  BY <1>1, <1>2

\* All that map_accessible_space looks at ends at or before last_usable_address.
LEMMA LastUsable ==
  /\ last_usable_address \in Nat
  /\ \A i \in OfType("USABLE") : RegionEnd(Entries[i]) <= last_usable_address
  /\ RegionEnd(kernel_region) <= last_usable_address
  /\ RegionEnd(bootloader_reclaimable_region) <= last_usable_address
<1> DEFINE ends == {RegionEnd(Entries[i]) : i \in OfType("USABLE")}
                     \cup {RegionEnd(kernel_region), RegionEnd(bootloader_reclaimable_region)}
<1>1. /\ RegionEnd(kernel_region) \in Nat
      /\ RegionEnd(bootloader_reclaimable_region) \in Nat
  BY RegionIsLast DEF Types, RegionEnd, kernel_region, bootloader_reclaimable_region
<1>2. PICK last \in Nat : \A i \in DOMAIN Entries : RegionEnd(Entries[i]) <= last
  <2>1. CASE Len(Entries) = 0
    BY <2>1, EntryFields
  <2>2. CASE Len(Entries) # 0
    <3> DEFINE n == Len(Entries)
    <3>1. n \in DOMAIN Entries /\ n \in Nat
      BY <2>2, EntryFields
    <3>2. ASSUME NEW i \in DOMAIN Entries
          PROVE  RegionEnd(Entries[i]) <= RegionEnd(Entries[n])
      <4>1. i \in Nat /\ i <= n
        BY EntryFields
      <4>2. /\ Entries[i].base \in Nat /\ Entries[i].len \in Nat
            /\ Entries[n].base \in Nat /\ Entries[n].len \in Nat
        BY <3>1, EntryFields
      <4>3. i < n => Entries[i].base + Entries[i].len <= Entries[n].base
        BY <3>1, MemmapAssumption
      <4>4. CASE i < n
        BY <4>2, <4>3, <4>4 DEF RegionEnd
      <4>5. CASE i = n
        BY <4>2, <4>5 DEF RegionEnd
      <4> QED
        BY <3>1, <4>1, <4>4, <4>5
    <3>3. RegionEnd(Entries[n]) \in Nat
      BY <3>1, EntryFields DEF RegionEnd
    <3> QED
      BY <3>2, <3>3
  <2> QED
    BY <2>1, <2>2
<1>3. \A i \in OfType("USABLE") : RegionEnd(Entries[i]) \in Nat /\ RegionEnd(Entries[i]) <= last
  BY <1>2, EntryFields DEF OfType, RegionEnd
<1>4. PICK bound \in Nat : bound = last + RegionEnd(kernel_region)
                                     + RegionEnd(bootloader_reclaimable_region)
  BY <1>1
<1>5. ends \in SUBSET Nat /\ ends # {}
  BY <1>1, <1>3
<1>6. \A n \in ends : n <= bound
  BY <1>1, <1>2, <1>3, <1>4
<1>7. \E a \in ends : \A b \in ends : b <= a
  BY <1>5, <1>6, GreatestNat
<1>8. last_usable_address \in ends /\ \A b \in ends : last_usable_address >= b
  <2>1. \E a \in ends : \A b \in ends : a >= b
    BY <1>5, <1>7
  <2> QED
    BY <2>1 DEF last_usable_address
<1> QED
  BY <1>5, <1>8

-----------------------------------------------------------------------------
(***************************************************************************)
(* What is mapped where: each page can be mapped to one frame only.        *)
(***************************************************************************)
Target(v) ==
  IF v < hhdm_offset THEN v + hhdm_offset
  ELSE IF v \in region_start_virt .. region_end_virt - 1 THEN v - KernelVirt + KernelPhys
  ELSE v - hhdm_offset

Mappings == {<<v, Target(v)>> : v \in Pages}

LEMMA Layout ==
  /\ hhdm_offset \in Nat /\ NumPages = 2 * hhdm_offset
  /\ KernelVirt \in Nat /\ KernelPhys \in Nat
  /\ kernel_region.base \in Nat /\ kernel_region.len \in Nat
  /\ framebuffer_region.base \in Nat /\ framebuffer_region.len \in Nat
  /\ last_usable_address \in Nat
  /\ region_start_virt \in Int /\ region_end_virt \in Int
  /\ region_end_virt = region_start_virt + kernel_region.len
  /\ region_end_virt <= NumPages
  /\ hhdm_offset + last_usable_address < region_start_virt
  /\ hhdm_offset + framebuffer_region.base + framebuffer_region.len < region_start_virt
<1>1. /\ kernel_region.base \in Nat /\ kernel_region.len \in Nat
      /\ framebuffer_region.base \in Nat /\ framebuffer_region.len \in Nat
  BY RegionIsLast DEF Types, kernel_region, framebuffer_region
<1>2. KernelVirt \in Nat /\ KernelPhys \in Nat
  BY AddressAssumption
<1>3. region_start_virt \in Int /\ region_end_virt \in Int /\ region_end_virt = region_start_virt + kernel_region.len
  BY <1>1, <1>2 DEF region_start_virt, region_end_virt, RegionEnd
<1>4. region_end_virt <= NumPages
  BY AddressAssumption
<1>5. /\ last_usable_address \in 0 .. region_start_virt - hhdm_offset - 1
      /\ RegionEnd(framebuffer_region) \in 0 .. region_start_virt - hhdm_offset - 1
  <2>1. {last_usable_address, RegionEnd(framebuffer_region)}
          \subseteq 0 .. region_start_virt - hhdm_offset - 1
    BY AddressAssumption
  <2> QED
    BY <2>1
<1>6. hhdm_offset + last_usable_address < region_start_virt
  BY <1>3, <1>5, TwoHalves, LastUsable
<1>7. hhdm_offset + framebuffer_region.base + framebuffer_region.len < region_start_virt
  BY <1>1, <1>3, <1>5, TwoHalves DEF RegionEnd
<1> QED
  BY <1>1, <1>2, <1>3, <1>4, <1>6, <1>7, TwoHalves, LastUsable

LEMMA TargetInt == \A v \in Pages : Target(v) \in Int
BY Layout DEF Target, Pages

LEMMA SequenceOf ==
  ASSUME NEW S, NEW n \in Nat, NEW f, f \in [1 .. n -> S]
  PROVE  f \in Seq(S)
OBVIOUS

LEMMA AccessibleMapped == map_accessible_space \in Seq(Mappings)
<1>1. ASSUME NEW i \in 1 .. last_usable_address + 1
      PROVE  <<hhdm_offset + i - 1, i - 1>> \in Mappings
  <2>1. hhdm_offset + i - 1 \in Pages
    BY Layout DEF Pages
  <2>2. Target(hhdm_offset + i - 1) = i - 1
    BY Layout DEF Target
  <2> QED
    BY <2>1, <2>2 DEF Mappings
<1> QED
  BY <1>1, Layout DEF map_accessible_space

LEMMA KernelMapped == map_kernel_region \in Seq(Mappings)
<1>1. ASSUME NEW i \in 1 .. kernel_region.len
      PROVE  <<KernelVirt + kernel_region.base + i - 1 - KernelPhys, kernel_region.base + i - 1>>
               \in Mappings
  <2> DEFINE v == KernelVirt + kernel_region.base + i - 1 - KernelPhys
  <2>1. v = region_start_virt + i - 1
    BY Layout DEF region_start_virt
  <2>2. v \in Pages /\ v >= hhdm_offset /\ v \in region_start_virt .. region_end_virt - 1
    BY <2>1, Layout DEF Pages
  <2>3. Target(v) = kernel_region.base + i - 1
    BY <2>2, Layout DEF Target
  <2> HIDE DEF v
  <2>4. <<v, kernel_region.base + i - 1>> \in Mappings
    BY <2>2, <2>3 DEF Mappings
  <2> QED
    BY <2>4 DEF v
<1>2. map_kernel_region \in [1 .. kernel_region.len -> Mappings]
  BY <1>1 DEF map_kernel_region
<1> QED
  BY <1>2, Layout, SequenceOf

LEMMA Wrapped ==
  ASSUME NEW m \in Nat \ {0}, NEW x \in 0 .. m - 1
  PROVE  x % m = x /\ (x + m) % m = x
<1>1. ASSUME NEW q \in Nat, NEW n \in Nat, n = q * m + x
      PROVE  n % m = x
  BY <1>1, SMTT(60)
<1>2. x = 0 * m + x /\ x + m = 1 * m + x /\ x \in Nat /\ x + m \in Nat
  OBVIOUS
<1> QED
  BY <1>1, <1>2

LEMMA FramebufferMapped ==
  map_region(framebuffer_region.base, framebuffer_region.len) \in Seq(Mappings)
<1>1. ASSUME NEW i \in 1 .. framebuffer_region.len
      PROVE  <<(framebuffer_region.base + i - 1 + hhdm_offset) % NumPages,
               framebuffer_region.base + i - 1>> \in Mappings
  <2> DEFINE v == framebuffer_region.base + i - 1 + hhdm_offset
  <2>1. v \in 0 .. NumPages - 1 /\ v >= hhdm_offset /\ v < region_start_virt /\ NumPages \in Nat \ {0}
    BY Layout
  <2>2. v % NumPages = v
    <3> HIDE DEF v
    <3> QED
      BY <2>1, Wrapped
  <2>3. Target(v) = framebuffer_region.base + i - 1
    BY <2>1, Layout DEF Target
  <2>4. v \in Pages
    BY <2>1 DEF Pages
  <2> QED
    BY <2>2, <2>3, <2>4 DEF Mappings
<1>2. map_region(framebuffer_region.base, framebuffer_region.len)
        \in [1 .. framebuffer_region.len -> Mappings]
  BY <1>1 DEF map_region
<1> QED
  BY <1>2, Layout, SequenceOf

LEMMA BitmapMapped == map_region(bitmap_location, num_frames_used) \in Seq(Mappings)
<1>1. /\ num_frames_used \in Nat
      /\ PMM!BitmapBase \in 0 .. hhdm_offset - num_frames_used
  BY AddressAssumption
<1>2. ASSUME NEW i \in 1 .. num_frames_used
      PROVE  <<(bitmap_location + i - 1 + hhdm_offset) % NumPages, bitmap_location + i - 1>>
               \in Mappings
  <2> DEFINE v == PMM!BitmapBase + i - 1
  <2>1. /\ v \in 0 .. hhdm_offset - 1
        /\ bitmap_location + i - 1 = v + hhdm_offset
        /\ bitmap_location + i - 1 + hhdm_offset = v + NumPages
    BY <1>1, Layout DEF bitmap_location
  <2> HIDE DEF v
  <2>2. (v + NumPages) % NumPages = v
    <3>1. NumPages \in Nat \ {0} /\ v \in 0 .. NumPages - 1
      BY <2>1, Layout
    <3> QED
      BY <3>1, Wrapped
  <2>3. Target(v) = v + hhdm_offset /\ v \in Pages
    BY <2>1, Layout DEF Target, Pages
  <2> QED
    BY <2>1, <2>2, <2>3 DEF Mappings
<1> QED
  BY <1>1, <1>2 DEF map_region

\* Whatever bootstrap maps is mapped to the page's one frame.
LEMMA BootstrapMapped ==
  /\ Bootstrap \in Seq(Mappings)
  /\ Len(Bootstrap) \in Nat
  /\ \A i \in 1 .. Len(Bootstrap) :
       Bootstrap[i][1] \in Pages /\ Bootstrap[i][2] = Target(Bootstrap[i][1])
<1>1. Bootstrap \in Seq(Mappings)
  BY AccessibleMapped, KernelMapped, FramebufferMapped, BitmapMapped DEF Bootstrap
<1>2. \A i \in 1 .. Len(Bootstrap) : Bootstrap[i] \in Mappings
  BY <1>1
<1>3. \A m \in Mappings : m[1] \in Pages /\ m[2] = Target(m[1])
  BY DEF Mappings
<1> QED
  BY <1>1, <1>2, <1>3

-----------------------------------------------------------------------------
(***************************************************************************)
(* The inductive invariant.                                                *)
(***************************************************************************)
\* What is mapped is mapped to the page's one frame.
Mapped == \A v \in Pages : Translate(v) \in {Absent, Target(v)}

\* What bootstrap has gone through is mapped.
Through == \A i \in 1 .. Len(Bootstrap) :
             i < next => Translate(Bootstrap[i][1]) = Target(Bootstrap[i][1])

PageInv ==
  /\ halted \in BOOLEAN /\ next \in Nat
  /\ pml4 = Absent => next = 0
  /\ pml4 # Absent => next > 0 /\ Rooted
  /\ cr3 # Limine => cr3 = pml4 /\ pml4 # Absent /\ next = Len(Bootstrap) + 1
  /\ Mapped
  /\ cr3 # Limine \/ ~halted => Through

\* A step of the tables: page v is mapped, or nothing is.
PageStep(v) ==
  /\ \A u \in Pages \ {v} : Translate(u)' = Translate(u)
  /\ Translate(v)' = Translate(v) \/ (Translate(v) = Absent /\ Translate(v)' = Target(v))

LEMMA Numbers ==
  /\ Absent \notin Int /\ Limine \notin Int /\ Absent # Limine
  /\ \A v \in Pages : Target(v) # Absent
BY AddressAssumption, TargetInt

LEMMA InitPage == Init => PageInv /\ \A v \in Pages : Translate(v) = Absent
<1> SUFFICES ASSUME Init PROVE PageInv /\ \A v \in Pages : Translate(v) = Absent
  OBVIOUS
<1>1. \A v \in Pages : Translate(v) = Absent
  BY DEF Init, Translate, Entry
<1>2. Through
  BY BootstrapMapped DEF Init, Through
<1> QED
  BY <1>1, <1>2 DEF Init, PageInv, Mapped

LEMMA NewPml4Page ==
  ASSUME PageInv, NewPml4
  PROVE  PageInv' /\ \A v \in Pages : Translate(v)' = Translate(v)
<1>1. next = 0 /\ pml4 = Absent /\ cr3 = Limine /\ cr3' = cr3 /\ halted = FALSE
  BY Numbers DEF PageInv, NewPml4
<1>2. \A v \in Pages : Translate(v) = Absent
  BY <1>1 DEF Translate, Entry
<1>3. CASE PMM!Bits \subseteq used
  <2>1. halted' = TRUE /\ UNCHANGED <<used, dir, pml4, next>>
    BY <1>3 DEF NewPml4
  <2>2. \A v \in Pages : Translate(v)' = Absent
    BY <1>1, <2>1 DEF Translate, Entry
  <2> QED
    BY <1>1, <1>2, <2>1, <2>2 DEF PageInv, Mapped
<1>4. CASE ~(PMM!Bits \subseteq used)
  <2>1. /\ pml4' \in Int /\ used' = used \cup {pml4'}
        /\ dir' = [t \in {pml4'} |-> NoEntries]
        /\ next' = 1 /\ halted' = FALSE
    BY <1>1, <1>4, FirstFreeIsFree DEF NewPml4
  <2>2. pml4' # Absent
    BY <2>1, Numbers
  <2>3. \A v \in Pages : Translate(v)' = Absent
    <3>1. \A i \in Index : dir'[pml4'][i] = Absent
      BY <2>1 DEF NoEntries, Index
    <3> QED
      BY <2>2, <3>1, OffsetIndex DEF Translate, Entry
  <2>4. Rooted'
    <3> DEFINE level == [t \in {pml4'} |-> 3]
    <3>1. DOMAIN dir' = {pml4'} /\ dir'[pml4'] = [i \in Index |-> Absent]
      BY <2>1 DEF NoEntries, Index
    <3>2. Tree(dir', level)
      BY <2>1, <3>1 DEF Tree
    <3> QED
      BY <2>1, <3>1, <3>2 DEF Rooted
  <2>5. Through'
    BY <2>1, BootstrapMapped DEF Through
  <2>6. Mapped'
    BY <2>3 DEF Mapped
  <2> QED
    <3>1. PageInv'
      <4>1. next' \in Nat /\ next' > 0
        BY <2>1, SMT
      <4>2. halted' \in BOOLEAN
        BY <2>1, Zenon
      <4> QED
        BY <1>1, <2>2, <2>4, <2>5, <2>6, <4>1, <4>2, Zenon DEF PageInv
    <3> QED
      BY <1>2, <2>3, <3>1
<1> QED
  BY <1>3, <1>4

\* Mapping a page to its frame disturbs nothing.
LEMMA MapTarget ==
  ASSUME PageInv, pml4 # Absent, halted = FALSE, pml4' = pml4, NEW v \in Pages, NEW bits,
         used \subseteq bits, map_page(v, Target(v), bits)
  PROVE  /\ Rooted' /\ halted' \in BOOLEAN
         /\ PageStep(v)
         /\ ~halted' => Translate(v)' = Target(v)
         /\ \A u \in Pages : Translate(u) # Absent => Translate(u)' = Translate(u)
         /\ Mapped'
<1>1. Rooted /\ Mapped
  BY DEF PageInv
<1>2. /\ Rooted' /\ halted' \in BOOLEAN
      /\ \A u \in Pages \ {v} : Translate(u)' = Translate(u)
      /\ Translate(v)' = IF halted' THEN Translate(v) ELSE Target(v)
  BY <1>1, TargetInt, MapPageStep
<1>3. Translate(v) \in {Absent, Target(v)}
  BY <1>1 DEF Mapped
<1>4. PageStep(v)
  BY <1>2, <1>3 DEF PageStep
<1>5. \A u \in Pages : Translate(u) # Absent => Translate(u)' = Translate(u)
  BY <1>2, <1>3
<1>6. Mapped'
  BY <1>1, <1>2, <1>3 DEF Mapped
<1> QED
  BY <1>2, <1>4, <1>5, <1>6

LEMMA MapNextPage ==
  ASSUME PageInv, MapNext
  PROVE  PageInv' /\ \E v \in Pages : PageStep(v)
<1>0. PICK v : v = Bootstrap[next][1]
  OBVIOUS
<1>1. /\ next \in 1 .. Len(Bootstrap) /\ halted = FALSE /\ next' = next + 1
      /\ pml4' = pml4 /\ cr3' = cr3
      /\ map_page(v, Bootstrap[next][2], used)
  BY <1>0 DEF MapNext, PageInv
<1>2. v \in Pages /\ Bootstrap[next][2] = Target(v)
  BY <1>0, <1>1, BootstrapMapped
<1>3. pml4 # Absent /\ cr3 = Limine
  BY <1>1, BootstrapMapped DEF PageInv
<1>7. map_page(v, Target(v), used)
  BY <1>1, <1>2
<1>4. /\ Rooted' /\ halted' \in BOOLEAN
      /\ PageStep(v)
      /\ ~halted' => Translate(v)' = Target(v)
      /\ \A u \in Pages : Translate(u) # Absent => Translate(u)' = Translate(u)
      /\ Mapped'
  BY <1>1, <1>2, <1>3, <1>7, MapTarget
<1>5. ASSUME ~halted'
      PROVE  Through'
  <2>1. Through /\ next \in Nat
    BY <1>1 DEF PageInv
  <2>2. ASSUME NEW i \in 1 .. Len(Bootstrap), i < next + 1
        PROVE  Translate(Bootstrap[i][1])' = Target(Bootstrap[i][1])
    <3>1. CASE i < next
      <4>1. Translate(Bootstrap[i][1]) = Target(Bootstrap[i][1]) /\ Bootstrap[i][1] \in Pages
        BY <2>1, <3>1, BootstrapMapped DEF Through
      <4>2. Translate(Bootstrap[i][1]) # Absent
        BY <4>1, Numbers
      <4> QED
        BY <1>4, <4>1, <4>2
    <3>2. CASE i = next
      <4>1. Translate(v)' = Target(v)
        BY <1>4, <1>5
      <4>2. Bootstrap[i][1] = v
        BY <1>0, <3>2
      <4> QED
        BY <4>1, <4>2
    <3> QED
      BY <2>1, <2>2, <3>1, <3>2, BootstrapMapped
  <2> QED
    BY <1>1, <2>2 DEF Through
<1>6. PageInv'
  BY <1>1, <1>3, <1>4, <1>5 DEF PageInv
<1> QED
  BY <1>2, <1>4, <1>6

LEMMA CreatePage ==
  ASSUME PageInv, NEW num_pages \in PagesAsked, create_new_pages(num_pages)
  PROVE  PageInv' /\ \E v \in Pages : PageStep(v)
<1>1. PICK f \in PMM!Bits :
        map_page(f, hhdm_offset + f, used \cup PMM!Run(f, num_pages))
  BY DEF create_new_pages
<1>2. /\ cr3 = pml4 /\ halted = FALSE
      /\ pml4' = pml4 /\ next' = next /\ cr3' = cr3
  BY DEF create_new_pages, PageInv
<1>3. cr3 # Limine /\ pml4 # Absent
  BY <1>2, Numbers DEF PageInv, Rooted, Tree
<1>4. f \in 0 .. hhdm_offset - 1
  BY AddressAssumption
<1>5. f \in Pages /\ hhdm_offset + f = Target(f)
  BY <1>4, Layout DEF Target, Pages
<1>6. map_page(f, Target(f), used \cup PMM!Run(f, num_pages))
  BY <1>1, <1>5
<1>7. /\ Rooted' /\ halted' \in BOOLEAN
      /\ PageStep(f)
      /\ \A u \in Pages : Translate(u) # Absent => Translate(u)' = Translate(u)
      /\ Mapped'
  BY <1>2, <1>3, <1>5, <1>6, MapTarget
<1>8. Through'
  <2>1. Through
    BY <1>3 DEF PageInv
  <2>2. ASSUME NEW i \in 1 .. Len(Bootstrap), i < next
        PROVE  Translate(Bootstrap[i][1])' = Target(Bootstrap[i][1])
    <3>1. Translate(Bootstrap[i][1]) = Target(Bootstrap[i][1]) /\ Bootstrap[i][1] \in Pages
      BY <2>1, <2>2, BootstrapMapped DEF Through
    <3>2. Translate(Bootstrap[i][1]) # Absent
      BY <3>1, Numbers
    <3> QED
      BY <1>7, <3>1, <3>2
  <2> QED
    BY <1>2, <2>2 DEF Through
<1>9. PageInv'
  BY <1>2, <1>3, <1>7, <1>8 DEF PageInv
<1> QED
  BY <1>5, <1>7, <1>9

LEMMA TranslateUnchanged ==
  ASSUME UNCHANGED <<dir, pml4>>
  PROVE  \A v : Translate(v)' = Translate(v)
BY DEF Translate, Entry

LEMMA NextPage ==
  ASSUME PageInv, [Next]_vars
  PROVE  /\ PageInv'
         /\ \/ \A v \in Pages : Translate(v)' = Translate(v)
            \/ \E v \in Pages : PageStep(v)
<1>1. CASE NewPml4
  BY <1>1, NewPml4Page
<1>2. CASE MapNext
  BY <1>2, MapNextPage
<1>3. CASE activate
  <2>1. /\ UNCHANGED <<used, dir, pml4, next, halted>> /\ cr3' = pml4
        /\ next = Len(Bootstrap) + 1 /\ halted = FALSE
    BY <1>3 DEF activate, PageInv
  <2>2. \A v : Translate(v)' = Translate(v)
    BY <2>1, TranslateUnchanged
  <2>3. pml4 # Absent /\ Through
    BY <2>1, BootstrapMapped DEF PageInv
  <2>4. Rooted' /\ Mapped' /\ Through'
    BY <2>1, <2>2, <2>3 DEF PageInv, Rooted, Mapped, Through
  <2> QED
    BY <2>1, <2>2, <2>3, <2>4 DEF PageInv
<1>4. CASE \E num_pages \in PagesAsked : create_new_pages(num_pages)
  BY <1>4, CreatePage
<1>5. CASE UNCHANGED vars
  <2>1. UNCHANGED <<used, dir, pml4, next, cr3, halted>>
    BY <1>5 DEF vars
  <2>2. \A v : Translate(v)' = Translate(v)
    BY <2>1, TranslateUnchanged
  <2>3. (Rooted <=> Rooted') /\ (Mapped <=> Mapped') /\ (Through <=> Through')
    BY <2>1, <2>2 DEF Rooted, Mapped, Through
  <2> QED
    BY <2>1, <2>2, <2>3 DEF PageInv
<1> QED
  BY <1>1, <1>2, <1>3, <1>4, <1>5 DEF Next

-----------------------------------------------------------------------------
\* The four levels of tables are a map from pages to frames that grows by a page at a time.
THEOREM TablesAreAPageMap == Spec => ImplementsPageMap
<1> DEFINE map == [v \in Pages |-> Translate(v)]
<1>1. Init => PageInv /\ Map!Init
  BY InitPage DEF Map!Init
<1>2. ASSUME PageInv, [Next]_vars
      PROVE  PageInv' /\ [Map!MapPage]_map
  <2>1. CASE \A v \in Pages : Translate(v)' = Translate(v)
    <3>1. map' = map
      BY <2>1
    <3> QED
      BY <1>2, <3>1, NextPage
  <2>2. ASSUME NEW v \in Pages, PageStep(v), Translate(v)' # Translate(v)
        PROVE  Map!MapPage
    <3>1. Map!Changed = {v}
      BY <2>2 DEF Map!Changed, PageStep
    <3>2. map[v] = Absent
      BY <2>2 DEF PageStep
    <3> QED
      BY <3>1, <3>2 DEF Map!MapPage
  <2>3. PageInv' /\ (~(\A v \in Pages : Translate(v)' = Translate(v)) =>
                       \E v \in Pages : PageStep(v) /\ Translate(v)' # Translate(v))
    BY <1>2, NextPage DEF PageStep
  <2> QED
    BY <2>1, <2>2, <2>3
<1> HIDE DEF map
<1> QED
  BY <1>1, <1>2, PTL DEF Spec, ImplementsPageMap, Map!Spec, map

-----------------------------------------------------------------------------
(***************************************************************************)
(* What bootstrap maps is all the kernel touches.                          *)
(***************************************************************************)
LEMMA Concatenated ==
  ASSUME NEW S, NEW s \in Seq(S), NEW t \in Seq(S)
  PROVE  /\ \A i \in 1 .. Len(s) : i \in 1 .. Len(s \o t) /\ (s \o t)[i] = s[i]
         /\ \A i \in 1 .. Len(t) : Len(s) + i \in 1 .. Len(s \o t)
                                   /\ (s \o t)[Len(s) + i] = t[i]
OBVIOUS

Listed(m) == \E i \in 1 .. Len(Bootstrap) : Bootstrap[i] = m

LEMMA PartsListed ==
  /\ \A i \in 1 .. Len(map_accessible_space) : Listed(map_accessible_space[i])
  /\ \A i \in 1 .. Len(map_kernel_region) : Listed(map_kernel_region[i])
  /\ LET framebuffer == map_region(framebuffer_region.base, framebuffer_region.len)
     IN  \A i \in 1 .. Len(framebuffer) : Listed(framebuffer[i])
<1> DEFINE a == map_accessible_space
           k == map_kernel_region
           f == map_region(framebuffer_region.base, framebuffer_region.len)
           b == map_region(bitmap_location, num_frames_used)
<1>1. a \in Seq(Mappings) /\ k \in Seq(Mappings) /\ f \in Seq(Mappings) /\ b \in Seq(Mappings)
  BY AccessibleMapped, KernelMapped, FramebufferMapped, BitmapMapped
<1>2. Bootstrap = ((a \o k) \o f) \o b
  <2>1. Bootstrap = a \o k \o f \o b
    BY DEF Bootstrap
  <2> HIDE DEF a, k, f, b
  <2> QED
    BY <1>1, <2>1
<1> HIDE DEF a, k, f, b
<1>3. a \o k \in Seq(Mappings) /\ (a \o k) \o f \in Seq(Mappings)
      /\ Len(a) \in Nat /\ Len(k) \in Nat /\ Len(f) \in Nat
  BY <1>1
<1>4. ASSUME NEW i \in 1 .. Len((a \o k) \o f)
      PROVE  Listed(((a \o k) \o f)[i])
  BY <1>1, <1>2, <1>3, Concatenated DEF Listed
<1>5. ASSUME NEW i \in 1 .. Len(a \o k)
      PROVE  Listed((a \o k)[i])
  <2>1. i \in 1 .. Len((a \o k) \o f) /\ ((a \o k) \o f)[i] = (a \o k)[i]
    BY <1>1, <1>3, Concatenated
  <2> QED
    BY <1>4, <2>1
<1>6. ASSUME NEW i \in 1 .. Len(a)
      PROVE  Listed(a[i])
  <2>1. i \in 1 .. Len(a \o k) /\ (a \o k)[i] = a[i]
    BY <1>1, Concatenated
  <2> QED
    BY <1>5, <2>1
<1>7. ASSUME NEW i \in 1 .. Len(k)
      PROVE  Listed(k[i])
  <2>1. Len(a) + i \in 1 .. Len(a \o k) /\ (a \o k)[Len(a) + i] = k[i]
    BY <1>1, Concatenated
  <2> QED
    BY <1>5, <2>1
<1>8. ASSUME NEW i \in 1 .. Len(f)
      PROVE  Listed(f[i])
  <2>1. /\ Len(a \o k) + i \in 1 .. Len((a \o k) \o f)
        /\ ((a \o k) \o f)[Len(a \o k) + i] = f[i]
    BY <1>1, <1>3, Concatenated
  <2> QED
    BY <1>4, <2>1
<1> QED
  BY <1>6, <1>7, <1>8 DEF a, k, f

LEMMA FramesListed ==
  /\ \A f \in 0 .. last_usable_address : Listed(<<hhdm_offset + f, f>>)
  /\ \A f \in Frames(framebuffer_region) : Listed(<<hhdm_offset + f, f>>)
  /\ \A f \in KernelPhys .. RegionEnd(kernel_region) - 1 :
       Listed(<<KernelVirt + f - KernelPhys, f>>)
<1>1. ASSUME NEW f \in 0 .. last_usable_address
      PROVE  Listed(<<hhdm_offset + f, f>>)
  <2>1. Len(map_accessible_space) = last_usable_address + 1
    BY Layout DEF map_accessible_space
  <2>2. f + 1 \in 1 .. last_usable_address + 1
    BY Layout
  <2>3. map_accessible_space[f + 1] = <<hhdm_offset + (f + 1) - 1, (f + 1) - 1>>
    BY <2>2 DEF map_accessible_space
  <2>4. hhdm_offset + (f + 1) - 1 = hhdm_offset + f /\ (f + 1) - 1 = f
    BY Layout
  <2> QED
    BY <2>1, <2>2, <2>3, <2>4, PartsListed
<1>2. ASSUME NEW f \in Frames(framebuffer_region)
      PROVE  Listed(<<hhdm_offset + f, f>>)
  <2> DEFINE base == framebuffer_region.base
             len == framebuffer_region.len
             part == map_region(base, len)
             i == f - base + 1
  <2>1. /\ i \in 1 .. len /\ base + i - 1 = f /\ base + i - 1 + hhdm_offset = hhdm_offset + f
        /\ hhdm_offset + f \in 0 .. NumPages - 1 /\ NumPages \in Nat \ {0} /\ len \in Nat
    BY <1>2, Layout DEF Frames
  <2>2. (hhdm_offset + f) % NumPages = hhdm_offset + f
    BY <2>1, Wrapped
  <2>3. Len(part) = len
    BY <2>1 DEF map_region
  <2>4. part[i] = <<(base + i - 1 + hhdm_offset) % NumPages, base + i - 1>>
    <3> HIDE DEF i
    <3> QED
      BY <2>1 DEF map_region
  <2>5. Listed(part[i])
    BY <2>1, <2>3, PartsListed
  <2> HIDE DEF part, i, base, len
  <2> QED
    BY <2>1, <2>2, <2>4, <2>5
<1>3. ASSUME NEW f \in KernelPhys .. RegionEnd(kernel_region) - 1
      PROVE  Listed(<<KernelVirt + f - KernelPhys, f>>)
  <2> DEFINE base == kernel_region.base
             len == kernel_region.len
             i == f - base + 1
  <2>1. KernelPhys >= base
    BY MemmapAssumption, Layout
  <2>2. /\ i \in 1 .. len /\ base + i - 1 = f /\ len \in Nat
        /\ KernelVirt + base + i - 1 - KernelPhys = KernelVirt + f - KernelPhys
    BY <2>1, Layout DEF RegionEnd
  <2>3. Len(map_kernel_region) = len
    BY <2>2 DEF map_kernel_region
  <2>4. map_kernel_region[i] = <<KernelVirt + base + i - 1 - KernelPhys, base + i - 1>>
    <3> HIDE DEF i
    <3> QED
      BY <2>2 DEF map_kernel_region
  <2>5. Listed(map_kernel_region[i])
    BY <2>2, <2>3, PartsListed
  <2> HIDE DEF i, base, len
  <2> QED
    BY <2>2, <2>4, <2>5
<1> QED
  BY <1>1, <1>2, <1>3

\* An entry the kernel has a use for is below last_usable_address, or the frame buffer.
LEMMA EntriesCovered ==
  ASSUME NEW e \in DOMAIN Entries, Entries[e].type # "RESERVED", NEW f \in Frames(Entries[e])
  PROVE  f \in 0 .. last_usable_address \/ f \in Frames(framebuffer_region)
<1>1. /\ Entries[e].base \in Nat /\ Entries[e].len \in Nat
      /\ e \in OfType(Entries[e].type)
      /\ Entries[e].type \in Types \ {"RESERVED"}
      /\ f \in Nat /\ f < RegionEnd(Entries[e])
  BY EntryFields DEF OfType, Frames, RegionEnd
<1>2. CASE Entries[e].type = "FRAMEBUFFER"
  <2>1. PICK i \in OfType("FRAMEBUFFER") : framebuffer_region = Entries[i]
    BY <1>1, <1>2, RegionIsLast DEF framebuffer_region, Types
  <2>2. i = e
    BY <1>1, <1>2, MemmapAssumption
  <2> QED
    BY <2>1, <2>2
<1>3. CASE Entries[e].type = "USABLE"
  <2>1. RegionEnd(Entries[e]) \in Nat /\ RegionEnd(Entries[e]) <= last_usable_address
    BY <1>1, <1>3, LastUsable DEF RegionEnd
  <2> QED
    BY <1>1, <2>1, LastUsable
<1>4. CASE Entries[e].type = "KERNEL_AND_MODULES"
  <2>1. RegionEnd(Entries[e]) <= RegionEnd(kernel_region)
    BY <1>1, <1>4, RegionIsLast DEF kernel_region, Types
  <2>2. RegionEnd(Entries[e]) \in Nat /\ RegionEnd(kernel_region) \in Nat
    BY <1>1, Layout DEF RegionEnd
  <2> QED
    BY <1>1, <2>1, <2>2, LastUsable
<1>5. CASE Entries[e].type = "BOOTLOADER_RECLAIMABLE"
  <2>1. /\ RegionEnd(Entries[e]) <= RegionEnd(bootloader_reclaimable_region)
        /\ bootloader_reclaimable_region.base \in Nat /\ bootloader_reclaimable_region.len \in Nat
    BY <1>1, <1>5, RegionIsLast DEF bootloader_reclaimable_region, Types
  <2>2. RegionEnd(Entries[e]) \in Nat /\ RegionEnd(bootloader_reclaimable_region) \in Nat
    BY <1>1, <2>1 DEF RegionEnd
  <2> QED
    BY <1>1, <2>1, <2>2, LastUsable
<1> QED
  BY <1>1, <1>2, <1>3, <1>4, <1>5 DEF Types

LEMMA PageInvReachable == PageInv => KernelReachable
<1> SUFFICES ASSUME PageInv, cr3 # Limine PROVE KernelReachable
  BY DEF KernelReachable
<1>1. ASSUME NEW m, Listed(m)
      PROVE  Translate(m[1]) = m[2]
  <2>1. PICK i \in 1 .. Len(Bootstrap) : Bootstrap[i] = m
    BY <1>1 DEF Listed
  <2>2. Through /\ next = Len(Bootstrap) + 1
    BY DEF PageInv
  <2>3. i < next
    BY <2>2, BootstrapMapped
  <2> QED
    BY <2>1, <2>2, <2>3, BootstrapMapped DEF Through
<1>2. \A v, f : Listed(<<v, f>>) => Translate(v) = f
  BY <1>1
<1>3. ASSUME NEW e \in DOMAIN Entries, Entries[e].type # "RESERVED", NEW f \in Frames(Entries[e])
      PROVE  Translate(hhdm_offset + f) = f
  BY <1>2, <1>3, EntriesCovered, FramesListed
<1>4. \A f \in KernelPhys .. RegionEnd(kernel_region) - 1 :
        Translate(KernelVirt + f - KernelPhys) = f
  BY <1>2, FramesListed
<1> QED
  BY <1>3, <1>4 DEF KernelReachable

\* When the new tables come into force, all the kernel touches is where it expects it, and
\* stays there.
THEOREM KernelStaysReachable == Spec => []KernelReachable
<1>1. Init => PageInv
  BY InitPage
<1>2. PageInv /\ [Next]_vars => PageInv'
  BY NextPage
<1>3. PageInv => KernelReachable
  BY PageInvReachable
<1> QED
  BY <1>1, <1>2, <1>3, PTL DEF Spec
=============================================================================
