---------------------------- MODULE FilesProofs ----------------------------
(***************************************************************************)
(* Proofs about Files, Mount and Monitor, for every archive, width of      *)
(* integers and number of descriptors.                                     *)
(*                                                                         *)
(* Files: the size in a header is read back as no less than was written,   *)
(* for every width of the field (SizesReadBack).  To positions and sizes   *)
(* it does not matter what the headers contain: a read returns at most as  *)
(* much as was asked for, and a position is stopped at the size in the     *)
(* inode.  The files' data follow from that, and from what the driver does *)
(* with its headers.                                                       *)
(*                                                                         *)
(* Mount: the pieces of a path, what the archive's names have in common    *)
(* with those of their directories, and where its headers are; then that   *)
(* the entries come into the tree one by one, each under its directory     *)
(* (TreeInv).                                                              *)
(*                                                                         *)
(* Monitor: one descriptor is open while a command works on a file, what   *)
(* it reads is what Files' invariant says is there (CommandInv).           *)
(***************************************************************************)
EXTENDS Monitor, WellFoundedInduction, TLAPS

\* A number below the modulus is its own remainder.
LEMMA SmallMod ==
  ASSUME NEW m \in Nat, NEW n \in 0 .. m - 1
  PROVE  n % m = n
OBVIOUS

LEMMA ModRange ==
  ASSUME NEW m \in Nat \ {0}, NEW n \in Int
  PROVE  n % m \in 0 .. m - 1
OBVIOUS

\* Quotient and remainder are what the library says they are, and nothing else.
LEMMA Division ==
  ASSUME NEW n \in Nat, NEW d \in Nat \ {0}, NEW q \in Int, NEW r \in Int,
         q = n \div d, r = n % d
  PROVE  n = q * d + r /\ r \in 0 .. d - 1 /\ q \in Nat
OBVIOUS

LEMMA QuotientOf ==
  ASSUME NEW n \in Nat, NEW d \in Nat \ {0}, NEW q \in Nat, NEW r \in 0 .. d - 1, n = q * d + r
  PROVE  n \div d = q
BY SMTT(60)

(***************************************************************************)
(* Recursive functions: what is false of some number is false of a least   *)
(* one, so one step defines and types a function on 0 .. N.                *)
(***************************************************************************)
\* A set of numbers has a least one.
LEMMA LeastOf ==
  ASSUME NEW T \in SUBSET Nat, T # {}
  PROVE  \E m \in T : \A k \in T : m <= k
<1> DEFINE R == OpToRel(<, Nat)
<1>1. IsWellFoundedOn(R, Nat)
  BY NatLessThanWellFounded
<1>2. \A x, y \in Nat : <<y, x>> \in R <=> y < x
  BY DEF OpToRel
<1> HIDE DEF R
<1>3. PICK m \in T : \A y \in T : ~(<<y, m>> \in R)
  BY <1>1, WFMin
<1>4. \A k \in T : m <= k
  <2> TAKE k \in T
  <2>1. m \in Nat /\ k \in Nat /\ ~(k < m)
    BY <1>2, <1>3
  <2> QED
    BY <2>1
<1> QED
  BY <1>4

\* Function g begins with the base, and each value follows from the one before.
Makes(g, n, S, base, step) ==
  /\ g \in [0 .. n -> S]
  /\ g[0] = base
  /\ \A i \in 1 .. n : g[i] = step[<<g[i - 1], i>>]

\* There is such a function, for every base and step.
LEMMA Recursion ==
  ASSUME NEW N \in Nat, NEW S, NEW base \in S, NEW step \in [S \X (1 .. N) -> S]
  PROVE  \E g : Makes(g, N, S, base, step)
<1> DEFINE T == {n \in 0 .. N : ~ \E g : Makes(g, n, S, base, step)}
<1>1. T = {}
  <2> SUFFICES ASSUME T # {} PROVE FALSE
    OBVIOUS
  <2>1. T \in SUBSET Nat
    OBVIOUS
  <2>2. PICK m \in T : \A k \in T : m <= k
    BY <2>1, LeastOf
  <2>3. m # 0
    <3> DEFINE g == [i \in 0 .. 0 |-> base]
    <3>1. Makes(g, 0, S, base, step)
      BY DEF Makes
    <3> HIDE DEF g
    <3> QED
      BY <3>1
  <2>4. m \in 1 .. N /\ m - 1 \in 0 .. N /\ m - 1 \notin T
    BY <2>2, <2>3
  <2>5. PICK h : Makes(h, m - 1, S, base, step)
    BY <2>4
  <2> DEFINE g == [i \in 0 .. m |-> IF i = m THEN step[<<h[m - 1], m>>] ELSE h[i]]
  <2>6. h[m - 1] \in S /\ \A i \in 0 .. m - 1 : h[i] \in S
    BY <2>4, <2>5 DEF Makes
  <2>7. step[<<h[m - 1], m>>] \in S
    BY <2>4, <2>6
  <2>8. g \in [0 .. m -> S]
    BY <2>6, <2>7, <2>4
  <2>9. g[0] = base
    BY <2>4, <2>5 DEF Makes
  <2>10. ASSUME NEW i \in 1 .. m PROVE g[i] = step[<<g[i - 1], i>>]
    <3>1. CASE i = m
      BY <3>1, <2>4
    <3>2. CASE i # m
      <4>1. i \in 1 .. m - 1 /\ i - 1 \in 0 .. m /\ i - 1 # m
        BY <3>2, <2>4
      <4>2. g[i] = h[i] /\ g[i - 1] = h[i - 1]
        BY <4>1, <3>2, <2>4
      <4> QED
        BY <4>1, <4>2, <2>5 DEF Makes
    <3> QED
      BY <3>1, <3>2
  <2>11. Makes(g, m, S, base, step)
    BY <2>8, <2>9, <2>10 DEF Makes
  <2> HIDE DEF g
  <2> QED
    BY <2>11, <2>2
<1>2. N \in 0 .. N /\ N \notin T
  BY <1>1
<1> QED
  BY <1>2

(***************************************************************************)
(* The size fields of headers.                                             *)
(***************************************************************************)
LEMMA WeightSteps ==
  /\ Digits \in Nat /\ Weight \in [0 .. Digits -> Nat \ {0}] /\ Weight[0] = 1
  /\ \A k \in 1 .. Digits : Weight[k] = 8 * Weight[k - 1]
<1> DEFINE N == Digits
           step == [p \in (Nat \ {0}) \X (1 .. N) |-> 8 * p[1]]
           Eq(f) == f = [k \in 0 .. N |-> IF k = 0 THEN 1 ELSE 8 * f[k - 1]]
<1>1. N \in Nat
  BY FilesAssumption
<1> HIDE DEF N
<1>2. step \in [(Nat \ {0}) \X (1 .. N) -> Nat \ {0}]
  OBVIOUS
<1>3. PICK g : Makes(g, N, Nat \ {0}, 1, step)
  <2>1. 1 \in Nat \ {0}
    OBVIOUS
  <2> HIDE DEF step
  <2> QED
    BY <1>1, <1>2, <2>1, Recursion
<1>4. g \in [0 .. N -> Nat \ {0}] /\ g[0] = 1
  BY <1>3 DEF Makes
<1>5. ASSUME NEW k \in 1 .. N PROVE g[k] = 8 * g[k - 1]
  <2>1. <<g[k - 1], k>> \in (Nat \ {0}) \X (1 .. N)
    BY <1>1, <1>4
  <2>2. step[<<g[k - 1], k>>] = 8 * g[k - 1]
    BY <2>1
  <2> HIDE DEF step
  <2> QED
    BY <1>3, <2>2 DEF Makes
<1> HIDE DEF step
<1>6. Eq(g)
  <2>1. ASSUME NEW k \in 0 .. N PROVE g[k] = IF k = 0 THEN 1 ELSE 8 * g[k - 1]
    <3>1. k = 0 \/ k \in 1 .. N
      BY <1>1
    <3> QED
      BY <1>4, <1>5, <3>1
  <2> QED
    BY <1>4, <2>1
<1>7. Eq(Weight)
  <2>1. Weight = CHOOSE f : Eq(f)
    BY DEF Weight, N
  <2> HIDE DEF Eq
  <2> QED
    BY <1>6, <2>1
<1>8. Weight[0] = 1 /\ \A k \in 1 .. N : Weight[k] = 8 * Weight[k - 1]
  <2>1. \A k \in 0 .. N : Weight[k] = IF k = 0 THEN 1 ELSE 8 * Weight[k - 1]
    BY <1>7
  <2>2. 0 \in 0 .. N /\ \A k \in 1 .. N : k \in 0 .. N /\ k # 0
    BY <1>1
  <2> QED
    BY <2>1, <2>2
<1>9. DOMAIN Weight = 0 .. N /\ Weight = [k \in 0 .. N |-> Weight[k]]
  <2>1. DOMAIN Weight = 0 .. N
    BY <1>7
  <2>2. [k \in 0 .. N |-> IF k = 0 THEN 1 ELSE 8 * Weight[k - 1]] = [k \in 0 .. N |-> Weight[k]]
    BY <1>7
  <2> QED
    BY <1>7, <2>1, <2>2
<1> HIDE DEF Eq
<1>10. ASSUME NEW j \in 0 .. N PROVE Weight[j] \in Nat \ {0}
  <2> DEFINE T == {k \in 0 .. N : Weight[k] \notin Nat \ {0}}
  <2>1. ASSUME T # {} PROVE FALSE
    <3>1. T \in SUBSET Nat
      BY <1>1
    <3>2. PICK m \in T : \A k \in T : m <= k
      BY <2>1, <3>1, LeastOf
    <3>3. m \in 1 .. N /\ m - 1 \in 0 .. N /\ Weight[m - 1] \in Nat \ {0}
      BY <3>2, <1>1, <1>8
    <3>4. Weight[m] = 8 * Weight[m - 1]
      BY <3>3, <1>8
    <3>5. Weight[m] \in Nat \ {0}
      BY <3>3, <3>4
    <3> QED
      BY <3>2, <3>5
  <2> QED
    BY <2>1
<1> QED
  BY <1>1, <1>8, <1>9, <1>10 DEF N

\* What parse_size has added up after the last k bytes.
Parsed(field, f) ==
  /\ f \in [0 .. Digits -> Int] /\ f[0] = 0
  /\ \A k \in 1 .. Digits : f[k] = f[k - 1] + (field[Digits - k + 1] - 48) * Weight[k - 1]

LEMMA ParsedExists ==
  ASSUME NEW field \in [1 .. Digits -> Int]
  PROVE  \E f : Parsed(field, f) /\ ParseSize(field) = f[Digits] % Word
<1> DEFINE N == Digits
           byte(k) == (field[N - k + 1] - 48) * Weight[k - 1]
           step == [p \in Int \X (1 .. N) |-> p[1] + byte(p[2])]
           Eq(f) == f = [k \in 0 .. N |-> IF k = 0 THEN 0
                                          ELSE f[k - 1] + (field[N - k + 1] - 48) * Weight[k - 1]]
           f == CHOOSE f : Eq(f)
<1>1. ParseSize(field) = f[N] % Word
  BY DEF ParseSize
<1>2. N \in Nat
  BY WeightSteps
<1> HIDE DEF N
<1>3. ASSUME NEW k \in 1 .. N PROVE byte(k) \in Int
  <2>1. k - 1 \in 0 .. N /\ N - k + 1 \in 1 .. N
    BY <1>2
  <2>2. Weight[k - 1] \in Nat /\ field[N - k + 1] \in Int
    BY <2>1, WeightSteps DEF N
  <2> QED
    BY <2>2
<1> HIDE DEF byte
<1>4. step \in [Int \X (1 .. N) -> Int]
  BY <1>3
<1>5. PICK g : Makes(g, N, Int, 0, step)
  <2>1. 0 \in Int
    OBVIOUS
  <2> HIDE DEF step
  <2> QED
    BY <1>2, <1>4, <2>1, Recursion
<1>6. g \in [0 .. N -> Int] /\ g[0] = 0
  BY <1>5 DEF Makes
<1>7. ASSUME NEW k \in 1 .. N PROVE g[k] = g[k - 1] + byte(k)
  <2>1. <<g[k - 1], k>> \in Int \X (1 .. N)
    BY <1>2, <1>6
  <2>2. step[<<g[k - 1], k>>] = g[k - 1] + byte(k)
    BY <2>1
  <2> HIDE DEF step
  <2> QED
    BY <1>5, <2>2 DEF Makes
<1> HIDE DEF step
<1>8. Eq(g)
  <2>1. ASSUME NEW k \in 0 .. N
        PROVE  g[k] = IF k = 0 THEN 0 ELSE g[k - 1] + (field[N - k + 1] - 48) * Weight[k - 1]
    <3>1. k = 0 \/ (k # 0 /\ k \in 1 .. N)
      BY <1>2
    <3> QED
      BY <1>6, <1>7, <3>1 DEF byte
  <2> QED
    BY <1>6, <2>1
<1>9. Eq(f)
  <2> HIDE DEF Eq
  <2> QED
    BY <1>8
<1> HIDE DEF f
<1>10. f[0] = 0 /\ \A k \in 1 .. N : f[k] = f[k - 1] + byte(k)
  <2>1. \A k \in 0 .. N :
          f[k] = IF k = 0 THEN 0 ELSE f[k - 1] + (field[N - k + 1] - 48) * Weight[k - 1]
    BY <1>9
  <2>2. 0 \in 0 .. N /\ \A k \in 1 .. N : k \in 0 .. N /\ k # 0
    BY <1>2
  <2> QED
    BY <2>1, <2>2 DEF byte
<1>11. DOMAIN f = 0 .. N /\ f = [k \in 0 .. N |-> f[k]]
  <2>1. DOMAIN f = 0 .. N
    BY <1>9
  <2>2. \A k \in 0 .. N :
          f[k] = IF k = 0 THEN 0 ELSE f[k - 1] + (field[N - k + 1] - 48) * Weight[k - 1]
    BY <1>9
  <2> QED
    BY <1>9, <2>1, <2>2
<1> HIDE DEF Eq
<1>12. ASSUME NEW j \in 0 .. N PROVE f[j] \in Int
  <2> DEFINE T == {k \in 0 .. N : f[k] \notin Int}
  <2>1. ASSUME T # {} PROVE FALSE
    <3>1. T \in SUBSET Nat
      BY <1>2
    <3>2. PICK m \in T : \A k \in T : m <= k
      BY <2>1, <3>1, LeastOf
    <3>3. m \in 1 .. N /\ m - 1 \in 0 .. N /\ f[m - 1] \in Int
      BY <3>2, <1>2, <1>10
    <3>4. f[m] = f[m - 1] + byte(m) /\ byte(m) \in Int
      BY <3>3, <1>3, <1>10
    <3>5. f[m] \in Int
      BY <3>3, <3>4
    <3> QED
      BY <3>2, <3>5
  <2> QED
    BY <2>1
<1>13. Parsed(field, f)
  BY <1>10, <1>11, <1>12 DEF Parsed, byte, N
<1> QED
  BY <1>1, <1>13 DEF N

LEMMA RemainderOf ==
  ASSUME NEW n \in Nat, NEW d \in Nat \ {0}, NEW q \in Nat, NEW r \in 0 .. d - 1, n = q * d + r
  PROVE  n % d = r
<1>1. PICK a \in Int, b \in Int : a = n \div d /\ b = n % d
  OBVIOUS
<1>2. n = a * d + b
  BY <1>1, Division
<1>3. a = q
  BY <1>1, QuotientOf
<1> DEFINE c == q * d
<1>4. c \in Int /\ n = c + b /\ n = c + r
  BY <1>2, <1>3
<1> HIDE DEF c
<1> QED
  BY <1>1, <1>4

\* One digit more.
LEMMA NextDigit ==
  ASSUME NEW n \in Nat, NEW w \in Nat \ {0}
  PROVE  n % (8 * w) = (n % w) + ((n \div w) % 8) * w
<1>1. PICK q \in Int, r \in Int : q = n \div w /\ r = n % w
  OBVIOUS
<1>2. n = q * w + r /\ r \in 0 .. w - 1 /\ q \in Nat
  BY <1>1, Division
<1>3. PICK p \in Int, e \in Int : p = q \div 8 /\ e = q % 8
  BY <1>2
<1>4. q = p * 8 + e /\ e \in 0 .. 7 /\ p \in Nat
  BY <1>2, <1>3
<1> DEFINE d == 8 * w
           t == e * w + r
<1>5. n = p * d + t
  <2>1. (p * 8 + e) * w = p * (8 * w) + e * w
    BY <1>4, SMTT(60)
  <2>2. p * (8 * w) \in Int /\ e * w \in Int
    BY <1>4
  <2> QED
    BY <1>2, <1>4, <2>1, <2>2
<1>6. d \in Nat \ {0} /\ t \in 0 .. d - 1
  <2>1. e * w <= 7 * w /\ e * w \in Nat
    BY <1>4, SMTT(60)
  <2> DEFINE ew == e * w
  <2>2. ew <= 7 * w /\ ew \in Nat
    BY <2>1
  <2> HIDE DEF ew
  <2>3. ew + r \in 0 .. 8 * w - 1
    BY <1>2, <2>2
  <2> QED
    BY <2>3 DEF ew
<1>7. n % d = t
  <2> HIDE DEF d, t
  <2> QED
    BY <1>4, <1>5, <1>6, RemainderOf
<1>8. t = r + e * w
  BY <1>4, <1>2
<1> QED
  BY <1>1, <1>3, <1>7, <1>8

LEMMA DigitIs ==
  ASSUME NEW n \in Nat, NEW k \in 1 .. Digits
  PROVE  /\ OctalDigit(n, k - 1) \in Int
         /\ n % Weight[k] = (n % Weight[k - 1]) + (OctalDigit(n, k - 1) - 48) * Weight[k - 1]
<1>1. PICK w \in Nat \ {0} : w = Weight[k - 1]
  BY WeightSteps
<1>2. Weight[k] = 8 * w
  BY <1>1, WeightSteps
<1>3. PICK e \in Int : e = (n \div w) % 8
  <2>1. n \div w \in Int
    OBVIOUS
  <2>2. (n \div w) % 8 \in Int
    BY <2>1
  <2> QED
    BY <2>2
<1>4. OctalDigit(n, k - 1) = 48 + e
  BY <1>1, <1>3 DEF OctalDigit
<1>5. n % (8 * w) = (n % w) + e * w
  BY <1>3, NextDigit
<1>6. OctalDigit(n, k - 1) - 48 = e
  BY <1>4
<1> QED
  BY <1>1, <1>2, <1>4, <1>5, <1>6

\* What tar writes is read as it is.
LEMMA PaddedReads ==
  ASSUME NEW n \in Nat, n < Weight[Digits]
  PROVE  /\ Padded(n) \in [1 .. Digits -> Int]
         /\ ParseSize(Padded(n)) = n
<1> DEFINE N == Digits
<1>1. N \in Nat /\ N >= 3
  BY FilesAssumption
<1> HIDE DEF N
<1>2. ASSUME NEW i \in 1 .. N PROVE OctalDigit(n, N - i) \in Int
  <2>1. PICK k \in 1 .. N : k = N - i + 1
    BY <1>1
  <2>2. N - i = k - 1
    BY <1>1, <2>1
  <2> QED
    BY <2>1, <2>2, DigitIs DEF N
<1>3. PICK field : field = Padded(n)
  OBVIOUS
<1>4. field \in [1 .. N -> Int] /\ \A i \in 1 .. N : field[i] = OctalDigit(n, N - i)
  BY <1>2, <1>3 DEF Padded, N
<1>5. PICK f : Parsed(field, f) /\ ParseSize(field) = f[N] % Word
  BY <1>4, ParsedExists DEF N
<1>6. f[0] = n % Weight[0]
  <2>1. n % 1 = 0
    OBVIOUS
  <2> QED
    BY <1>5, <2>1, WeightSteps DEF Parsed
<1>7. ASSUME NEW k \in 1 .. N, f[k - 1] = n % Weight[k - 1]
      PROVE  f[k] = n % Weight[k]
  <2>1. f[k] = f[k - 1] + (field[N - k + 1] - 48) * Weight[k - 1]
    BY <1>5 DEF Parsed, N
  <2>2. N - k + 1 \in 1 .. N /\ N - (N - k + 1) = k - 1
    BY <1>1
  <2>3. field[N - k + 1] = OctalDigit(n, k - 1)
    BY <1>4, <2>2
  <2>4. n % Weight[k] = (n % Weight[k - 1]) + (OctalDigit(n, k - 1) - 48) * Weight[k - 1]
    BY DigitIs DEF N
  <2> QED
    BY <1>7, <2>1, <2>3, <2>4
<1>8. ASSUME NEW j \in 0 .. N PROVE f[j] = n % Weight[j]
  <2> DEFINE T == {k \in 0 .. N : f[k] # n % Weight[k]}
  <2>1. ASSUME T # {} PROVE FALSE
    <3>1. T \in SUBSET Nat
      BY <1>1
    <3>2. PICK m \in T : \A k \in T : m <= k
      BY <2>1, <3>1, LeastOf
    <3>3. m \in 1 .. N /\ m - 1 \in 0 .. N /\ f[m - 1] = n % Weight[m - 1]
      BY <3>2, <1>1, <1>6
    <3> QED
      BY <3>2, <3>3, <1>7
  <2> QED
    BY <2>1
<1>9. PICK w \in Nat \ {0} : w = Weight[N] /\ n < w /\ w <= Word
  BY <1>1, WeightSteps, FilesAssumption DEF N
<1>10. n % w = n
  BY <1>9, SmallMod
<1>11. n \in 0 .. Word - 1 /\ Word \in Nat
  BY <1>9, FilesAssumption
<1>12. f[N] = n
  BY <1>1, <1>8, <1>9, <1>10
<1>13. n % Word = n
  BY <1>11, SmallMod
<1> QED
  BY <1>3, <1>4, <1>5, <1>12, <1>13 DEF N

LEMMA WeightProduct ==
  ASSUME NEW d \in 0 .. Digits, NEW j \in 0 .. Digits - d
  PROVE  Weight[d + j] = Weight[d] * Weight[j]
<1> DEFINE N == Digits
           T == {k \in 0 .. N - d : Weight[d + k] # Weight[d] * Weight[k]}
<1>1. N \in Nat /\ d \in 0 .. N
  BY WeightSteps
<1>2. PICK w \in Nat \ {0} : w = Weight[d]
  BY WeightSteps
<1>3. ASSUME T # {} PROVE FALSE
  <2>1. T \in SUBSET Nat
    BY <1>1
  <2>2. PICK m \in T : \A k \in T : m <= k
    BY <1>3, <2>1, LeastOf
  <2>3. m # 0
    <3>1. d + 0 = d /\ w * 1 = w
      BY <1>1
    <3>2. Weight[d + 0] = w * Weight[0]
      BY <1>2, <3>1, WeightSteps
    <3> QED
      BY <1>2, <2>2, <3>2
  <2>4. m \in 1 .. N - d /\ m - 1 \in 0 .. N - d /\ ~(m <= m - 1)
    BY <1>1, <2>2, <2>3
  <2>5. Weight[d + (m - 1)] = w * Weight[m - 1]
    BY <1>2, <2>2, <2>4
  <2>6. d + m \in 1 .. N /\ m \in 1 .. N /\ d + m - 1 = d + (m - 1) /\ m - 1 \in 0 .. N
    BY <1>1, <2>4
  <2>7. Weight[d + m] = 8 * Weight[d + (m - 1)] /\ Weight[m] = 8 * Weight[m - 1]
    BY <2>6, WeightSteps
  <2>8. PICK u \in Nat : u = Weight[m - 1]
    BY <2>6, WeightSteps
  <2>9. 8 * (w * u) = w * (8 * u)
    BY SMTT(60)
  <2> QED
    BY <1>2, <2>2, <2>5, <2>7, <2>8, <2>9
<1> QED
  BY <1>3


\* A number at the left of its field, with zero bytes behind it that weigh w.
LEMMA LeftAligned ==
  ASSUME NEW n \in Nat \ {0}, NEW w \in Nat \ {0}, NEW v \in Int, 7 * v = 48 - 48 * w + 7 * (w * n),
         NEW u \in Nat \ {0}, n < u, NEW x \in Nat, w * u <= x,
         n >= 7 \/ (w >= 64 /\ u = 8)
  PROVE  v % x \in n .. x - 1
<1>1. CASE n >= 7
  <2>1. (w - 1) * (7 * n - 48) >= 0 /\ (w - 1) * (7 * n - 48) = 7 * (w * n) - 48 * w - 7 * n + 48
    BY <1>1, SMTT(60)
  <2>2. w * n < w * u
    BY SMTT(60)
  <2> DEFINE wn == w * n
             wu == w * u
  <2>3. wn \in Int /\ wu \in Int /\ wn < wu /\ wu <= x /\ 7 * v = 48 - 48 * w + 7 * wn
        /\ 7 * wn - 48 * w - 7 * n + 48 >= 0
    BY <2>1, <2>2
  <2> HIDE DEF wn, wu
  <2>4. v >= n /\ v < x
    BY <2>3
  <2>5. v \in 0 .. x - 1
    BY <2>4
  <2>6. v % x = v
    BY <2>5, SmallMod
  <2> QED
    BY <2>4, <2>6
<1>2. CASE n < 7
  <2>1. w >= 64 /\ 8 * w <= x
    BY <1>2
  <2>2. w * n <= 6 * w /\ w * n >= w
    BY <1>2, SMTT(60)
  <2> DEFINE wn == w * n
  <2>3. wn \in Int /\ wn <= 6 * w /\ wn >= w /\ 7 * v = 48 - 48 * w + 7 * wn
    BY <2>2
  <2> HIDE DEF wn
  <2>4. v < 0 /\ v + x >= n /\ v + x < x
    BY <1>2, <2>1, <2>3
  <2>5. v % x = v + x
    <3>1. PICK a \in Nat : a = v + x
      BY <2>4
    <3>2. a \in 0 .. x - 1 /\ v = a - x /\ x > 0
      BY <2>4, <3>1
    <3>3. (a - x) % x = a
      BY <3>2, SMTT(60)
    <3> QED
      BY <3>1, <3>2, <3>3
  <2> QED
    BY <2>4, <2>5
<1> QED
  BY <1>1, <1>2

\* to_octal ends with the first digit that is not zero.
LEMMA OctalLength ==
  ASSUME NEW n \in Nat \ {0}, n < Weight[Digits]
  PROVE  \E k \in 1 .. Digits : n < Weight[k] /\ (k > 1 => n >= Weight[k - 1])
<1> DEFINE T == {k \in 0 .. Digits : n < Weight[k]}
<1>1. Digits \in Nat /\ T \in SUBSET Nat /\ Digits \in T
  BY WeightSteps
<1>2. PICK m \in T : \A k \in T : m <= k
  BY <1>1, LeastOf
<1>3. m # 0
  BY <1>2, WeightSteps
<1>4. m \in 1 .. Digits /\ m - 1 \in 0 .. Digits /\ ~(m <= m - 1)
  BY <1>1, <1>2, <1>3
<1>5. ~(n < Weight[m - 1]) /\ Weight[m - 1] \in Nat
  BY <1>2, <1>4, WeightSteps
<1>6. n >= Weight[m - 1]
  BY <1>5
<1> QED
  BY <1>2, <1>4, <1>6

\* A size below 7 has one digit, with bytes behind it that weigh 64 or more.
LEMMA OneDigit ==
  ASSUME NEW n \in Nat \ {0}, n < 7, NEW k \in 1 .. Digits, k > 1 => n >= Weight[k - 1]
  PROVE  Weight[Digits - k] >= 64 /\ Weight[k] = 8
<1>1. Digits \in Nat /\ Digits >= 3
  BY FilesAssumption
<1>2. Weight[1] = 8 /\ Weight[2] = 64
  <2>1. 1 \in 1 .. Digits /\ 2 \in 1 .. Digits
    BY <1>1
  <2>2. Weight[1] = 8 * Weight[0] /\ Weight[2] = 8 * Weight[1]
    BY <2>1, WeightSteps
  <2> QED
    BY <2>2, WeightSteps
<1>3. k = 1
  <2>1. ASSUME k > 1 PROVE FALSE
    <3>1. 1 \in 0 .. Digits /\ k - 2 \in 0 .. Digits - 1 /\ 1 + (k - 2) = k - 1
      BY <1>1, <2>1
    <3>2. Weight[k - 1] = 8 * Weight[k - 2]
      BY <1>2, <3>1, WeightProduct
    <3>3. Weight[k - 2] \in Nat \ {0}
      <4>1. k - 2 \in 0 .. Digits
        BY <1>1, <3>1
      <4> QED
        BY <4>1, WeightSteps
    <3> QED
      BY <2>1, <3>2, <3>3
  <2> QED
    BY <1>1, <2>1
<1>4. 2 \in 0 .. Digits /\ Digits - 3 \in 0 .. Digits - 2 /\ 2 + (Digits - 3) = Digits - 1
  BY <1>1
<1>5. Weight[Digits - 1] = 64 * Weight[Digits - 3]
  BY <1>2, <1>4, WeightProduct
<1>6. Weight[Digits - 3] \in Nat \ {0}
  <2>1. Digits - 3 \in 0 .. Digits
    BY <1>1
  <2> QED
    BY <2>1, WeightSteps
<1> QED
  BY <1>2, <1>3, <1>5, <1>6

\* What create writes is read as no less.
LEMMA ToOctalReads ==
  ASSUME NEW n \in Nat \ {0}, n < Weight[Digits]
  PROVE  /\ ToOctal(n) \in [1 .. Digits -> Int]
         /\ ParseSize(ToOctal(n)) \in n .. Word - 1
<1> DEFINE N == Digits
           fits(k) == n < Weight[k] /\ (k > 1 => n >= Weight[k - 1])
           len == CHOOSE k \in 1 .. N : fits(k)
<1>1. N \in Nat
  BY FilesAssumption
<1>2. len \in 1 .. N /\ fits(len)
  <2>1. \E k \in 1 .. N : fits(k)
    BY OctalLength
  <2> HIDE DEF fits
  <2> QED
    BY <2>1
<1>3. PICK field : field = ToOctal(n)
  OBVIOUS
<1>4. field = [i \in 1 .. N |-> IF i <= len THEN OctalDigit(n, len - i) ELSE 0]
  BY <1>3 DEF ToOctal
<1> HIDE DEF len
<1>5. PICK d \in 0 .. N : d = N - len
  BY <1>1, <1>2
<1>6. PICK k \in 1 .. N : k = len
  BY <1>2
<1> HIDE DEF fits
<1>7. /\ \A i \in 1 .. N : i <= k => field[i] = OctalDigit(n, k - i)
      /\ \A i \in 1 .. N : i > k => field[i] = 0
      /\ field = [i \in 1 .. N |-> field[i]]
  <2>1. field = [i \in 1 .. N |-> IF i <= k THEN OctalDigit(n, k - i) ELSE 0]
    BY <1>4, <1>6
  <2>2. \A i \in 1 .. N : i > k => ~(i <= k)
    BY <1>1
  <2> HIDE DEF N
  <2> QED
    BY <2>1, <2>2
<1>8. field \in [1 .. N -> Int]
  <2>1. ASSUME NEW i \in 1 .. N PROVE field[i] \in Int
    <3>1. CASE i <= k
      <4>1. PICK m \in 1 .. N : m = k - i + 1
        BY <1>1, <3>1
      <4>2. k - i = m - 1
        BY <1>1, <4>1
      <4> QED
        BY <1>7, <3>1, <4>1, <4>2, DigitIs
    <3>2. CASE i > k
      BY <1>7, <3>2
    <3> QED
      BY <1>1, <3>1, <3>2
  <2> QED
    BY <1>7, <2>1
<1>9. PICK f : Parsed(field, f) /\ ParseSize(field) = f[N] % Word
  BY <1>8, ParsedExists
<1>10. \A j \in 1 .. N : f[j] = f[j - 1] + (field[N - j + 1] - 48) * Weight[j - 1]
  BY <1>9 DEF Parsed
<1>11. \A j \in 0 .. N : f[j] \in Int /\ Weight[j] \in Nat \ {0}
  BY <1>9, WeightSteps DEF Parsed
<1> HIDE DEF N
<1>12. d = N - k /\ d \in 0 .. N - 1
  BY <1>1, <1>5, <1>6
\* The zero bytes.
<1>13. 7 * f[d] = 48 - 48 * Weight[d]
  <2> DEFINE T == {j \in 0 .. d : 7 * f[j] # 48 - 48 * Weight[j]}
  <2>1. ASSUME T # {} PROVE FALSE
    <3>1. T \in SUBSET Nat
      BY <1>12, <1>1
    <3>2. PICK m \in T : \A j \in T : m <= j
      BY <2>1, <3>1, LeastOf
    <3>3. m # 0
      BY <1>9, <3>2, WeightSteps DEF Parsed
    <3>4. m \in 1 .. d /\ m - 1 \in 0 .. d /\ m \in 1 .. N /\ m - 1 \in 0 .. N /\ ~(m <= m - 1)
      BY <1>1, <1>12, <3>2, <3>3
    <3>5. 7 * f[m - 1] = 48 - 48 * Weight[m - 1]
      BY <3>2, <3>4
    <3>6. N - m + 1 \in 1 .. N /\ N - m + 1 > k
      BY <1>1, <1>12, <3>4
    <3>7. f[m] = f[m - 1] + (0 - 48) * Weight[m - 1]
      BY <1>7, <1>10, <3>4, <3>6
    <3>8. Weight[m] = 8 * Weight[m - 1]
      BY <3>4, WeightSteps DEF N
    <3>9. PICK a \in Int, w \in Nat : a = f[m - 1] /\ w = Weight[m - 1]
      BY <1>11, <3>4
    <3>10. 7 * (a + (0 - 48) * w) = 48 - 48 * (8 * w)
      BY <3>5, <3>9
    <3> QED
      BY <3>2, <3>7, <3>8, <3>9, <3>10
  <2>2. d \in 0 .. d
    BY <1>12, <1>1
  <2> QED
    BY <2>1, <2>2
\* The digits in front of them.
<1>14. f[d + k] = f[d] + Weight[d] * (n % Weight[k])
  <2> DEFINE T == {j \in 0 .. k : f[d + j] # f[d] + Weight[d] * (n % Weight[j])}
  <2>1. ASSUME T # {} PROVE FALSE
    <3>1. T \in SUBSET Nat
      BY <1>1
    <3>2. PICK m \in T : \A j \in T : m <= j
      BY <2>1, <3>1, LeastOf
    <3>3. m # 0
      <4>1. n % Weight[0] = 0
        <5>1. n % 1 = 0
          OBVIOUS
        <5> QED
          BY <5>1, WeightSteps
      <4>2. PICK a \in Int, w \in Nat : a = f[d] /\ w = Weight[d]
        BY <1>11
      <4>3. d + 0 = d /\ a + w * 0 = a
        BY <1>12, <1>1
      <4>4. f[d + 0] = f[d] + Weight[d] * (n % Weight[0])
        BY <4>1, <4>2, <4>3
      <4> QED
        BY <3>2, <4>4
    <3>4. /\ m \in 1 .. k /\ m - 1 \in 0 .. k /\ m \in 1 .. N /\ m - 1 \in 0 .. N
          /\ m - 1 \in 0 .. N - d /\ ~(m <= m - 1) /\ d + m \in 1 .. N /\ d + m - 1 = d + (m - 1)
      BY <1>1, <1>12, <3>2, <3>3
    <3>5. f[d + (m - 1)] = f[d] + Weight[d] * (n % Weight[m - 1])
      BY <3>2, <3>4
    <3>6. N - (d + m) + 1 \in 1 .. N /\ N - (d + m) + 1 <= k /\ k - (N - (d + m) + 1) = m - 1
      BY <1>1, <1>12, <3>4
    <3>7. field[N - (d + m) + 1] = OctalDigit(n, m - 1)
      BY <1>7, <3>6
    <3>8. f[d + m] = f[d + (m - 1)] + (OctalDigit(n, m - 1) - 48) * Weight[d + (m - 1)]
      BY <1>10, <3>4, <3>7
    <3>9. Weight[d + (m - 1)] = Weight[d] * Weight[m - 1]
      BY <3>4, WeightProduct DEF N
    <3>10. /\ OctalDigit(n, m - 1) \in Int
           /\ n % Weight[m] = (n % Weight[m - 1]) + (OctalDigit(n, m - 1) - 48) * Weight[m - 1]
      BY <3>4, DigitIs DEF N
    <3>11. PICK a \in Int, w \in Nat, u \in Nat, r \in Int, e \in Int :
             /\ a = f[d] /\ w = Weight[d] /\ u = Weight[m - 1]
             /\ r = n % Weight[m - 1] /\ e = OctalDigit(n, m - 1) - 48
      <4>1. Weight[m - 1] \in Nat \ {0}
        BY <1>11, <3>4
      <4>2. n % Weight[m - 1] \in Int
        BY <4>1
      <4> QED
        BY <1>11, <3>10, <4>1, <4>2
    <3>12. (a + w * r) + e * (w * u) = a + w * (r + e * u)
      BY SMTT(60)
    <3> QED
      BY <3>2, <3>5, <3>8, <3>9, <3>10, <3>11, <3>12
  <2>2. k \in 0 .. k
    BY <1>1
  <2> QED
    BY <2>1, <2>2
<1>15. PICK w \in Nat \ {0}, u \in Nat \ {0}, v \in Int :
         w = Weight[d] /\ u = Weight[k] /\ v = f[N]
  <2>1. k \in 0 .. N /\ N \in 0 .. N
    BY <1>1
  <2> QED
    BY <1>11, <2>1
<1>16. n < u
  BY <1>2, <1>6, <1>15 DEF fits
<1>17. n % u = n
  BY <1>16, SmallMod
<1>18. 7 * v = 48 - 48 * w + 7 * (w * n)
  <2>1. d + k = N
    BY <1>1, <1>12
  <2>2. PICK a \in Int : a = f[d]
    BY <1>11
  <2>3. v = a + w * n
    BY <1>14, <1>15, <1>17, <2>1, <2>2
  <2>4. 7 * a = 48 - 48 * w
    BY <1>13, <1>15, <2>2
  <2> DEFINE wn == w * n
  <2>5. wn \in Int /\ v = a + wn
    BY <2>3
  <2> HIDE DEF wn
  <2>6. 7 * v = 48 - 48 * w + 7 * wn
    BY <2>4, <2>5
  <2> QED
    BY <2>6 DEF wn
<1>19. w * u <= Word /\ Word \in Nat
  <2>1. d \in 0 .. N /\ k \in 0 .. N - d /\ d + k = N
    BY <1>1, <1>12
  <2>2. Weight[N] = w * u
    BY <1>15, <2>1, WeightProduct DEF N
  <2> QED
    BY <2>2, FilesAssumption DEF N
<1>20. n >= 7 \/ (w >= 64 /\ u = 8)
  <2>1. ASSUME n < 7 PROVE w >= 64 /\ u = 8
    BY <1>2, <1>6, <1>12, <1>15, <2>1, OneDigit DEF fits, N
  <2> QED
    BY <2>1
<1>21. v % Word \in n .. Word - 1
  BY <1>16, <1>18, <1>19, <1>20, LeftAligned
<1> QED
  BY <1>3, <1>8, <1>9, <1>15, <1>21 DEF N

\* The sizes tar has written into the headers are read as they are.  Those the driver has
\* written itself, at the left of the field, are not: they are read as greater ones, or as
\* numbers near Word, but never as smaller ones, so that reads reach the end of the file.
THEOREM SizesReadBack ==
  \A n \in 0 .. MaxSize :
    /\ ParseSize(Padded(n)) = n /\ n \in 0 .. Word - 1
    /\ n > 0 => ParseSize(ToOctal(n)) \in n .. Word - 1
<1> SUFFICES ASSUME NEW n \in 0 .. MaxSize
             PROVE  /\ ParseSize(Padded(n)) = n /\ n \in 0 .. Word - 1
                    /\ n > 0 => ParseSize(ToOctal(n)) \in n .. Word - 1
  OBVIOUS
<1>1. PICK w \in Nat : w = Weight[Digits] /\ MaxSize < w /\ w <= Word
  BY WeightSteps, FilesAssumption
<1>2. n \in Nat /\ n < w /\ n \in 0 .. Word - 1
  BY <1>1, FilesAssumption
<1> QED
  BY <1>1, <1>2, PaddedReads, ToOctalReads

(***************************************************************************)
(* Positions and sizes.                                                    *)
(***************************************************************************)
\* Descriptors and sizes have their types, and no position is behind the end of
\* its file.
PositionInv ==
  /\ size \in [Vnodes -> 0 .. MaxSize]
  /\ open_fds \subseteq [fd : Nat, vnode : Vnodes, position : Nat]
  /\ PositionWithinFile

\* A descriptor at a place within its file.
InFile(d) == d.vnode \in Vnodes /\ d.position \in Nat /\ d.position <= size[d.vnode]

\* What one call can write.
Writable(bytes) == bytes \in Seq(Bytes) /\ Len(bytes) < Word

LEMMA OpenInFile == PositionInv => \A d \in open_fds : InFile(d)
BY DEF PositionInv, PositionWithinFile, InFile

LEMMA DataWritable == \A bytes \in Data : Writable(bytes)
BY FilesAssumption DEF Writable

LEMMA SizesAreWords ==
  /\ Word \in Nat \ {0} /\ MaxSize \in Nat /\ MaxSize < Word
  /\ \A v \in Vnodes : Len(Archive[v]) \in 0 .. MaxSize
<1>1. \A v \in Vnodes : Archive[v] \in Seq(Bytes)
  BY FilesAssumption DEF Vnodes
<1>2. PICK w \in Nat : w = Weight[Digits] /\ MaxSize < w /\ w <= Word
  BY WeightSteps, FilesAssumption
<1> QED
  BY <1>1, <1>2, FilesAssumption

LEMMA PositionInit == Init => PositionInv
BY SizesAreWords DEF Init, PositionInv, PositionWithinFile

\* Where seek and the moves after a read or a write lead.
LEMMA SeekByInFile ==
  ASSUME PositionInv, size' \in [Vnodes -> 0 .. MaxSize],
         NEW d \in open_fds, NEW n \in Int
  PROVE  SeekBy(d, n) \in 0 .. size'[d.vnode]
<1>1. d.position \in Nat /\ d.vnode \in Vnodes
  BY DEF PositionInv
<1>2. (d.position + n) % Word \in 0 .. Word - 1
  <2> DEFINE sum == d.position + n
  <2>1. sum \in Int
    BY <1>1
  <2> HIDE DEF sum
  <2>2. sum % Word \in 0 .. Word - 1
    BY <2>1, ModRange, SizesAreWords
  <2> QED
    BY <2>2 DEF sum
<1>3. size'[d.vnode] \in Nat
  BY <1>1, SizesAreWords
<1> QED
  BY <1>2, <1>3 DEF SeekBy

\* Moving one descriptor to a place within its file, while no file gets shorter.
LEMMA RepositionKeepsInv ==
  ASSUME PositionInv,
         size' \in [Vnodes -> 0 .. MaxSize],
         \A v \in Vnodes : size'[v] >= size[v],
         NEW d \in open_fds, NEW p \in 0 .. size'[d.vnode],
         Reposition(d, p)
  PROVE  PositionInv'
<1>1. d \in [fd : Nat, vnode : Vnodes, position : Nat]
  BY DEF PositionInv
<1>2. p \in Nat /\ p <= size'[d.vnode]
  BY <1>1
<1> DEFINE moved == [d EXCEPT !.position = p]
<1>3. /\ moved \in [fd : Nat, vnode : Vnodes, position : Nat]
      /\ moved.position = p /\ moved.vnode = d.vnode
  BY <1>1, <1>2
<1>4. open_fds' = (open_fds \ {d}) \cup {moved}
  BY DEF Reposition
<1> HIDE DEF moved
<1>5. open_fds' \subseteq [fd : Nat, vnode : Vnodes, position : Nat]
  BY <1>3, <1>4 DEF PositionInv
<1>6. ASSUME NEW e \in open_fds' PROVE e.position <= size'[e.vnode]
  <2>1. CASE e = moved
    BY <2>1, <1>2, <1>3
  <2>2. CASE e \in open_fds
    <3>1. e.position \in Nat /\ e.vnode \in Vnodes /\ e.position <= size[e.vnode]
      BY <2>2 DEF PositionInv, PositionWithinFile
    <3>2. size[e.vnode] \in Nat /\ size'[e.vnode] \in Nat /\ size'[e.vnode] >= size[e.vnode]
      BY <3>1, SizesAreWords DEF PositionInv
    <3> QED
      BY <3>1, <3>2
  <2> QED
    BY <1>4, <2>1, <2>2
<1> QED
  BY <1>5, <1>6 DEF PositionInv, PositionWithinFile

\* A target seek accepts lies within the file.
LEMMA SeekTargetInFile ==
  ASSUME PositionInv, NEW d \in open_fds, NEW offset \in Offsets,
         NEW whence \in {"SEEK_SET", "SEEK_CUR", "SEEK_END"},
         SeekTarget(d, offset, whence) # -1
  PROVE  SeekTarget(d, offset, whence) \in 0 .. size[d.vnode]
<1>1. d.position \in Nat /\ d.vnode \in Vnodes /\ offset \in Nat
  BY FilesAssumption DEF PositionInv
<1>2. size[d.vnode] \in Nat
  BY <1>1, SizesAreWords DEF PositionInv
<1>3. \A n \in Int : n % Word \in Nat
  BY ModRange, SizesAreWords
<1> DEFINE p == CASE whence = "SEEK_SET" -> offset
                  [] whence = "SEEK_CUR" -> (offset + d.position) % Word
                  [] whence = "SEEK_END" -> (offset + size[d.vnode]) % Word
<1>4. p \in Nat
  <2>1. offset + d.position \in Int /\ offset + size[d.vnode] \in Int
    BY <1>1, <1>2
  <2>2. (offset + d.position) % Word \in Nat /\ (offset + size[d.vnode]) % Word \in Nat
    BY <1>3, <2>1
  <2> QED
    BY <1>1, <2>2
<1>5. SeekTarget(d, offset, whence) = IF p > size[d.vnode] THEN -1 ELSE p
  BY DEF SeekTarget
<1> HIDE DEF p
<1> QED
  BY <1>2, <1>4, <1>5

\* From a position within the file, the unsigned difference of size and position
\* does not wrap around: a write extends the file exactly if it ends behind it.
LEMMA ExtendsMeansLonger ==
  ASSUME size \in [Vnodes -> 0 .. MaxSize], NEW d, InFile(d), NEW bytes, Writable(bytes),
         Extends(d.vnode, d.position, bytes)
  PROVE  d.position + Len(bytes) > size[d.vnode]
<1>1. d.position \in Nat /\ d.vnode \in Vnodes /\ d.position <= size[d.vnode]
  BY DEF InFile
<1>2. size[d.vnode] \in 0 .. MaxSize
  BY <1>1
<1>3. size[d.vnode] - d.position \in 0 .. Word - 1
  BY <1>1, <1>2, SizesAreWords
<1>4. (size[d.vnode] - d.position) % Word = size[d.vnode] - d.position
  BY <1>3, SmallMod, SizesAreWords
<1>5. Len(bytes) \in Nat
  BY DEF Writable
<1> QED
  BY <1>1, <1>2, <1>4, <1>5, SizesAreWords DEF Extends

\* And a write that does not extend the file ends within it.
LEMMA NotExtending ==
  ASSUME size \in [Vnodes -> 0 .. MaxSize], NEW d, InFile(d), NEW bytes, Writable(bytes),
         ~Extends(d.vnode, d.position, bytes)
  PROVE  d.position + Len(bytes) <= size[d.vnode]
<1>1. d.position \in Nat /\ d.vnode \in Vnodes /\ d.position <= size[d.vnode]
  BY DEF InFile
<1>2. size[d.vnode] \in 0 .. MaxSize
  BY <1>1
<1>3. size[d.vnode] - d.position \in 0 .. Word - 1
  BY <1>1, <1>2, SizesAreWords
<1>4. (size[d.vnode] - d.position) % Word = size[d.vnode] - d.position
  BY <1>3, SmallMod, SizesAreWords
<1>5. Len(bytes) \in Nat
  BY DEF Writable
<1> QED
  BY <1>1, <1>2, <1>4, <1>5, SizesAreWords DEF Extends

\* No step makes a file shorter, or longer than the model's bound.
LEMMA WriteSizes ==
  ASSUME size \in [Vnodes -> 0 .. MaxSize], NEW d, InFile(d), NEW bytes, Writable(bytes),
         Write(d, bytes)
  PROVE  /\ size' \in [Vnodes -> 0 .. MaxSize]
         /\ \A v \in Vnodes : size'[v] >= size[v]
<1>1. size \in [Vnodes -> 0 .. MaxSize] /\ d.vnode \in Vnodes /\ d.position \in Nat
  BY DEF InFile
<1>2. Len(bytes) \in Nat
  BY DEF Writable
<1> DEFINE i == get_header_by_inode(headers, d.vnode)
<1>3. CASE ~Extends(d.vnode, d.position, bytes)
  <2>1. size' = size
    BY <1>3 DEF Write, WriteInPlace
  <2> QED
    BY <1>1, <2>1, SizesAreWords
<1>4. CASE Extends(d.vnode, d.position, bytes)
  <2> DEFINE n == d.position + Len(bytes)
  <2>1. WriteExtending(d.vnode, i, d.position, bytes)
    BY <1>4 DEF Write
  <2>2. n <= MaxSize /\ size' = [size EXCEPT ![d.vnode] = n]
    BY <2>1 DEF WriteExtending, NewSize
  <2>3. n > size[d.vnode] /\ n \in Nat
    BY <1>1, <1>2, <1>4, ExtendsMeansLonger
  <2> HIDE DEF n
  <2>4. n \in 0 .. MaxSize
    BY <2>2, <2>3, SizesAreWords
  <2> QED
    BY <1>1, <2>2, <2>3, <2>4, SizesAreWords
<1> QED
  BY <1>3, <1>4

\* The sizes after any step.
LEMMA NextSizes ==
  ASSUME PositionInv, [Next]_vars
  PROVE  /\ size' \in [Vnodes -> 0 .. MaxSize]
         /\ \A v \in Vnodes : size'[v] >= size[v]
<1>1. ASSUME size' = size
      PROVE  /\ size' \in [Vnodes -> 0 .. MaxSize]
             /\ \A v \in Vnodes : size'[v] >= size[v]
  BY <1>1, SizesAreWords DEF PositionInv
<1>2. ASSUME NEW d \in open_fds, NEW bytes \in Data, Write(d, bytes)
      PROVE  /\ size' \in [Vnodes -> 0 .. MaxSize]
             /\ \A v \in Vnodes : size'[v] >= size[v]
  <2>1. InFile(d) /\ Writable(bytes) /\ size \in [Vnodes -> 0 .. MaxSize]
    BY OpenInFile, DataWritable DEF PositionInv
  <2> QED
    BY <1>2, <2>1, WriteSizes
<1>3. ASSUME Next, \A d \in open_fds, bytes \in Data : ~Write(d, bytes)
      PROVE  size' = size
  BY <1>3 DEF Next, Open, OpenMissing, Close, Seek, Read, WriteFails, Ended, vars
<1>4. CASE UNCHANGED vars
  BY <1>1, <1>4 DEF vars
<1> QED
  BY <1>1, <1>2, <1>3, <1>4

LEMMA PositionNext ==
  ASSUME PositionInv, [Next]_vars
  PROVE  PositionInv'
<1> DEFINE D == [fd : Nat, vnode : Vnodes, position : Nat]
<1>1. size' \in [Vnodes -> 0 .. MaxSize] /\ \A v \in Vnodes : size'[v] >= size[v]
  BY NextSizes
<1>2. ASSUME size' = size, open_fds' \subseteq open_fds
      PROVE  PositionInv'
  BY <1>2 DEF PositionInv, PositionWithinFile
<1>3. ASSUME NEW v \in Vnodes, Open(v)
      PROVE  PositionInv'
  <2>1. CASE open_fds' = open_fds
    BY <1>2, <1>3, <2>1 DEF Open
  <2>2. ASSUME NEW id \in 0 .. MaxFd - 1, open_fds' = open_fds \cup {Descriptor(id, v, 0)}
        PROVE  PositionInv'
    <3>1. Descriptor(id, v, 0) \in D /\ 0 <= size[v]
      BY SizesAreWords, FilesAssumption DEF Descriptor, PositionInv
    <3>2. size' = size
      BY <1>3 DEF Open
    <3>3. Descriptor(id, v, 0).position = 0 /\ Descriptor(id, v, 0).vnode = v
      BY DEF Descriptor
    <3> QED
      BY <2>2, <3>1, <3>2, <3>3 DEF PositionInv, PositionWithinFile
  <2> QED
    BY <1>3, <2>1, <2>2 DEF Open
<1>4. CASE OpenMissing \/ Ended \/ UNCHANGED vars
  BY <1>2, <1>4 DEF OpenMissing, Ended, vars
<1>5. ASSUME NEW d \in open_fds, Close(d)
      PROVE  PositionInv'
  BY <1>2, <1>5 DEF Close
<1>6. ASSUME NEW d \in open_fds, NEW offset \in Offsets,
             NEW whence \in {"SEEK_SET", "SEEK_CUR", "SEEK_END"}, Seek(d, offset, whence)
      PROVE  PositionInv'
  <2>1. size' = size
    BY <1>6 DEF Seek
  <2>2. CASE SeekTarget(d, offset, whence) = -1
    BY <1>2, <1>6, <2>1, <2>2 DEF Seek
  <2>3. CASE SeekTarget(d, offset, whence) # -1
    <3>1. SeekTarget(d, offset, whence) \in 0 .. size'[d.vnode]
      BY <2>1, <2>3, SeekTargetInFile
    <3>2. Reposition(d, SeekTarget(d, offset, whence))
      BY <1>6, <2>3 DEF Seek
    <3> QED
      BY <1>1, <3>1, <3>2, RepositionKeepsInv
  <2> QED
    BY <2>2, <2>3
\* Reads and writes, successful or not.
<1>7. ASSUME NEW d \in open_fds, NEW n \in Int, Reposition(d, SeekBy(d, n))
      PROVE  PositionInv'
  <2>1. SeekBy(d, n) \in 0 .. size'[d.vnode]
    BY <1>1, SeekByInFile
  <2> QED
    BY <1>1, <1>7, <2>1, RepositionKeepsInv
<1>8. ASSUME NEW d \in open_fds, NEW n \in Counts, Read(d, n)
      PROVE  PositionInv'
  <2>1. n \in Nat
    BY FilesAssumption
  <2>2. PICK ret \in 0 .. n : Reposition(d, SeekBy(d, ret))
    BY <1>8 DEF Read
  <2> QED
    BY <1>7, <2>1, <2>2
<1>9. ASSUME NEW d \in open_fds, NEW bytes \in Data, Write(d, bytes)
      PROVE  PositionInv'
  BY <1>7, <1>9, FilesAssumption DEF Write
<1>10. ASSUME NEW d \in open_fds, WriteFails(d)
       PROVE  PositionInv'
  BY <1>7, <1>10, SizesAreWords DEF WriteFails
<1> QED
  BY <1>3, <1>4, <1>5, <1>6, <1>8, <1>9, <1>10 DEF Next

THEOREM PositionInvHolds == Spec => []PositionInv
<1>1. PositionInv /\ [Next]_vars => PositionInv'
  BY PositionNext
<1> QED
  BY PositionInit, <1>1, PTL DEF Spec

\* No position of a descriptor is ever behind the end of its file (PositionWithinFile),
\* for every archive, every width of integers that holds the sizes, and every set
\* of offsets, lengths and data: seek's check of the wrapped sum and the clamp in the
\* descriptor are enough.
THEOREM PositionsWithinFiles == Spec => []PositionWithinFile
<1>1. PositionInv => PositionWithinFile
  BY DEF PositionInv
<1> QED
  BY PositionInvHolds, <1>1, PTL

\* No call shortens a file (NeverShorter): from a position within the file the
\* driver's unsigned difference cannot wrap around.
THEOREM FilesNeverShorter == Spec => NeverShorter
<1>1. PositionInv /\ [Next]_vars => [\A v \in Vnodes : size'[v] >= size[v]]_vars
  BY NextSizes
<1> QED
  BY PositionInvHolds, <1>1, PTL DEF Spec, NeverShorter

(***************************************************************************)
(* Numbers of descriptors.                                                 *)
(***************************************************************************)
LEMMA DistinctNext ==
  ASSUME PositionInv, DescriptorsDistinct, [Next]_vars
  PROVE  DescriptorsDistinct'
<1>1. ASSUME open_fds' \subseteq open_fds
      PROVE  DescriptorsDistinct'
  BY <1>1 DEF DescriptorsDistinct
<1>2. ASSUME NEW d \in open_fds, NEW p, Reposition(d, p)
      PROVE  DescriptorsDistinct'
  <2> DEFINE moved == [d EXCEPT !.position = p]
  <2>1. d \in [fd : Nat, vnode : Vnodes, position : Nat]
    BY DEF PositionInv
  <2>2. moved.fd = d.fd
    BY <2>1
  <2>3. open_fds' = (open_fds \ {d}) \cup {moved}
    BY <1>2 DEF Reposition
  <2> HIDE DEF moved
  <2> QED
    BY <2>2, <2>3 DEF DescriptorsDistinct
<1>3. ASSUME NEW v \in Vnodes, Open(v)
      PROVE  DescriptorsDistinct'
  <2>1. ASSUME NEW id, find_free_fd(id), open_fds' = open_fds \cup {Descriptor(id, v, 0)}
        PROVE  DescriptorsDistinct'
    <3>1. \A d \in open_fds : d.fd # id
      BY <2>1 DEF find_free_fd, Numbers
    <3>2. Descriptor(id, v, 0).fd = id
      BY DEF Descriptor
    <3> QED
      BY <2>1, <3>1, <3>2 DEF DescriptorsDistinct
  <2> QED
    BY <1>1, <1>3, <2>1 DEF Open
<1>4. CASE OpenMissing \/ Ended \/ UNCHANGED vars
  BY <1>1, <1>4 DEF OpenMissing, Ended, vars
<1>5. ASSUME NEW d \in open_fds,
             \/ Close(d)
             \/ \E offset \in Offsets, whence \in {"SEEK_SET", "SEEK_CUR", "SEEK_END"} :
                  Seek(d, offset, whence)
             \/ \E n \in Counts : Read(d, n)
             \/ \E bytes \in Data : Write(d, bytes)
             \/ WriteFails(d)
      PROVE  DescriptorsDistinct'
  BY <1>1, <1>2, <1>5 DEF Close, Seek, Read, Write, WriteFails
<1> QED
  BY <1>3, <1>4, <1>5 DEF Next

\* Open descriptors never share a number (DescriptorsDistinct), whatever is opened
\* and closed: find_free_fd sees every descriptor that is open.
THEOREM DescriptorsAreDistinct == Spec => []DescriptorsDistinct
<1>1. Init => DescriptorsDistinct
  BY DEF Init, DescriptorsDistinct
<1>2. PositionInv /\ DescriptorsDistinct /\ [Next]_vars => DescriptorsDistinct'
  BY DistinctNext
<1> QED
  BY PositionInvHolds, <1>1, <1>2, PTL DEF Spec
(***************************************************************************)
(* The data of the files.  Every inode has one header, so that "the first  *)
(* header of the inode" and "the header that was removed" are the same; it *)
(* holds the contents, and its size field is parsed to no less than them.  *)
(* The second is what SizesReadBack says of ToOctal and ParseSize.         *)
(***************************************************************************)
\* What sizes are written as.
SizeFields ==
  {Padded(n) : n \in 0 .. MaxSize} \cup {ToOctal(n) : n \in 1 .. MaxSize}

\* Memory of files.
Memory == Seq(Bytes \cup {Unknown})

HeaderSet ==
  [name : Range(Names) \cup {Junk}, inode_num : Vnodes, size : SizeFields,
   driver_allocated : BOOLEAN, data : Memory]

WithData(h, m) == [h EXCEPT !.data = m]

\* Header h lets one read the given bytes, and they are there.
Holds(h, bytes) ==
  /\ Len(bytes) <= Len(h.data)
  /\ ParseSize(h.size) \in Len(bytes) .. Word - 1
  /\ \A p \in 1 .. Len(bytes) : h.data[p] = bytes[p]

\* Index i is that of the only header of inode v.
OnlyHeader(hs, v, i) ==
  /\ i \in 1 .. Len(hs)
  /\ hs[i].inode_num = v
  /\ \A j \in 1 .. Len(hs) : hs[j].inode_num = v => j = i

AllHeld(hs, c) ==
  \A v \in Vnodes : \E i \in 1 .. Len(hs) : OnlyHeader(hs, v, i) /\ Holds(hs[i], c[v])

\* The inodes have the sizes of what should be in the files, whatever the driver did.
ContentInv ==
  /\ content \in [Vnodes -> Seq(Bytes)]
  /\ \A v \in Vnodes : size[v] = Len(content[v])

IntactInv ==
  /\ ContentInv
  /\ ~mixed_up /\ Running => headers \in Seq(HeaderSet) /\ AllHeld(headers, content)

\* The only header of an inode is the first one.
LEMMA OnlyIsFirst ==
  ASSUME NEW hs, Len(hs) \in Nat, NEW v, NEW i, OnlyHeader(hs, v, i)
  PROVE  get_header_by_inode(hs, v) = i
<1> DEFINE I == {j \in 1 .. Len(hs) : hs[j].inode_num = v}
<1>1. I = {i} /\ i \in Int
  BY DEF OnlyHeader
<1>2. get_header_by_inode(hs, v) = IF I # {} THEN Min(I) ELSE 0
  BY DEF get_header_by_inode, SelectInSeq
<1> HIDE DEF I
<1>3. Min(I) = i
  BY <1>1 DEF Min
<1> QED
  BY <1>1, <1>2, <1>3

\* Whole blocks are as long as what is put into them.
LEMMA RoundUpNotLess ==
  ASSUME NEW n \in Nat
  PROVE  RoundUp(n) \in Nat /\ n <= RoundUp(n)
<1>1. Block \in Nat \ {0}
  BY FilesAssumption
<1> DEFINE m == n + Block - 1
           q == m \div Block
<1>2. m \in Nat
  BY <1>1
<1> HIDE DEF m
<1>3. q \in Nat /\ q * Block + Block > m
  BY <1>1, <1>2, SMTT(60)
<1> HIDE DEF q
<1>4. q * Block \in Nat
  BY <1>1, <1>3, SMTT(60)
<1>5. RoundUp(n) = q * Block
  BY DEF RoundUp, m, q
<1> DEFINE r == q * Block
<1>6. m = n + Block - 1
  BY DEF m
<1> HIDE DEF r
<1> QED
  <2>1. r \in Nat /\ r + Block > m /\ RoundUp(n) = r
    BY <1>3, <1>4, <1>5 DEF r
  <2> QED
    BY <1>1, <1>6, <2>1

\* What is read of a header that holds the bytes is the bytes.
LEMMA HeldIsRead ==
  ASSUME NEW h \in HeaderSet, NEW bytes \in Seq(Bytes), Holds(h, bytes)
  PROVE  ReadBytes(h, Len(bytes)) = bytes
<1> DEFINE n == Len(bytes)
           q == ParseSize(h.size)
<1>1. n \in Nat /\ q \in Int /\ n <= q
  <2>1. n \in Nat
    OBVIOUS
  <2>2. q \in n .. Word - 1
    BY DEF Holds
  <2>3. Word \in Nat
    BY SizesAreWords
  <2> HIDE DEF n, q
  <2> QED
    BY <2>1, <2>2, <2>3
<1>2. ReadCount(h, n) = Min({n, q})
  BY DEF ReadCount
<1>3. n <= Len(h.data) /\ \A p \in 1 .. n : h.data[p] = bytes[p]
  BY DEF Holds
<1>4. Len(h.data) \in Nat
  <2>1. h.data \in Seq(Bytes \cup {Unknown})
    BY DEF HeaderSet, Memory
  <2> QED
    BY <2>1
<1>5. bytes = [p \in 1 .. n |-> bytes[p]]
  OBVIOUS
<1> HIDE DEF n, q
<1>6. Min({n, q}) = n
  BY <1>1 DEF Min
<1>7. ReadBytes(h, n) = [p \in 1 .. n |-> IF p <= Len(h.data) THEN h.data[p] ELSE Unknown]
  BY <1>2, <1>6 DEF ReadBytes
<1>8. \A p \in 1 .. n : p <= Len(h.data) /\ h.data[p] = bytes[p]
  BY <1>1, <1>3, <1>4
<1>9. ReadBytes(h, n) = bytes
  BY <1>5, <1>7, <1>8
<1> QED
  BY <1>9 DEF n

\* The header of a file is dropped and a new one appended.
LEMMA RemoveAtLen ==
  ASSUME NEW S, NEW s \in Seq(S), NEW i \in 1 .. Len(s), NEW h \in S
  PROVE  LET t == Append(RemoveAt(s, i), h)
         IN  /\ t \in Seq(S)
             /\ Len(t) = Len(s)
             /\ t[Len(s)] = h
             /\ \A p \in 1 .. Len(s) - 1 : t[p] = IF p < i THEN s[p] ELSE s[p + 1]
<1> DEFINE a == SubSeq(s, 1, i - 1)
           b == SubSeq(s, i + 1, Len(s))
           r == a \o b
           t == Append(r, h)
<1>1. Len(s) \in Nat /\ i \in Int /\ 1 <= i /\ i <= Len(s)
  OBVIOUS
<1>2. a \in Seq(S) /\ Len(a) = i - 1 /\ \A p \in 1 .. i - 1 : a[p] = s[p]
  BY <1>1
<1>3. b \in Seq(S) /\ Len(b) = Len(s) - i /\ \A p \in 1 .. Len(s) - i : b[p] = s[p + i]
  BY <1>1
<1> HIDE DEF a, b
<1>4. r \in Seq(S) /\ Len(r) = Len(s) - 1
  <2>1. a \in Seq(S) /\ b \in Seq(S)
    BY <1>2, <1>3
  <2>2. r \in Seq(S) /\ Len(r) = Len(a) + Len(b)
    BY <2>1
  <2> QED
    BY <1>1, <1>2, <1>3, <2>2
<1>5. ASSUME NEW p \in 1 .. Len(s) - 1
      PROVE  r[p] = IF p < i THEN s[p] ELSE s[p + 1]
  <2>1. CASE p < i
    BY <1>1, <1>2, <1>3, <2>1
  <2>2. CASE p >= i
    <3>1. r[p] = b[p - (i - 1)] /\ p - (i - 1) \in 1 .. Len(s) - i
      BY <1>1, <1>2, <1>3, <2>2
    <3>2. p - (i - 1) + i = p + 1
      BY <1>1
    <3> QED
      BY <1>1, <1>3, <2>2, <3>1, <3>2
  <2>3. p < i \/ p >= i
    BY <1>1
  <2> QED
    BY <2>1, <2>2, <2>3
<1>6. t = Append(RemoveAt(s, i), h)
  BY DEF RemoveAt, a, b
<1> HIDE DEF r
<1>7. t \in Seq(S) /\ Len(t) = Len(s) /\ t[Len(s)] = h
  BY <1>1, <1>4
<1>8. \A p \in 1 .. Len(s) - 1 : t[p] = r[p]
  BY <1>1, <1>4
<1> HIDE DEF t
<1> QED
  BY <1>5, <1>6, <1>7, <1>8

\* A header is changed in its place, to hold other bytes.
LEMMA ReplacedHeld ==
  ASSUME NEW hs \in Seq(HeaderSet), NEW c \in [Vnodes -> Seq(Bytes)], AllHeld(hs, c),
         NEW v \in Vnodes, NEW i, OnlyHeader(hs, v, i),
         NEW h \in HeaderSet, h.inode_num = v, NEW bytes, Holds(h, bytes),
         NEW ks, ks = [hs EXCEPT ![i] = h]
  PROVE  ks \in Seq(HeaderSet) /\ AllHeld(ks, [c EXCEPT ![v] = bytes])
<1>1. i \in 1 .. Len(hs) /\ Len(hs) \in Nat
  BY DEF OnlyHeader
<1>2. ks \in Seq(HeaderSet) /\ Len(ks) = Len(hs)
  BY <1>1
<1>3. \A j \in 1 .. Len(hs) : ks[j] = IF j = i THEN h ELSE hs[j]
  BY <1>1
<1>4. \A j \in 1 .. Len(hs) : ks[j].inode_num = hs[j].inode_num
  BY <1>3 DEF OnlyHeader
<1>5. ASSUME NEW w \in Vnodes
      PROVE  \E k \in 1 .. Len(ks) :
               OnlyHeader(ks, w, k) /\ Holds(ks[k], [c EXCEPT ![v] = bytes][w])
  <2>1. PICK k \in 1 .. Len(hs) : OnlyHeader(hs, w, k) /\ Holds(hs[k], c[w])
    BY DEF AllHeld
  <2>2. OnlyHeader(ks, w, k)
    BY <1>2, <1>4, <2>1 DEF OnlyHeader
  <2>3. CASE w = v
    <3>1. k = i
      BY <2>1, <2>3 DEF OnlyHeader
    <3>2. ks[k] = h /\ [c EXCEPT ![v] = bytes][w] = bytes
      BY <1>3, <2>3, <3>1
    <3> QED
      BY <1>2, <2>2, <3>2
  <2>4. CASE w # v
    <3>1. k # i
      BY <2>1, <2>4 DEF OnlyHeader
    <3>2. ks[k] = hs[k] /\ [c EXCEPT ![v] = bytes][w] = c[w]
      BY <1>3, <2>4, <3>1
    <3> QED
      BY <1>2, <2>1, <2>2, <3>2
  <2> QED
    BY <2>3, <2>4
<1> QED
  BY <1>2, <1>5 DEF AllHeld

\* A header is dropped, and one that holds other bytes of its inode is appended.
LEMMA RenewedHeld ==
  ASSUME NEW hs \in Seq(HeaderSet), NEW c \in [Vnodes -> Seq(Bytes)], AllHeld(hs, c),
         NEW v \in Vnodes, NEW i, OnlyHeader(hs, v, i),
         NEW h \in HeaderSet, h.inode_num = v, NEW bytes, Holds(h, bytes),
         NEW ks, ks = Append(RemoveAt(hs, i), h)
  PROVE  /\ ks \in Seq(HeaderSet)
         /\ OnlyHeader(ks, v, Len(ks))
         /\ AllHeld(ks, [c EXCEPT ![v] = bytes])
<1> DEFINE n == Len(hs)
<1>1. i \in 1 .. n /\ n \in Nat
  BY DEF OnlyHeader
<1>2. /\ ks \in Seq(HeaderSet) /\ Len(ks) = n /\ ks[n] = h
      /\ \A p \in 1 .. n - 1 : ks[p] = IF p < i THEN hs[p] ELSE hs[p + 1]
  BY <1>1, RemoveAtLen
<1> HIDE DEF n
\* Where the header at index p comes from, if it is an old one.
<1> DEFINE from(p) == IF p < i THEN p ELSE p + 1
<1>3. ASSUME NEW p \in 1 .. n - 1
      PROVE  from(p) \in 1 .. n /\ from(p) # i /\ ks[p] = hs[from(p)]
  BY <1>1, <1>2
<1>4. \A p, q \in 1 .. n - 1 : from(p) = from(q) => p = q
  BY <1>1
<1>5. \A k \in 1 .. n : k # i => \E p \in 1 .. n - 1 : from(p) = k
  <2> SUFFICES ASSUME NEW k \in 1 .. n, k # i
               PROVE  \E p \in 1 .. n - 1 : from(p) = k
    OBVIOUS
  <2>1. CASE k < i
    <3>1. k \in 1 .. n - 1 /\ from(k) = k
      BY <1>1, <2>1
    <3> QED
      BY <3>1
  <2>2. CASE k > i
    <3>1. k - 1 \in 1 .. n - 1 /\ from(k - 1) = k
      BY <1>1, <2>2
    <3> QED
      BY <3>1
  <2> QED
    BY <1>1, <2>1, <2>2
<1>6. \A p \in 1 .. n : p = n \/ p \in 1 .. n - 1
  BY <1>1
<1> HIDE DEF from
<1>7. n \in 1 .. n
  BY <1>1
<1>8. OnlyHeader(ks, v, n)
  <2>1. ASSUME NEW p \in 1 .. n - 1, ks[p].inode_num = v PROVE FALSE
    <3>1. from(p) \in 1 .. n /\ from(p) # i /\ hs[from(p)].inode_num = v
      BY <1>3, <2>1
    <3> QED
      BY <3>1 DEF OnlyHeader, n
  <2> QED
    BY <1>2, <1>6, <1>7, <2>1 DEF OnlyHeader
<1>9. ASSUME NEW w \in Vnodes
      PROVE  \E k \in 1 .. Len(ks) :
               OnlyHeader(ks, w, k) /\ Holds(ks[k], [c EXCEPT ![v] = bytes][w])
  <2>1. CASE w = v
    <3>1. ks[n] = h /\ [c EXCEPT ![v] = bytes][w] = bytes
      BY <1>2, <2>1
    <3> QED
      BY <1>2, <1>7, <1>8, <2>1, <3>1
  <2>2. CASE w # v
    <3>1. PICK k \in 1 .. n : OnlyHeader(hs, w, k) /\ Holds(hs[k], c[w])
      BY DEF AllHeld, n
    <3>2. k # i
      BY <2>2, <3>1 DEF OnlyHeader
    <3>3. PICK p \in 1 .. n - 1 : from(p) = k
      BY <1>5, <3>2
    <3>4. ks[p] = hs[k] /\ p \in 1 .. n
      <4>1. ks[p] = hs[from(p)]
        BY <1>3
      <4>2. p \in 1 .. n
        BY <1>1
      <4> QED
        BY <3>3, <4>1, <4>2
    <3>5. ASSUME NEW q \in 1 .. n, ks[q].inode_num = w PROVE q = p
      <4>1. q # n
        BY <1>2, <2>2, <3>5
      <4>2. q \in 1 .. n - 1
        BY <1>6, <4>1
      <4>3. from(q) \in 1 .. n /\ hs[from(q)].inode_num = w
        BY <1>3, <3>5, <4>2
      <4>4. from(q) = k
        BY <3>1, <4>3 DEF OnlyHeader, n
      <4> QED
        BY <1>4, <3>3, <4>2, <4>4
    <3>6. OnlyHeader(ks, w, p)
      BY <1>2, <3>1, <3>4, <3>5 DEF OnlyHeader
    <3>7. [c EXCEPT ![v] = bytes][w] = c[w]
      BY <2>2
    <3> QED
      BY <1>2, <3>1, <3>4, <3>6, <3>7
  <2> QED
    BY <2>1, <2>2
<1> QED
  BY <1>2, <1>8, <1>9 DEF AllHeld

\* memcpy within a piece of memory.
LEMMA OverwrittenMemory ==
  ASSUME NEW m \in Memory, NEW bytes \in Memory,
         NEW offset \in Nat
  PROVE  LET o == Overwritten(m, offset, bytes)
         IN  /\ o \in Memory
             /\ Len(o) = Len(m)
             /\ \A p \in 1 .. Len(m) :
                  o[p] = IF p > offset /\ p <= offset + Len(bytes)
                         THEN bytes[p - offset] ELSE m[p]
<1> DEFINE B == Bytes \cup {Unknown}
           n == Len(m)
           o == Overwritten(m, offset, bytes)
           byte(p) == IF p > offset /\ p <= offset + Len(bytes)
                      THEN bytes[p - offset] ELSE m[p]
<1>1. n \in Nat /\ Len(bytes) \in Nat /\ DOMAIN m = 1 .. n /\ m \in Seq(B) /\ bytes \in Seq(B)
  BY DEF Memory
<1>2. o = [p \in 1 .. n |-> byte(p)]
  BY <1>1 DEF Overwritten
<1>3. ASSUME NEW p \in 1 .. n PROVE byte(p) \in B
  <2>1. CASE p > offset /\ p <= offset + Len(bytes)
    <3>1. p - offset \in 1 .. Len(bytes)
      BY <1>1, <2>1
    <3>2. bytes[p - offset] \in B
      BY <1>1, <3>1
    <3> QED
      BY <2>1, <3>2
  <2>2. CASE ~(p > offset /\ p <= offset + Len(bytes))
    BY <1>1, <2>2
  <2> QED
    BY <2>1, <2>2
<1> HIDE DEF o, byte, B
<1>4. o \in Seq(B) /\ Len(o) = n
  BY <1>1, <1>2, <1>3
<1>5. \A p \in 1 .. n : o[p] = byte(p)
  BY <1>2
<1> QED
  BY <1>4, <1>5 DEF o, byte, B, Memory

LEMMA MemoryLen ==
  ASSUME NEW m \in Memory
  PROVE  Len(m) \in Nat
BY DEF Memory

LEMMA BytesAreMemory ==
  ASSUME NEW bytes \in Seq(Bytes)
  PROVE  bytes \in Memory
BY DEF Memory

\* A write at a position within the file leaves no gap in it.
LEMMA UpdatedBytes ==
  ASSUME NEW before \in Seq(Bytes), NEW bytes \in Seq(Bytes),
         NEW offset \in 0 .. Len(before)
  PROVE  LET after == Updated(before, offset, bytes)
         IN  /\ after \in Seq(Bytes)
             /\ Len(after) = IF offset + Len(bytes) > Len(before)
                             THEN offset + Len(bytes) ELSE Len(before)
             /\ \A p \in 1 .. Len(after) :
                  after[p] = IF p > offset /\ p <= offset + Len(bytes)
                             THEN bytes[p - offset] ELSE before[p]
<1> DEFINE m == Len(before)
           n == IF offset + Len(bytes) > m THEN offset + Len(bytes) ELSE m
           after == Updated(before, offset, bytes)
           byte(p) == IF p > offset /\ p <= offset + Len(bytes)
                      THEN bytes[p - offset] ELSE before[p]
<1>1. m \in Nat /\ Len(bytes) \in Nat /\ offset \in Nat /\ offset <= m
  OBVIOUS
<1>2. n \in Nat /\ m <= n /\ offset + Len(bytes) <= n /\ (n = m \/ n = offset + Len(bytes))
  BY <1>1
<1>3. Max({m, offset + Len(bytes)}) = n
  <2> DEFINE e == offset + Len(bytes)
  <2>1. e \in Int /\ e <= n /\ (n = m \/ n = e)
    BY <1>1, <1>2
  <2> HIDE DEF e, n, m
  <2> QED
    BY <1>1, <1>2, <2>1 DEF Max, e
<1> HIDE DEF n
<1>4. ASSUME NEW p \in 1 .. n
      PROVE  /\ byte(p) \in Bytes
             /\ byte(p) = IF p > offset /\ p <= offset + Len(bytes) THEN bytes[p - offset]
                        ELSE IF p <= m THEN before[p] ELSE Unknown
  <2>1. CASE p > offset /\ p <= offset + Len(bytes)
    <3>1. p - offset \in 1 .. Len(bytes)
      BY <1>1, <2>1
    <3> QED
      BY <2>1, <3>1
  <2>2. CASE ~(p > offset /\ p <= offset + Len(bytes))
    <3>1. p \in 1 .. m
      BY <1>1, <1>2, <2>2
    <3> QED
      BY <2>2, <3>1
  <2> QED
    BY <2>1, <2>2
<1>5. after = [p \in 1 .. n |-> IF p > offset /\ p <= offset + Len(bytes)
                                THEN bytes[p - offset]
                                ELSE IF p <= m THEN before[p] ELSE Unknown]
  BY <1>3 DEF Updated
<1> HIDE DEF byte, after
<1>6. after = [p \in 1 .. n |-> byte(p)]
  BY <1>4, <1>5
<1>7. after \in Seq(Bytes) /\ Len(after) = n /\ \A p \in 1 .. n : after[p] = byte(p)
  BY <1>2, <1>4, <1>6
<1> QED
  BY <1>7 DEF after, byte, n
\* The first n bytes of a buffer, with nothing known behind the given ones.
Copied(bytes, n) == [p \in 1 .. n |-> IF p <= Len(bytes) THEN bytes[p] ELSE Unknown]

LEMMA CopiedMemory ==
  ASSUME NEW bytes \in Seq(Bytes), NEW n \in Nat
  PROVE  /\ Copied(bytes, n) \in Memory
         /\ Len(Copied(bytes, n)) = n
         /\ \A p \in 1 .. n : p <= Len(bytes) => Copied(bytes, n)[p] = bytes[p]
<1> DEFINE B == Bytes \cup {Unknown}
           byte(p) == IF p <= Len(bytes) THEN bytes[p] ELSE Unknown
           k == Copied(bytes, n)
<1>1. Len(bytes) \in Nat
  OBVIOUS
<1>2. ASSUME NEW p \in 1 .. n PROVE byte(p) \in B
  <2>1. CASE p <= Len(bytes)
    <3>1. p \in 1 .. Len(bytes)
      BY <1>1, <2>1
    <3> QED
      BY <2>1, <3>1
  <2> QED
    BY <2>1
<1>3. k = [p \in 1 .. n |-> byte(p)]
  BY DEF Copied
<1>4. \A p \in 1 .. n : p <= Len(bytes) => byte(p) = bytes[p]
  OBVIOUS
<1> HIDE DEF k, byte, B
<1>5. k \in Seq(B) /\ Len(k) = n /\ \A p \in 1 .. n : k[p] = byte(p)
  BY <1>2, <1>3
<1> QED
  BY <1>4, <1>5 DEF k, B, Memory

\* Replacing the data of a header keeps the rest of it.
LEMMA DataReplaced ==
  ASSUME NEW h \in HeaderSet, NEW m \in Memory
  PROVE  /\ WithData(h, m) \in HeaderSet
         /\ WithData(h, m).inode_num = h.inode_num
         /\ WithData(h, m).size = h.size
         /\ WithData(h, m).data = m
BY DEF HeaderSet, WithData

\* A write within the file puts the data where they should be.
LEMMA ChangedData ==
  ASSUME NEW m \in Memory, NEW before \in Seq(Bytes), NEW bytes \in Seq(Bytes),
         Len(before) <= Len(m), \A p \in 1 .. Len(before) : m[p] = before[p],
         NEW offset \in Nat, offset + Len(bytes) <= Len(before)
  PROVE  LET o == Overwritten(m, offset, bytes)
             after == Updated(before, offset, bytes)
         IN  /\ o \in Memory /\ Len(o) = Len(m)
             /\ Len(after) = Len(before)
             /\ \A p \in 1 .. Len(after) : o[p] = after[p]
<1>1. PICK o : o = Overwritten(m, offset, bytes)
  OBVIOUS
<1>2. PICK after : after = Updated(before, offset, bytes)
  OBVIOUS
<1>3. /\ Len(bytes) \in Nat /\ Len(before) \in Nat /\ Len(m) \in Nat
      /\ offset \in 0 .. Len(before)
  BY MemoryLen
<1>4. bytes \in Memory
  BY BytesAreMemory
<1>5. /\ o \in Memory /\ Len(o) = Len(m)
      /\ \A p \in 1 .. Len(m) : o[p] = IF p > offset /\ p <= offset + Len(bytes)
                                       THEN bytes[p - offset] ELSE m[p]
  BY <1>1, <1>4, OverwrittenMemory
<1>6. /\ Len(after) = IF offset + Len(bytes) > Len(before)
                      THEN offset + Len(bytes) ELSE Len(before)
      /\ \A p \in 1 .. Len(after) :
           after[p] = IF p > offset /\ p <= offset + Len(bytes)
                      THEN bytes[p - offset] ELSE before[p]
  BY <1>2, <1>3, UpdatedBytes
<1>7. Len(after) = Len(before)
  BY <1>3, <1>6
<1>8. \A p \in 1 .. Len(before) : p \in 1 .. Len(m)
  BY <1>3
<1>9. \A p \in 1 .. Len(after) : o[p] = after[p]
  BY <1>5, <1>6, <1>7, <1>8
<1> QED
  BY <1>1, <1>2, <1>5, <1>7, <1>9

\* A write that ends behind the file puts the old data and the new into new memory.
LEMMA MovedData ==
  ASSUME NEW m \in Memory, NEW before \in Seq(Bytes), NEW bytes \in Seq(Bytes),
         NEW offset \in 0 .. Len(before),
         NEW n \in Nat, n = offset + Len(bytes), n > Len(before), n <= Len(m)
  PROVE  LET o == Overwritten(Overwritten(m, 0, Copied(before, n)), offset, bytes)
             after == Updated(before, offset, bytes)
         IN  /\ o \in Memory /\ Len(o) = Len(m)
             /\ Len(after) = n
             /\ \A p \in 1 .. Len(after) : o[p] = after[p]
<1>1. PICK old : old = Copied(before, n)
  OBVIOUS
<1>2. PICK k : k = Overwritten(m, 0, old)
  OBVIOUS
<1>3. PICK o : o = Overwritten(k, offset, bytes)
  OBVIOUS
<1>4. PICK after : after = Updated(before, offset, bytes)
  OBVIOUS
<1>5. /\ Len(bytes) \in Nat /\ Len(before) \in Nat /\ Len(m) \in Nat
      /\ offset \in Nat /\ offset <= Len(before)
  BY MemoryLen
<1>6. bytes \in Memory
  BY BytesAreMemory
<1>7. /\ old \in Memory /\ Len(old) = n
      /\ \A p \in 1 .. n : p <= Len(before) => old[p] = before[p]
  BY <1>1, CopiedMemory
<1>8. /\ k \in Memory /\ Len(k) = Len(m)
      /\ \A p \in 1 .. Len(m) : k[p] = IF p > 0 /\ p <= 0 + Len(old)
                                       THEN old[p - 0] ELSE m[p]
  BY <1>2, <1>7, OverwrittenMemory
<1>9. /\ o \in Memory /\ Len(o) = Len(k)
      /\ \A p \in 1 .. Len(k) : o[p] = IF p > offset /\ p <= offset + Len(bytes)
                                       THEN bytes[p - offset] ELSE k[p]
  BY <1>3, <1>5, <1>6, <1>8, OverwrittenMemory
<1>10. /\ Len(after) = IF offset + Len(bytes) > Len(before)
                       THEN offset + Len(bytes) ELSE Len(before)
       /\ \A p \in 1 .. Len(after) :
            after[p] = IF p > offset /\ p <= offset + Len(bytes)
                       THEN bytes[p - offset] ELSE before[p]
  BY <1>4, UpdatedBytes
<1>11. Len(after) = n
  BY <1>5, <1>10
<1>12. ASSUME NEW p \in 1 .. n
       PROVE  o[p] = after[p]
  <2>1. p \in 1 .. Len(m)
    BY <1>5
  <2>2. CASE p > offset /\ p <= offset + Len(bytes)
    BY <1>8, <1>9, <1>10, <1>11, <2>1, <2>2
  <2>3. CASE ~(p > offset /\ p <= offset + Len(bytes))
    <3>1. p <= Len(before)
      BY <1>5, <2>3
    <3>2. p > 0 /\ p <= 0 + Len(old) /\ p - 0 = p
      BY <1>5, <1>7
    <3>3. k[p] = old[p]
      BY <1>8, <2>1, <3>2
    <3>4. old[p] = before[p]
      BY <1>7, <3>1
    <3>5. o[p] = k[p]
      BY <1>8, <1>9, <2>1, <2>3
    <3>6. after[p] = before[p]
      BY <1>10, <1>11, <2>3
    <3> QED
      BY <3>3, <3>4, <3>5, <3>6
  <2> QED
    BY <2>2, <2>3
<1> QED
  BY <1>1, <1>2, <1>3, <1>4, <1>8, <1>9, <1>11, <1>12

\* The headers after the two kinds of writes hold what they should.
LEMMA ChangedHolds ==
  ASSUME NEW h \in HeaderSet, NEW before \in Seq(Bytes), Holds(h, before),
         NEW bytes \in Seq(Bytes), NEW offset \in Nat,
         offset + Len(bytes) <= Len(before),
         NEW g, g = WithData(h, Overwritten(h.data, offset, bytes))
  PROVE  /\ g \in HeaderSet /\ g.inode_num = h.inode_num
         /\ Holds(g, Updated(before, offset, bytes))
<1>1. PICK m : m = h.data
  OBVIOUS
<1>2. PICK after : after = Updated(before, offset, bytes)
  OBVIOUS
<1>3. PICK o : o = Overwritten(m, offset, bytes)
  OBVIOUS
<1>4. m \in Memory
  BY <1>1 DEF HeaderSet
<1>5. /\ Len(before) <= Len(m) /\ ParseSize(h.size) \in Len(before) .. Word - 1
      /\ \A p \in 1 .. Len(before) : m[p] = before[p]
  BY <1>1 DEF Holds
<1>6. /\ o \in Memory /\ Len(o) = Len(m) /\ Len(after) = Len(before)
      /\ \A p \in 1 .. Len(after) : o[p] = after[p]
  BY <1>2, <1>3, <1>4, <1>5, ChangedData
<1>7. /\ g \in HeaderSet /\ g.inode_num = h.inode_num
      /\ g.size = h.size /\ g.data = o
  BY <1>1, <1>3, <1>6, DataReplaced
<1>8. Holds(g, after)
  BY <1>5, <1>6, <1>7 DEF Holds
<1> QED
  BY <1>2, <1>7, <1>8

LEMMA MovedHolds ==
  ASSUME NEW before \in Seq(Bytes), NEW bytes \in Seq(Bytes),
         NEW offset \in 0 .. Len(before),
         NEW n \in 1 .. MaxSize, n = offset + Len(bytes), n > Len(before),
         NEW h \in HeaderSet, h.size = ToOctal(n), n <= Len(h.data),
         NEW g,
         g = WithData(h, Overwritten(Overwritten(h.data, 0, Copied(before, n)), offset, bytes))
  PROVE  /\ g \in HeaderSet /\ g.inode_num = h.inode_num
         /\ Holds(g, Updated(before, offset, bytes))
<1>1. PICK m : m = h.data
  OBVIOUS
<1>2. PICK after : after = Updated(before, offset, bytes)
  OBVIOUS
<1>3. PICK o : o = Overwritten(Overwritten(m, 0, Copied(before, n)), offset, bytes)
  OBVIOUS
<1>4. m \in Memory /\ n <= Len(m) /\ n \in Nat
  BY <1>1 DEF HeaderSet
<1>5. /\ o \in Memory /\ Len(o) = Len(m) /\ Len(after) = n
      /\ \A p \in 1 .. Len(after) : o[p] = after[p]
  BY <1>2, <1>3, <1>4, MovedData
<1>6. /\ g \in HeaderSet /\ g.inode_num = h.inode_num
      /\ g.size = h.size /\ g.data = o
  BY <1>1, <1>3, <1>5, DataReplaced
<1>7. ParseSize(h.size) \in n .. Word - 1
  <2>1. n \in 0 .. MaxSize /\ n > 0
    BY SizesAreWords
  <2> QED
    BY <2>1, SizesReadBack
<1>8. Holds(g, after)
  BY <1>4, <1>5, <1>6, <1>7 DEF Holds
<1> QED
  BY <1>2, <1>6, <1>8

LEMMA IntactInit == Init => IntactInv
<1> SUFFICES ASSUME Init PROVE IntactInv
  OBVIOUS
<1>1. PICK n \in Nat : Vnodes = 1 .. n /\ n = Len(Archive)
  BY FilesAssumption DEF Vnodes
<1>2. \A v \in Vnodes : Archive[v] \in Seq(Bytes) /\ Len(Archive[v]) \in 0 .. MaxSize
  BY FilesAssumption, SizesAreWords DEF Vnodes
<1>3. Archive = [v \in Vnodes |-> Archive[v]]
  BY FilesAssumption DEF Vnodes
<1>4. ContentInv
  BY <1>2, <1>3 DEF Init, ContentInv
<1> DEFINE head(v) == Header(Names[v], v, Padded(Len(Archive[v])), FALSE, InBlocks(Archive[v]))
<1>5. ASSUME NEW v \in Vnodes
      PROVE  /\ head(v) \in HeaderSet /\ head(v).inode_num = v
             /\ Holds(head(v), Archive[v])
  <2>1. PICK bytes : bytes = Archive[v]
    OBVIOUS
  <2>2. bytes \in Seq(Bytes) /\ Len(bytes) \in 0 .. MaxSize
    BY <1>2, <2>1
  <2>3. PICK r \in Nat : r = RoundUp(Len(bytes)) /\ Len(bytes) <= r
    BY <2>2, RoundUpNotLess
  <2>4. InBlocks(bytes) = Copied(bytes, r)
    BY <2>3 DEF InBlocks, Copied
  <2>5. PICK m : m = InBlocks(bytes)
    OBVIOUS
  <2>6. m \in Memory /\ Len(m) = r /\ \A p \in 1 .. r : p <= Len(bytes) => m[p] = bytes[p]
    BY <2>2, <2>4, <2>5, CopiedMemory
  <2>7. \A p \in 1 .. Len(bytes) : m[p] = bytes[p]
    BY <2>2, <2>3, <2>6
  <2>8. PICK f : f = Padded(Len(bytes))
    OBVIOUS
  <2>9. f \in SizeFields /\ ParseSize(f) \in Len(bytes) .. Word - 1
    <3>1. ParseSize(f) = Len(bytes) /\ Len(bytes) \in 0 .. Word - 1
      BY <2>2, <2>8, SizesReadBack
    <3>2. f \in SizeFields
      BY <2>2, <2>8 DEF SizeFields
    <3> QED
      BY <3>1, <3>2
  <2>10. PICK h : h = Header(Names[v], v, f, FALSE, m)
    OBVIOUS
  <2>11. h \in HeaderSet /\ h.inode_num = v /\ h.size = f /\ h.data = m
    <3>1. Names[v] \in Range(Names)
      BY FilesAssumption DEF Range
    <3> QED
      BY <2>6, <2>9, <2>10, <3>1 DEF Header, HeaderSet
  <2>12. Holds(h, bytes)
    BY <2>3, <2>6, <2>7, <2>9, <2>11 DEF Holds
  <2>13. head(v) = h
    BY <2>1, <2>5, <2>8, <2>10
  <2> HIDE DEF head
  <2> QED
    BY <2>1, <2>11, <2>12, <2>13
<1>6. headers = [v \in 1 .. n |-> head(v)]
  BY <1>1 DEF Init
<1> HIDE DEF head
<1>7. headers \in Seq(HeaderSet) /\ Len(headers) = n
  BY <1>1, <1>5, <1>6
<1>8. \A v \in 1 .. n : headers[v] = head(v)
  BY <1>6
<1>9. \A v \in Vnodes : OnlyHeader(headers, v, v) /\ Holds(headers[v], Archive[v])
  BY <1>1, <1>5, <1>7, <1>8 DEF OnlyHeader
<1>10. AllHeld(headers, Archive)
  BY <1>1, <1>7, <1>9 DEF AllHeld
<1>11. content = Archive
  BY DEF Init
<1> QED
  BY <1>4, <1>7, <1>10, <1>11 DEF IntactInv
\* What should be in the files, and their sizes, after a write.
LEMMA WriteContent ==
  ASSUME ContentInv, size \in [Vnodes -> 0 .. MaxSize], NEW d, InFile(d), NEW bytes, Writable(bytes),
         Write(d, bytes)
  PROVE  ContentInv'
<1> DEFINE v == d.vnode
           offset == d.position
<1>1. PICK before : before = content[v]
  OBVIOUS
<1>2. PICK after : after = Updated(before, offset, bytes)
  OBVIOUS
<1>3. v \in Vnodes /\ offset \in Nat /\ offset <= size[v] /\ size \in [Vnodes -> 0 .. MaxSize]
  BY DEF InFile
<1>4. bytes \in Seq(Bytes) /\ Len(bytes) \in Nat
  BY DEF Writable
<1>5. before \in Seq(Bytes) /\ size[v] = Len(before) /\ Len(before) \in Nat
  BY <1>1, <1>3 DEF ContentInv
<1>6. offset \in 0 .. Len(before)
  BY <1>3, <1>5
<1>7. /\ after \in Seq(Bytes)
      /\ Len(after) = IF offset + Len(bytes) > Len(before)
                      THEN offset + Len(bytes) ELSE Len(before)
  BY <1>2, <1>4, <1>5, <1>6, UpdatedBytes
<1>8. content' = [content EXCEPT ![v] = after]
  BY <1>1, <1>2 DEF Write
<1>9. size' = [size EXCEPT ![v] = Len(after)]
  <2>1. CASE Extends(v, offset, bytes)
    <3>1. size' = [size EXCEPT ![v] = offset + Len(bytes)]
      BY <2>1 DEF Write, WriteExtending, NewSize
    <3>2. offset + Len(bytes) > size[v]
      BY <2>1, ExtendsMeansLonger
    <3>3. Len(after) = offset + Len(bytes)
      BY <1>5, <1>7, <3>2
    <3> QED
      BY <3>1, <3>3
  <2>2. CASE ~Extends(v, offset, bytes)
    <3>1. size' = size
      BY <2>2 DEF Write, WriteInPlace
    <3>2. offset + Len(bytes) <= size[v]
      BY <2>2, NotExtending
    <3>3. Len(after) = size[v]
      BY <1>4, <1>5, <1>6, <1>7, <3>2
    <3> QED
      BY <1>3, <3>1, <3>3
  <2> QED
    BY <2>1, <2>2
<1> HIDE DEF v, offset
<1>10. content' \in [Vnodes -> Seq(Bytes)]
  BY <1>3, <1>7, <1>8 DEF ContentInv
<1>11. \A w \in Vnodes : size'[w] = Len(content'[w])
  BY <1>3, <1>8, <1>9 DEF ContentInv
<1> QED
  BY <1>10, <1>11 DEF ContentInv

\* The headers, after a write that drops no header but the right one.
LEMMA WriteHeaders ==
  ASSUME IntactInv, size \in [Vnodes -> 0 .. MaxSize], NEW d, InFile(d), NEW bytes, Writable(bytes),
         Write(d, bytes),
         ~mixed_up', Running'
  PROVE  headers' \in Seq(HeaderSet) /\ AllHeld(headers', content')
<1>1. PICK v, offset : v = d.vnode /\ offset = d.position
  OBVIOUS
<1>2. PICK hs : hs = headers
  OBVIOUS
<1>3. PICK c : c = content
  OBVIOUS
<1>4. PICK before, after : before = c[v] /\ after = Updated(before, offset, bytes)
  OBVIOUS
<1>5. v \in Vnodes /\ offset \in Nat /\ offset <= size[v]
  BY <1>1 DEF InFile
<1>6. bytes \in Seq(Bytes) /\ Len(bytes) \in Nat
  BY DEF Writable
<1>7. /\ c \in [Vnodes -> Seq(Bytes)]
      /\ before \in Seq(Bytes) /\ size[v] = Len(before) /\ Len(before) \in Nat
  BY <1>3, <1>4, <1>5 DEF IntactInv, ContentInv
<1>8. offset \in 0 .. Len(before)
  BY <1>5, <1>7
<1>9. content' = [c EXCEPT ![v] = after]
  BY <1>1, <1>3, <1>4 DEF Write
<1>10. ~mixed_up /\ Running
  BY DEF Write, WriteExtending, WriteInPlace
<1>11. hs \in Seq(HeaderSet) /\ AllHeld(hs, c)
  BY <1>2, <1>3, <1>10 DEF IntactInv
<1>12. PICK i \in 1 .. Len(hs) : OnlyHeader(hs, v, i) /\ Holds(hs[i], before)
  BY <1>4, <1>5, <1>11 DEF AllHeld
<1>13. get_header_by_inode(hs, v) = i
  <2>1. Len(hs) \in Nat
    BY <1>11
  <2> QED
    BY <1>12, <2>1, OnlyIsFirst
<1>14. PICK h : h = hs[i]
  OBVIOUS
<1>15. h \in HeaderSet /\ h.inode_num = v /\ Holds(h, before)
  BY <1>11, <1>12, <1>14 DEF OnlyHeader
<1>16. ASSUME ~Extends(v, offset, bytes)
       PROVE  headers' \in Seq(HeaderSet) /\ AllHeld(headers', content')
  <2>1. PICK g : g = WithData(h, Overwritten(h.data, offset, bytes))
    OBVIOUS
  <2>2. offset + Len(bytes) <= Len(before)
    BY <1>1, <1>7, <1>16, NotExtending
  <2>3. g \in HeaderSet /\ g.inode_num = v /\ Holds(g, after)
    BY <1>4, <1>5, <1>6, <1>7, <1>15, <2>1, <2>2, ChangedHolds
  <2>4. PICK ks : ks = [hs EXCEPT ![i] = g]
    OBVIOUS
  <2>5. ks \in Seq(HeaderSet) /\ AllHeld(ks, [c EXCEPT ![v] = after])
    BY <1>5, <1>7, <1>11, <1>12, <2>3, <2>4, ReplacedHeld
  <2>6. headers' = [hs EXCEPT ![i].data = Overwritten(@, offset, bytes)]
    BY <1>1, <1>2, <1>13, <1>16 DEF Write, WriteInPlace
  <2>7. headers' = ks
    BY <1>14, <2>1, <2>4, <2>6 DEF WithData
  <2> QED
    BY <1>9, <2>5, <2>7
<1>17. ASSUME Extends(v, offset, bytes)
       PROVE  headers' \in Seq(HeaderSet) /\ AllHeld(headers', content')
  <2>1. PICK n : n = offset + Len(bytes)
    OBVIOUS
  <2>2. n \in Nat /\ n > Len(before)
    BY <1>1, <1>5, <1>6, <1>7, <1>17, <2>1, ExtendsMeansLonger
  <2>3. WriteExtending(v, i, offset, bytes)
    BY <1>1, <1>2, <1>13, <1>17 DEF Write
  <2>4. n <= MaxSize /\ Removed(i) = i
    BY <2>1, <2>3 DEF WriteExtending, NewSize
  <2>5. n \in 1 .. MaxSize
    BY <1>7, <2>2, <2>4, SizesAreWords
  <2>6. PICK m : m = [p \in 1 .. RoundUp(n) |-> Unknown]
    OBVIOUS
  <2>7. m \in Memory
    <3>1. PICK r \in Nat : r = RoundUp(n)
      BY <2>2, RoundUpNotLess
    <3> QED
      BY <2>6, <3>1 DEF Memory
  <2>8. OldData(i, v, n) = Copied(before, n)
    BY <1>2, <1>7, <1>14, <1>15, HeldIsRead DEF OldData, Copied
  <2>9. PICK name \in NameLeft(i, i) :
          LET new == Recreated(i, i, name, n)
              k == get_header_by_inode(new, v)
              copied == Overwritten(new[k].data, 0, OldData(i, v, n))
          IN  IF n > Len(new[k].data)
              THEN status' = "overrun" /\ UNCHANGED headers
              ELSE /\ headers' = [new EXCEPT ![k].data = Overwritten(copied, offset, bytes)]
                   /\ UNCHANGED status
    <3> DEFINE found_at(j, nm, ns) ==
                 LET new == Recreated(i, j, nm, ns)
                     k == get_header_by_inode(new, v)
                     copied == Overwritten(new[k].data, 0, OldData(i, v, ns))
                 IN  IF ns > Len(new[k].data)
                     THEN status' = "overrun" /\ UNCHANGED headers
                     ELSE /\ headers' = [new EXCEPT ![k].data = Overwritten(copied, offset, bytes)]
                          /\ UNCHANGED status
    <3>1. \E nm \in NameLeft(i, Removed(i)) : found_at(Removed(i), nm, NewSize(offset, bytes))
      BY <2>3 DEF WriteExtending
    <3>2. NewSize(offset, bytes) = n
      BY <2>1 DEF NewSize
    <3> HIDE DEF found_at
    <3>3. \E nm \in NameLeft(i, i) : found_at(i, nm, n)
      BY <2>4, <3>1, <3>2
    <3> QED
      BY <3>3 DEF found_at
  <2>10. PICK e : e = Header(name, v, ToOctal(n), TRUE, m)
    OBVIOUS
  <2>11. e \in HeaderSet /\ e.inode_num = v /\ e.size = ToOctal(n) /\ e.data = m
    <3>1. name \in {h.name, Junk}
      BY <1>2, <1>14, <2>9 DEF NameLeft
    <3> QED
      BY <1>5, <1>15, <2>5, <2>7, <2>10, <3>1 DEF Header, HeaderSet, SizeFields
  <2>12. PICK new : new = Recreated(i, i, name, n)
    OBVIOUS
  <2>13. new = Append(RemoveAt(hs, i), e)
    BY <1>2, <1>14, <1>15, <2>6, <2>10, <2>12 DEF Recreated
  <2>14. Holds(e, << >>)
    <3>1. Len(m) \in Nat
      BY <2>7, MemoryLen
    <3>2. ParseSize(e.size) \in 0 .. Word - 1
      <4>1. n \in 0 .. MaxSize /\ n > 0
        BY <2>2, <2>5
      <4>2. ParseSize(e.size) \in n .. Word - 1
        BY <2>11, <4>1, SizesReadBack
      <4> QED
        BY <2>2, <4>2, SizesAreWords
    <3> QED
      BY <2>11, <3>1, <3>2 DEF Holds
  <2>15. PICK k : k = Len(new)
    OBVIOUS
  <2>16. PICK c2 : c2 = [c EXCEPT ![v] = << >>]
    OBVIOUS
  <2>17. new \in Seq(HeaderSet) /\ OnlyHeader(new, v, k) /\ AllHeld(new, c2)
    BY <1>5, <1>7, <1>11, <1>12, <2>11, <2>13, <2>14, <2>15, <2>16, RenewedHeld
  <2>18. new[k] = e
    <3>1. i \in 1 .. Len(hs) /\ Len(new) = Len(hs) /\ new[Len(hs)] = e
      BY <1>11, <1>12, <2>11, <2>13, RemoveAtLen
    <3> QED
      BY <2>15, <3>1
  <2>19. get_header_by_inode(new, v) = k
    <3>1. Len(new) \in Nat
      BY <2>17
    <3> QED
      BY <2>17, <3>1, OnlyIsFirst
  <2>20. PICK g : g = WithData(e, Overwritten(Overwritten(e.data, 0, Copied(before, n)),
                                              offset, bytes))
    OBVIOUS
  <2>21. /\ n <= Len(e.data)
         /\ headers' = [new EXCEPT ![k].data =
                          Overwritten(Overwritten(e.data, 0, Copied(before, n)),
                                      offset, bytes)]
    <3>1. IF n > Len(e.data)
          THEN status' = "overrun" /\ UNCHANGED headers
          ELSE /\ headers' = [new EXCEPT ![k].data =
                               Overwritten(Overwritten(e.data, 0, Copied(before, n)),
                                           offset, bytes)]
               /\ UNCHANGED status
      BY <2>8, <2>9, <2>12, <2>18, <2>19
    <3>2. status' # "overrun"
      BY DEF Running
    <3>3. Len(e.data) \in Nat
      BY <2>7, <2>11, MemoryLen
    <3>4. ~(n > Len(e.data))
      BY <3>1, <3>2
    <3>5. n <= Len(e.data)
      BY <2>2, <3>3, <3>4
    <3> QED
      BY <3>1, <3>4, <3>5
  <2>22. g \in HeaderSet /\ g.inode_num = v /\ Holds(g, after)
    BY <1>4, <1>6, <1>7, <1>8, <2>1, <2>2, <2>5, <2>11, <2>20, <2>21, MovedHolds
  <2>23. PICK ks : ks = [new EXCEPT ![k] = g]
    OBVIOUS
  <2>24. headers' = ks
    BY <2>18, <2>20, <2>21, <2>23 DEF WithData
  <2>25. c2 \in [Vnodes -> Seq(Bytes)]
    <3>1. << >> \in Seq(Bytes)
      OBVIOUS
    <3> QED
      BY <1>7, <2>16, <3>1
  <2>26. ks \in Seq(HeaderSet) /\ AllHeld(ks, [c2 EXCEPT ![v] = after])
    BY <1>5, <2>17, <2>22, <2>23, <2>25, ReplacedHeld
  <2>27. [c2 EXCEPT ![v] = after] = [c EXCEPT ![v] = after]
    BY <1>5, <1>7, <2>16
  <2> QED
    BY <1>9, <2>24, <2>26, <2>27
<1> QED
  BY <1>1, <1>16, <1>17

LEMMA IntactNext ==
  ASSUME PositionInv, IntactInv, [Next]_vars
  PROVE  IntactInv'
<1>1. ASSUME UNCHANGED <<size, driver, content>>, Running' => Running
      PROVE  IntactInv'
  BY <1>1 DEF IntactInv, ContentInv, driver
<1>2. ASSUME NEW d \in open_fds, NEW bytes \in Data, Write(d, bytes)
      PROVE  IntactInv'
  <2>0. InFile(d) /\ Writable(bytes) /\ size \in [Vnodes -> 0 .. MaxSize]
    BY OpenInFile, DataWritable DEF PositionInv
  <2>1. ContentInv'
    BY <1>2, <2>0, WriteContent DEF IntactInv
  <2>2. ~mixed_up' /\ Running' => headers' \in Seq(HeaderSet) /\ AllHeld(headers', content')
    BY <1>2, <2>0, WriteHeaders
  <2> QED
    BY <2>1, <2>2 DEF IntactInv, Running
<1>3. ASSUME NEW v \in Vnodes, Open(v) PROVE IntactInv'
  BY <1>1, <1>3 DEF Open
<1>4. CASE OpenMissing
  BY <1>1, <1>4 DEF OpenMissing
<1>5. CASE Ended \/ UNCHANGED vars
  BY <1>1, <1>5 DEF Ended, vars, driver, Running
<1>6. ASSUME NEW d \in open_fds,
             \/ Close(d)
             \/ \E offset \in Offsets, whence \in {"SEEK_SET", "SEEK_CUR", "SEEK_END"} :
                  Seek(d, offset, whence)
             \/ \E n \in Counts : Read(d, n)
             \/ WriteFails(d)
      PROVE  IntactInv'
  BY <1>1, <1>6 DEF Close, Seek, Read, WriteFails
<1> QED
  BY <1>2, <1>3, <1>4, <1>5, <1>6 DEF Next

\* What is read of the first header of an inode, as far as the inode says, is what
\* should be in the file.
LEMMA IntactIsRead == IntactInv => FilesIntact
<1> SUFFICES ASSUME IntactInv, ~mixed_up, Running, NEW v \in Vnodes
             PROVE  /\ get_header_by_inode(headers, v) # 0
                    /\ size[v] = Len(content[v])
                    /\ ReadBytes(headers[get_header_by_inode(headers, v)], size[v]) = content[v]
  BY DEF FilesIntact
<1>1. PICK hs : hs = headers
  OBVIOUS
<1>2. PICK bytes : bytes = content[v]
  OBVIOUS
<1>3. bytes \in Seq(Bytes) /\ size[v] = Len(bytes)
  BY <1>2 DEF IntactInv, ContentInv
<1>4. hs \in Seq(HeaderSet) /\ Len(hs) \in Nat
  BY <1>1 DEF IntactInv
<1>5. PICK i \in 1 .. Len(hs) : OnlyHeader(hs, v, i) /\ Holds(hs[i], bytes)
  BY <1>1, <1>2 DEF IntactInv, AllHeld
<1>6. get_header_by_inode(hs, v) = i /\ i # 0
  <2>1. get_header_by_inode(hs, v) = i
    BY <1>4, <1>5, OnlyIsFirst
  <2> QED
    BY <1>5, <2>1
<1>7. PICK h : h = hs[i]
  OBVIOUS
<1>8. h \in HeaderSet
  BY <1>4, <1>7
<1>9. ReadBytes(h, Len(bytes)) = bytes
  BY <1>3, <1>5, <1>7, <1>8, HeldIsRead
<1> QED
  BY <1>1, <1>2, <1>3, <1>6, <1>7, <1>9

\* As long as the driver has removed no header but the one it meant, every file can
\* be read whole and as it was written (FilesIntact), for every archive and all data
\* and positions: writes in place and the moves of extended files into new memory,
\* through whatever descriptors, keep one header per inode with the file's data in it.
THEOREM FilesStayIntact == Spec => []FilesIntact
<1>1. PositionInv /\ IntactInv /\ [Next]_vars => IntactInv'
  BY IntactNext
<1> QED
  BY PositionInvHolds, IntactInit, <1>1, IntactIsRead, PTL DEF Spec

(***************************************************************************)
(* Pieces of a path or a line.                                             *)
(***************************************************************************)
Blank == [pieces |-> <<>>, piece |-> <<>>]
Readings == [pieces : Seq(Seq(Bytes)), piece : Seq(Bytes)]

\* One character is read.
LEMMA TakenType ==
  ASSUME NEW t \in Readings, NEW c \in Bytes, NEW delim
  PROVE  Taken(t, c, delim) \in Readings
<1>1. Append(t.pieces, t.piece) \in Seq(Seq(Bytes)) /\ Append(t.piece, c) \in Seq(Bytes)
  BY DEF Readings
<1>2. << >> \in Seq(Bytes)
  OBVIOUS
<1> QED
  BY <1>1, <1>2 DEF Readings, Taken, PieceEnded

\* The readings of the beginnings of s.
TakenSteps(s, delim, f) ==
  /\ f \in [0 .. Len(s) -> Readings]
  /\ f[0] = Blank
  /\ \A n \in 1 .. Len(s) : f[n] = Taken(f[n - 1], s[n], delim)

\* Tokens reads a string one character after the other.
LEMMA TakenExists ==
  ASSUME NEW s \in Seq(Bytes), NEW delim
  PROVE  \E f : TakenSteps(s, delim, f) /\ TakenFrom(s, delim) = f[Len(s)]
<1> DEFINE step == [p \in Readings \X (1 .. Len(s)) |-> Taken(p[1], s[p[2]], delim)]
           Eq(f) == f = [n \in 0 .. Len(s) |->
                           IF n = 0 THEN Blank ELSE Taken(f[n - 1], s[n], delim)]
           f == CHOOSE f : Eq(f)
<1>1. TakenFrom(s, delim) = f[Len(s)]
  BY DEF TakenFrom, Blank
<1>2. Len(s) \in Nat /\ \A n \in 1 .. Len(s) : s[n] \in Bytes
  OBVIOUS
<1>3. step \in [Readings \X (1 .. Len(s)) -> Readings]
  BY <1>2, TakenType
<1>4. Blank \in Readings
  BY DEF Blank, Readings
<1>5. PICK g : Makes(g, Len(s), Readings, Blank, step)
  <2> HIDE DEF step
  <2> QED
    BY <1>2, <1>3, <1>4, Recursion
<1>6. TakenSteps(s, delim, g)
  <2>1. ASSUME NEW n \in 1 .. Len(s) PROVE g[n] = Taken(g[n - 1], s[n], delim)
    <3>1. n - 1 \in 0 .. Len(s) /\ n \in 1 .. Len(s)
      BY <1>2
    <3>2. g[n - 1] \in Readings
      BY <1>5, <3>1 DEF Makes
    <3>3. <<g[n - 1], n>> \in Readings \X (1 .. Len(s))
      BY <3>1, <3>2
    <3>4. step[<<g[n - 1], n>>] = Taken(g[n - 1], s[n], delim)
      BY <3>3
    <3> HIDE DEF step
    <3> QED
      BY <3>4, <1>5 DEF Makes
  <2> HIDE DEF step
  <2> QED
    BY <2>1, <1>5 DEF Makes, TakenSteps
<1>7. Eq(g)
  <2>1. g \in [0 .. Len(s) -> Readings]
    BY <1>6 DEF TakenSteps
  <2>2. ASSUME NEW n \in 0 .. Len(s)
        PROVE  g[n] = IF n = 0 THEN Blank ELSE Taken(g[n - 1], s[n], delim)
    <3>1. n = 0 \/ n \in 1 .. Len(s)
      BY <1>2
    <3> QED
      BY <1>6, <3>1 DEF TakenSteps
  <2> QED
    BY <2>1, <2>2
<1>8. Eq(f)
  <2> HIDE DEF Eq
  <2> QED
    BY <1>7
<1>9. f[0] = Blank /\ \A n \in 1 .. Len(s) : f[n] = Taken(f[n - 1], s[n], delim)
  <2> HIDE DEF f
  <2> QED
    BY <1>8, <1>2
<1>10. ASSUME NEW n \in 0 .. Len(s) PROVE f[n] \in Readings
  <2> DEFINE T == {m \in 0 .. Len(s) : f[m] \notin Readings}
  <2> HIDE DEF f
  <2>1. ASSUME T # {} PROVE FALSE
    <3>1. T \in SUBSET Nat
      BY <1>2
    <3>2. PICK m \in T : \A k \in T : m <= k
      BY <2>1, <3>1, LeastOf
    <3>3. m \in 1 .. Len(s) /\ m - 1 \in 0 .. Len(s) /\ m - 1 \notin T
      BY <3>2, <1>9, <1>4, <1>2
    <3>4. f[m - 1] \in Readings /\ s[m] \in Bytes
      BY <3>3, <1>2
    <3> QED
      BY <3>3, <3>4, <1>9, <3>2, TakenType
  <2> QED
    BY <2>1
<1>11. TakenSteps(s, delim, f)
  <2>1. f = [n \in 0 .. Len(s) |-> f[n]]
    <3> HIDE DEF f
    <3> QED
      BY <1>8
  <2> HIDE DEF f
  <2> QED
    BY <2>1, <1>9, <1>10 DEF TakenSteps
<1> HIDE DEF f
<1> QED
  BY <1>1, <1>11

\* So what it has read is pieces and the piece it is in,
LEMMA TakenInReadings ==
  ASSUME NEW s \in Seq(Bytes), NEW delim
  PROVE  TakenFrom(s, delim) \in Readings
<1>1. PICK f : TakenSteps(s, delim, f) /\ TakenFrom(s, delim) = f[Len(s)]
  BY TakenExists
<1>2. Len(s) \in 0 .. Len(s)
  OBVIOUS
<1> QED
  BY <1>1, <1>2 DEF TakenSteps

\* and of the empty string nothing.
LEMMA TakenEmpty ==
  ASSUME NEW delim
  PROVE  TakenFrom(<< >>, delim) = Blank
<1>1. << >> \in Seq(Bytes) /\ Len(<< >>) = 0
  OBVIOUS
<1>2. PICK f : TakenSteps(<< >>, delim, f) /\ TakenFrom(<< >>, delim) = f[Len(<< >>)]
  BY <1>1, TakenExists
<1> QED
  BY <1>1, <1>2 DEF TakenSteps

\* One character more.
LEMMA TakenAppend ==
  ASSUME NEW s \in Seq(Bytes), NEW c \in Bytes, NEW delim
  PROVE  TakenFrom(Append(s, c), delim) = Taken(TakenFrom(s, delim), c, delim)
<1>1. PICK t : t = Append(s, c)
  OBVIOUS
<1>2. t \in Seq(Bytes) /\ Len(t) = Len(s) + 1 /\ Len(s) \in Nat
  BY <1>1
<1>3. t[Len(s) + 1] = c /\ \A n \in 1 .. Len(s) : t[n] = s[n]
  BY <1>1
<1>4. PICK f : TakenSteps(s, delim, f) /\ TakenFrom(s, delim) = f[Len(s)]
  BY TakenExists
<1>5. PICK g : TakenSteps(t, delim, g) /\ TakenFrom(t, delim) = g[Len(t)]
  BY <1>2, TakenExists
<1>6. f[0] = Blank /\ \A n \in 1 .. Len(s) : f[n] = Taken(f[n - 1], s[n], delim)
  BY <1>4 DEF TakenSteps
<1>7. /\ g[0] = Blank
      /\ \A n \in 1 .. Len(s) : g[n] = Taken(g[n - 1], s[n], delim)
      /\ g[Len(s) + 1] = Taken(g[Len(s)], c, delim)
  <2>1. \A n \in 1 .. Len(s) + 1 : g[n] = Taken(g[n - 1], t[n], delim)
    BY <1>5, <1>2 DEF TakenSteps
  <2>2. Len(s) + 1 \in 1 .. Len(s) + 1 /\ Len(s) + 1 - 1 = Len(s)
    BY <1>2
  <2>3. g[Len(s) + 1] = Taken(g[Len(s)], c, delim)
    BY <2>1, <2>2, <1>3
  <2>4. ASSUME NEW n \in 1 .. Len(s) PROVE g[n] = Taken(g[n - 1], s[n], delim)
    <3>1. n \in 1 .. Len(s) + 1
      BY <1>2
    <3> QED
      BY <2>1, <3>1, <1>3
  <2> QED
    BY <2>3, <2>4, <1>5 DEF TakenSteps
<1> DEFINE T == {n \in 0 .. Len(s) : f[n] # g[n]}
<1>8. T = {}
  <2> SUFFICES ASSUME T # {} PROVE FALSE
    OBVIOUS
  <2>1. T \in SUBSET Nat
    BY <1>2
  <2>2. PICK m \in T : \A k \in T : m <= k
    BY <2>1, LeastOf
  <2>3. m # 0
    BY <2>2, <1>6, <1>7
  <2>4. m \in 1 .. Len(s) /\ m - 1 \in 0 .. Len(s) /\ ~(m <= m - 1)
    BY <2>2, <2>3, <1>2
  <2>5. f[m - 1] = g[m - 1]
    BY <2>2, <2>4
  <2> QED
    BY <2>2, <2>4, <2>5, <1>6, <1>7
<1>9. f[Len(s)] = g[Len(s)]
  <2>1. Len(s) \in 0 .. Len(s)
    BY <1>2
  <2> QED
    BY <2>1, <1>8
<1> QED
  BY <1>1, <1>2, <1>4, <1>5, <1>7, <1>9

\* A string is empty or one with a last character.
LEMMA LastCharacter ==
  ASSUME NEW s \in Seq(Bytes), Len(s) # 0
  PROVE  \E t \in Seq(Bytes), c \in Bytes :
           s = Append(t, c) /\ Len(s) = Len(t) + 1 /\ c = s[Len(s)]
<1>1. Len(s) \in Nat \ {0} /\ s[Len(s)] \in Bytes
  OBVIOUS
<1> DEFINE t == [i \in 1 .. Len(s) - 1 |-> s[i]]
<1>2. t \in Seq(Bytes) /\ Len(t) = Len(s) - 1
  <2>1. PICK n \in Nat : n = Len(s) - 1
    BY <1>1
  <2>2. t = [i \in 1 .. n |-> s[i]] /\ \A i \in 1 .. n : s[i] \in Bytes
    BY <2>1
  <2> HIDE DEF t
  <2>3. t \in Seq(Bytes) /\ Len(t) = n
    BY <2>2
  <2> QED
    BY <2>1, <2>3
<1>3. \A i \in 1 .. Len(s) - 1 : t[i] = s[i]
  BY <1>1
<1> HIDE DEF t
<1>4. s = Append(t, s[Len(s)])
  <2>1. Append(t, s[Len(s)]) \in Seq(Bytes) /\ Len(Append(t, s[Len(s)])) = Len(s)
    BY <1>1, <1>2
  <2>2. \A i \in 1 .. Len(s) : Append(t, s[Len(s)])[i] = s[i]
    BY <1>1, <1>2, <1>3
  <2> QED
    BY <2>1, <2>2
<1> QED
  BY <1>1, <1>2, <1>4

\* A character behind two strings is one behind the second.
LEMMA AppendConcat ==
  ASSUME NEW p \in Seq(Bytes), NEW t \in Seq(Bytes), NEW c \in Bytes
  PROVE  p \o Append(t, c) = Append(p \o t, c)
<1> DEFINE u == Append(t, c)
           q == p \o t
           a == p \o u
           b == Append(q, c)
<1>1. u \in Seq(Bytes) /\ q \in Seq(Bytes)
  OBVIOUS
<1>2. Len(u) = Len(t) + 1 /\ u[Len(t) + 1] = c /\ \A i \in 1 .. Len(t) : u[i] = t[i]
  OBVIOUS
<1>3. /\ Len(q) = Len(p) + Len(t)
      /\ \A i \in 1 .. Len(q) : q[i] = IF i <= Len(p) THEN p[i] ELSE t[i - Len(p)]
  OBVIOUS
<1> HIDE DEF u, q
<1>4. a \in Seq(Bytes) /\ b \in Seq(Bytes)
  BY <1>1
<1>5. /\ Len(a) = Len(p) + Len(u)
      /\ \A i \in 1 .. Len(a) : a[i] = IF i <= Len(p) THEN p[i] ELSE u[i - Len(p)]
  BY <1>1
<1>6. /\ Len(b) = Len(q) + 1
      /\ \A i \in 1 .. Len(b) : b[i] = IF i <= Len(q) THEN q[i] ELSE c
  BY <1>1
<1> HIDE DEF a, b
<1>7. Len(a) = Len(b)
  BY <1>2, <1>3, <1>5, <1>6
<1>8. ASSUME NEW i \in 1 .. Len(a) PROVE a[i] = b[i]
  <2>0. Len(p) \in Nat /\ Len(t) \in Nat /\ Len(a) = Len(p) + Len(t) + 1 /\ i \in Nat /\ i >= 1
        /\ i <= Len(p) + Len(t) + 1 /\ Len(q) = Len(p) + Len(t)
    BY <1>2, <1>3, <1>5
  <2>1. CASE i <= Len(p)
    BY <1>3, <1>5, <1>6, <1>7, <2>0, <2>1
  <2>2. CASE i > Len(p) /\ i <= Len(q)
    <3>1. i - Len(p) \in 1 .. Len(t)
      BY <2>0, <2>2
    <3>2. a[i] = t[i - Len(p)]
      <4>1. u[i - Len(p)] = t[i - Len(p)]
        BY <1>2, <3>1
      <4>2. a[i] = u[i - Len(p)]
        BY <1>5, <2>0, <2>2
      <4> QED
        BY <4>1, <4>2
    <3>3. b[i] = t[i - Len(p)]
      BY <1>3, <1>6, <1>7, <2>0, <2>2, <3>1
    <3> QED
      BY <3>2, <3>3
  <2>3. CASE i > Len(q)
    <3>1. i - Len(p) = Len(t) + 1 /\ ~(i <= Len(p))
      BY <2>0, <2>3
    <3>2. a[i] = c
      BY <1>2, <1>5, <3>1
    <3>3. b[i] = c
      BY <1>6, <1>7, <2>0, <2>3
    <3> QED
      BY <3>2, <3>3
  <2> QED
    BY <2>0, <2>1, <2>2, <2>3
<1>9. a = b
  BY <1>4, <1>7, <1>8
<1> QED
  BY <1>9 DEF a, b, u, q

\* A delimiter in front is skipped.
LEMMA TakenBehindDelim ==
  ASSUME NEW delim \in Bytes
  PROVE  \A s \in Seq(Bytes) : TakenFrom(<<delim>> \o s, delim) = TakenFrom(s, delim)
<1> DEFINE T == {n \in Nat : \E s \in Seq(Bytes) :
                   Len(s) = n /\ TakenFrom(<<delim>> \o s, delim) # TakenFrom(s, delim)}
<1>1. ASSUME T # {} PROVE FALSE
  <2>1. PICK m \in T : \A k \in T : m <= k
    BY <1>1, LeastOf
  <2>2. PICK s \in Seq(Bytes) :
          Len(s) = m /\ TakenFrom(<<delim>> \o s, delim) # TakenFrom(s, delim)
    BY <2>1
  <2>3. CASE m = 0
    <3>1. s = << >>
      BY <2>2, <2>3
    <3>2. <<delim>> \o s = Append(<< >>, delim) /\ << >> \in Seq(Bytes)
      BY <3>1
    <3>3. Taken(Blank, delim, delim) = Blank
      BY DEF Taken, PieceEnded, Blank
    <3> QED
      BY <2>2, <3>1, <3>2, <3>3, TakenAppend, TakenEmpty
  <2>4. CASE m # 0
    <3>1. PICK t \in Seq(Bytes), c \in Bytes : s = Append(t, c) /\ Len(s) = Len(t) + 1
      BY <2>2, <2>4, LastCharacter
    <3>2. Len(t) \in Nat /\ ~(m <= Len(t))
      BY <2>2, <3>1
    <3>3. TakenFrom(<<delim>> \o t, delim) = TakenFrom(t, delim)
      BY <2>1, <3>2
    <3>4. <<delim>> \o s = Append(<<delim>> \o t, c) /\ <<delim>> \o t \in Seq(Bytes)
      BY <3>1
    <3>5. TakenFrom(<<delim>> \o s, delim) = Taken(TakenFrom(<<delim>> \o t, delim), c, delim)
      <4>1. PICK u \in Seq(Bytes) : u = <<delim>> \o t
        BY <3>4
      <4>2. TakenFrom(Append(u, c), delim) = Taken(TakenFrom(u, delim), c, delim)
        BY TakenAppend
      <4> QED
        BY <3>4, <4>1, <4>2
    <3>6. TakenFrom(s, delim) = Taken(TakenFrom(t, delim), c, delim)
      BY <3>1, TakenAppend
    <3> QED
      BY <2>2, <3>3, <3>5, <3>6
  <2> QED
    BY <2>3, <2>4
<1>2. \A s \in Seq(Bytes) : Len(s) \in Nat
  OBVIOUS
<1> QED
  BY <1>1, <1>2

\* Characters that are no delimiters are added to the piece.
LEMMA TakenPlain ==
  ASSUME NEW s \in Seq(Bytes), NEW delim
  PROVE  \A w \in Seq(Bytes) :
           (\A i \in 1 .. Len(w) : w[i] # delim) =>
             TakenFrom(s \o w, delim) =
               [pieces |-> TakenFrom(s, delim).pieces, piece |-> TakenFrom(s, delim).piece \o w]
<1> DEFINE Plain(w) == \A i \in 1 .. Len(w) : w[i] # delim
           Added(w) == [pieces |-> TakenFrom(s, delim).pieces,
                        piece |-> TakenFrom(s, delim).piece \o w]
           T == {n \in Nat : \E w \in Seq(Bytes) :
                   Len(w) = n /\ Plain(w) /\ TakenFrom(s \o w, delim) # Added(w)}
<1>0. PICK r \in Readings : r = TakenFrom(s, delim)
  BY TakenInReadings
<1>1. ASSUME T # {} PROVE FALSE
  <2>1. PICK m \in T : \A k \in T : m <= k
    BY <1>1, LeastOf
  <2>2. PICK w \in Seq(Bytes) : Len(w) = m /\ Plain(w) /\ TakenFrom(s \o w, delim) # Added(w)
    BY <2>1
  <2>3. CASE m = 0
    <3>1. w = << >>
      BY <2>2, <2>3
    <3>2. s \o w = s
      BY <3>1
    <3>3. r.piece \o w = r.piece
      BY <3>1 DEF Readings
    <3>4. Added(w) = r
      BY <3>3, <1>0 DEF Readings
    <3> QED
      BY <2>2, <3>2, <3>4, <1>0
  <2>4. CASE m # 0
    <3>1. PICK t \in Seq(Bytes), c \in Bytes :
            w = Append(t, c) /\ Len(w) = Len(t) + 1 /\ c = w[Len(w)]
      BY <2>2, <2>4, LastCharacter
    <3>2. Len(t) \in Nat /\ ~(m <= Len(t))
      BY <2>2, <3>1
    <3>3. Plain(t) /\ c # delim
      BY <2>2, <3>1, <3>2
    <3>4. TakenFrom(s \o t, delim) = Added(t)
      <4>1. Len(t) \notin T
        BY <2>1, <3>2
      <4> HIDE DEF Plain, Added
      <4> QED
        BY <4>1, <3>2, <3>3
    <3>5. s \o w = Append(s \o t, c) /\ s \o t \in Seq(Bytes)
      BY <3>1
    <3>6. TakenFrom(s \o w, delim) = Taken(Added(t), c, delim)
      BY <3>4, <3>5, TakenAppend
    <3>7. Append(r.piece \o t, c) = r.piece \o w
      <4>1. PICK p \in Seq(Bytes) : p = r.piece
        BY DEF Readings
      <4>2. Append(p \o t, c) = p \o Append(t, c)
        BY AppendConcat
      <4> QED
        BY <3>1, <4>1, <4>2
    <3>8. Taken(Added(t), c, delim) = Added(w)
      BY <3>3, <3>7, <1>0 DEF Taken
    <3> QED
      BY <2>2, <3>6, <3>8
  <2> QED
    BY <2>3, <2>4
<1>2. \A w \in Seq(Bytes) : Len(w) \in Nat
  OBVIOUS
<1>3. ASSUME NEW w \in Seq(Bytes), Plain(w) PROVE TakenFrom(s \o w, delim) = Added(w)
  <2> HIDE DEF Plain, Added
  <2> QED
    BY <1>1, <1>2, <1>3
<1> QED
  BY <1>3

\* Pieces are not empty, and no longer than what they are pieces of.
PiecesFit(t, n) ==
  /\ \A i \in 1 .. Len(t.pieces) : Len(t.pieces[i]) \in 1 .. n
  /\ Len(t.piece) \in 0 .. n

\* Neither the end of a piece adds to their length
LEMMA PieceEndedFits ==
  ASSUME NEW t \in Readings, NEW n \in Nat, PiecesFit(t, n)
  PROVE  PieceEnded(t) \in Readings /\ PiecesFit(PieceEnded(t), n)
<1>1. CASE t.piece = << >>
  BY <1>1 DEF PieceEnded
<1>2. CASE t.piece # << >>
  <2>1. t.pieces \in Seq(Seq(Bytes)) /\ t.piece \in Seq(Bytes) /\ << >> \in Seq(Bytes)
    BY DEF Readings
  <2> DEFINE more == Append(t.pieces, t.piece)
  <2>2. more \in Seq(Seq(Bytes))
    BY <2>1
  <2>3. /\ Len(more) = Len(t.pieces) + 1 /\ Len(t.pieces) \in Nat
        /\ more[Len(t.pieces) + 1] = t.piece
        /\ \A i \in 1 .. Len(t.pieces) : more[i] = t.pieces[i]
    BY <2>1
  <2>4. Len(t.piece) # 0 /\ Len(t.piece) \in Nat
    BY <1>2, <2>1
  <2>5. PieceEnded(t) = [pieces |-> more, piece |-> << >>]
    BY <1>2 DEF PieceEnded
  <2> HIDE DEF more
  <2>6. ASSUME NEW i \in 1 .. Len(more) PROVE Len(more[i]) \in 1 .. n
    <3>1. Len(t.piece) \in 1 .. n
      BY <2>4 DEF PiecesFit
    <3>2. i \in 1 .. Len(t.pieces) \/ i = Len(t.pieces) + 1
      BY <2>3
    <3> QED
      BY <2>3, <3>1, <3>2 DEF PiecesFit
  <2>7. Len(<< >>) \in 0 .. n
    OBVIOUS
  <2> QED
    BY <2>1, <2>2, <2>5, <2>6, <2>7 DEF PiecesFit, Readings
<1> QED
  BY <1>1, <1>2

\* nor a character more than itself.
LEMMA TakenFits ==
  ASSUME NEW t \in Readings, NEW c \in Bytes, NEW delim, NEW n \in Nat, PiecesFit(t, n)
  PROVE  PiecesFit(Taken(t, c, delim), n + 1)
<1>1. CASE c = delim
  <2>1. PiecesFit(PieceEnded(t), n) /\ PieceEnded(t) \in Readings
    BY PieceEndedFits
  <2>2. PICK u \in Readings : u = PieceEnded(t)
    BY <2>1
  <2>3. PiecesFit(u, n + 1)
    BY <2>1, <2>2 DEF PiecesFit
  <2> QED
    BY <1>1, <2>2, <2>3 DEF Taken
<1>2. CASE c # delim
  <2>1. t.piece \in Seq(Bytes)
    BY DEF Readings
  <2>2. Len(Append(t.piece, c)) = Len(t.piece) + 1
    BY <2>1
  <2>3. PICK q : q = Append(t.piece, c)
    OBVIOUS
  <2>4. Taken(t, c, delim) = [t EXCEPT !.piece = q]
    BY <1>2, <2>3 DEF Taken
  <2>5. PICK u : u = [t EXCEPT !.piece = q]
    OBVIOUS
  <2>6. u.pieces = t.pieces /\ u.piece = q
    BY <2>5 DEF Readings
  <2>7. PiecesFit(u, n + 1)
    BY <2>1, <2>2, <2>3, <2>6 DEF PiecesFit
  <2> QED
    BY <2>4, <2>5, <2>7
<1> QED
  BY <1>1, <1>2

\* Of a string of n characters no piece is longer than n.
LEMMA TakenFromFits ==
  ASSUME NEW s \in Seq(Bytes), NEW delim
  PROVE  PiecesFit(TakenFrom(s, delim), Len(s))
<1>1. PICK f : TakenSteps(s, delim, f) /\ TakenFrom(s, delim) = f[Len(s)]
  BY TakenExists
<1>2. Len(s) \in Nat /\ \A n \in 1 .. Len(s) : s[n] \in Bytes
  OBVIOUS
<1> DEFINE T == {n \in 0 .. Len(s) : ~PiecesFit(f[n], n)}
<1>3. T = {}
  <2> SUFFICES ASSUME T # {} PROVE FALSE
    OBVIOUS
  <2>1. T \in SUBSET Nat
    BY <1>2
  <2>2. PICK m \in T : \A k \in T : m <= k
    BY <2>1, LeastOf
  <2>3. m # 0
    <3>1. PiecesFit(Blank, 0)
      BY DEF PiecesFit, Blank
    <3> QED
      BY <1>1, <2>2, <3>1 DEF TakenSteps
  <2>4. m \in 1 .. Len(s) /\ m - 1 \in 0 .. Len(s) /\ ~(m <= m - 1) /\ m - 1 + 1 = m
    BY <2>2, <2>3, <1>2
  <2>5. PiecesFit(f[m - 1], m - 1) /\ f[m - 1] \in Readings /\ s[m] \in Bytes
    BY <1>1, <1>2, <2>2, <2>4 DEF TakenSteps
  <2>6. PiecesFit(Taken(f[m - 1], s[m], delim), m - 1 + 1)
    BY <2>4, <2>5, TakenFits
  <2> QED
    BY <1>1, <2>2, <2>4, <2>6 DEF TakenSteps
<1> QED
  BY <1>1, <1>2, <1>3

\* What a string is split into: pieces that are not empty and no longer than the string.
LEMMA TokensType ==
  ASSUME NEW s \in Seq(Bytes), NEW delim
  PROVE  /\ Tokens(s, delim) \in Seq(Seq(Bytes))
         /\ \A i \in 1 .. Len(Tokens(s, delim)) : Len(Tokens(s, delim)[i]) \in 1 .. Len(s)
<1>1. PICK t \in Readings : t = TakenFrom(s, delim)
  BY TakenInReadings
<1>2. Len(s) \in Nat /\ PiecesFit(t, Len(s))
  BY <1>1, TakenFromFits
<1>3. PieceEnded(t) \in Readings /\ PiecesFit(PieceEnded(t), Len(s))
  BY <1>2, PieceEndedFits
<1> QED
  BY <1>1, <1>3 DEF Tokens, PiecesFit, Readings

Plain(w, delim) == w \in Seq(Bytes) /\ w # << >> /\ \A i \in 1 .. Len(w) : w[i] # delim

\* The last piece of a string that does not end in a delimiter.
LEMMA TokensLast ==
  ASSUME NEW s \in Seq(Bytes), NEW delim \in Bytes, NEW w, Plain(w, delim)
  PROVE  Tokens(Append(s, delim) \o w, delim) = Append(Tokens(s, delim), w)
<1>1. PICK u \in Seq(Bytes) : u = Append(s, delim)
  <2>1. Append(s, delim) \in Seq(Bytes)
    OBVIOUS
  <2> QED
    BY <2>1
<1>2. PICK t \in Readings : t = TakenFrom(s, delim)
  BY TakenInReadings
<1>3. TakenFrom(u, delim) = PieceEnded(t)
  BY <1>1, <1>2, TakenAppend DEF Taken
<1>4. PieceEnded(t).piece = << >>
  BY DEF PieceEnded
<1>5. TakenFrom(u \o w, delim) = [pieces |-> PieceEnded(t).pieces, piece |-> w]
  <2>1. TakenFrom(u \o w, delim) = [pieces |-> TakenFrom(u, delim).pieces,
                                    piece |-> TakenFrom(u, delim).piece \o w]
    BY TakenPlain DEF Plain
  <2>2. << >> \o w = w
    BY DEF Plain
  <2> QED
    BY <1>3, <1>4, <2>1, <2>2
<1>6. w # << >>
  BY DEF Plain
<1> QED
  BY <1>1, <1>2, <1>5, <1>6 DEF Tokens, PieceEnded

\* A string without delimiters is one piece,
LEMMA TokensOne ==
  ASSUME NEW delim, NEW w, Plain(w, delim)
  PROVE  Tokens(w, delim) = <<w>>
<1>1. << >> \in Seq(Bytes) /\ << >> \o w = w /\ w \in Seq(Bytes) /\ w # << >>
  BY DEF Plain
<1>2. TakenFrom(<< >> \o w, delim) = [pieces |-> TakenFrom(<< >>, delim).pieces,
                                      piece |-> TakenFrom(<< >>, delim).piece \o w]
  BY <1>1, TakenPlain DEF Plain
<1>3. TakenFrom(w, delim) = [pieces |-> << >>, piece |-> w]
  BY <1>1, <1>2, TakenEmpty DEF Blank
<1>4. Append(<< >>, w) = <<w>>
  OBVIOUS
<1> QED
  BY <1>1, <1>3, <1>4 DEF Tokens, PieceEnded

\* and the empty string is none.
LEMMA TokensNone ==
  ASSUME NEW delim
  PROVE  Tokens(<< >>, delim) = << >>
BY TakenEmpty DEF Tokens, PieceEnded, Blank

\* A delimiter behind a string adds no piece,
LEMMA TokensTrailing ==
  ASSUME NEW s \in Seq(Bytes), NEW delim \in Bytes
  PROVE  Tokens(Append(s, delim), delim) = Tokens(s, delim)
<1>1. TakenFrom(Append(s, delim), delim) = PieceEnded(TakenFrom(s, delim))
  BY TakenAppend DEF Taken
<1> QED
  BY <1>1 DEF Tokens, PieceEnded

\* nor one in front of it.
LEMMA TokensLeading ==
  ASSUME NEW s \in Seq(Bytes), NEW delim \in Bytes
  PROVE  Tokens(<<delim>> \o s, delim) = Tokens(s, delim)
BY TakenBehindDelim DEF Tokens

(***************************************************************************)
(* The names of the archive's entries.                                     *)
(***************************************************************************)
\* What Max and Min of the community modules choose.
LEMMA GreatestOf ==
  ASSUME NEW n \in Nat, NEW T \in SUBSET (1 .. n), T # {}
  PROVE  Max(T) \in T /\ \A k \in T : k <= Max(T)
<1> DEFINE D == {d \in Nat : n - d \in T}
<1>0. \A k \in T : k \in Nat /\ n - k \in Nat /\ n - (n - k) = k
  OBVIOUS
<1>1. \A k \in T : n - k \in D
  BY <1>0
<1>2. PICK m \in D : \A d \in D : m <= d
  <2>1. D \in SUBSET Nat /\ D # {}
    BY <1>1
  <2> HIDE DEF D
  <2> QED
    BY <2>1, LeastOf
<1>3. PICK k \in T : m = n - k /\ k \in Nat
  <2>1. n - m \in T /\ m \in Nat
    OBVIOUS
  <2>2. m = n - (n - m)
    BY <2>1
  <2> QED
    BY <2>1, <2>2, <1>0
<1>4. ASSUME NEW j \in T PROVE k >= j
  <2>1. m <= n - j /\ j \in Nat
    BY <1>0, <1>1, <1>2
  <2> QED
    BY <2>1, <1>3
<1>5. \E x \in T : \A y \in T : x >= y
  BY <1>4
<1>6. Max(T) \in T /\ \A y \in T : Max(T) >= y
  BY <1>5 DEF Max
<1> QED
  BY <1>6

LEMMA SmallestOf ==
  ASSUME NEW T \in SUBSET Nat, T # {}
  PROVE  Min(T) \in T /\ \A k \in T : Min(T) <= k
<1>1. PICK m \in T : \A k \in T : m <= k
  BY LeastOf
<1>2. \E x \in T : \A y \in T : x <= y
  BY <1>1
<1> QED
  BY <1>2 DEF Min

\* Path p is name w behind the path of its parent.
NamedIn(p, w) ==
  /\ Plain(w, Slash)
  /\ IF parent_path(p) = << >> THEN p = w ELSE p = Append(parent_path(p), Slash) \o w

LEMMA PathSplit ==
  ASSUME NEW p \in Seq(Bytes), p # << >>, p[1] # Slash, p[Len(p)] # Slash, Slash \in Bytes
  PROVE  parent_path(p) \in Seq(Bytes) /\ \E w : NamedIn(p, w)
<1> DEFINE slashes == {i \in DOMAIN p : p[i] = Slash}
           n == Len(p)
<1>1. n \in Nat \ {0} /\ DOMAIN p = 1 .. n /\ \A i \in 1 .. n : p[i] \in Bytes
  OBVIOUS
<1>2. parent_path(p) = IF slashes = {} THEN << >> ELSE SubSeq(p, 1, Max(slashes) - 1)
  BY DEF parent_path
<1>3. CASE slashes = {}
  <2>1. parent_path(p) = << >> /\ << >> \in Seq(Bytes)
    BY <1>2, <1>3
  <2>2. Plain(p, Slash)
    BY <1>1, <1>3 DEF Plain
  <2> QED
    BY <2>1, <2>2 DEF NamedIn
<1>4. CASE slashes # {}
  <2>1. slashes \in SUBSET (1 .. n)
    BY <1>1
  <2> HIDE DEF slashes
  <2>2. PICK m : m = Max(slashes)
    OBVIOUS
  <2>3. m \in slashes /\ \A k \in slashes : k <= m
    BY <1>1, <1>4, <2>1, <2>2, GreatestOf
  <2>4. m \in 1 .. n /\ p[m] = Slash /\ \A i \in 1 .. n : i > m => p[i] # Slash
    BY <2>1, <2>3, <1>1 DEF slashes
  <2>5. m # 1 /\ m # n
    BY <2>4
  <2> HIDE DEF n
  <2>6. PICK k \in Nat \ {0} : k = m - 1
    <3>1. m - 1 \in Nat \ {0}
      BY <2>4, <2>5, <1>1
    <3> QED
      BY <3>1
  <2>7. PICK l \in Nat \ {0} : l = n - m
    <3>1. n - m \in Nat \ {0}
      BY <2>4, <2>5, <1>1
    <3> QED
      BY <3>1
  <2>8. PICK q : q = parent_path(p)
    OBVIOUS
  <2>9. q = SubSeq(p, 1, k)
    BY <1>2, <1>4, <2>2, <2>6, <2>8
  <2>10. q = [i \in 1 .. k |-> p[i]] /\ k <= n
    BY <1>1, <2>4, <2>6, <2>9
  <2>11. \A i \in 1 .. k : p[i] \in Bytes
    BY <1>1, <2>10
  <2>12. q \in Seq(Bytes) /\ Len(q) = k
    BY <2>10, <2>11
  <2>13. PICK w : w = [i \in 1 .. l |-> p[m + i]]
    OBVIOUS
  <2>14. \A i \in 1 .. l : m + i \in 1 .. n /\ m + i > m
    BY <1>1, <2>4, <2>7
  <2>15. \A i \in 1 .. l : p[m + i] \in Bytes /\ p[m + i] # Slash
    BY <1>1, <2>4, <2>14
  <2>16. w \in Seq(Bytes) /\ Len(w) = l
    BY <2>13, <2>15
  <2>17. Plain(w, Slash)
    BY <2>13, <2>15, <2>16, <2>7 DEF Plain
  <2>18. q # << >>
    BY <2>6, <2>12
  <2>19. PICK r : r = Append(q, Slash)
    OBVIOUS
  <2>20. r \in Seq(Bytes)
    BY <2>12, <2>19
  <2>21. Len(r) = m /\ \A i \in 1 .. m : r[i] = p[i]
    <3>1. Len(r) = k + 1 /\ r[k + 1] = Slash /\ \A i \in 1 .. k : r[i] = q[i]
      BY <2>12, <2>19
    <3>2. m = k + 1
      BY <2>4, <2>6, <1>1
    <3>3. ASSUME NEW i \in 1 .. m PROVE r[i] = p[i]
      <4>1. i \in 1 .. k \/ i = k + 1
        BY <3>2
      <4> QED
        BY <4>1, <3>1, <3>2, <2>4, <2>10
    <3> QED
      BY <3>1, <3>2, <3>3
  <2>22. PICK o : o = r \o w
    OBVIOUS
  <2>23. o \in Seq(Bytes)
    BY <2>16, <2>20, <2>22
  <2>24. /\ Len(o) = m + l
         /\ \A i \in 1 .. m + l : o[i] = IF i <= m THEN r[i] ELSE w[i - m]
    <3>1. /\ Len(r \o w) = Len(r) + Len(w)
          /\ \A i \in 1 .. Len(r) + Len(w) :
               (r \o w)[i] = IF i <= Len(r) THEN r[i] ELSE w[i - Len(r)]
      BY <2>16, <2>20
    <3> QED
      BY <3>1, <2>16, <2>21, <2>22
  <2>25. m + l = n
    BY <2>4, <2>7, <1>1
  <2>26. ASSUME NEW i \in 1 .. n PROVE o[i] = p[i]
    <3>1. CASE i <= m
      <4>1. i \in 1 .. m
        BY <3>1, <2>4, <1>1
      <4> QED
        BY <4>1, <3>1, <2>21, <2>24, <2>25
    <3>2. CASE ~(i <= m)
      <4>1. i - m \in 1 .. l /\ m + (i - m) = i
        BY <3>2, <2>4, <2>25, <1>1
      <4>2. w[i - m] = p[i]
        BY <4>1, <2>13
      <4> QED
        BY <3>2, <4>2, <2>24, <2>25
    <3> QED
      BY <3>1, <3>2
  <2>27. o = p
    BY <2>23, <2>24, <2>25, <2>26 DEF n
  <2>28. NamedIn(p, w)
    BY <2>8, <2>17, <2>18, <2>19, <2>22, <2>27 DEF NamedIn
  <2> QED
    BY <2>8, <2>12, <2>28
<1> QED
  BY <1>3, <1>4

\* And it has the pieces of the parent's path, and w.
LEMMA NamedTokens ==
  ASSUME NEW p, parent_path(p) \in Seq(Bytes), NEW w, NamedIn(p, w), Slash \in Bytes
  PROVE  split_path(p) = Append(split_path(parent_path(p)), w)
<1>1. CASE parent_path(p) = << >>
  <2>1. p = w /\ Plain(w, Slash)
    BY <1>1 DEF NamedIn
  <2>2. split_path(p) = <<w>> /\ split_path(parent_path(p)) = << >>
    BY <1>1, <2>1, TokensOne, TokensNone DEF split_path
  <2>3. Append(<< >>, w) = <<w>>
    OBVIOUS
  <2> QED
    BY <2>2, <2>3
<1>2. CASE parent_path(p) # << >>
  BY <1>2, TokensLast DEF NamedIn, split_path
<1> QED
  BY <1>1, <1>2

\* Paths with the same last piece and the same parent are the same.
LEMMA NamesAgree ==
  ASSUME NEW p, NEW q, NEW w, NamedIn(p, w), NamedIn(q, w), parent_path(p) = parent_path(q)
  PROVE  p = q
BY DEF NamedIn

\* The name of an entry, and the path of the directory it is in.
EntryName(v) == CHOOSE w : NamedIn(full_path(v), w)
Folder(v) == parent_path(full_path(v))

\* What full_path makes of the name of an entry; a file of no bytes apart, only the slash
\* behind a directory is cut off.
LEMMA EntryPaths ==
  ASSUME NEW v \in Vnodes
  PROVE  /\ full_path(v) \in Seq(Bytes) /\ full_path(v) # << >>
         /\ full_path(v)[1] # Slash /\ full_path(v)[Len(full_path(v))] # Slash
         /\ ~IsEmptyFile(v) => Paths[v] = full_path(v) \/ Paths[v] = Append(full_path(v), Slash)
<1>1. PICK p \in Seq(Bytes) : p = Paths[v]
  BY MountAssumption
<1>2. p # << >> /\ p[1] # Slash /\ full_path(v) # << >> /\ Last(full_path(v)) # Slash
  BY <1>1, MountAssumption
<1>3. CASE ~IsDir(v)
  <2>1. full_path(v) = p
    BY <1>1, <1>3 DEF full_path
  <2> QED
    BY <1>1, <1>2, <2>1 DEF Last
<1>4. CASE IsDir(v)
  <2>1. PICK t \in Seq(Bytes), c \in Bytes : p = Append(t, c) /\ Len(p) = Len(t) + 1 /\ c = p[Len(p)]
    <3>1. Len(p) # 0
      BY <1>2
    <3> QED
      BY <3>1, LastCharacter
  <2>2. full_path(v) = SubSeq(p, 1, Len(p) - 1)
    BY <1>1, <1>4 DEF full_path, Front
  <2>3. PICK q : q = full_path(v)
    OBVIOUS
  <2>4. q = [i \in 1 .. Len(t) |-> p[i]]
    BY <2>1, <2>2, <2>3
  <2>5. \A i \in 1 .. Len(t) : p[i] = t[i] /\ t[i] \in Bytes
    BY <2>1
  <2>6. q \in Seq(Bytes) /\ Len(q) = Len(t)
    BY <2>4, <2>5
  <2>7. q = t
    BY <2>4, <2>5, <2>6
  <2>8. t # << >> /\ t[Len(t)] # Slash
    BY <1>2, <2>3, <2>7 DEF Last
  <2>9. t[1] # Slash
    <3>1. Len(t) \in Nat \ {0}
      BY <2>8
    <3>2. 1 \in 1 .. Len(t)
      BY <3>1
    <3> QED
      BY <1>2, <2>5, <3>2
  <2>10. ~IsEmptyFile(v) => Paths[v] = Append(t, Slash)
    BY <1>1, <1>4, <2>1 DEF IsEmptyFile, Last
  <2> QED
    BY <2>3, <2>7, <2>8, <2>9, <2>10
<1> QED
  BY <1>3, <1>4

\* The pieces of an entry's path are those of its directory's, and its name.
LEMMA EntryNames ==
  ASSUME NEW v \in Vnodes
  PROVE  /\ NamedIn(full_path(v), EntryName(v)) /\ Folder(v) \in Seq(Bytes)
         /\ split_path(full_path(v)) = Append(split_path(Folder(v)), EntryName(v))
         /\ ~IsEmptyFile(v) => split_path(<<Slash>> \o Paths[v]) = split_path(full_path(v))
<1>1. PICK p \in Seq(Bytes) : p = full_path(v) /\ p # << >> /\ p[1] # Slash /\ p[Len(p)] # Slash
  BY EntryPaths
<1>2. Slash \in Bytes
  BY MountAssumption
<1>3. parent_path(p) \in Seq(Bytes) /\ \E w : NamedIn(p, w)
  BY <1>1, <1>2, PathSplit
<1>4. NamedIn(p, EntryName(v))
  BY <1>1, <1>3 DEF EntryName
<1>5. split_path(p) = Append(split_path(parent_path(p)), EntryName(v))
  BY <1>2, <1>3, <1>4, NamedTokens
<1>6. ASSUME ~IsEmptyFile(v) PROVE split_path(<<Slash>> \o Paths[v]) = split_path(p)
  <2>1. Paths[v] \in Seq(Bytes)
    BY MountAssumption
  <2>2. split_path(<<Slash>> \o Paths[v]) = split_path(Paths[v])
    BY <1>2, <2>1, TokensLeading DEF split_path
  <2>3. Paths[v] = p \/ Paths[v] = Append(p, Slash)
    BY <1>1, <1>6, EntryPaths
  <2>4. split_path(Append(p, Slash)) = split_path(p)
    BY <1>1, <1>2, TokensTrailing DEF split_path
  <2> QED
    BY <2>2, <2>3, <2>4
<1> QED
  BY <1>1, <1>3, <1>4, <1>5, <1>6 DEF Folder

(***************************************************************************)
(* The archive's blocks.                                                   *)
(***************************************************************************)
\* Inodes are numbers from 1 on.
LEMMA VnodesAre ==
  /\ Len(Archive) \in Nat /\ Vnodes = 1 .. Len(Archive)
  /\ \A v \in Vnodes : Len(Archive[v]) \in Nat
<1>1. Archive \in Seq(Seq(Bytes))
  BY FilesAssumption
<1>2. Len(Archive) \in Nat /\ DOMAIN Archive = 1 .. Len(Archive)
  BY <1>1
<1>3. \A v \in 1 .. Len(Archive) : Archive[v] \in Seq(Bytes)
  BY <1>1
<1> QED
  BY <1>2, <1>3 DEF Vnodes

\* The blocks read_header passes are the header and those of the contents.
LEMMA RoundedUp ==
  ASSUME NEW n \in Nat, NEW b \in Nat \ {0}
  PROVE  /\ (n + b - 1) \div b \in Nat
         /\ n \div b + 1 + (IF n % b # 0 THEN 1 ELSE 0) = 1 + (n + b - 1) \div b
<1>1. PICK q \in Nat, r \in Nat : q = n \div b /\ r = n % b
  <2>1. n \div b \in Nat /\ n % b \in Nat
    BY SMTT(60)
  <2> QED
    BY <2>1
<1>2. n = b * q + r /\ r < b
  BY <1>1, SMTT(60)
<1>3. CASE r = 0
  <2>1. n + b - 1 = b * q + (b - 1) /\ b - 1 \in 0 .. b - 1
    BY <1>2, <1>3
  <2>2. (n + b - 1) \div b = q
    BY <2>1, SMTT(60)
  <2> QED
    BY <1>1, <1>3, <2>2
<1>4. CASE r # 0
  <2>1. n + b - 1 = b * (q + 1) + (r - 1) /\ r - 1 \in 0 .. b - 1
    BY <1>2, <1>4
  <2>2. (n + b - 1) \div b = q + 1
    BY <2>1, SMTT(60)
  <2> QED
    BY <1>1, <1>4, <2>2
<1> QED
  BY <1>3, <1>4

\* read_header passes as many blocks as tar has written.
LEMMA BlocksOfEntry ==
  ASSUME NEW v \in Vnodes
  PROVE  DataBlocks(v) \in Nat /\ BlocksOf(Len(Archive[v])) = 1 + DataBlocks(v)
<1>1. PICK n \in Nat : n = Len(Archive[v])
  BY VnodesAre
<1>2. PICK b \in Nat \ {0} : b = Block
  BY FilesAssumption
<1>3. /\ (n + b - 1) \div b \in Nat
      /\ n \div b + 1 + (IF n % b # 0 THEN 1 ELSE 0) = 1 + (n + b - 1) \div b
  BY RoundedUp
<1> QED
  BY <1>1, <1>2, <1>3 DEF DataBlocks, BlocksOf

\* Each entry starts where the one before ends.
LEMMA EndsSteps ==
  /\ Ends \in [0 .. Len(Archive) -> Nat] /\ Ends[0] = 0
  /\ \A v \in Vnodes : Ends[v] = Ends[v - 1] + 1 + DataBlocks(v)
<1> DEFINE N == Len(Archive)
           step == [p \in Nat \X (1 .. N) |-> p[1] + 1 + DataBlocks(p[2])]
           Eq(f) == f = [v \in 0 .. N |-> IF v = 0 THEN 0 ELSE f[v - 1] + 1 + DataBlocks(v)]
<1>1. N \in Nat /\ Vnodes = 1 .. N
  BY VnodesAre
<1>2. \A v \in 1 .. N : DataBlocks(v) \in Nat
  BY <1>1, BlocksOfEntry
<1>3. Ends = CHOOSE f : Eq(f)
  BY DEF Ends
<1> HIDE DEF N
<1>4. step \in [Nat \X (1 .. N) -> Nat]
  BY <1>2
<1>5. PICK g : Makes(g, N, Nat, 0, step)
  <2> HIDE DEF step
  <2> QED
    BY <1>1, <1>4, Recursion
<1>6. g \in [0 .. N -> Nat] /\ g[0] = 0
  BY <1>5 DEF Makes
<1>7. ASSUME NEW v \in 1 .. N PROVE g[v] = g[v - 1] + 1 + DataBlocks(v)
  <2>1. v - 1 \in 0 .. N
    BY <1>1
  <2>2. <<g[v - 1], v>> \in Nat \X (1 .. N)
    BY <1>6, <2>1
  <2>3. step[<<g[v - 1], v>>] = g[v - 1] + 1 + DataBlocks(v)
    BY <2>2
  <2> HIDE DEF step
  <2> QED
    BY <1>5, <2>3 DEF Makes
<1>8. Eq(g)
  <2>1. ASSUME NEW v \in 0 .. N
        PROVE  g[v] = IF v = 0 THEN 0 ELSE g[v - 1] + 1 + DataBlocks(v)
    <3>1. v = 0 \/ v \in 1 .. N
      BY <1>1
    <3> QED
      BY <1>6, <1>7, <3>1
  <2> HIDE DEF step
  <2> QED
    BY <1>6, <2>1
<1>9. Eq(Ends)
  <2> HIDE DEF Eq
  <2> QED
    BY <1>3, <1>8
<1>10. /\ Ends = [v \in 0 .. N |-> Ends[v]]
       /\ Ends[0] = 0
       /\ \A v \in 1 .. N : Ends[v] = Ends[v - 1] + 1 + DataBlocks(v)
  <2> HIDE DEF step
  <2>1. Ends = [v \in 0 .. N |-> Ends[v]]
    BY <1>9
  <2>2. \A v \in 0 .. N : Ends[v] = IF v = 0 THEN 0 ELSE Ends[v - 1] + 1 + DataBlocks(v)
    BY <1>9
  <2>3. 0 \in 0 .. N /\ \A v \in 1 .. N : v \in 0 .. N /\ v # 0
    BY <1>1
  <2> QED
    BY <2>1, <2>2, <2>3
<1>11. ASSUME NEW v \in 0 .. N PROVE Ends[v] \in Nat
  <2> DEFINE T == {w \in 0 .. N : Ends[w] \notin Nat}
  <2>1. ASSUME T # {} PROVE FALSE
    <3>1. T \in SUBSET Nat
      BY <1>1
    <3>2. PICK m \in T : \A k \in T : m <= k
      BY <2>1, <3>1, LeastOf
    <3>3. m \in 1 .. N /\ m - 1 \in 0 .. N /\ m - 1 \notin T
      BY <3>2, <1>1, <1>10
    <3>4. Ends[m - 1] \in Nat /\ DataBlocks(m) \in Nat
      BY <3>3, <1>2
    <3>5. Ends[m] = Ends[m - 1] + 1 + DataBlocks(m)
      BY <3>3, <1>10
    <3> QED
      BY <3>2, <3>4, <3>5
  <2> QED
    BY <2>1
<1>12. Ends \in [0 .. N -> Nat]
  BY <1>10, <1>11
<1> QED
  BY <1>1, <1>10, <1>12 DEF N

\* Entries do not start at the same place, or where the archive ends.
LEMMA EndsGrow ==
  ASSUME NEW w \in 0 .. Len(Archive)
  PROVE  \A v \in 0 .. Len(Archive) : v < w => Ends[v] < Ends[w]
<1> DEFINE N == Len(Archive)
           T == {u \in 0 .. N : \E v \in 0 .. N : v < u /\ ~(Ends[v] < Ends[u])}
<1>1. N \in Nat /\ Vnodes = 1 .. N
  BY VnodesAre
<1>2. \A v \in 0 .. N : Ends[v] \in Nat
  BY EndsSteps
<1>3. ASSUME NEW v \in 1 .. N PROVE Ends[v - 1] < Ends[v]
  <2>1. Ends[v] = Ends[v - 1] + 1 + DataBlocks(v) /\ DataBlocks(v) \in Nat
    BY <1>1, EndsSteps, BlocksOfEntry
  <2>2. Ends[v - 1] \in Nat
    BY <1>1, <1>2
  <2> QED
    BY <2>1, <2>2
<1> HIDE DEF N
<1>4. ASSUME T # {} PROVE FALSE
  <2>1. T \in SUBSET Nat
    BY <1>1
  <2>2. PICK u \in T : \A k \in T : u <= k
    BY <1>4, <2>1, LeastOf
  <2>3. PICK v \in 0 .. N : v < u /\ ~(Ends[v] < Ends[u])
    BY <2>2
  <2>4. u \in 1 .. N /\ u - 1 \in 0 .. N /\ u - 1 \notin T
    BY <1>1, <2>2, <2>3
  <2>5. v = u - 1 \/ v < u - 1
    BY <1>1, <2>3, <2>4
  <2>6. v < u - 1 => Ends[v] < Ends[u - 1]
    BY <2>4
  <2> QED
    BY <1>2, <1>3, <2>3, <2>4, <2>5, <2>6
<1> QED
  BY <1>4 DEF N

\* What read_header finds where an entry starts, and behind the last one.
LEMMA EntryBlock ==
  /\ \A v \in Vnodes : ImageBlock(Ends[v - 1]) = v
  /\ ImageBlock(Ends[Len(Archive)]) = ZeroBlock
<1> DEFINE N == Len(Archive)
<1>1. N \in Nat /\ Vnodes = 1 .. N
  BY VnodesAre
<1>2. \A v \in 0 .. N : Ends[v] \in Nat
  BY EndsSteps
<1>3. \A v \in 1 .. N : v - 1 \in 0 .. N /\ v - 1 < N /\ v - 1 \in Int
  BY <1>1
<1>4. \A v, w \in 0 .. N : v < w => Ends[v] < Ends[w]
  BY EndsGrow
<1> HIDE DEF N
<1>5. ASSUME NEW v \in 1 .. N, NEW w \in 1 .. N, Ends[v - 1] = Ends[w - 1]
      PROVE  v = w
  <2>1. ~(v - 1 < w - 1) /\ ~(w - 1 < v - 1)
    BY <1>2, <1>3, <1>4, <1>5
  <2> QED
    BY <1>1, <2>1
<1>6. ASSUME NEW v \in 1 .. N PROVE Ends[v - 1] # Ends[N] /\ Ends[v - 1] - Ends[N] \notin {0, 1}
  <2>1. Ends[v - 1] < Ends[N] /\ Ends[v - 1] \in Nat /\ Ends[N] \in Nat
    BY <1>1, <1>2, <1>3, <1>4
  <2> QED
    BY <2>1
<1>7. ASSUME NEW v \in 1 .. N PROVE ImageBlock(Ends[v - 1]) = v
  <2>1. (CHOOSE w \in Vnodes : Ends[w - 1] = Ends[v - 1]) = v
    BY <1>1, <1>5
  <2>2. \E w \in Vnodes : Ends[w - 1] = Ends[v - 1]
    BY <1>1
  <2>3. Ends[v - 1] - Ends[N] \notin {0, 1}
    BY <1>6
  <2> QED
    BY <2>1, <2>2, <2>3 DEF ImageBlock, N
<1>8. ImageBlock(Ends[N]) = ZeroBlock
  <2>1. ~\E v \in Vnodes : Ends[v - 1] = Ends[N]
    BY <1>1, <1>6
  <2>2. Ends[N] - Ends[N] \in {0, 1}
    <3>1. Ends[N] \in Nat
      BY <1>1, <1>2
    <3> QED
      BY <3>1
  <2> QED
    BY <2>1, <2>2 DEF ImageBlock, N
<1> QED
  BY <1>1, <1>7, <1>8 DEF N

(***************************************************************************)
(* The tree.                                                               *)
(***************************************************************************)
Places == Vnodes \cup {Root}

TreeType ==
  /\ children \in [Places -> Seq(Vnodes)]
  /\ vname \in [Vnodes -> Seq(Bytes)]
  /\ listed \in Seq(Vnodes)

\* The place that entry v is added to: the first of those called as its directory.
Home(v) == IF Folder(v) = << >> THEN Root ELSE FirstCalled(Folder(v))

\* The first k entries of the archive, and no others, are in the tree, each with its
\* name and at its place, in their order.
Built(k) ==
  /\ \A p \in Places : \A i \in 1 .. Len(children[p]) :
       /\ children[p][i] \in 1 .. k /\ Home(children[p][i]) = p
       /\ \A j \in 1 .. i - 1 : children[p][j] < children[p][i]
  /\ \A v \in 1 .. k :
       /\ vname[v] = EntryName(v)
       /\ \E i \in 1 .. Len(children[Home(v)]) : children[Home(v)][i] = v

\* The first entry called as w is one of that name, and no later than w.
LEMMA FirstIsFirst ==
  ASSUME NEW w \in Vnodes
  PROVE  /\ FirstCalled(full_path(w)) \in 1 .. w
         /\ FirstCalled(full_path(w)) \in Vnodes
         /\ full_path(FirstCalled(full_path(w))) = full_path(w)
<1> DEFINE T == {u \in Vnodes : full_path(u) = full_path(w)}
<1>1. Len(Archive) \in Nat /\ Vnodes = 1 .. Len(Archive)
  BY VnodesAre
<1>2. T \in SUBSET Nat /\ T # {} /\ w \in T
  BY <1>1
<1>3. Min(T) \in T /\ \A u \in T : Min(T) <= u
  <2> HIDE DEF T
  <2> QED
    BY <1>2, SmallestOf
<1>4. FirstCalled(full_path(w)) = Min(T)
  BY DEF FirstCalled
<1>5. PICK m : m = Min(T)
  OBVIOUS
<1>6. m \in Vnodes /\ full_path(m) = full_path(w) /\ m <= w
  BY <1>2, <1>3, <1>5
<1>7. m \in 1 .. w
  BY <1>1, <1>6
<1> HIDE DEF T
<1> QED
  BY <1>4, <1>5, <1>6, <1>7

\* The place of an entry has come before it, and tells its directory's path.
LEMMA HomeBefore ==
  ASSUME NEW v \in Vnodes
  PROVE  /\ Home(v) \in Places /\ Home(v) \in 0 .. v - 1
         /\ Home(v) = Root <=> Folder(v) = << >>
         /\ Home(v) # Root => Home(v) \in Vnodes /\ full_path(Home(v)) = Folder(v)
<1>1. Len(Archive) \in Nat /\ Vnodes = 1 .. Len(Archive)
  BY VnodesAre
<1>2. CASE Folder(v) = << >>
  BY <1>1, <1>2 DEF Home, Root, Places
<1>3. CASE Folder(v) # << >>
  <2>1. PICK w \in 1 .. v - 1 : full_path(w) = Folder(v)
    BY <1>3, MountAssumption DEF Folder
  <2>2. w \in Vnodes
    BY <1>1, <2>1
  <2>3. PICK h : h = FirstCalled(full_path(w))
    OBVIOUS
  <2>4. h \in 1 .. w /\ h \in Vnodes /\ full_path(h) = full_path(w)
    BY <2>2, <2>3, FirstIsFirst
  <2>5. Home(v) = h
    BY <1>3, <2>1, <2>3 DEF Home
  <2> QED
    BY <1>1, <1>3, <2>1, <2>4, <2>5 DEF Root, Places
<1> QED
  BY <1>2, <1>3

\* What Child finds is an entry,
LEMMA ChildType ==
  ASSUME TreeType, NEW v \in Places, NEW name
  PROVE  Child(v, name) \in Vnodes \cup {missing}
<1> DEFINE s == children[v]
           I == {i \in 1 .. Len(s) : vname[s[i]] = name}
           k == IF I # {} THEN Min(I) ELSE 0
<1>1. s \in Seq(Vnodes) /\ Len(s) \in Nat /\ \A i \in 1 .. Len(s) : s[i] \in Vnodes
  BY DEF TreeType
<1>2. Child(v, name) = IF k = 0 THEN missing ELSE s[k]
  BY DEF Child, SelectInSeq
<1>3. CASE I # {}
  <2>1. I \in SUBSET Nat
    BY <1>1
  <2>2. Min(I) \in I
    <3> HIDE DEF I
    <3> QED
      BY <1>3, <2>1, SmallestOf
  <2>3. s[Min(I)] \in Vnodes /\ Min(I) # 0
    <3>1. PICK m : m = Min(I)
      OBVIOUS
    <3>2. m \in 1 .. Len(s)
      BY <2>2, <3>1
    <3>3. s[m] \in Vnodes /\ m # 0
      BY <1>1, <3>2
    <3> QED
      BY <3>1, <3>3
  <2> HIDE DEF I, s
  <2> QED
    BY <1>2, <1>3, <2>3
<1>4. CASE I = {}
  BY <1>2, <1>4
<1> QED
  BY <1>3, <1>4

\* and the first one of that name.
LEMMA ChildFound ==
  ASSUME TreeType, NEW v \in Places, NEW name,
         NEW c \in 1 .. Len(children[v]), vname[children[v][c]] = name,
         \A i \in 1 .. Len(children[v]) : vname[children[v][i]] = name => c <= i
  PROVE  Child(v, name) = children[v][c]
<1> DEFINE s == children[v]
           I == {i \in 1 .. Len(s) : vname[s[i]] = name}
           k == IF I # {} THEN Min(I) ELSE 0
<1>1. Len(s) \in Nat
  BY DEF TreeType
<1>2. Child(v, name) = IF k = 0 THEN missing ELSE s[k]
  BY DEF Child, SelectInSeq
<1>3. I # {} /\ I \in SUBSET Nat /\ c \in I /\ \A i \in I : c <= i
  BY <1>1
<1>4. Min(I) \in I /\ \A i \in I : Min(I) <= i
  <2> HIDE DEF I
  <2> QED
    BY <1>3, SmallestOf
<1>5. Min(I) # 0 /\ Min(I) = c
  <2>1. PICK m : m = Min(I)
    OBVIOUS
  <2>2. \A i \in I : i \in Nat /\ i # 0
    BY <1>1
  <2>3. m \in I /\ m <= c /\ c <= m /\ c \in I
    BY <1>3, <1>4, <2>1
  <2> HIDE DEF I
  <2> QED
    BY <2>1, <2>2, <2>3
<1>6. s[c] = children[v][c]
  OBVIOUS
<1> HIDE DEF I, s
<1> QED
  BY <1>2, <1>3, <1>5, <1>6

\* A step of the walk leads to a place or nowhere.
LEMMA StepType ==
  ASSUME TreeType, NEW v \in Places \cup {missing}, NEW name
  PROVE  Step(v, name) \in Places \cup {missing}
BY ChildType DEF Step, Places

\* Where one is after each name.
WalkSteps(names, f) ==
  /\ f \in [0 .. Len(names) -> Places \cup {missing}]
  /\ f[0] = Root
  /\ \A n \in 1 .. Len(names) : f[n] = Step(f[n - 1], names[n])

\* find takes one step for each name.
LEMMA WalkExists ==
  ASSUME TreeType, NEW names \in Seq(Seq(Bytes))
  PROVE  \E f : WalkSteps(names, f) /\ Walk(names) = f[Len(names)]
<1> DEFINE N == Len(names)
           V == Places \cup {missing}
           step == [p \in V \X (1 .. N) |-> Step(p[1], names[p[2]])]
           Eq(f) == f = [n \in 0 .. N |-> IF n = 0 THEN Root ELSE Step(f[n - 1], names[n])]
           f == CHOOSE f : Eq(f)
<1>1. Walk(names) = f[N]
  BY DEF Walk
<1>2. N \in Nat /\ Root \in V
  BY DEF Places
<1> HIDE DEF N
<1>3. step \in [V \X (1 .. N) -> V]
  <2>1. \A v \in V, n \in 1 .. N : Step(v, names[n]) \in V
    BY StepType
  <2> HIDE DEF V
  <2> QED
    BY <2>1
<1>4. PICK g : Makes(g, N, V, Root, step)
  <2>1. PICK st : st = step
    OBVIOUS
  <2> HIDE DEF step, V
  <2>2. st \in [V \X (1 .. N) -> V]
    BY <2>1, <1>3
  <2>3. \E g : Makes(g, N, V, Root, st)
    BY <2>2, <1>2, Recursion
  <2> QED
    BY <2>1, <2>3
<1>5. g \in [0 .. N -> V] /\ g[0] = Root
  BY <1>4 DEF Makes
<1> HIDE DEF V
<1>6. ASSUME NEW n \in 1 .. N PROVE g[n] = Step(g[n - 1], names[n])
  <2>1. n - 1 \in 0 .. N
    BY <1>2
  <2>2. <<g[n - 1], n>> \in V \X (1 .. N)
    BY <1>5, <2>1
  <2>3. step[<<g[n - 1], n>>] = Step(g[n - 1], names[n])
    BY <2>2
  <2> HIDE DEF step
  <2> QED
    BY <1>4, <2>3 DEF Makes
<1> HIDE DEF step
<1>7. Eq(g)
  <2>1. ASSUME NEW n \in 0 .. N
        PROVE  g[n] = IF n = 0 THEN Root ELSE Step(g[n - 1], names[n])
    <3>1. n = 0 \/ n \in 1 .. N
      BY <1>2
    <3> QED
      BY <1>5, <1>6, <3>1
  <2> QED
    BY <1>5, <2>1
<1>8. Eq(f)
  <2> HIDE DEF Eq
  <2> QED
    BY <1>7
<1> HIDE DEF f
<1>9. f = [n \in 0 .. N |-> f[n]]
  BY <1>8
<1>10. f[0] = Root /\ \A n \in 1 .. N : f[n] = Step(f[n - 1], names[n])
  <2>1. \A n \in 0 .. N : f[n] = IF n = 0 THEN Root ELSE Step(f[n - 1], names[n])
    BY <1>8
  <2>2. 0 \in 0 .. N /\ \A n \in 1 .. N : n \in 0 .. N /\ n # 0
    BY <1>2
  <2> QED
    BY <2>1, <2>2
<1> HIDE DEF Eq
<1>11. ASSUME NEW n \in 0 .. N PROVE f[n] \in V
  <2> DEFINE T == {m \in 0 .. N : f[m] \notin V}
  <2>1. ASSUME T # {} PROVE FALSE
    <3>1. PICK T1 : T1 = T
      OBVIOUS
    <3>2. T1 \in SUBSET Nat
      BY <1>2, <3>1
    <3>3. PICK m \in T1 : \A k \in T1 : m <= k
      BY <2>1, <3>1, <3>2, LeastOf
    <3>4. m \in 1 .. N /\ m - 1 \in 0 .. N /\ f[m - 1] \in V
      BY <3>1, <3>3, <1>2, <1>10
    <3>5. Step(f[m - 1], names[m]) \in V
      BY <3>4, StepType DEF V
    <3> QED
      BY <3>1, <3>3, <3>4, <3>5, <1>10
  <2> QED
    BY <2>1
<1>12. WalkSteps(names, f)
  BY <1>9, <1>10, <1>11 DEF WalkSteps, N, V
<1> QED
  BY <1>1, <1>12 DEF N

\* So it comes to a place or nowhere,
LEMMA WalkType ==
  ASSUME TreeType, NEW names \in Seq(Seq(Bytes))
  PROVE  Walk(names) \in Places \cup {missing}
<1>1. PICK f : WalkSteps(names, f) /\ Walk(names) = f[Len(names)]
  BY WalkExists
<1>2. Len(names) \in 0 .. Len(names)
  OBVIOUS
<1> QED
  BY <1>1, <1>2 DEF WalkSteps

\* stays at the root without names,
LEMMA WalkNowhere ==
  ASSUME TreeType
  PROVE  Walk(<< >>) = Root
<1>1. << >> \in Seq(Seq(Bytes)) /\ Len(<< >>) = 0
  OBVIOUS
<1>2. PICK f : WalkSteps(<< >>, f) /\ Walk(<< >>) = f[Len(<< >>)]
  BY <1>1, WalkExists
<1> QED
  BY <1>1, <1>2 DEF WalkSteps

\* and takes the step of a last name from where the others lead.
LEMMA WalkAppend ==
  ASSUME TreeType, NEW names \in Seq(Seq(Bytes)), NEW name \in Seq(Bytes)
  PROVE  Walk(Append(names, name)) = Step(Walk(names), name)
<1>1. PICK more : more = Append(names, name)
  OBVIOUS
<1>2. /\ more \in Seq(Seq(Bytes))
      /\ Len(more) = Len(names) + 1 /\ Len(names) \in Nat
      /\ more[Len(names) + 1] = name /\ \A n \in 1 .. Len(names) : more[n] = names[n]
  <2>1. Append(names, name) \in Seq(Seq(Bytes))
    OBVIOUS
  <2> QED
    BY <1>1, <2>1
<1>3. PICK f : WalkSteps(names, f) /\ Walk(names) = f[Len(names)]
  BY WalkExists
<1>4. PICK g : WalkSteps(more, g) /\ Walk(more) = g[Len(more)]
  BY <1>2, WalkExists
<1> DEFINE N == Len(names)
<1>5. f[0] = Root /\ \A n \in 1 .. N : f[n] = Step(f[n - 1], names[n])
  BY <1>3 DEF WalkSteps
<1>6. /\ g[0] = Root
      /\ \A n \in 1 .. N : g[n] = Step(g[n - 1], names[n])
      /\ g[N + 1] = Step(g[N], name)
  <2>1. \A n \in 1 .. N + 1 : g[n] = Step(g[n - 1], more[n])
    BY <1>2, <1>4 DEF WalkSteps
  <2>2. N + 1 \in 1 .. N + 1 /\ N + 1 - 1 = N /\ \A n \in 1 .. N : n \in 1 .. N + 1
    BY <1>2
  <2>3. g[N + 1] = Step(g[N], name)
    BY <2>1, <2>2, <1>2
  <2>4. \A n \in 1 .. N : g[n] = Step(g[n - 1], names[n])
    BY <2>1, <2>2, <1>2
  <2> QED
    BY <2>3, <2>4, <1>4 DEF WalkSteps
<1>7. ASSUME NEW n \in 0 .. N PROVE f[n] = g[n]
  <2> DEFINE T == {m \in 0 .. N : f[m] # g[m]}
  <2>1. ASSUME T # {} PROVE FALSE
    <3>1. T \in SUBSET Nat
      BY <1>2
    <3>2. PICK m \in T : \A k \in T : m <= k
      BY <2>1, <3>1, LeastOf
    <3>3. m # 0
      BY <1>5, <1>6, <3>2
    <3>4. m \in 1 .. N /\ m - 1 \in 0 .. N /\ ~(m <= m - 1)
      BY <3>2, <3>3, <1>2
    <3>5. f[m - 1] = g[m - 1]
      BY <3>2, <3>4
    <3> QED
      BY <3>2, <3>4, <3>5, <1>5, <1>6
  <2> QED
    BY <2>1
<1>8. f[N] = g[N]
  <2>1. N \in 0 .. N
    BY <1>2
  <2> QED
    BY <2>1, <1>7
<1> QED
  BY <1>1, <1>2, <1>3, <1>4, <1>6, <1>8

\* At its place, an entry's name leads to the first one called as it is.
LEMMA FirstChild ==
  ASSUME TreeType, NEW k \in 0 .. Len(Archive), Built(k), NEW u \in 1 .. k, u \in Vnodes
  PROVE  Child(Home(u), EntryName(u)) = FirstCalled(full_path(u))
<1>1. k \in Nat /\ Vnodes = 1 .. Len(Archive) /\ 1 .. k \subseteq Vnodes
  BY VnodesAre
<1>2. PICK p : p = Home(u)
  OBVIOUS
<1>3. PICK c : c = FirstCalled(full_path(u))
  OBVIOUS
<1>4. c \in Vnodes /\ c \in 1 .. k /\ full_path(c) = full_path(u)
  <2>1. c \in 1 .. u /\ c \in Vnodes /\ full_path(c) = full_path(u)
    BY <1>3, FirstIsFirst
  <2> QED
    BY <1>1, <2>1
<1>5. Home(c) = p /\ EntryName(c) = EntryName(u) /\ Folder(c) = Folder(u)
  BY <1>2, <1>4 DEF Home, Folder, EntryName
<1>6. p \in Places
  BY <1>2, HomeBefore
<1>7. PICK i \in 1 .. Len(children[p]) : children[p][i] = c
  BY <1>4, <1>5 DEF Built
<1>8. vname[children[p][i]] = EntryName(u)
  BY <1>4, <1>5, <1>7 DEF Built
<1>9. ASSUME NEW j \in 1 .. Len(children[p]), vname[children[p][j]] = EntryName(u)
      PROVE  i <= j
  <2>1. PICK d : d = children[p][j]
    OBVIOUS
  <2>2. d \in 1 .. k /\ d \in Vnodes /\ Home(d) = p
    BY <1>1, <1>6, <2>1 DEF Built
  <2>3. EntryName(d) = EntryName(u)
    BY <1>9, <2>1, <2>2 DEF Built
  <2>4. Folder(d) = Folder(u)
    BY <1>2, <2>2, HomeBefore
  <2>5. NamedIn(full_path(d), EntryName(u)) /\ NamedIn(full_path(u), EntryName(u))
    BY <2>2, <2>3, EntryNames
  <2>6. full_path(d) = full_path(u)
    BY <2>4, <2>5, NamesAgree DEF Folder
  <2>7. c <= d
    <3>1. c \in 1 .. d
      BY <1>3, <2>2, <2>6, FirstIsFirst
    <3> QED
      BY <3>1
  <2>8. ASSUME j < i PROVE FALSE
    <3>1. Len(children[p]) \in Nat
      BY <1>6 DEF TreeType
    <3>2. j \in 1 .. i - 1
      BY <2>8, <3>1
    <3>3. children[p][j] < children[p][i]
      BY <1>6, <3>2 DEF Built
    <3> QED
      BY <1>1, <1>4, <1>7, <2>1, <2>2, <2>7, <3>3
  <2>9. i \in Int /\ j \in Int
    <3>1. Len(children[p]) \in Nat
      BY <1>6 DEF TreeType
    <3> QED
      BY <3>1
  <2> QED
    BY <2>8, <2>9
<1>10. Child(p, EntryName(u)) = children[p][i]
  BY <1>6, <1>8, <1>9, ChildFound
<1> QED
  BY <1>2, <1>3, <1>7, <1>10

\* Under the path of an entry of the tree the first one called so is found.
LEMMA BuiltIsFound ==
  ASSUME TreeType, NEW k \in 0 .. Len(Archive), Built(k), NEW v \in 1 .. k
  PROVE  Walk(split_path(full_path(v))) = FirstCalled(full_path(v))
<1> DEFINE Lost(u) == Walk(split_path(full_path(u))) # FirstCalled(full_path(u))
           T == {u \in 1 .. k : Lost(u)}
<1>1. k \in Nat /\ k <= Len(Archive) /\ Vnodes = 1 .. Len(Archive) /\ 1 .. k \subseteq Vnodes
  BY VnodesAre
<1>2. ASSUME T # {} PROVE FALSE
  <2>1. PICK T1 : T1 = T
    OBVIOUS
  <2>2. T1 \in SUBSET Nat
    BY <1>1, <2>1
  <2>3. PICK u \in T1 : \A j \in T1 : u <= j
    BY <1>2, <2>1, <2>2, LeastOf
  <2>4. u \in 1 .. k /\ u \in Vnodes /\ Lost(u) /\ \A j \in 1 .. k : j < u => ~Lost(j)
    BY <1>1, <2>1, <2>2, <2>3
  <2>5. PICK p : p = Home(u)
    OBVIOUS
  <2>6. split_path(full_path(u)) = Append(split_path(Folder(u)), EntryName(u))
        /\ Folder(u) \in Seq(Bytes) /\ NamedIn(full_path(u), EntryName(u))
    BY <2>4, EntryNames
  <2>7. split_path(Folder(u)) \in Seq(Seq(Bytes)) /\ EntryName(u) \in Seq(Bytes)
    BY <2>6, TokensType DEF split_path, NamedIn, Plain
  <2>8. Walk(split_path(Folder(u))) = p
    <3>1. CASE p = Root
      <4>1. split_path(Folder(u)) = << >>
        BY <2>4, <2>5, <3>1, HomeBefore, TokensNone DEF split_path
      <4> QED
        BY <3>1, <4>1, WalkNowhere
    <3>2. CASE p # Root
      <4>1. p \in Vnodes /\ p \in 0 .. u - 1 /\ full_path(p) = Folder(u)
        BY <2>4, <2>5, <3>2, HomeBefore
      <4>2. p \in 1 .. k /\ p < u
        BY <1>1, <2>4, <4>1
      <4>3. Walk(split_path(Folder(u))) = FirstCalled(Folder(u))
        BY <2>4, <4>1, <4>2
      <4>4. FirstCalled(Folder(u)) = p
        BY <2>5, <3>2 DEF Home
      <4> QED
        BY <4>3, <4>4
    <3> QED
      BY <3>1, <3>2
  <2>9. Walk(split_path(full_path(u))) = Step(p, EntryName(u))
    BY <2>6, <2>7, <2>8, WalkAppend
  <2>10. PICK c : c = FirstCalled(full_path(u))
    OBVIOUS
  <2>11. Child(p, EntryName(u)) = c
    BY <1>1, <2>4, <2>5, <2>10, FirstChild
  <2>12. p # missing
    <3>1. p \in Nat
      BY <2>4, <2>5, HomeBefore
    <3> QED
      BY <3>1, MountAssumption
  <2> QED
    BY <2>4, <2>9, <2>10, <2>11, <2>12 DEF Step
<1> HIDE DEF Lost
<1>3. ~Lost(v)
  BY <1>2
<1> QED
  BY <1>3 DEF Lost

\* Behind a slash, the path of a folder leads to where the walk along its pieces does.
LEMMA FindFolder ==
  ASSUME NEW s \in Seq(Bytes)
  PROVE  find(<<Slash>> \o s) = Walk(split_path(s))
<1>1. Slash \in Bytes
  BY MountAssumption
<1>2. PICK p : p = <<Slash>> \o s
  OBVIOUS
<1>3. p # << >> /\ p[1] = Slash
  <2>1. <<Slash>> \in Seq(Bytes)
    BY <1>1
  <2>2. Len(p) = 1 + Len(s) /\ Len(s) \in Nat
    BY <1>2, <2>1
  <2>3. p[1] = <<Slash>>[1]
    BY <1>2, <2>1, <2>2
  <2> QED
    BY <2>2, <2>3
<1>4. split_path(p) = split_path(s)
  BY <1>1, <1>2, TokensLeading DEF split_path
<1> QED
  BY <1>2, <1>3, <1>4 DEF find

\* The place of the next entry is in the tree, and found.
LEMMA FolderFound ==
  ASSUME TreeType, NEW k \in 0 .. Len(Archive) - 1, Built(k)
  PROVE  Walk(split_path(Folder(k + 1))) = Home(k + 1)
<1>1. k + 1 \in Vnodes /\ k \in 0 .. Len(Archive) /\ Len(Archive) \in Nat
  BY VnodesAre
<1>2. CASE Folder(k + 1) = << >>
  <2>1. split_path(Folder(k + 1)) = << >>
    BY <1>2, TokensNone DEF split_path
  <2>2. Walk(split_path(Folder(k + 1))) = Root
    BY <2>1, WalkNowhere
  <2> QED
    BY <1>2, <2>2 DEF Home
<1>3. CASE Folder(k + 1) # << >>
  <2>1. PICK w \in 1 .. k + 1 - 1 : full_path(w) = Folder(k + 1)
    BY <1>1, <1>3, MountAssumption DEF Folder
  <2>2. w \in 1 .. k
    BY <1>1, <2>1
  <2>3. Walk(split_path(full_path(w))) = FirstCalled(full_path(w))
    BY <1>1, <2>2, BuiltIsFound
  <2> QED
    BY <1>3, <2>1, <2>3 DEF Home
<1> QED
  BY <1>2, <1>3

\* One entry more.
LEMMA BuiltNext ==
  ASSUME TreeType, NEW k \in 0 .. Len(Archive) - 1, Built(k),
         NEW p, p = Home(k + 1),
         vname' = [vname EXCEPT ![k + 1] = EntryName(k + 1)],
         children' = [children EXCEPT ![p] = Append(@, k + 1)]
  PROVE  Built(k + 1)'
<1> DEFINE v == k + 1
<1>1. v \in Vnodes /\ k \in Nat /\ v = k + 1 /\ p \in Places /\ p = Home(v)
  BY VnodesAre, HomeBefore
<1> HIDE DEF v
<1>2. children \in [Places -> Seq(Vnodes)] /\ vname \in [Vnodes -> Seq(Bytes)]
  BY DEF TreeType
<1>3. PICK s \in Seq(Vnodes) : s = children[p]
  BY <1>1, <1>2
<1>4. PICK t : t = Append(s, v)
  OBVIOUS
<1>5. /\ Len(t) = Len(s) + 1 /\ Len(s) \in Nat /\ t[Len(s) + 1] = v
      /\ \A i \in 1 .. Len(s) : t[i] = s[i]
  BY <1>1, <1>4
<1>6. children' = [children EXCEPT ![p] = t]
  BY <1>1, <1>3, <1>4
<1>7. children'[p] = t /\ \A q \in Places : q # p => children'[q] = children[q]
  BY <1>1, <1>2, <1>6
<1>8. vname'[v] = EntryName(v) /\ \A w \in Vnodes : w # v => vname'[w] = vname[w]
  BY <1>1, <1>2
<1>9. ASSUME NEW q \in Places, NEW i \in 1 .. Len(children'[q])
      PROVE  /\ children'[q][i] \in 1 .. v /\ Home(children'[q][i]) = q
             /\ \A j \in 1 .. i - 1 : children'[q][j] < children'[q][i]
  <2>1. ASSUME NEW j \in 1 .. Len(children[q])
        PROVE  /\ children[q][j] \in 1 .. v /\ Home(children[q][j]) = q
               /\ \A h \in 1 .. j - 1 : children[q][h] < children[q][j]
    <3>1. /\ children[q][j] \in 1 .. k /\ Home(children[q][j]) = q
          /\ \A h \in 1 .. j - 1 : children[q][h] < children[q][j]
      BY DEF Built
    <3> QED
      BY <3>1, <1>1
  <2>2. CASE q # p
    BY <2>1, <2>2, <1>7
  <2>3. CASE q = p
    <3>1. i \in 1 .. Len(s) \/ i = Len(s) + 1
      BY <2>3, <1>5, <1>7
    <3>2. CASE i = Len(s) + 1
      <4>1. children'[q][i] = v /\ v \in 1 .. v
        BY <2>3, <3>2, <1>1, <1>5, <1>7
      <4>2. ASSUME NEW j \in 1 .. i - 1
            PROVE  children'[q][j] < v
        <5>1. j \in 1 .. Len(s)
          BY <3>2, <1>5
        <5>2. children'[q][j] = s[j]
          BY <2>3, <5>1, <1>5, <1>7
        <5>3. s[j] \in 1 .. k
          BY <5>1, <1>1, <1>3 DEF Built
        <5> QED
          BY <5>2, <5>3, <1>1
      <4> QED
        BY <4>1, <4>2, <2>3, <1>1
    <3>3. CASE i \in 1 .. Len(s)
      <4>1. children'[q][i] = children[q][i] /\ i \in 1 .. Len(children[q])
        BY <2>3, <3>3, <1>3, <1>5, <1>7
      <4>2. \A j \in 1 .. i - 1 : children'[q][j] = children[q][j]
        BY <2>3, <3>3, <1>3, <1>5, <1>7
      <4> QED
        BY <4>1, <4>2, <2>1
    <3> QED
      BY <3>1, <3>2, <3>3
  <2> QED
    BY <2>2, <2>3
<1>10. ASSUME NEW w \in 1 .. v
       PROVE  /\ vname'[w] = EntryName(w)
              /\ \E i \in 1 .. Len(children'[Home(w)]) : children'[Home(w)][i] = w
  <2>1. CASE w = v
    <3>1. Len(t) \in 1 .. Len(t) /\ t[Len(t)] = v
      BY <1>5
    <3>2. \E i \in 1 .. Len(children'[p]) : children'[p][i] = v
      BY <3>1, <1>7
    <3> QED
      BY <2>1, <3>2, <1>1, <1>8
  <2>2. CASE w # v
    <3>1. w \in 1 .. k /\ w \in Vnodes
      BY <2>2, <1>1, VnodesAre
    <3>2. vname'[w] = EntryName(w)
      BY <2>2, <3>1, <1>8 DEF Built
    <3>3. PICK q \in Places : q = Home(w)
      BY <3>1, HomeBefore
    <3>4. PICK i \in 1 .. Len(children[q]) : children[q][i] = w
      BY <3>1, <3>3 DEF Built
    <3>5. i \in 1 .. Len(children'[q]) /\ children'[q][i] = w
      <4>1. CASE q # p
        BY <4>1, <3>4, <1>7
      <4>2. CASE q = p
        <5>1. i \in 1 .. Len(s) /\ s[i] = w
          BY <4>2, <3>4, <1>3
        <5>2. i \in 1 .. Len(t) /\ t[i] = w
          BY <5>1, <1>5
        <5> QED
          BY <4>2, <5>2, <1>7
      <4> QED
        BY <4>1, <4>2
    <3> QED
      BY <3>2, <3>3, <3>5
  <2> QED
    BY <2>1, <2>2
<1> QED
  BY <1>1, <1>9, <1>10 DEF Built

Mounting == {"vfs_init", "install", "headers"}

\* Reading the headers, one is where the next entry starts; mounting, the entries that
\* are left are the last ones of the archive, and those before are in the tree.
TreeInv ==
  /\ TreeType
  /\ pc \in {"vfs_init", "install"} => at = 0 /\ listed = << >>
  /\ pc \in Mounting => /\ Built(0)
                        /\ \A v \in Vnodes : headers[v].size = Padded(Len(Archive[v]))
  /\ pc = "headers" => /\ Len(listed) <= Len(Archive) /\ at = Ends[Len(listed)]
                       /\ \A i \in 1 .. Len(listed) : listed[i] = i
  /\ pc = "mount" => /\ Len(listed) <= Len(Archive) /\ Built(Len(Archive) - Len(listed))
                     /\ \A i \in 1 .. Len(listed) : listed[i] = Len(Archive) - Len(listed) + i
  /\ pc \in {"headers", "mount"} /\ listed # << >> => Running
  /\ root = "initrd" => pc \notin Mounting \cup {"mount"} /\ Built(Len(Archive))

\* Before anything is mounted the tree is empty.
LEMMA TreeInit == MonitorInit => TreeInv
<1> SUFFICES ASSUME MonitorInit PROVE TreeInv
  OBVIOUS
<1>1. TreeType
  <2>1. << >> \in Seq(Vnodes) /\ << >> \in Seq(Bytes)
    OBVIOUS
  <2> QED
    BY <2>1 DEF TreeType, MonitorInit, MountInit, Places
<1>2. Built(0)
  <2>1. \A p \in Places : children[p] = << >>
    BY DEF MonitorInit, MountInit, Places
  <2>2. \A p \in Places : Len(children[p]) = 0
    BY <2>1
  <2> QED
    BY <2>2 DEF Built
<1>3. \A v \in Vnodes : headers[v].size = Padded(Len(Archive[v]))
  BY DEF MonitorInit, MountInit, Init, Header
<1>4. pc = "vfs_init" /\ at = 0 /\ listed = << >> /\ root # "initrd"
  BY MountAssumption DEF MonitorInit, MountInit
<1> QED
  BY <1>1, <1>2, <1>3, <1>4 DEF TreeInv

LEMMA ReadHeaderTree ==
  ASSUME TreeInv, ReadHeader
  PROVE  TreeInv'
<1> DEFINE N == Len(Archive)
           k == Len(listed)
<1>1. /\ Running /\ pc = "headers"
      /\ UNCHANGED <<root, children, vname, open_fds, size, driver, content>>
  BY DEF ReadHeader
<1>2. /\ TreeType /\ Built(0) /\ root # "initrd"
      /\ k <= N /\ at = Ends[k] /\ \A i \in 1 .. k : listed[i] = i
      /\ \A v \in Vnodes : headers[v].size = Padded(Len(Archive[v]))
  BY <1>1 DEF TreeInv, Mounting
<1>3. listed \in Seq(Vnodes) /\ k \in Nat /\ N \in Nat /\ Vnodes = 1 .. N
  BY <1>2, VnodesAre DEF TreeType
<1>4. Built(0)'
  BY <1>1, <1>2 DEF Built
<1>5. \A v \in Vnodes : headers'[v].size = Padded(Len(Archive[v]))
  BY <1>1, <1>2 DEF driver
<1>6. CASE k < N
  <2>1. k + 1 \in Vnodes /\ k + 1 - 1 = k
    BY <1>3, <1>6
  <2>2. ImageBlock(at) = k + 1
    BY <1>2, <2>1, EntryBlock
  <2>3. k + 1 # ZeroBlock /\ k + 1 # DataBlock
    BY <1>3 DEF ZeroBlock, DataBlock
  <2>4. /\ listed' = Append(listed, k + 1)
        /\ at' = at + BlocksOf(ParseSize(headers[k + 1].size))
        /\ UNCHANGED <<pc, status>>
    BY <2>2, <2>3 DEF ReadHeader
  <2>5. ParseSize(headers[k + 1].size) = Len(Archive[k + 1])
    BY <1>2, <2>1, SizesAreWords, SizesReadBack
  <2>6. at' = Ends[k] + (1 + DataBlocks(k + 1)) /\ DataBlocks(k + 1) \in Nat
    BY <1>2, <2>1, <2>4, <2>5, BlocksOfEntry
  <2>7. Ends[k + 1] = Ends[k] + 1 + DataBlocks(k + 1) /\ Ends[k] \in Nat
    <3>1. k \in 0 .. N
      BY <1>2, <1>3
    <3> QED
      BY <2>1, <3>1, EndsSteps
  <2>8. at' = Ends[k + 1]
    BY <2>6, <2>7
  <2> HIDE DEF k, N
  <2>9. /\ listed' \in Seq(Vnodes) /\ Len(listed') = k + 1
        /\ listed'[k + 1] = k + 1 /\ \A i \in 1 .. k : listed'[i] = listed[i]
    BY <1>3, <2>1, <2>4 DEF k
  <2>10. \A i \in 1 .. k + 1 : listed'[i] = i
    BY <1>2, <1>3, <2>9
  <2>11. k + 1 <= N
    BY <1>3, <1>6
  <2>12. TreeType'
    BY <1>1, <1>2, <2>9 DEF TreeType
  <2>13. pc' = "headers" /\ Running' /\ root' # "initrd"
    BY <1>1, <1>2, <2>4 DEF Running
  <2> QED
    BY <1>4, <1>5, <2>8, <2>9, <2>10, <2>11, <2>12, <2>13 DEF TreeInv, N
<1>7. CASE k = N
  <2>1. ImageBlock(at) = ZeroBlock
    BY <1>2, <1>7, EntryBlock
  <2>2. pc' = "mount" /\ UNCHANGED <<at, listed, status>>
    BY <2>1 DEF ReadHeader, ZeroBlock, DataBlock
  <2>3. TreeType'
    BY <1>1, <1>2, <2>2 DEF TreeType
  <2>4. N - k = 0 /\ \A i \in 1 .. k : listed[i] = N - k + i
    BY <1>2, <1>3, <1>7
  <2>5. Running' /\ root' # "initrd"
    BY <1>1, <1>2, <2>2 DEF Running
  <2> QED
    BY <1>2, <1>4, <2>2, <2>3, <2>4, <2>5 DEF TreeInv, Mounting
<1> QED
  BY <1>2, <1>3, <1>6, <1>7

LEMMA MountEntryTree ==
  ASSUME TreeInv, MountEntry
  PROVE  TreeInv'
<1> DEFINE N == Len(Archive)
<1>0. PICK k : k = N - Len(listed)
  OBVIOUS
<1>1. /\ Running /\ pc = "mount" /\ listed # << >>
      /\ listed' = Tail(listed)
      /\ UNCHANGED <<pc, root, at, open_fds, size, driver, content>>
  BY DEF MountEntry
<1>2. /\ TreeType /\ Built(k) /\ root # "initrd" /\ Len(listed) <= N
      /\ \A i \in 1 .. Len(listed) : listed[i] = k + i
  BY <1>0, <1>1 DEF TreeInv
<1>3. listed \in Seq(Vnodes) /\ Len(listed) \in Nat \ {0} /\ N \in Nat /\ Vnodes = 1 .. N
  BY <1>1, <1>2, VnodesAre DEF TreeType
<1>4. k \in 0 .. N - 1 /\ k + 1 \in Vnodes
  BY <1>0, <1>2, <1>3
<1>5. Head(listed) = k + 1
  BY <1>2, <1>3
<1>6. PICK p \in Places : p = Home(k + 1) /\ Walk(split_path(Folder(k + 1))) = p
  BY <1>2, <1>4, FolderFound, HomeBefore
<1> DEFINE v == k + 1
<1> HIDE DEF N
<1>7. /\ split_path(full_path(v)) = Append(split_path(Folder(v)), EntryName(v))
      /\ Folder(v) \in Seq(Bytes) /\ EntryName(v) \in Seq(Bytes)
  BY <1>4, EntryNames DEF NamedIn, Plain
<1>8. split_path(Folder(v)) \in Seq(Seq(Bytes))
  BY <1>7, TokensType DEF split_path
<1>9. /\ split_path(full_path(v)) # << >>
      /\ Last(split_path(full_path(v))) = EntryName(v)
  BY <1>7, <1>8 DEF Last
<1>10. find(<<Slash>> \o parent_path(full_path(v))) = p
  BY <1>6, <1>7, FindFolder DEF Folder
<1>11. p # missing
  BY <1>3, MountAssumption DEF Places, Root
<1>12. /\ vname' = [vname EXCEPT ![v] = EntryName(v)]
       /\ children' = [children EXCEPT ![p] = Append(@, v)]
       /\ UNCHANGED status
  BY <1>5, <1>9, <1>10, <1>11 DEF MountEntry
<1>13. Built(v)'
  BY <1>2, <1>4, <1>6, <1>12, BuiltNext DEF N
<1>14. /\ listed' \in Seq(Vnodes) /\ Len(listed') = Len(listed) - 1
       /\ \A i \in 1 .. Len(listed) - 1 : listed'[i] = listed[i + 1]
  BY <1>1, <1>3
<1>15. TreeType'
  <2>1. children[p] \in Seq(Vnodes)
    BY <1>2 DEF TreeType
  <2>2. Append(children[p], v) \in Seq(Vnodes)
    BY <1>4, <2>1
  <2>3. children' = [children EXCEPT ![p] = Append(children[p], v)]
    BY <1>12
  <2>4. children' \in [Places -> Seq(Vnodes)]
    BY <1>2, <2>2, <2>3 DEF TreeType
  <2>5. vname' \in [Vnodes -> Seq(Bytes)]
    BY <1>2, <1>7, <1>12 DEF TreeType
  <2> QED
    BY <1>14, <2>4, <2>5 DEF TreeType
<1>16. N - Len(listed') = v /\ Len(listed') <= N
  BY <1>0, <1>3, <1>14, <1>2
<1>17. ASSUME NEW i \in 1 .. Len(listed') PROVE listed'[i] = N - Len(listed') + i
  <2>1. i + 1 \in 1 .. Len(listed) /\ i \in 1 .. Len(listed) - 1
    BY <1>3, <1>14
  <2>2. listed'[i] = k + (i + 1)
    BY <1>2, <1>14, <2>1
  <2>3. k \in Int
    BY <1>4, <1>3
  <2> QED
    BY <1>16, <2>2, <2>1, <2>3
<1>18. Running' /\ pc' = "mount" /\ root' # "initrd"
  BY <1>1, <1>2, <1>12 DEF Running
<1> QED
  BY <1>13, <1>15, <1>16, <1>17, <1>18 DEF TreeInv, Mounting, N

Before == Mounting \cup {"mount"}
Opened == {"write", "ropen", "close"} \cup ElfCommands

\* What the kernel's thread does once it is at the prompt.
CommandStep ==
  \/ \E line \in Lines : Enter(line)
  \/ PrintOnly \/ InterruptTest \/ ListHeaders \/ Stat \/ List \/ ReadInode
  \/ OpenFile \/ SkipDirectory \/ WriteFile \/ WriteError \/ ReadFile \/ ReadTables
  \/ CloseFile

\* open leads to the command's next call, or back.
LEMMA OpenFileLeads ==
  ASSUME OpenFile
  PROVE  pc' \in {"prompt", "run", "write", "ropen"} \cup ElfCommands
<1>1. pc = "run" /\ args[1] \in {<<c>> : c \in {"write", "ropen"} \cup ElfCommands}
  BY DEF OpenFile, Runs
<1>2. Command \in {"write", "ropen"} \cup ElfCommands
  BY <1>1 DEF Command
<1>3. pc' = "prompt" \/ pc' = Command \/ pc' = pc
  BY DEF OpenFile, JustPrints, NotThere, Prompt
<1> QED
  BY <1>1, <1>2, <1>3

\* No command leads back to where the archive is mounted, or changes the tree.
LEMMA CommandLeads ==
  ASSUME CommandStep
  PROVE  pc \notin Before /\ pc' \notin Before /\ UNCHANGED treeVars
<1> USE DEF Before, Mounting
<1>1. ASSUME NEW line \in Lines, Enter(line)
      PROVE  pc \notin Before /\ pc' \notin Before /\ UNCHANGED treeVars
  BY <1>1 DEF Enter
<1>2. ASSUME PrintOnly \/ InterruptTest \/ ListHeaders \/ Stat \/ List
      PROVE  pc \notin Before /\ pc' \notin Before /\ UNCHANGED treeVars
  BY <1>2 DEF PrintOnly, InterruptTest, ListHeaders, Stat, List, Runs, JustPrints, Prompt,
              Panics, NotThere
<1>3. ASSUME ReadInode
      PROVE  pc \notin Before /\ pc' \notin Before /\ UNCHANGED treeVars
  <2>1. pc = "run" /\ (pc' = "prompt" \/ pc' = pc) /\ UNCHANGED treeVars
    BY <1>3 DEF ReadInode, Runs, JustPrints, Prompt, NotThere, Panics
  <2> QED
    BY <2>1
<1>4. ASSUME OpenFile
      PROVE  pc \notin Before /\ pc' \notin Before /\ UNCHANGED treeVars
  <2>1. pc = "run" /\ UNCHANGED treeVars
    BY <1>4 DEF OpenFile, Runs, JustPrints, NotThere
  <2>2. pc' \in {"prompt", "run", "write", "ropen"} \cup ElfCommands
    BY <1>4, OpenFileLeads
  <2> QED
    BY <2>1, <2>2 DEF ElfCommands
<1>5. ASSUME SkipDirectory \/ WriteFile \/ WriteError \/ ReadFile \/ ReadTables \/ CloseFile
      PROVE  pc \notin Before /\ pc' \notin Before /\ UNCHANGED treeVars
  BY <1>5 DEF SkipDirectory, WriteFile, WriteError, ReadFile, ReadTables, CloseFile, Go,
              Prompt, ElfCommands
<1> QED
  BY <1>1, <1>2, <1>3, <1>4, <1>5 DEF CommandStep

LEMMA TreeNext ==
  ASSUME TreeInv, [MonitorNext]_allVars
  PROVE  TreeInv'
<1>1. ASSUME UNCHANGED <<root, children, vname, listed>>, root # "initrd",
             pc' \notin Before
      PROVE  TreeInv'
  BY <1>1 DEF TreeInv, TreeType, Before, Mounting
<1>2. CASE InitVFS
  <2>1. /\ pc = "vfs_init" /\ pc' = "install" /\ root' = "sysroot"
        /\ UNCHANGED <<at, listed, children, vname, open_fds, size, driver, content>>
    BY <1>2 DEF InitVFS, Go
  <2>2. /\ TreeType /\ at = 0 /\ listed = << >> /\ Built(0)
        /\ \A v \in Vnodes : headers[v].size = Padded(Len(Archive[v]))
    BY <2>1 DEF TreeInv, Mounting
  <2>3. TreeType' /\ Built(0)'
    BY <2>1, <2>2 DEF TreeType, Built
  <2> QED
    BY <2>1, <2>2, <2>3 DEF TreeInv, Mounting, driver
<1>3. CASE InstallModule \/ InstallOther
  <2>1. /\ pc = "install" /\ pc' = "headers"
        /\ UNCHANGED <<root, at, listed, children, vname, headers>>
    BY <1>3 DEF InstallModule, InstallOther, Go, treeVars, vars, driver
  <2>2. /\ TreeType /\ at = 0 /\ listed = << >> /\ Built(0) /\ root # "initrd"
        /\ \A v \in Vnodes : headers[v].size = Padded(Len(Archive[v]))
    BY <2>1 DEF TreeInv, Mounting
  <2>3. TreeType' /\ Built(0)'
    BY <2>1, <2>2 DEF TreeType, Built
  <2>4. Len(listed) = 0 /\ at = Ends[0] /\ 0 <= Len(Archive)
    BY <2>2, EndsSteps, VnodesAre
  <2> QED
    BY <2>1, <2>2, <2>3, <2>4 DEF TreeInv, Mounting
<1>4. CASE InstallNothing
  <2>1. pc = "install" /\ pc' = "prompt" /\ UNCHANGED <<root, children, vname, listed>>
    BY <1>4 DEF InstallNothing, Go, treeVars
  <2>2. root # "initrd"
    BY <2>1 DEF TreeInv, Mounting
  <2> QED
    BY <1>1, <2>1, <2>2 DEF Before, Mounting
<1>5. CASE ReadHeader
  BY <1>5, ReadHeaderTree
<1>6. CASE MountEntry
  BY <1>6, MountEntryTree
<1>7. CASE Attach
  <2>1. /\ pc = "mount" /\ pc' = "prompt" /\ listed = << >>
        /\ UNCHANGED <<at, listed, children, vname>>
    BY <1>7 DEF Attach, Go
  <2>2. TreeType /\ Built(Len(Archive) - Len(listed)) /\ Len(Archive) - Len(listed) = Len(Archive)
    <3>1. Len(listed) = 0 /\ Len(Archive) \in Nat
      BY <2>1, VnodesAre
    <3> QED
      BY <2>1, <3>1 DEF TreeInv
  <2>3. TreeType' /\ Built(Len(Archive))'
    BY <2>1, <2>2 DEF TreeType, Built
  <2> QED
    BY <2>1, <2>3 DEF TreeInv, Mounting
<1>8. ASSUME UNCHANGED treeVars, pc \notin Before, pc' \notin Before
      PROVE  TreeInv'
  <2>1. UNCHANGED <<root, children, vname, listed>>
    BY <1>8 DEF treeVars
  <2>2. TreeType' /\ (root' = "initrd" => Built(Len(Archive))')
    BY <2>1 DEF TreeInv, TreeType, Built
  <2> QED
    BY <1>8, <2>2 DEF TreeInv, Before, Mounting
<1>9. CASE CommandStep
  BY <1>8, <1>9, CommandLeads
<1>10. CASE UNCHANGED allVars
  <2>1. UNCHANGED <<root, at, children, vname, listed, pc, headers, status>>
    BY <1>10 DEF allVars, treeVars, vars, driver
  <2>2. TreeType' = TreeType /\ \A k : Built(k)' = Built(k)
    BY <2>1 DEF TreeType, Built
  <2> QED
    BY <2>1, <2>2 DEF TreeInv, Running
<1> QED
  BY <1>2, <1>3, <1>4, <1>5, <1>6, <1>7, <1>9, <1>10 DEF MonitorNext, MountNext, MonitorEnded,
    CommandStep

LEMMA TreeFound == TreeInv => EntriesFound
<1> SUFFICES ASSUME TreeInv PROVE EntriesFound
  OBVIOUS
<1>1. pc \in {"headers", "mount"} /\ listed # << >> => Running
  BY DEF TreeInv
<1>2. ASSUME root = "initrd", NEW v \in Vnodes
      PROVE  /\ lookup(<<Slash>> \o full_path(v)) = FirstCalled(full_path(v))
             /\ ~IsEmptyFile(v) => lookup(<<Slash>> \o Paths[v]) = FirstCalled(full_path(v))
  <2>1. TreeType /\ Built(Len(Archive)) /\ v \in 1 .. Len(Archive)
        /\ Len(Archive) \in 0 .. Len(Archive)
    BY <1>2, VnodesAre DEF TreeInv
  <2>2. Walk(split_path(full_path(v))) = FirstCalled(full_path(v))
    BY <2>1, BuiltIsFound
  <2>3. ~IsEmptyFile(v) => split_path(<<Slash>> \o Paths[v]) = split_path(full_path(v))
    BY <1>2, EntryNames
  <2>4. Paths[v] \in Seq(Bytes) /\ full_path(v) \in Seq(Bytes)
    BY MountAssumption, EntryPaths
  <2>5. split_path(<<Slash>> \o Paths[v]) = split_path(Paths[v])
    BY <2>4, MountAssumption, TokensLeading DEF split_path
  <2>6. /\ find(<<Slash>> \o Paths[v]) = Walk(split_path(Paths[v]))
        /\ find(<<Slash>> \o full_path(v)) = Walk(split_path(full_path(v)))
    BY <2>4, FindFolder
  <2> QED
    BY <1>2, <2>2, <2>3, <2>5, <2>6 DEF lookup
<1> QED
  BY <1>1, <1>2 DEF EntriesFound

\* The walk over the archive meets each of its headers and nothing else, every parent is
\* in the tree before its children, and once mounted each directory and file is found
\* under its path, or the first entry that has come to the same name (EntriesFound): for
\* archives of any number of entries, sizes, names and depth of directories, in which no
\* last piece of the path of a file without contents has one character (MountAssumption).
THEOREM ArchiveIsFound == MonitorSpec => []EntriesFound
<1>1. TreeInv /\ [MonitorNext]_allVars => TreeInv'
  BY TreeNext
<1> QED
  BY TreeInit, <1>1, TreeFound, PTL DEF MonitorSpec

(***************************************************************************)
(* Commands on files.                                                      *)
(***************************************************************************)
LEMMA SmallerOf ==
  ASSUME NEW a \in Int, NEW b \in Int
  PROVE  Min({a, b}) = IF a <= b THEN a ELSE b
<1>1. CASE a <= b
  BY <1>1 DEF Min
<1>2. CASE ~(a <= b)
  BY <1>2 DEF Min
<1> QED
  BY <1>1, <1>2

\* What read copies of the header that holds the bytes begins with them, as far as they
\* go and were asked for.
LEMMA HeldIsCopied ==
  ASSUME NEW h \in HeaderSet, NEW bytes \in Seq(Bytes), Holds(h, bytes), NEW count \in Nat
  PROVE  LET n == Min({count, Len(bytes)})
         IN  /\ Len(ReadBytes(h, count)) >= n
             /\ SubSeq(ReadBytes(h, count), 1, n) = SubSeq(bytes, 1, n)
<1> DEFINE m == Len(bytes)
           q == ParseSize(h.size)
           r == ReadCount(h, count)
           n == Min({count, m})
           o == ReadBytes(h, count)
<1>1. m \in Nat /\ q \in Nat /\ m <= q
  <2>1. m \in Nat
    OBVIOUS
  <2>2. q \in m .. Word - 1
    BY DEF Holds
  <2>3. Word \in Nat
    BY SizesAreWords
  <2> HIDE DEF m, q
  <2> QED
    BY <2>1, <2>2, <2>3
<1>2. m <= Len(h.data) /\ \A p \in 1 .. m : h.data[p] = bytes[p]
  BY DEF Holds
<1>3. Len(h.data) \in Nat
  <2>1. h.data \in Seq(Bytes \cup {Unknown})
    BY DEF HeaderSet, Memory
  <2> QED
    BY <2>1
<1>4. r = Min({count, q})
  BY DEF ReadCount
<1> HIDE DEF q, m
<1>5. /\ r = IF count <= q THEN count ELSE q
      /\ n = IF count <= m THEN count ELSE m
  BY <1>1, <1>4, SmallerOf
<1> HIDE DEF r, n
<1>6. r \in Nat /\ n \in Nat /\ n <= r /\ n <= m
  BY <1>1, <1>5
<1>7. o = [p \in 1 .. r |-> IF p <= Len(h.data) THEN h.data[p] ELSE Unknown]
  BY DEF ReadBytes, r
<1> HIDE DEF o
<1>8. Len(o) = r
  BY <1>6, <1>7
<1>9. \A p \in 1 .. n : o[p] = bytes[p]
  BY <1>1, <1>2, <1>3, <1>6, <1>7
<1>10. SubSeq(o, 1, n) = [p \in 1 .. n |-> o[p]] /\ SubSeq(bytes, 1, n) = [p \in 1 .. n |-> bytes[p]]
  <2>1. DOMAIN o = 1 .. r /\ DOMAIN bytes = 1 .. m
    BY <1>7 DEF m
  <2> QED
    BY <1>6, <2>1 DEF SubSeq
<1>11. SubSeq(o, 1, n) = SubSeq(bytes, 1, n)
  BY <1>9, <1>10
<1> QED
  BY <1>6, <1>8, <1>11 DEF o, n, m

\* What atoi returns, cast to an unsigned integer, is a word, whatever the characters.
LEMMA AtoiType ==
  ASSUME NEW token \in Seq(Bytes), Len(token) # 0
  PROVE  atoi(token) \in 0 .. Word - 1
<1> DEFINE digits == IF token[1] \in {"-", "+"} THEN Tail(token) ELSE token
<1>1. digits \in Seq(Bytes)
  <2>1. Tail(token) \in Seq(Bytes)
    OBVIOUS
  <2> QED
    BY <2>1
<1> HIDE DEF digits
<1> DEFINE N == Len(digits)
           Next10(n, c) == n * 10 + Value[c]
           step == [p \in Int \X (1 .. N) |-> Next10(p[1], digits[p[2]])]
           Eq(f) == f = [n \in 0 .. N |-> IF n = 0 THEN 0 ELSE f[n - 1] * 10 + Value[digits[n]]]
           f == CHOOSE f : Eq(f)
<1>2. atoi(token) = f[N] % Word
  BY DEF atoi, digits
<1>3. N \in Nat /\ \A n \in 1 .. N : Value[digits[n]] \in Int
  <2>1. N \in Nat /\ \A n \in 1 .. N : digits[n] \in Bytes
    BY <1>1
  <2> QED
    BY <2>1, MonitorAssumption
<1> HIDE DEF N
<1>4. step \in [Int \X (1 .. N) -> Int]
  BY <1>3
<1>5. PICK g : Makes(g, N, Int, 0, step)
  <2>1. 0 \in Int
    OBVIOUS
  <2> HIDE DEF step
  <2> QED
    BY <1>3, <1>4, <2>1, Recursion
<1>6. g \in [0 .. N -> Int] /\ g[0] = 0
  BY <1>5 DEF Makes
<1>7. ASSUME NEW n \in 1 .. N PROVE g[n] = g[n - 1] * 10 + Value[digits[n]]
  <2>1. n - 1 \in 0 .. N
    BY <1>3
  <2>2. <<g[n - 1], n>> \in Int \X (1 .. N)
    BY <1>6, <2>1
  <2>3. step[<<g[n - 1], n>>] = g[n - 1] * 10 + Value[digits[n]]
    BY <2>2
  <2> HIDE DEF step
  <2> QED
    BY <1>5, <2>3 DEF Makes
<1> HIDE DEF step
<1>8. Eq(g)
  <2>1. ASSUME NEW n \in 0 .. N
        PROVE  g[n] = IF n = 0 THEN 0 ELSE g[n - 1] * 10 + Value[digits[n]]
    <3>1. n = 0 \/ n \in 1 .. N
      BY <1>3
    <3> QED
      BY <1>6, <1>7, <3>1
  <2> QED
    BY <1>6, <2>1
<1>9. Eq(f)
  <2> HIDE DEF Eq
  <2> QED
    BY <1>8
<1> HIDE DEF f
<1>10. f[0] = 0 /\ \A n \in 1 .. N : f[n] = f[n - 1] * 10 + Value[digits[n]]
  <2>1. \A n \in 0 .. N : f[n] = IF n = 0 THEN 0 ELSE f[n - 1] * 10 + Value[digits[n]]
    BY <1>9
  <2>2. 0 \in 0 .. N /\ \A n \in 1 .. N : n \in 0 .. N /\ n # 0
    BY <1>3
  <2> QED
    BY <2>1, <2>2
<1> HIDE DEF Eq
<1>11. f[N] \in Int
  <2> DEFINE T == {m \in 0 .. N : f[m] \notin Int}
  <2>1. ASSUME T # {} PROVE FALSE
    <3>1. T \in SUBSET Nat
      BY <1>3
    <3>2. PICK m \in T : \A k \in T : m <= k
      BY <2>1, <3>1, LeastOf
    <3>3. m \in 1 .. N /\ m - 1 \in 0 .. N /\ f[m - 1] \in Int
      BY <3>2, <1>3, <1>10
    <3>4. f[m] = f[m - 1] * 10 + Value[digits[m]] /\ Value[digits[m]] \in Int
      BY <3>3, <1>3, <1>10
    <3> QED
      BY <3>2, <3>3, <3>4
  <2>2. N \in 0 .. N
    BY <1>3
  <2> QED
    BY <2>1, <2>2
<1>12. PICK n \in Int : n = f[N]
  BY <1>11
<1>13. n % Word \in 0 .. Word - 1
  BY ModRange, SizesAreWords
<1> QED
  BY <1>2, <1>12, <1>13

\* The system goes on, and the driver has removed no header but the one it meant.
Sound == Running /\ ~mixed_up

FilesSound == size \in [Vnodes -> 0 .. MaxSize] /\ IntactInv

\* The pieces of a line are not empty, and fewer than 2 to the width of an integer.
ArgsFit ==
  pc \in {"run", "write", "ropen"} =>
    /\ args \in Seq(Seq(Bytes))
    /\ \A i \in 1 .. Len(args) : Len(args[i]) \in 1 .. Word - 1
    /\ pc # "run" => Len(args) = 3

\* Of the descriptors only the command's is open, at the start of what it was opened on.
OneDescriptor ==
  IF pc \in Opened
  THEN \E d : /\ open_fds = {d} /\ d.fd = fd
              /\ pc # "close" => \E v \in Places : d = Descriptor(fd, v, 0)
  ELSE open_fds = {}

\* The bytes begin with the file's, as far as it goes and was asked for.
BeginsAs(v, count, bytes) ==
  LET n == Min({count, size[v]})
  IN  Len(bytes) >= n /\ SubSeq(bytes, 1, n) = SubSeq(content[v], 1, n)

ShownTrue ==
  shown # nothing =>
    pc \in {"prompt", "close"} /\ BeginsAs(shown.vnode, shown.count, shown.bytes)

CommandInv == Sound => FilesSound /\ ArgsFit /\ OneDescriptor /\ ShownTrue

LEMMA CommandInit == MonitorInit => CommandInv
<1> SUFFICES ASSUME MonitorInit PROVE CommandInv
  OBVIOUS
<1>1. Init /\ pc = "vfs_init" /\ shown = nothing
  BY DEF MonitorInit, MountInit
<1>2. FilesSound
  BY <1>1, PositionInit, IntactInit DEF FilesSound, PositionInv
<1>3. open_fds = {}
  BY <1>1 DEF Init
<1> QED
  BY <1>1, <1>2, <1>3 DEF CommandInv, ArgsFit, OneDescriptor, ShownTrue, Opened, ElfCommands

\* No step mends what has gone wrong.
LEMMA StillSound ==
  ASSUME [MonitorNext]_allVars, Sound'
  PROVE  Sound
<1>1. CASE MountNext
  <2>1. CASE InitVFS \/ InstallModule \/ InstallNothing \/ InstallOther
    <3>1. Running /\ driver' = driver
      BY <2>1 DEF InitVFS, InstallModule, InstallNothing, InstallOther, Go, vars
    <3> QED
      BY <3>1 DEF driver, Sound
  <2>2. CASE ReadHeader
    BY <2>2 DEF ReadHeader, driver, Sound
  <2>3. CASE MountEntry
    <3>1. Running /\ mixed_up' = mixed_up
      BY <2>3 DEF MountEntry, driver
    <3> QED
      BY <3>1 DEF Sound
  <2>4. CASE Attach
    BY <2>4 DEF Attach, Go, driver, vars, Sound
  <2> QED
    BY <1>1, <2>1, <2>2, <2>3, <2>4 DEF MountNext
<1>2. ASSUME NEW line \in Lines, Enter(line) PROVE Sound
  BY <1>2 DEF Enter, driver, Sound
<1>3. CASE PrintOnly \/ InterruptTest \/ ListHeaders \/ Stat \/ List
  BY <1>3 DEF PrintOnly, InterruptTest, ListHeaders, Stat, List, Runs, JustPrints, NotThere,
    OpenMissing, Panics, driver, vars, Sound
<1>4. CASE ReadInode
  BY <1>4 DEF ReadInode, Runs, JustPrints, NotThere, OpenMissing, Panics, driver, vars, Sound
<1>5. CASE OpenFile
  BY <1>5 DEF OpenFile, Runs, JustPrints, NotThere, OpenMissing, Open, driver, vars, Sound
<1>6. CASE SkipDirectory \/ CloseFile \/ WriteError
  BY <1>6 DEF SkipDirectory, CloseFile, WriteError, Go, Close, WriteFails, driver, vars, Sound
<1>7. CASE ReadFile
  <2>1. Running /\ driver' = driver
    BY <1>7 DEF ReadFile, Go, Read
  <2> QED
    BY <2>1 DEF driver, Sound
<1>8. CASE ReadTables
  <2>1. Running /\ driver' = driver
    BY <1>8 DEF ReadTables, Read
  <2> QED
    BY <2>1 DEF driver, Sound
<1>9. CASE WriteFile
  <2>1. Running /\ Write(Desc, Arg(2))
    BY <1>9 DEF WriteFile, Go
  <2>2. PICK d, bytes : Write(d, bytes)
    BY <2>1
  <2>3. mixed_up => mixed_up'
    BY <2>2 DEF Write, WriteInPlace, WriteExtending
  <2> QED
    BY <2>1, <2>3 DEF Sound
<1>10. CASE MonitorEnded \/ UNCHANGED allVars
  BY <1>10 DEF MonitorEnded, Ended, allVars, vars, driver, Sound, Running
<1> QED
  BY <1>1, <1>2, <1>3, <1>4, <1>5, <1>6, <1>7, <1>8, <1>9, <1>10 DEF MonitorNext

\* The files are as sound as before, if no call touches them.
LEMMA FilesKept ==
  ASSUME Sound, FilesSound, UNCHANGED <<size, driver, content>>
  PROVE  FilesSound'
BY DEF Sound, FilesSound, IntactInv, ContentInv, driver

\* What was printed stays true while no file changes.
LEMMA ShownKept ==
  ASSUME ShownTrue, UNCHANGED <<size, content, shown>>, pc' \in {"prompt", "close"}
  PROVE  ShownTrue'
BY DEF ShownTrue, BeginsAs

\* What lookup finds is in the tree.
LEMMA LookupType ==
  ASSUME TreeType, NEW path \in Seq(Bytes)
  PROVE  lookup(path) \in Places \cup {missing}
<1>1. split_path(path) \in Seq(Seq(Bytes))
  BY TokensType DEF split_path
<1>2. find(path) \in Places \cup {missing}
  BY <1>1, WalkType DEF find
<1> QED
  BY <1>2 DEF lookup

\* What is no directory is a file.
LEMMA NoDirectory ==
  ASSUME NEW v \in Places, ~IsDirectory(v)
  PROVE  v \in Vnodes /\ ~IsDir(v) /\ v # Root
BY DEF IsDirectory, Places

\* What the driver copies of a file is what should be in it.
LEMMA DriverReads ==
  ASSUME Sound, FilesSound, NEW v \in Vnodes, v # Root, NEW count \in Nat
  PROVE  BeginsAs(v, count, DriverRead(v, count))
<1>1. PICK hs : hs = headers
  OBVIOUS
<1>2. PICK bytes : bytes = content[v]
  OBVIOUS
<1>3. bytes \in Seq(Bytes) /\ size[v] = Len(bytes)
  BY <1>2 DEF FilesSound, IntactInv, ContentInv
<1>4. hs \in Seq(HeaderSet) /\ Len(hs) \in Nat
  BY <1>1 DEF FilesSound, IntactInv, Sound
<1>5. PICK i \in 1 .. Len(hs) : OnlyHeader(hs, v, i) /\ Holds(hs[i], bytes)
  BY <1>1, <1>2 DEF FilesSound, IntactInv, AllHeld, Sound
<1>6. get_header_by_inode(hs, v) = i /\ i # 0
  <2>1. get_header_by_inode(hs, v) = i
    BY <1>4, <1>5, OnlyIsFirst
  <2> QED
    BY <1>5, <2>1
<1>7. PICK h : h = hs[i]
  OBVIOUS
<1>8. h \in HeaderSet /\ Holds(h, bytes)
  BY <1>4, <1>5, <1>7
<1>9. DriverRead(v, count) = ReadBytes(h, count)
  BY <1>1, <1>6, <1>7 DEF DriverRead
<1>10. LET n == Min({count, Len(bytes)})
       IN  /\ Len(ReadBytes(h, count)) >= n
           /\ SubSeq(ReadBytes(h, count), 1, n) = SubSeq(bytes, 1, n)
  BY <1>3, <1>8, HeldIsCopied
<1> QED
  BY <1>2, <1>3, <1>9, <1>10 DEF BeginsAs

\* The driver finds the header of every file.
LEMMA HeaderThere ==
  ASSUME Sound, FilesSound, NEW v \in Vnodes
  PROVE  get_header_by_inode(headers, v) # 0
BY IntactIsRead DEF FilesSound, FilesIntact, Sound

\* The command's descriptor.
LEMMA DescIs ==
  ASSUME OneDescriptor, pc \in Opened
  PROVE  /\ open_fds = {Desc}
         /\ pc # "close" => /\ Desc.vnode \in Places /\ Desc.position = 0
                            /\ Desc = Descriptor(fd, Desc.vnode, 0)
<1>1. PICK d : /\ open_fds = {d} /\ d.fd = fd
               /\ pc # "close" => \E v \in Places : d = Descriptor(fd, v, 0)
  BY DEF OneDescriptor
<1>2. Desc = d
  BY <1>1 DEF Desc
<1> QED
  BY <1>1, <1>2 DEF Descriptor

\* It is the only one also when its position has moved.
LEMMA DescMoved ==
  ASSUME OneDescriptor, pc \in Opened, pc # "close", NEW p, Reposition(Desc, p),
         fd' = fd, pc' = "close"
  PROVE  OneDescriptor'
<1>1. open_fds = {Desc} /\ Desc = Descriptor(fd, Desc.vnode, 0)
  BY DescIs
<1>2. PICK d : d = Desc
  OBVIOUS
<1>3. PICK e : e = [d EXCEPT !.position = p]
  OBVIOUS
<1>4. e.fd = fd
  BY <1>1, <1>2, <1>3 DEF Descriptor
<1>5. open_fds' = {e}
  BY <1>1, <1>2, <1>3 DEF Reposition
<1> QED
  BY <1>4, <1>5 DEF OneDescriptor, Opened

Kept == FilesSound' /\ ArgsFit' /\ OneDescriptor' /\ ShownTrue'

\* A step of the command that leaves it at the prompt, with nothing opened and nothing read.
LEMMA BackAtPrompt ==
  ASSUME Sound, FilesSound, OneDescriptor, ShownTrue, pc = "run", pc' = "prompt",
         UNCHANGED <<open_fds, size, driver, content, shown>>
  PROVE  Kept
<1>1. FilesSound'
  BY FilesKept
<1>2. ShownTrue'
  BY ShownKept
<1> QED
  BY <1>1, <1>2 DEF Kept, ArgsFit, OneDescriptor, Opened, ElfCommands

\* The pieces of a line are arguments that fit.
LEMMA EnterKeeps ==
  ASSUME Sound, FilesSound, ArgsFit, OneDescriptor, ShownTrue,
         NEW line \in Lines, Enter(line), Running'
  PROVE  Kept
<1> DEFINE pieces == strsplit(line)
<1>1. /\ pc = "prompt" /\ shown' = nothing
      /\ UNCHANGED <<treeVars, fd, open_fds, size, driver, content>>
  BY DEF Enter
<1>2. pieces # << >> /\ pc' = "run" /\ args' = pieces
  BY DEF Enter, Running
<1>3. line \in Seq(Bytes) /\ Len(line) < Word
  BY MonitorAssumption
<1>4. /\ pieces \in Seq(Seq(Bytes))
      /\ \A i \in 1 .. Len(pieces) : Len(pieces[i]) \in 1 .. Len(line)
  BY <1>3, TokensType DEF strsplit
<1>5. Len(line) \in Nat /\ Word \in Nat
  BY <1>3, SizesAreWords
<1> HIDE DEF pieces
<1>6. \A i \in 1 .. Len(pieces) : Len(pieces[i]) \in 1 .. Word - 1
  BY <1>3, <1>4, <1>5
<1>7. FilesSound'
  BY <1>1, FilesKept
<1> QED
  BY <1>1, <1>2, <1>4, <1>6, <1>7 DEF Kept, ArgsFit, OneDescriptor, ShownTrue, Opened, ElfCommands

\* Commands that only print.
LEMMA PrintingKeeps ==
  ASSUME Sound, FilesSound, OneDescriptor, ShownTrue, Running',
         PrintOnly \/ InterruptTest \/ ListHeaders \/ Stat \/ List
  PROVE  Kept
<1>1. ~Panics
  BY DEF Panics, Running
<1>2. pc = "run"
  BY DEF PrintOnly, InterruptTest, ListHeaders, Stat, List, Runs
<1>3. JustPrints \/ NotThere
  BY <1>1 DEF PrintOnly, InterruptTest, ListHeaders, Stat, List
<1>4. pc' = "prompt" /\ UNCHANGED <<open_fds, size, driver, content, shown>>
  BY <1>3 DEF JustPrints, NotThere, Prompt, OpenMissing, vars
<1> QED
  BY <1>2, <1>4, BackAtPrompt

\* What follows the command.
LEMMA ArgsCount ==
  ASSUME ArgsFit, pc \in {"run", "write", "ropen"}
  PROVE  Len(args) \in Nat
<1>1. args \in Seq(Seq(Bytes))
  BY DEF ArgsFit
<1> QED
  BY <1>1

LEMMA ArgType ==
  ASSUME ArgsFit, pc \in {"run", "write", "ropen"}, NEW i \in 1 .. Len(args) - 1
  PROVE  Arg(i) \in Seq(Bytes) /\ Len(Arg(i)) # 0 /\ Len(Arg(i)) < Word
<1>1. /\ args \in Seq(Seq(Bytes))
      /\ \A j \in 1 .. Len(args) : Len(args[j]) \in 1 .. Word - 1
  BY DEF ArgsFit
<1>2. i + 1 \in 1 .. Len(args)
  BY ArgsCount
<1>3. args[i + 1] \in Seq(Bytes) /\ Len(args[i + 1]) \in 1 .. Word - 1
  BY <1>1, <1>2
<1>4. Word \in Nat
  BY SizesAreWords
<1> QED
  BY <1>3, <1>4 DEF Arg

\* read: what is printed begins as the file.
LEMMA ReadInodeKeeps ==
  ASSUME Sound, TreeType, FilesSound, ArgsFit, OneDescriptor, ShownTrue, Running', ReadInode
  PROVE  Kept
<1>1. pc = "run"
  BY DEF ReadInode, Runs
<1>2. CASE JustPrints \/ NotThere
  <2>1. pc' = "prompt" /\ UNCHANGED <<open_fds, size, driver, content, shown>>
    BY <1>2 DEF JustPrints, NotThere, Prompt, OpenMissing, vars
  <2> QED
    BY <1>1, <2>1, BackAtPrompt
<1>3. CASE ~(JustPrints \/ NotThere)
  <2>1. ~Panics
    BY DEF Panics, Running
  <2>2. PICK v : v = lookup(Arg(1))
    OBVIOUS
  <2>3. PICK count : count = atoi(Arg(2))
    OBVIOUS
  <2>4. PICK bytes : bytes = DriverRead(v, count)
    OBVIOUS
  <2>5. /\ Given = 2 /\ v # missing
        /\ pc' = "prompt"
        /\ shown' = IF IsDirectory(v) THEN nothing
                    ELSE [vnode |-> v, count |-> count, bytes |-> bytes]
        /\ UNCHANGED <<treeVars, open_fds, size, driver, content>>
    BY <1>3, <2>1, <2>2, <2>3, <2>4 DEF ReadInode, Prompt
  <2>6. /\ Arg(1) \in Seq(Bytes)
        /\ Arg(2) \in Seq(Bytes) /\ Len(Arg(2)) # 0
    <3>1. Len(args) \in Nat
      BY <1>1, ArgsCount
    <3>2. Len(args) = 3
      BY <2>5, <3>1 DEF Given
    <3>3. 1 \in 1 .. Len(args) - 1 /\ 2 \in 1 .. Len(args) - 1
      BY <3>2
    <3> QED
      BY <1>1, <3>3, ArgType
  <2>7. v \in Places /\ count \in Nat
    <3>1. count \in 0 .. Word - 1
      BY <2>3, <2>6, AtoiType
    <3> QED
      BY <2>2, <2>5, <2>6, <3>1, LookupType, SizesAreWords
  <2>8. FilesSound'
    BY <2>5, FilesKept
  <2>9. ShownTrue'
    <3>1. CASE IsDirectory(v)
      BY <2>5, <3>1 DEF ShownTrue
    <3>2. CASE ~IsDirectory(v)
      <4>1. BeginsAs(v, count, bytes)
        BY <2>4, <2>7, <3>2, NoDirectory, DriverReads
      <4>2. BeginsAs(v, count, bytes)'
        BY <2>5, <4>1 DEF BeginsAs
      <4>3. shown'.vnode = v /\ shown'.count = count /\ shown'.bytes = bytes
        BY <2>5, <3>2
      <4> QED
        BY <2>5, <4>2, <4>3 DEF ShownTrue
    <3> QED
      BY <3>1, <3>2
  <2> QED
    BY <1>1, <2>5, <2>8, <2>9 DEF Kept, ArgsFit, OneDescriptor, Opened, ElfCommands
<1> QED
  BY <1>2, <1>3

\* The first call of the commands on files: one descriptor is open, on a place in the tree.
LEMMA OpenFileKeeps ==
  ASSUME Sound, TreeType, FilesSound, ArgsFit, OneDescriptor, ShownTrue, Running', OpenFile
  PROVE  Kept
<1>1. pc = "run" /\ Command \in {"write", "ropen"} \cup ElfCommands
  <2>1. pc = "run" /\ args[1] \in {<<c>> : c \in {"write", "ropen"} \cup ElfCommands}
    BY DEF OpenFile, Runs
  <2> QED
    BY <2>1 DEF Command
<1>2. open_fds = {} /\ shown = nothing
  BY <1>1 DEF OneDescriptor, ShownTrue, Opened, ElfCommands
<1>3. CASE JustPrints \/ NotThere
  <2>1. pc' = "prompt" /\ UNCHANGED <<open_fds, size, driver, content, shown>>
    BY <1>3 DEF JustPrints, NotThere, Prompt, OpenMissing, vars
  <2> QED
    BY <1>1, <2>1, BackAtPrompt
<1>4. CASE ~(JustPrints \/ NotThere)
  <2>1. PICK v : v = lookup(Arg(1))
    OBVIOUS
  <2>2. /\ Enough /\ v # missing
        /\ Open(v)
        /\ fd' \in {d.fd : d \in open_fds' \ open_fds} /\ pc' = Command
        /\ UNCHANGED <<treeVars, args, shown>>
    BY <1>4, <2>1 DEF OpenFile, Found
  <2>3. Len(args) \in Nat
    BY <1>1, ArgsCount
  <2>4. Len(args) >= 2 /\ (Command \notin ElfCommands => Len(args) = 3)
    <3>1. PICK n \in Nat : n = Len(args)
      BY <2>3
    <3>2. Given = n - 1
      BY <3>1 DEF Given
    <3>3. Given = 2 \/ (Given >= 1 /\ Command \in ElfCommands)
      BY <2>2 DEF Enough
    <3> QED
      BY <3>1, <3>2, <3>3
  <2>5. Arg(1) \in Seq(Bytes)
    <3>1. 1 \in 1 .. Len(args) - 1
      BY <2>3, <2>4
    <3> QED
      BY <1>1, <3>1, ArgType
  <2>6. v \in Places
    BY <2>1, <2>2, <2>5, LookupType
  <2>7. PICK id : open_fds' = {Descriptor(id, v, 0)}
    <3>1. status' # "halted"
      BY DEF Running
    <3>2. PICK id \in 0 .. MaxFd - 1 : open_fds' = open_fds \cup {Descriptor(id, v, 0)}
      BY <2>2, <3>1 DEF Open
    <3> QED
      BY <1>2, <3>2
  <2>8. fd' = id
    <3>1. Descriptor(id, v, 0).fd = id
      BY DEF Descriptor
    <3> QED
      BY <1>2, <2>2, <2>7, <3>1
  <2>9. OneDescriptor'
    <3>1. Descriptor(id, v, 0).fd = fd'
      BY <2>8 DEF Descriptor
    <3>2. pc' \in Opened
      BY <1>1, <2>2 DEF Opened
    <3> QED
      BY <2>6, <2>7, <2>8, <3>1, <3>2 DEF OneDescriptor
  <2>10. FilesSound'
    <3>1. UNCHANGED <<size, driver, content>>
      BY <2>2 DEF Open
    <3> QED
      BY <3>1, FilesKept
  <2>11. ArgsFit'
    <3>1. args' = args /\ pc' # "run" /\ (pc' \notin ElfCommands => Len(args) = 3)
      BY <1>1, <2>2, <2>4 DEF ElfCommands
    <3>2. pc' \in {"run", "write", "ropen"} => pc' \notin ElfCommands
      BY DEF ElfCommands
    <3> QED
      BY <1>1, <3>1, <3>2 DEF ArgsFit
  <2>12. ShownTrue'
    BY <1>2, <2>2 DEF ShownTrue
  <2> QED
    BY <2>9, <2>10, <2>11, <2>12 DEF Kept
<1> QED
  BY <1>3, <1>4

\* Before the command reads, nothing is shown.
LEMMA NothingShown ==
  ASSUME ShownTrue, pc \in {"write", "ropen"} \cup ElfCommands
  PROVE  shown = nothing
BY DEF ShownTrue, ElfCommands

\* Calls for a directory do nothing.
LEMMA SkipDirectoryKeeps ==
  ASSUME Sound, FilesSound, OneDescriptor, ShownTrue, SkipDirectory
  PROVE  Kept
<1>1. /\ pc \in {"write", "ropen"} /\ pc' = "close"
      /\ UNCHANGED <<fd, shown, open_fds, size, driver, content>>
  BY DEF SkipDirectory, monitorVars, vars
<1>2. OneDescriptor'
  <2>1. open_fds = {Desc} /\ Desc.fd = fd
    BY <1>1, DescIs DEF Opened, Descriptor
  <2>2. PICK d : d = Desc
    OBVIOUS
  <2> QED
    BY <1>1, <2>1, <2>2 DEF OneDescriptor, Opened
<1>3. FilesSound' /\ ShownTrue'
  BY <1>1, FilesKept, ShownKept
<1> QED
  BY <1>1, <1>2, <1>3 DEF Kept, ArgsFit

\* write: Files' lemmas about writes, for a descriptor at the start of its file.
LEMMA WriteFileKeeps ==
  ASSUME Sound, FilesSound, ArgsFit, OneDescriptor, ShownTrue, WriteFile, Sound'
  PROVE  Kept
<1>1. /\ pc = "write" /\ pc' = "close" /\ ~IsDirectory(Desc.vnode)
      /\ Write(Desc, Arg(2))
      /\ UNCHANGED <<fd, shown>>
  BY DEF WriteFile, Go, monitorVars
<1>2. PICK d : d = Desc
  OBVIOUS
<1>3. PICK bytes : bytes = Arg(2)
  OBVIOUS
<1>4. d.vnode \in Places /\ d.position = 0
  BY <1>1, <1>2, DescIs DEF Opened
<1>5. size \in [Vnodes -> 0 .. MaxSize] /\ ContentInv /\ IntactInv
  BY DEF FilesSound, IntactInv
<1>6. InFile(d)
  <2>1. d.vnode \in Vnodes
    BY <1>1, <1>2, <1>4, NoDirectory
  <2>2. size[d.vnode] \in Nat
    BY <1>5, <2>1, SizesAreWords
  <2> QED
    BY <1>4, <2>1, <2>2 DEF InFile
<1>7. Writable(bytes)
  <2>1. 2 \in 1 .. Len(args) - 1
    <3>1. Len(args) = 3
      BY <1>1 DEF ArgsFit
    <3> QED
      BY <3>1
  <2> QED
    BY <1>1, <1>3, <2>1, ArgType DEF Writable
<1>8. Write(d, bytes)
  BY <1>1, <1>2, <1>3
<1>9. FilesSound'
  <2>1. size' \in [Vnodes -> 0 .. MaxSize]
    BY <1>5, <1>6, <1>7, <1>8, WriteSizes
  <2>2. ContentInv'
    BY <1>5, <1>6, <1>7, <1>8, WriteContent
  <2>3. headers' \in Seq(HeaderSet) /\ AllHeld(headers', content')
    BY <1>5, <1>6, <1>7, <1>8, WriteHeaders DEF Sound
  <2> QED
    BY <2>1, <2>2, <2>3 DEF FilesSound, IntactInv
<1>10. OneDescriptor'
  <2>1. PICK p : Reposition(Desc, p)
    BY <1>1 DEF Write
  <2> QED
    BY <1>1, <2>1, DescMoved DEF Opened
<1>11. shown' = nothing
  BY <1>1, NothingShown
<1> QED
  BY <1>1, <1>9, <1>10, <1>11 DEF Kept, ArgsFit, ShownTrue

\* The driver never fails to find the header.
LEMMA NoWriteError ==
  ASSUME Sound, FilesSound, OneDescriptor
  PROVE  ~WriteError
<1> SUFFICES ASSUME WriteError PROVE FALSE
  OBVIOUS
<1>1. pc = "write" /\ ~IsDirectory(Desc.vnode) /\ get_header_by_inode(headers, Desc.vnode) = 0
  BY DEF WriteError, WriteFails
<1>2. Desc.vnode \in Places
  BY <1>1, DescIs DEF Opened
<1>3. Desc.vnode \in Vnodes
  BY <1>1, <1>2, NoDirectory
<1>4. PICK v \in Vnodes : v = Desc.vnode
  BY <1>3
<1> QED
  BY <1>1, <1>4, HeaderThere

\* ropen: what is printed begins as the file.
LEMMA ReadFileKeeps ==
  ASSUME Sound, FilesSound, ArgsFit, OneDescriptor, ShownTrue, ReadFile, Running'
  PROVE  Kept
<1>1. PICK v : v = Desc.vnode
  OBVIOUS
<1>2. PICK count : count = atoi(Arg(2))
  OBVIOUS
<1>3. PICK bytes : bytes = DriverRead(v, count)
  OBVIOUS
<1>4. status' # "overrun"
  BY DEF Running
<1>5. /\ pc = "ropen" /\ pc' = "close" /\ ~IsDirectory(v)
      /\ Read(Desc, count)
      /\ shown' = [vnode |-> v, count |-> count, bytes |-> bytes]
      /\ fd' = fd
  BY <1>1, <1>2, <1>3, <1>4 DEF ReadFile, Go
<1>6. UNCHANGED <<size, driver, content>>
  BY <1>5 DEF Read
<1>7. v \in Vnodes /\ v # Root
  <2>1. v \in Places
    BY <1>1, <1>5, DescIs DEF Opened
  <2> QED
    BY <1>5, <2>1, NoDirectory
<1>8. count \in Nat
  <2>1. 2 \in 1 .. Len(args) - 1
    <3>1. Len(args) = 3
      BY <1>5 DEF ArgsFit
    <3> QED
      BY <3>1
  <2>2. Arg(2) \in Seq(Bytes) /\ Len(Arg(2)) # 0
    BY <1>5, <2>1, ArgType
  <2>3. count \in 0 .. Word - 1
    BY <1>2, <2>2, AtoiType
  <2> QED
    BY <2>3, SizesAreWords
<1>9. FilesSound'
  BY <1>6, FilesKept
<1>10. OneDescriptor'
  <2>1. PICK p : Reposition(Desc, p)
    BY <1>5 DEF Read
  <2> QED
    BY <1>5, <2>1, DescMoved DEF Opened
<1>11. ShownTrue'
  <2>1. BeginsAs(v, count, bytes)
    BY <1>3, <1>7, <1>8, DriverReads
  <2>2. BeginsAs(v, count, bytes)'
    BY <1>6, <2>1 DEF BeginsAs
  <2>3. shown'.vnode = v /\ shown'.count = count /\ shown'.bytes = bytes
    BY <1>5
  <2> QED
    BY <1>5, <2>2, <2>3 DEF ShownTrue
<1> QED
  BY <1>5, <1>9, <1>10, <1>11 DEF Kept, ArgsFit

\* The ELF reader prints no contents.
LEMMA ReadTablesKeeps ==
  ASSUME Sound, FilesSound, OneDescriptor, ShownTrue, ReadTables
  PROVE  Kept
<1>1. pc \in ElfCommands /\ pc' = "close" /\ UNCHANGED <<fd, shown>>
  BY DEF ReadTables, monitorVars
<1>2. UNCHANGED <<size, driver, content>>
  BY DEF ReadTables, Read
<1>3. FilesSound'
  BY <1>2, FilesKept
<1>4. OneDescriptor'
  <2>1. open_fds = {Desc} /\ Desc.fd = fd
    BY <1>1, DescIs DEF Opened, Descriptor, ElfCommands
  <2>2. open_fds' = open_fds \/ \E p : Reposition(Desc, p)
    BY DEF ReadTables, Read
  <2>3. PICK d : d = Desc
    OBVIOUS
  <2>4. CASE open_fds' = open_fds
    BY <1>1, <2>1, <2>3, <2>4 DEF OneDescriptor, Opened
  <2>5. CASE \E p : Reposition(Desc, p)
    BY <1>1, <2>5, DescMoved DEF Opened, ElfCommands
  <2> QED
    BY <2>2, <2>4, <2>5
<1>5. shown' = nothing
  BY <1>1, NothingShown
<1> QED
  BY <1>1, <1>3, <1>4, <1>5 DEF Kept, ArgsFit, ShownTrue

\* The descriptor is given back.
LEMMA CloseFileKeeps ==
  ASSUME Sound, FilesSound, OneDescriptor, ShownTrue, CloseFile
  PROVE  Kept
<1>1. /\ pc = "close" /\ pc' = "prompt" /\ shown' = shown
      /\ open_fds' = open_fds \ {Desc} /\ UNCHANGED <<size, driver, content>>
  BY DEF CloseFile, Close, Prompt
<1>2. open_fds' = {}
  BY <1>1, DescIs DEF Opened
<1>3. FilesSound' /\ ShownTrue'
  BY <1>1, FilesKept, ShownKept
<1> QED
  BY <1>1, <1>2, <1>3 DEF Kept, ArgsFit, OneDescriptor, Opened, ElfCommands

\* Mounting touches neither descriptors nor files.
LEMMA MountKeeps ==
  ASSUME Sound, FilesSound, OneDescriptor, ShownTrue, MountNext, UNCHANGED monitorVars
  PROVE  Kept
<1>1. /\ pc \in Before /\ pc' \in Before \cup {"prompt"}
      /\ UNCHANGED <<open_fds, size, driver, content>>
  <2> USE DEF Before, Mounting, vars
  <2>1. CASE InitVFS \/ InstallModule \/ InstallNothing \/ InstallOther \/ Attach
    BY <2>1 DEF InitVFS, InstallModule, InstallNothing, InstallOther, Attach, Go
  <2>2. CASE ReadHeader
    BY <2>2 DEF ReadHeader
  <2>3. CASE MountEntry
    BY <2>3 DEF MountEntry
  <2> QED
    BY <2>1, <2>2, <2>3 DEF MountNext
<1>2. pc \notin Opened \cup {"prompt", "close"} /\ pc' \notin Opened \cup {"run", "write", "ropen"}
  BY <1>1 DEF Before, Mounting, Opened, ElfCommands
<1>3. open_fds' = {} /\ shown' = nothing
  BY <1>1, <1>2 DEF OneDescriptor, ShownTrue, monitorVars
<1>4. FilesSound'
  BY <1>1, FilesKept
<1> QED
  BY <1>2, <1>3, <1>4 DEF Kept, ArgsFit, OneDescriptor, ShownTrue

\* Every step of the monitor keeps the invariant.
LEMMA CommandNext ==
  ASSUME TreeInv, CommandInv, [MonitorNext]_allVars
  PROVE  CommandInv'
<1> SUFFICES ASSUME Sound' PROVE Kept
  BY DEF CommandInv, Kept
<1>1. Sound /\ FilesSound /\ ArgsFit /\ OneDescriptor /\ ShownTrue
  BY StillSound DEF CommandInv
<1>2. TreeType /\ Running'
  BY DEF TreeInv, Sound
<1>3. CASE MountNext /\ UNCHANGED monitorVars
  BY <1>1, <1>3, MountKeeps
<1>4. ASSUME NEW line \in Lines, Enter(line) PROVE Kept
  BY <1>1, <1>2, <1>4, EnterKeeps
<1>5. CASE PrintOnly \/ InterruptTest \/ ListHeaders \/ Stat \/ List
  BY <1>1, <1>2, <1>5, PrintingKeeps
<1>6. CASE ReadInode
  BY <1>1, <1>2, <1>6, ReadInodeKeeps
<1>7. CASE OpenFile
  BY <1>1, <1>2, <1>7, OpenFileKeeps
<1>8. CASE SkipDirectory
  BY <1>1, <1>8, SkipDirectoryKeeps
<1>9. CASE WriteFile
  BY <1>1, <1>9, WriteFileKeeps
<1>10. CASE WriteError
  BY <1>1, <1>10, NoWriteError
<1>11. CASE ReadFile
  BY <1>1, <1>2, <1>11, ReadFileKeeps
<1>12. CASE ReadTables
  BY <1>1, <1>12, ReadTablesKeeps
<1>13. CASE CloseFile
  BY <1>1, <1>13, CloseFileKeeps
<1>14. CASE MonitorEnded \/ UNCHANGED allVars
  <2>1. UNCHANGED <<open_fds, size, headers, mixed_up, status, content, pc, args, fd, shown>>
    BY <1>14 DEF MonitorEnded, allVars, vars, driver, monitorVars
  <2>2. FilesSound'
    BY <1>1, <2>1, FilesKept DEF driver
  <2> QED
    BY <1>1, <2>1, <2>2 DEF Kept, ArgsFit, OneDescriptor, ShownTrue, BeginsAs
<1> QED
  BY <1>3, <1>4, <1>5, <1>6, <1>7, <1>8, <1>9, <1>10, <1>11, <1>12, <1>13, <1>14 DEF MonitorNext

\* Commands find the tree as mount has made it and the files as the driver keeps them, and
\* leave them so, with no descriptor open at the prompt: the invariant the two theorems
\* below follow from.
THEOREM CommandInvHolds == MonitorSpec => [](TreeInv /\ CommandInv)
<1>1. TreeInv /\ CommandInv /\ [MonitorNext]_allVars => (TreeInv /\ CommandInv)'
  BY TreeNext, CommandNext
<1> QED
  BY TreeInit, CommandInit, <1>1, PTL DEF MonitorSpec

\* Every command gives its descriptor back (NothingLeftOpen), whatever lines are typed,
\* whatever the archive contains and however files have been moved: as long as the driver
\* has removed no header but the one it meant, it finds that of every file, and write
\* does not end without closing.
THEOREM NoDescriptorLeft == MonitorSpec => []NothingLeftOpen
<1>1. CommandInv => NothingLeftOpen
  BY DEF CommandInv, Sound, OneDescriptor, NothingLeftOpen, Opened, ElfCommands
<1> QED
  BY CommandInvHolds, <1>1, PTL

\* What read and ropen print of a file begins with what was written to it by whatever
\* commands before (ShownAsWritten), for every archive, every line and all counts.
THEOREM ShowsWhatWasWritten == MonitorSpec => []ShownAsWritten
<1>1. CommandInv => ShownAsWritten
  BY DEF CommandInv, Sound, ShownTrue, BeginsAs, ShownAsWritten
<1> QED
  BY CommandInvHolds, <1>1, PTL
=============================================================================
