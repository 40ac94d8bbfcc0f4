---------------------------- MODULE StdinProofs ----------------------------
(***************************************************************************)
(* Keyboard input, for any number of nodes and characters.                 *)
(*                                                                         *)
(* That characters come out in order rests on the list's links, which the  *)
(* interrupt can damage.  OrderInv says that the damage is always of one   *)
(* kind: the list loses its head, or is about to, and keeps its tail       *)
(* (Doomed).  Then getch faults before it takes another character.  Until  *)
(* then the links are sound, whatever nodes have leaked.                   *)
(*                                                                         *)
(* PressInv follows the presses of the keys into the characters, and       *)
(* ShiftInv compares the driver's flag with the shift keys.                *)
(*                                                                         *)
(* ExactInv says what the list holds at each step of pop_head, as long as  *)
(* no interrupt has hit it.                                                *)
(***************************************************************************)
EXTENDS Stdin, TLAPS

Pointers == Addrs \cup {nullptr}

TypeOK ==
  /\ head \in Pointers /\ tail \in Pointers /\ size \in Int
  /\ node \in [Addrs -> [value : 0 .. typed, next : Pointers, prev : Pointers]]
  /\ inuse \subseteq Addrs
  /\ translated \in BOOLEAN
  /\ shift_pressed \in BOOLEAN /\ held \subseteq Shifts /\ both \in BOOLEAN
  /\ presses \in Nat /\ down \in [Keys -> 0 .. presses]
  /\ typed \in Nat /\ fresh \subseteq 1 .. typed
  /\ press \in [1 .. MaxTyped -> 0 .. presses]
  /\ got \in Seq(0 .. typed)
  /\ raced \in BOOLEAN
  /\ pc \in Points \cup {"fault"}
  /\ local \in [ret : 0 .. typed, new_head : Pointers, freed : Pointers, size : Int]

-----------------------------------------------------------------------------
(***************************************************************************)
(* The inductive invariant behind GotInOrder.                              *)
(***************************************************************************)
\* The head is being taken out.
Removing == {"next", "compare", "clear", "link_next", "link_prev", "free"}

\* It is taken out of the links, and the next one is not the head yet.
Unlinked == {"link_prev", "free", "head"}

\* The list has no head, or will have none, and a tail nonetheless.
Doomed == tail # nullptr /\ (head = nullptr \/ (pc = "head" /\ local.new_head = nullptr))

\* Following next from a node that is in use: the characters ascend, and prev leads back,
\* but for the node that is being freed.
LinksAscend ==
  \A a \in inuse : node[a].next # nullptr =>
    /\ node[a].next \in inuse
    /\ node[a].value < node[node[a].next].value
    /\ \/ node[node[a].next].prev = a
       \/ pc \in {"link_prev", "free"} /\ a = local.freed

HeadSound ==
  /\ pc # "head" /\ head # nullptr => head \in inuse
  /\ pc \notin Unlinked /\ head # nullptr => node[head].prev = nullptr
  /\ pc \notin {"link_next"} \cup Unlinked /\ head # nullptr => tail # nullptr

TailSound == tail # nullptr => tail \in inuse /\ node[tail].next = nullptr

\* pop_head's variables.
NewHeadSound ==
  local.new_head # nullptr =>
    /\ pc \in {"compare", "link_next"} => local.new_head = node[head].next
    /\ pc \in Unlinked => local.new_head \in inuse /\ node[local.new_head].prev = nullptr
    /\ pc \in {"link_next"} \cup Unlinked => tail # nullptr
    /\ pc # "clear"

FreedSound ==
  pc \in {"link_prev", "free"} =>
    /\ local.freed \in inuse
    /\ node[local.freed].prev = nullptr
    /\ local.new_head # nullptr => node[local.freed].next = local.new_head

Linked ==
  pc # "fault" /\ ~Doomed =>
    LinksAscend /\ HeadSound /\ TailSound /\ NewHeadSound /\ FreedSound

\* What getch will return is later than what it has returned.
GotBefore(n) == \A i \in DOMAIN got : got[i] < n

GotAscends == \A i, j \in DOMAIN got : i < j => got[i] < got[j]

Later ==
  /\ pc \in {"wait", "value"} /\ head # nullptr => GotBefore(node[head].value)
  /\ pc \notin {"wait", "value", "fault"} => GotBefore(local.ret)
  /\ pc = "next" => local.ret <= node[head].value
  /\ pc \in (Removing \cup {"head"}) \ {"next"} /\ local.new_head # nullptr =>
       local.ret < node[local.new_head].value
  /\ pc \in {"load_size", "store_size"} /\ head # nullptr => local.ret < node[head].value

OrderInv ==
  /\ TypeOK
  /\ pc \in Removing \cup {"head"} => head # nullptr
  /\ Linked
  /\ Later
  /\ GotAscends

-----------------------------------------------------------------------------
(***************************************************************************)
(* The inductive invariant behind ListExact.                               *)
(***************************************************************************)
Waiting == typed - Len(got)

\* In the middle of pop_head: the first of the w nodes is on its way out.
Popping(nth, n, w) ==
  /\ \A i \in 1 .. w :
       /\ node[nth[i]].value = n + i
       /\ node[nth[i]].next = IF i < w THEN nth[i + 1] ELSE nullptr
       /\ node[nth[i]].prev =
            IF i = 1 \/ (i = 2 /\ pc \in Unlinked) THEN nullptr ELSE nth[i - 1]
  /\ inuse = {nth[i] : i \in (IF pc = "head" THEN 2 ELSE 1) .. w}
  /\ head = nth[1]
  /\ tail = IF w = 1 /\ pc \in {"link_next"} \cup Unlinked THEN nullptr ELSE nth[w]
  /\ pc \notin {"value", "next"} => local.new_head = IF w = 1 THEN nullptr ELSE nth[2]
  /\ pc = "clear" => w = 1
  /\ pc \in {"link_prev", "free"} => local.freed = nth[1]
  /\ pc # "value" => local.ret = n + 1

ExactInv ==
  ~raced =>
    /\ pc # "fault"
    /\ Waiting \in Nat
    /\ size = Waiting
    /\ pc # "wait" => Waiting > 0
    /\ pc = "wait" => \E nth \in [1 .. Waiting -> Addrs] : ListOf(nth, Len(got), Waiting)
    /\ pc \in Removing \cup {"value", "head"} =>
         \E nth \in [1 .. Waiting -> Addrs] : Popping(nth, Len(got), Waiting)
    /\ pc \in {"load_size", "store_size"} =>
         /\ local.ret = Len(got) + 1
         /\ \E nth \in [1 .. Waiting - 1 -> Addrs] : ListOf(nth, Len(got) + 1, Waiting - 1)
    /\ pc = "store_size" => local.size = size

-----------------------------------------------------------------------------
\* push_back's writes to the nodes.
LEMMA PushBackNodes ==
  ASSUME TypeOK, NEW a \in Addrs, NEW value \in 0 .. typed + 1, a # tail,
         node' = IF tail # nullptr
                 THEN [node EXCEPT ![a] = Node(value, nullptr, tail), ![tail].next = a]
                 ELSE [node EXCEPT ![a] = Node(value, nullptr, nullptr)]
  PROVE  /\ node'[a].value = value /\ node'[a].next = nullptr /\ node'[a].prev = tail
         /\ \A b \in Addrs \ {a} :
              /\ node'[b].value = node[b].value
              /\ node'[b].prev = node[b].prev
              /\ node'[b].next = IF b = tail THEN a ELSE node[b].next
<1>1. nullptr \notin Addrs /\ (tail # nullptr => tail \in Addrs)
  BY StdinAssumption DEF TypeOK, Pointers
<1>2. node \in [Addrs -> [value : 0 .. typed, next : Pointers, prev : Pointers]]
  BY DEF TypeOK
<1>3. CASE tail # nullptr
  <2>1. /\ node'[a] = Node(value, nullptr, tail)
        /\ node'[tail] = [node[tail] EXCEPT !.next = a]
        /\ \A b \in Addrs \ {a, tail} : node'[b] = node[b]
    BY <1>1, <1>2, <1>3
  <2> QED
    BY <1>1, <1>2, <1>3, <2>1 DEF Node
<1>4. CASE tail = nullptr
  <2>1. /\ node'[a] = Node(value, nullptr, nullptr)
        /\ \A b \in Addrs \ {a} : node'[b] = node[b]
    BY <1>1, <1>2, <1>4
  <2> QED
    BY <1>1, <1>2, <1>4, <2>1 DEF Node
<1> QED
  BY <1>3, <1>4

LEMMA InitType == Init => TypeOK
<1> SUFFICES ASSUME Init PROVE TypeOK
  OBVIOUS
<1>1. node \in [Addrs -> [value : 0 .. typed, next : Pointers, prev : Pointers]]
  BY DEF Init, Pointers, Node
<1>2. local \in [ret : 0 .. typed, new_head : Pointers, freed : Pointers, size : Int]
  BY DEF Init, Pointers, Unset
<1>3. got \in Seq(0 .. typed)
  BY DEF Init
<1>4. down \in [Keys -> 0 .. presses] /\ press \in [1 .. MaxTyped -> 0 .. presses]
  BY DEF Init
<1> QED
  BY <1>1, <1>2, <1>3, <1>4 DEF Init, TypeOK, Pointers, Points, Unset

\* push_back keeps the types ...
LEMMA CharType ==
  ASSUME TypeOK, NEW n \in Nat, CharIrq(n)
  PROVE  /\ head' \in Pointers /\ tail' \in Pointers /\ size' \in Int
         /\ node' \in [Addrs -> [value : 0 .. typed', next : Pointers, prev : Pointers]]
         /\ inuse' \subseteq Addrs
         /\ typed' = typed + 1 /\ typed' \in Nat
         /\ got' \in Seq(0 .. typed') /\ raced' \in BOOLEAN
         /\ pc' \in Points \cup {"fault"}
         /\ local' \in [ret : 0 .. typed', new_head : Pointers, freed : Pointers, size : Int]
         /\ \A m \in Nat : n <= m /\ presses <= m => press' \in [1 .. MaxTyped -> 0 .. m]
         /\ UNCHANGED <<translated, shifts>>
<1>1. PICK a \in Addrs \ inuse :
        /\ inuse' = inuse \cup {a} /\ tail' = a /\ size' = size + 1
        /\ \/ /\ tail # nullptr
              /\ node' = [node EXCEPT ![a] = Node(typed + 1, nullptr, tail), ![tail].next = a]
              /\ UNCHANGED head
           \/ /\ tail = nullptr
              /\ node' = [node EXCEPT ![a] = Node(typed + 1, nullptr, nullptr)]
              /\ head' = a
  BY DEF CharIrq, PushBack
<1>2. typed' = typed + 1 /\ typed' \in Nat /\ 0 .. typed \subseteq 0 .. typed'
  BY DEF CharIrq, TypeOK
<1>3. node' \in [Addrs -> [value : 0 .. typed', next : Pointers, prev : Pointers]]
  <2>1. /\ node \in [Addrs -> [value : 0 .. typed', next : Pointers, prev : Pointers]]
        /\ typed + 1 \in 0 .. typed'
        /\ nullptr \in Pointers /\ tail \in Pointers /\ a \in Pointers
    BY <1>2 DEF TypeOK, Pointers
  <2>2. tail # nullptr => tail \in Addrs
    BY DEF TypeOK, Pointers
  <2> QED
    BY <1>1, <2>1, <2>2 DEF Node
<1>4. got' \in Seq(0 .. typed') /\ local' \in [ret : 0 .. typed', new_head : Pointers, freed : Pointers, size : Int]
  <2>1. got' = got /\ local' = local
    BY DEF CharIrq
  <2> QED
    BY <1>2, <2>1 DEF TypeOK
<1>5. ASSUME NEW m \in Nat, n <= m, presses <= m
      PROVE  press' \in [1 .. MaxTyped -> 0 .. m]
  <2>1. press' = [press EXCEPT ![typed + 1] = n]
    BY DEF CharIrq
  <2>2. press \in [1 .. MaxTyped -> 0 .. m]
    BY <1>5 DEF TypeOK
  <2>3. ASSUME NEW c \in 1 .. MaxTyped
        PROVE  press'[c] \in 0 .. m
    <3>1. press'[c] = IF c = typed + 1 THEN n ELSE press[c]
      BY <2>1, <2>2
    <3> QED
      BY <1>5, <2>2, <3>1
  <2>4. press' = [c \in 1 .. MaxTyped |-> press'[c]]
    BY <2>1, <2>2
  <2> QED
    BY <2>3, <2>4
<1>6. raced' \in BOOLEAN /\ pc' \in Points \cup {"fault"} /\ UNCHANGED <<translated, shifts>>
  BY DEF CharIrq, TypeOK
<1> QED
  BY <1>1, <1>2, <1>3, <1>4, <1>5, <1>6 DEF TypeOK, Pointers

\* ... and so do all interrupts ...
LEMMA IrqType ==
  ASSUME TypeOK, KeyIrq
  PROVE  TypeOK'
<1>1. CASE \E key \in Shifts, make \in BOOLEAN : ShiftIrq(key, make)
  <2>1. PICK key \in Shifts, make \in BOOLEAN : ShiftIrq(key, make)
    BY <1>1
  <2>2. shift_pressed' \in BOOLEAN /\ held' \subseteq Shifts
    BY <2>1 DEF TypeOK, ShiftIrq, HeldAfter
  <2>3. both' \in BOOLEAN
    BY <2>1, Zenon DEF TypeOK, ShiftIrq, HeldAfter
  <2>4. UNCHANGED <<translated, keys, vector, got, raced, pc, local>>
    BY <2>1 DEF ShiftIrq
  <2> QED
    BY <2>2, <2>3, <2>4 DEF TypeOK, keys, vector
<1>2. CASE TakenForShift
  BY <1>2 DEF TypeOK, TakenForShift, keys, vector
<1>3. ASSUME NEW key \in Keys, Press(key) \/ Repeat(key) \/ Release(key)
      PROVE  TypeOK'
  <2>1. presses \in Nat /\ down[key] \in 0 .. presses /\ typed \in Nat
    BY DEF TypeOK
  <2>2. CASE Press(key)
    <3>1. /\ CharIrq(presses + 1) /\ presses' = presses + 1
          /\ down' = [down EXCEPT ![key] = presses + 1]
          /\ fresh' = fresh \cup {typed + 1}
      BY <2>2 DEF Press
    <3>2. presses' \in Nat /\ down' \in [Keys -> 0 .. presses']
      <4>1. /\ presses' \in Nat /\ presses + 1 \in 0 .. presses'
            /\ 0 .. presses \subseteq 0 .. presses'
        BY <2>1, <3>1
      <4>2. down \in [Keys -> 0 .. presses']
        BY <4>1 DEF TypeOK
      <4> QED
        BY <3>1, <4>1, <4>2
    <3>3. typed' = typed + 1 /\ fresh' \subseteq 1 .. typed'
      BY <2>1, <3>1 DEF TypeOK, CharIrq
    <3>4. press' \in [1 .. MaxTyped -> 0 .. presses']
      BY <2>1, <3>1, CharType
    <3> QED
      BY <2>1, <3>1, <3>2, <3>3, <3>4, CharType DEF TypeOK, shifts
  <2>3. CASE Repeat(key) \/ (Release(key) /\ ~translated)
    <3>1. /\ CharIrq(down[key]) /\ UNCHANGED <<presses, fresh>>
          /\ down' = down \/ down' = [down EXCEPT ![key] = 0]
      BY <2>3 DEF Repeat, Release
    <3>2. presses' \in Nat /\ down' \in [Keys -> 0 .. presses']
      <4>1. down \in [Keys -> 0 .. presses] /\ 0 \in 0 .. presses
        BY <2>1 DEF TypeOK
      <4>2. CASE down' = down
        BY <2>1, <3>1, <4>1, <4>2
      <4>3. CASE down' = [down EXCEPT ![key] = 0]
        BY <2>1, <3>1, <4>1, <4>3
      <4> QED
        BY <3>1, <4>2, <4>3
    <3>3. typed' = typed + 1 /\ fresh' \subseteq 1 .. typed'
      BY <2>1, <3>1 DEF TypeOK, CharIrq
    <3>4. press' \in [1 .. MaxTyped -> 0 .. presses']
      BY <2>1, <3>1, CharType
    <3>5. down[key] \in Nat
      BY <2>1
    <3> QED
      BY <3>1, <3>2, <3>3, <3>4, <3>5, CharType DEF TypeOK, shifts
  <2>4. CASE Release(key) /\ translated
    <3>1. /\ UNCHANGED <<presses, fresh, translated, shifts, typed, press, vector, got, raced, pc, local>>
          /\ down' = [down EXCEPT ![key] = 0]
      BY <2>4 DEF Release
    <3>2. down' \in [Keys -> 0 .. presses]
      BY <2>1, <3>1 DEF TypeOK
    <3> QED
      BY <3>1, <3>2 DEF TypeOK, shifts, vector
  <2> QED
    BY <1>3, <2>2, <2>3, <2>4
<1> QED
  BY <1>1, <1>2, <1>3 DEF KeyIrq

\* ... and so does getch, while there is a head to take out.
LEMMA GetchType ==
  ASSUME TypeOK, Getch,
         pc \in Removing => head # nullptr,
         pc = "link_prev" => local.freed \in Addrs
  PROVE  TypeOK'
<1>1. head # nullptr => head \in Addrs
  BY DEF TypeOK, Pointers
<1>2. CASE Wait \/ Fault
  BY <1>2 DEF TypeOK, Wait, Fault, Goto, vector, keyboard, shifts, keys, Points
<1>3. CASE ReadValue \/ ReadNext
  BY <1>1, <1>3 DEF TypeOK, ReadValue, ReadNext, Goto, vector, keyboard, shifts, keys, Points, Removing
<1>4. CASE Compare \/ ClearTail
  BY <1>4 DEF TypeOK, Compare, ClearTail, Goto, vector, keyboard, shifts, keys, Points, Pointers
<1>5. CASE LinkNext
  BY <1>1, <1>5 DEF TypeOK, LinkNext, Goto, keyboard, shifts, keys, Points, Pointers, Removing
<1>6. CASE LinkPrev
  BY <1>6 DEF TypeOK, LinkPrev, Goto, keyboard, shifts, keys, Points, Pointers
<1>7. CASE Free \/ SetHead \/ LoadSize
  <2>1. CASE Free
    BY <2>1 DEF TypeOK, Free, Goto, keyboard, shifts, keys, Points
  <2>2. CASE SetHead
    BY <2>2 DEF TypeOK, SetHead, Goto, keyboard, shifts, keys, Points
  <2>3. CASE LoadSize
    BY <2>3 DEF TypeOK, LoadSize, Goto, vector, keyboard, shifts, keys, Points
  <2> QED
    BY <1>7, <2>1, <2>2, <2>3
<1>8. CASE StoreSize
  <2>1. got' \in Seq(0 .. typed)
    BY <1>8 DEF TypeOK, StoreSize
  <2> QED
    BY <1>8, <2>1 DEF TypeOK, StoreSize, Unset, Pointers, Goto, keyboard, shifts, keys, Points
<1> QED
  BY <1>2, <1>3, <1>4, <1>5, <1>6, <1>7, <1>8 DEF Getch

-----------------------------------------------------------------------------
LEMMA InitOrder == Init => OrderInv
BY InitType, StdinAssumption
   DEF Init, Unset, OrderInv, Removing, Unlinked, Linked, Doomed, LinksAscend, HeadSound, TailSound,
       NewHeadSound, FreedSound, Later, GotBefore, GotAscends

\* The shift keys, and anything else that leaves the list and getch alone.
LEMMA SameOrder ==
  ASSUME OrderInv, TypeOK', UNCHANGED <<head, tail, node, inuse, got, pc, local>>
  PROVE  OrderInv'
BY DEF OrderInv, Linked, Doomed, LinksAscend, HeadSound, TailSound,
       NewHeadSound, FreedSound, Later, GotBefore, GotAscends

\* A character comes in, at any point of getch.
LEMMA CharOrder ==
  ASSUME OrderInv, TypeOK', NEW m, CharIrq(m)
  PROVE  OrderInv'
<1> USE DEF OrderInv
<1>1. PICK a \in Addrs \ inuse :
        /\ inuse' = inuse \cup {a} /\ tail' = a /\ size' = size + 1
        /\ node' = IF tail # nullptr
                   THEN [node EXCEPT ![a] = Node(typed + 1, nullptr, tail), ![tail].next = a]
                   ELSE [node EXCEPT ![a] = Node(typed + 1, nullptr, nullptr)]
        /\ head' = IF tail # nullptr THEN head ELSE a
  BY DEF CharIrq, PushBack
<1>2. /\ typed' = typed + 1 /\ got' = got /\ pc' = pc /\ local' = local
      /\ pc # "fault"
  BY DEF CharIrq
<1>3. TypeOK' /\ typed + 1 \in 0 .. typed + 1
  BY DEF TypeOK
<1>4. /\ nullptr \notin Addrs /\ inuse \subseteq Addrs /\ typed \in Nat
      /\ \A b \in Addrs : /\ node[b].value \in 0 .. typed
                          /\ node[b].next \in Pointers /\ node[b].prev \in Pointers
      /\ \A i \in DOMAIN got : got[i] \in 0 .. typed
      /\ local.ret \in 0 .. typed
      /\ head \in Pointers /\ tail \in Pointers
      /\ local.new_head \in Pointers /\ local.freed \in Pointers
  <2>1. nullptr \notin Addrs /\ inuse \subseteq Addrs /\ typed \in Nat
    BY StdinAssumption DEF TypeOK
  <2>2. \A b \in Addrs : /\ node[b].value \in 0 .. typed
                         /\ node[b].next \in Pointers /\ node[b].prev \in Pointers
    BY DEF TypeOK
  <2>3. \A i \in DOMAIN got : got[i] \in 0 .. typed
    BY DEF TypeOK
  <2>4. /\ local.ret \in 0 .. typed
        /\ local.new_head \in Pointers /\ local.freed \in Pointers
        /\ head \in Pointers /\ tail \in Pointers
    BY DEF TypeOK
  <2> QED
    BY <2>1, <2>2, <2>3, <2>4
<1>5. inuse' = inuse \cup {a} /\ tail' = a /\ head' = IF tail # nullptr THEN head ELSE a
  BY <1>1
<1>6. CASE Doomed
  <2>1. tail # nullptr /\ head' = head /\ Doomed'
    BY <1>2, <1>4, <1>5, <1>6 DEF Doomed
  <2>2. head = nullptr \/ (pc = "head" /\ local.new_head = nullptr)
    BY <1>6 DEF Doomed
  <2>3. (pc \in Removing \cup {"head"} => head # nullptr)' /\ Linked' /\ GotAscends'
    BY <1>2, <2>1 DEF Linked, GotAscends
  <2>4. Later'
    <3>1. (pc \in {"wait", "value"} /\ head # nullptr => GotBefore(node[head].value))'
      BY <1>2, <2>1, <2>2
    <3>2. (pc \notin {"wait", "value", "fault"} => GotBefore(local.ret))'
      BY <1>2 DEF Later, GotBefore
    <3>3. (pc \notin Removing /\ (pc = "head" => local.new_head = nullptr))'
      BY <1>2, <2>1, <2>2 DEF Removing
    <3>4. (pc \in {"load_size", "store_size"} /\ head # nullptr => local.ret < node[head].value)'
      BY <1>2, <2>1, <2>2
    <3> QED
      BY <3>1, <3>2, <3>3, <3>4 DEF Later, Removing
  <2> QED
    BY <1>3, <2>3, <2>4
<1>7. CASE ~Doomed
  <2>1. LinksAscend /\ HeadSound /\ TailSound /\ NewHeadSound /\ FreedSound
    BY <1>2, <1>7 DEF Linked
  <2>2. a # tail
    BY <1>4, <2>1 DEF TailSound
  <2>3. /\ node'[a].value = typed + 1 /\ node'[a].next = nullptr /\ node'[a].prev = tail
        /\ \A b \in Addrs \ {a} :
             /\ node'[b].value = node[b].value
             /\ node'[b].prev = node[b].prev
             /\ node'[b].next = IF b = tail THEN a ELSE node[b].next
    BY <1>1, <1>3, <2>2, PushBackNodes
  <2>4. \A b \in inuse : b # a /\ b \in Addrs /\ b # nullptr
    BY <1>4, <1>5
  <2>5. LinksAscend'
    <3> SUFFICES ASSUME NEW b \in inuse', node'[b].next # nullptr
                 PROVE  /\ node'[b].next \in inuse'
                        /\ node'[b].value < node'[node'[b].next].value
                        /\ \/ node'[node'[b].next].prev = b
                           \/ pc' \in {"link_prev", "free"} /\ b = local'.freed
      BY DEF LinksAscend
    <3>1. b \in inuse
      BY <1>5, <2>3
    <3>2. CASE b = tail
      BY <1>4, <1>5, <2>3, <2>4, <3>1, <3>2
    <3>3. CASE b # tail
      BY <1>2, <1>4, <1>5, <2>1, <2>3, <2>4, <3>1, <3>3 DEF LinksAscend
    <3> QED
      BY <3>2, <3>3
  <2>6. TailSound'
    BY <1>5, <2>3 DEF TailSound
  <2>7. HeadSound'
    BY <1>2, <1>4, <1>5, <2>1, <2>3, <2>4 DEF HeadSound, Unlinked
  <2>8. FreedSound'
    BY <1>2, <1>5, <2>1, <2>3, <2>4 DEF FreedSound, TailSound
  <2>9. ~Doomed' => NewHeadSound'
    <3> SUFFICES ASSUME local.new_head # nullptr, ~Doomed' PROVE NewHeadSound'
      BY <1>2 DEF NewHeadSound
    <3>1. CASE pc \in {"compare", "link_next"}
      <4>1. /\ head \in inuse /\ tail # nullptr /\ local.new_head = node[head].next
            /\ head # tail
        BY <2>1, <3>1 DEF NewHeadSound, TailSound, HeadSound, Removing, Unlinked
      <4> QED
        BY <1>2, <1>4, <1>5, <2>3, <2>4, <3>1, <4>1 DEF NewHeadSound, Unlinked
    <3>2. CASE pc \in Unlinked
      BY <1>2, <1>4, <1>5, <2>1, <2>3, <2>4, <3>2 DEF NewHeadSound, Unlinked
    <3>3. CASE pc \notin {"compare", "link_next"} \cup Unlinked
      BY <1>2, <2>1, <3>3 DEF NewHeadSound, Unlinked
    <3> QED
      BY <3>1, <3>2, <3>3
  <2>10. Linked'
    BY <2>5, <2>6, <2>7, <2>8, <2>9 DEF Linked
  <2>11. (pc \in Removing \cup {"head"} => head # nullptr)' /\ GotAscends'
    BY <1>2, <1>4, <1>5 DEF GotAscends
  <2>12. Later'
    <3>1. pc # "head" /\ head # nullptr /\ head' = head =>
            head \in Addrs /\ node'[head].value = node[head].value
      BY <2>1, <2>3, <2>4 DEF HeadSound
    <3>2. head' # head => node'[head'].value = typed + 1
      BY <1>5, <2>3
    <3>3. (pc \in {"wait", "value"} /\ head # nullptr => GotBefore(node[head].value))'
      BY <1>2, <1>4, <3>1, <3>2 DEF Later, GotBefore
    <3>4. (pc \notin {"wait", "value", "fault"} => GotBefore(local.ret))'
      BY <1>2 DEF Later, GotBefore
    <3>5. (pc = "next" => local.ret <= node[head].value)'
      BY <1>2, <1>4, <3>1, <3>2 DEF Later, Removing
    <3>6. (pc \in {"load_size", "store_size"} /\ head # nullptr => local.ret < node[head].value)'
      BY <1>2, <1>4, <3>1, <3>2 DEF Later
    <3>7. (pc \in (Removing \cup {"head"}) \ {"next"} /\ local.new_head # nullptr =>
             local.ret < node[local.new_head].value)'
      <4> SUFFICES ASSUME pc \in (Removing \cup {"head"}) \ {"next"}, local.new_head # nullptr
                   PROVE  local.ret < node'[local.new_head].value
        BY <1>2
      <4>1. local.new_head \in inuse
        BY <2>1 DEF NewHeadSound, HeadSound, LinksAscend, Removing, Unlinked
      <4> QED
        BY <2>3, <2>4, <4>1 DEF Later
    <3> QED
      BY <3>3, <3>4, <3>5, <3>6, <3>7 DEF Later
  <2> QED
    BY <1>3, <2>10, <2>11, <2>12
<1> QED
  BY <1>6, <1>7

\* Reading the list: no link changes.
LEMMA ReadOrder ==
  ASSUME OrderInv, TypeOK', Wait \/ Fault \/ ReadValue \/ ReadNext \/ LoadSize
  PROVE  OrderInv'
<1> USE DEF OrderInv
<1>1. UNCHANGED <<head, tail, node, inuse, got>>
  BY DEF Wait, Fault, ReadValue, ReadNext, LoadSize, vector
<1>2. \A i \in DOMAIN got : got[i] \in Nat
  BY DEF TypeOK
<1>3. head # nullptr => head \in Addrs /\ node[head].value \in Nat /\ node[head].next \in Pointers
  BY DEF TypeOK, Pointers
<1>4. GotAscends'
  BY <1>1 DEF GotAscends
<1>5. CASE Wait \/ Fault \/ LoadSize
  <2>1. /\ \/ pc \in {"wait", "value"} /\ pc' \in {"wait", "value", "fault"}
           \/ pc = "load_size" /\ pc' = "store_size"
        /\ local'.ret = local.ret /\ local'.new_head = local.new_head
        /\ local'.freed = local.freed
    BY <1>5 DEF Wait, Fault, LoadSize, Goto, TypeOK
  <2>2. Linked'
    BY <1>1, <2>1 DEF Linked, Doomed, LinksAscend, HeadSound, TailSound, NewHeadSound,
                      FreedSound, Removing, Unlinked
  <2>3. Later'
    BY <1>1, <2>1 DEF Later, GotBefore, Removing
  <2> QED
    BY <1>1, <1>4, <2>1, <2>2, <2>3 DEF Removing
<1>6. CASE ReadValue
  <2>1. /\ pc = "value" /\ pc' = "next" /\ head # nullptr
        /\ local'.ret = node[head].value /\ local'.new_head = local.new_head
        /\ local'.freed = local.freed
    BY <1>6 DEF ReadValue, Goto, TypeOK
  <2>2. Linked'
    BY <1>1, <2>1 DEF Linked, Doomed, LinksAscend, HeadSound, TailSound, NewHeadSound,
                      FreedSound, Unlinked
  <2>3. Later'
    BY <1>1, <1>3, <2>1 DEF Later, GotBefore
  <2> QED
    BY <1>1, <1>4, <2>1, <2>2, <2>3
<1>7. CASE ReadNext
  <2>1. /\ pc = "next" /\ pc' = "compare" /\ head # nullptr
        /\ local'.ret = local.ret /\ local'.new_head = node[head].next
        /\ local'.freed = local.freed /\ local.ret \in Nat
    BY <1>7 DEF ReadNext, Goto, TypeOK, Removing
  <2>2. ~Doomed /\ ~Doomed'
    BY <1>1, <2>1 DEF Doomed
  <2>3. LinksAscend /\ HeadSound /\ TailSound
    BY <2>1, <2>2 DEF Linked
  <2>4. Linked'
    BY <1>1, <2>1, <2>3 DEF Linked, LinksAscend, HeadSound, TailSound, NewHeadSound,
                            FreedSound, Unlinked
  <2>5. local'.new_head # nullptr => local.ret < node[local'.new_head].value
    <3>1. head \in inuse /\ local.ret <= node[head].value
      BY <2>1, <2>3 DEF HeadSound, Later
    <3>2. SUFFICES ASSUME node[head].next # nullptr PROVE local.ret < node[node[head].next].value
      BY <2>1
    <3>3. node[head].value < node[node[head].next].value /\ node[head].next \in Addrs
      BY <2>3, <3>1, <3>2, <1>3 DEF LinksAscend, TypeOK, Pointers
    <3> QED
      BY <1>3, <2>1, <3>1, <3>3 DEF TypeOK
  <2>6. Later'
    BY <1>1, <2>1, <2>5 DEF Later, GotBefore
  <2> QED
    BY <1>1, <1>4, <2>1, <2>4, <2>6
<1> QED
  BY <1>5, <1>6, <1>7

\* The last node has no next one, and with it goes the tail.
LEMMA TailOrder ==
  ASSUME OrderInv, TypeOK', Compare \/ ClearTail
  PROVE  OrderInv'
<1> USE DEF OrderInv
<1>1. /\ UNCHANGED <<head, node, inuse, got>>
      /\ pc \in {"compare", "clear"} /\ pc' \in {"clear", "link_next"}
      /\ local'.ret = local.ret /\ local'.freed = local.freed
      /\ head # nullptr
  BY DEF Compare, ClearTail, Goto, TypeOK, vector, Removing
<1>2. ~Doomed /\ ~Doomed'
  BY <1>1 DEF Doomed
<1>3. LinksAscend /\ HeadSound /\ TailSound /\ NewHeadSound
  BY <1>1, <1>2 DEF Linked
<1>4. GotAscends'
  BY <1>1 DEF GotAscends
<1>5. CASE Compare /\ head = tail
  <2>1. pc = "compare" /\ pc' = "clear" /\ local'.new_head = nullptr /\ tail' = tail
    BY <1>5 DEF Compare, Goto, TypeOK, vector
  <2>2. Linked'
    BY <1>1, <1>3, <2>1 DEF Linked, LinksAscend, HeadSound, TailSound, NewHeadSound,
                            FreedSound, Unlinked
  <2>3. Later'
    BY <1>1, <2>1 DEF Later, GotBefore
  <2> QED
    BY <1>1, <1>4, <2>2, <2>3
<1>6. CASE Compare /\ head # tail
  <2>1. pc = "compare" /\ pc' = "link_next" /\ local' = local /\ tail' = tail
    BY <1>6 DEF Compare, Goto, vector
  <2>2. Linked'
    BY <1>1, <1>3, <2>1 DEF Linked, LinksAscend, HeadSound, TailSound, NewHeadSound,
                            FreedSound, Unlinked
  <2>3. Later'
    BY <1>1, <2>1 DEF Later, GotBefore, Removing
  <2> QED
    BY <1>1, <1>4, <2>1, <2>2, <2>3
<1>7. CASE ClearTail
  <2>1. pc = "clear" /\ pc' = "link_next" /\ local' = local /\ tail' = nullptr
    BY <1>7 DEF ClearTail, Goto
  <2>2. local.new_head = nullptr
    BY <1>3, <2>1 DEF NewHeadSound
  <2>3. Linked'
    BY <1>1, <1>3, <2>1, <2>2 DEF Linked, LinksAscend, HeadSound, TailSound, NewHeadSound,
                                  FreedSound, Unlinked
  <2>4. Later'
    BY <1>1, <2>1, <2>2 DEF Later, GotBefore
  <2> QED
    BY <1>1, <1>4, <2>1, <2>3, <2>4
<1> QED
  BY <1>5, <1>6, <1>7 DEF Compare

\* ~node: the next node becomes the first one.
LEMMA LinkNextOrder ==
  ASSUME OrderInv, TypeOK', LinkNext
  PROVE  OrderInv'
<1> USE DEF OrderInv
<1>1. /\ UNCHANGED <<head, tail, inuse, got>>
      /\ pc = "link_next" /\ pc' = "link_prev" /\ head # nullptr
      /\ local'.freed = head /\ local'.ret = local.ret /\ local'.new_head = local.new_head
  BY DEF LinkNext, Goto, TypeOK, Removing
<1>2. ~Doomed /\ ~Doomed'
  BY <1>1 DEF Doomed
<1>3. LinksAscend /\ HeadSound /\ TailSound /\ NewHeadSound
  BY <1>1, <1>2 DEF Linked
<1>4. head \in inuse /\ node[head].prev = nullptr /\ inuse \subseteq Addrs
  BY <1>1, <1>3 DEF HeadSound, Unlinked, TypeOK
<1>5. \A b \in Addrs : /\ node'[b].value = node[b].value
                       /\ node'[b].next = node[b].next
                       /\ node'[b].prev = IF b = node[head].next THEN nullptr ELSE node[b].prev
  <2>1. nullptr \notin Addrs /\ node[head].next \in Pointers
    BY <1>4, StdinAssumption DEF TypeOK
  <2>2. node' = IF node[head].next = nullptr THEN node
                ELSE [node EXCEPT ![node[head].next].prev = node[head].prev]
    BY DEF LinkNext
  <2> QED
    BY <1>4, <2>1, <2>2 DEF TypeOK, Pointers
<1>6. \A b \in inuse : node[b].next # nullptr => node[b].next \in inuse /\ node[b].next \in Addrs
  BY <1>3, <1>4 DEF LinksAscend
<1>7. LinksAscend'
  <2> SUFFICES ASSUME NEW b \in inuse, node[b].next # nullptr
               PROVE  /\ node[b].next \in inuse
                      /\ node'[b].value < node'[node[b].next].value
                      /\ node'[node[b].next].prev = b \/ b = head
    BY <1>1, <1>4, <1>5 DEF LinksAscend
  <2>1. /\ node[b].next \in inuse /\ b \in Addrs /\ node[b].next \in Addrs
        /\ node[b].value < node[node[b].next].value
        /\ node[node[b].next].prev = b
    BY <1>1, <1>3, <1>4, <1>6 DEF LinksAscend
  <2>2. CASE node[b].next # node[head].next
    BY <1>5, <2>1, <2>2
  <2>3. CASE node[b].next = node[head].next
    <3>1. node[node[head].next].prev = head
      BY <1>1, <1>3, <1>4, <2>3 DEF LinksAscend
    <3> QED
      BY <1>5, <2>1, <2>3, <3>1
  <2> QED
    BY <2>2, <2>3
<1>8. HeadSound' /\ TailSound'
  BY <1>1, <1>3, <1>4, <1>5 DEF HeadSound, TailSound, Unlinked
<1>9. NewHeadSound' /\ FreedSound'
  BY <1>1, <1>3, <1>4, <1>5, <1>6 DEF NewHeadSound, FreedSound, Unlinked
<1>10. GotAscends' /\ Linked'
  BY <1>1, <1>7, <1>8, <1>9 DEF GotAscends, Linked
<1>11. Later'
  <2>1. local.new_head # nullptr => local.new_head \in Addrs
    BY DEF TypeOK, Pointers
  <2> QED
    BY <1>1, <1>5, <2>1 DEF Later, GotBefore, Removing
<1> QED
  BY <1>1, <1>10, <1>11

\* The node that is freed has no previous one, and nothing is written.
LEMMA LinkPrevOrder ==
  ASSUME OrderInv, TypeOK', LinkPrev
  PROVE  OrderInv'
<1> USE DEF OrderInv
<1>1. /\ UNCHANGED <<head, tail, inuse, got, local>>
      /\ pc = "link_prev" /\ pc' = "free" /\ head # nullptr
  BY DEF LinkPrev, Goto, Removing
<1>2. ~Doomed /\ ~Doomed'
  BY <1>1 DEF Doomed
<1>3. LinksAscend /\ HeadSound /\ TailSound /\ NewHeadSound /\ FreedSound
  BY <1>1, <1>2 DEF Linked
<1>4. node' = node
  BY <1>1, <1>3 DEF FreedSound, LinkPrev
<1>5. Linked' /\ GotAscends'
  BY <1>1, <1>3, <1>4 DEF Linked, LinksAscend, HeadSound, TailSound, NewHeadSound,
                          FreedSound, Unlinked, GotAscends
<1>6. Later'
  BY <1>1, <1>4 DEF Later, GotBefore, Removing
<1> QED
  BY <1>1, <1>5, <1>6

\* No node that is in use leads to the one that is freed.  If it is the tail, or the
\* interrupt has made another node the tail, the list is doomed.
LEMMA FreeOrder ==
  ASSUME OrderInv, TypeOK', Free
  PROVE  OrderInv'
<1> USE DEF OrderInv
<1>1. /\ UNCHANGED <<head, tail, node, got, local>>
      /\ pc = "free" /\ pc' = "head" /\ head # nullptr
      /\ inuse' = inuse \ {local.freed}
  BY DEF Free, Goto, Removing
<1>2. ~Doomed
  BY <1>1 DEF Doomed
<1>3. LinksAscend /\ HeadSound /\ TailSound /\ NewHeadSound /\ FreedSound
  BY <1>1, <1>2 DEF Linked
<1>4. /\ local.freed \in inuse /\ node[local.freed].prev = nullptr
      /\ nullptr \notin inuse /\ inuse \subseteq Addrs
  BY <1>1, <1>3, StdinAssumption DEF FreedSound, TypeOK
<1>5. GotAscends'
  BY <1>1 DEF GotAscends
<1>6. Later'
  BY <1>1 DEF Later, GotBefore, Removing
<1>7. Linked'
  <2> SUFFICES ASSUME ~Doomed'
               PROVE  LinksAscend' /\ HeadSound' /\ TailSound' /\ NewHeadSound' /\ FreedSound'
    BY DEF Linked
  <2>1. tail # nullptr => local.new_head # nullptr
    BY <1>1 DEF Doomed
  <2>2. local.new_head # nullptr =>
          /\ node[local.freed].next = local.new_head
          /\ local.new_head \in inuse /\ node[local.new_head].prev = nullptr
          /\ tail # nullptr
    BY <1>1, <1>3 DEF NewHeadSound, FreedSound, Unlinked
  <2>3. local.new_head # nullptr => local.new_head # local.freed
    BY <1>3, <1>4, <2>2 DEF LinksAscend, TypeOK
  <2>4. tail # local.freed
    BY <1>3, <1>4, <2>1, <2>2 DEF TailSound
  <2>5. LinksAscend'
    <3> SUFFICES ASSUME NEW b \in inuse, b # local.freed, node[b].next # nullptr
                 PROVE  /\ node[b].next \in inuse /\ node[b].next # local.freed
                        /\ node[b].value < node[node[b].next].value
                        /\ node[node[b].next].prev = b
      BY <1>1 DEF LinksAscend
    <3>1. /\ node[b].next \in inuse
          /\ node[b].value < node[node[b].next].value
          /\ node[node[b].next].prev = b
      BY <1>3 DEF LinksAscend
    <3> QED
      BY <1>4, <3>1
  <2>6. HeadSound' /\ TailSound' /\ FreedSound'
    BY <1>1, <1>3, <2>4 DEF HeadSound, TailSound, FreedSound, Unlinked
  <2>7. NewHeadSound'
    BY <1>1, <2>2, <2>3 DEF NewHeadSound
  <2> QED
    BY <2>5, <2>6, <2>7
<1> QED
  BY <1>1, <1>5, <1>6, <1>7

LEMMA SetHeadOrder ==
  ASSUME OrderInv, TypeOK', SetHead
  PROVE  OrderInv'
<1> USE DEF OrderInv
<1>1. /\ UNCHANGED <<tail, node, inuse, got, local>>
      /\ pc = "head" /\ pc' = "load_size" /\ head' = local.new_head
  BY DEF SetHead, Goto
<1>2. GotAscends'
  BY <1>1 DEF GotAscends
<1>3. Later'
  BY <1>1 DEF Later, GotBefore
<1>4. Linked'
  <2> SUFFICES ASSUME ~Doomed'
               PROVE  LinksAscend' /\ HeadSound' /\ TailSound' /\ NewHeadSound' /\ FreedSound'
    BY DEF Linked
  <2>1. ~Doomed
    BY <1>1 DEF Doomed
  <2>2. LinksAscend /\ TailSound /\ NewHeadSound
    BY <1>1, <2>1 DEF Linked
  <2> QED
    BY <1>1, <2>2 DEF LinksAscend, HeadSound, TailSound, NewHeadSound, FreedSound, Unlinked
<1> QED
  BY <1>1, <1>2, <1>3, <1>4 DEF Removing

LEMMA StoreSizeOrder ==
  ASSUME OrderInv, TypeOK', StoreSize
  PROVE  OrderInv'
<1> USE DEF OrderInv
<1>1. /\ UNCHANGED <<head, tail, node, inuse>> /\ local'.new_head = nullptr
      /\ pc = "store_size" /\ pc' = "wait" /\ got' = Append(got, local.ret)
  BY DEF StoreSize, Goto, Unset
<1>2. /\ got \in Seq(Nat) /\ local.ret \in Nat
      /\ head # nullptr => node[head].value \in Nat
  BY DEF TypeOK, Pointers
<1>3. /\ DOMAIN got = 1 .. Len(got) /\ Len(got) \in Nat
      /\ \A i \in DOMAIN got : got[i] \in Nat
      /\ DOMAIN got' = 1 .. Len(got) + 1
      /\ got'[Len(got) + 1] = local.ret
      /\ \A i \in DOMAIN got : got'[i] = got[i]
  BY <1>1, <1>2
<1>4. GotBefore(local.ret) /\ (head # nullptr => local.ret < node[head].value)
  BY <1>1 DEF Later
<1>5. GotAscends'
  BY <1>2, <1>3, <1>4 DEF GotAscends, GotBefore
<1>6. Later'
  BY <1>1, <1>2, <1>3, <1>4 DEF Later, GotBefore, Removing
<1>7. Linked'
  BY <1>1 DEF Linked, Doomed, LinksAscend, HeadSound, TailSound, NewHeadSound, FreedSound,
              Unlinked
<1> QED
  BY <1>1, <1>5, <1>6, <1>7 DEF Removing

\* Every key's interrupt appends a character or leaves the vector alone.
LEMMA KeyIrqCases ==
  KeyIrq => (\E n : CharIrq(n)) \/ UNCHANGED <<vector, typed, press, got, raced, pc, local>>
<1> SUFFICES ASSUME KeyIrq
             PROVE  (\E n : CharIrq(n)) \/ UNCHANGED <<vector, typed, press, got, raced, pc, local>>
  OBVIOUS
<1>1. CASE TakenForShift \/ \E key \in Shifts, make \in BOOLEAN : ShiftIrq(key, make)
  BY <1>1 DEF TakenForShift, ShiftIrq, keys
<1>2. CASE \E key \in Keys : Press(key) \/ Repeat(key) \/ Release(key)
  BY <1>2 DEF Press, Repeat, Release
<1> QED
  BY <1>1, <1>2 DEF KeyIrq

LEMMA NextOrder == OrderInv /\ [Next]_vars => OrderInv'
<1> SUFFICES ASSUME OrderInv, [Next]_vars PROVE OrderInv'
  OBVIOUS
<1>1. CASE UNCHANGED vars
  <2>1. TypeOK'
    BY <1>1 DEF OrderInv, TypeOK, vars, vector, keyboard, shifts, keys
  <2> QED
    BY <1>1, <2>1, SameOrder DEF vars, vector
<1>2. CASE KeyIrq
  <2>1. TypeOK'
    BY <1>2, IrqType DEF OrderInv
  <2>2. CASE \E n : CharIrq(n)
    BY <2>1, <2>2, CharOrder
  <2>3. CASE UNCHANGED <<vector, typed, press, got, raced, pc, local>>
    BY <2>1, <2>3, SameOrder DEF vector
  <2> QED
    BY <1>2, <2>2, <2>3, KeyIrqCases
<1>4. CASE Getch
  <2>1. pc = "link_prev" => local.freed \in Addrs
    <3> SUFFICES ASSUME pc = "link_prev" PROVE local.freed \in Addrs
      OBVIOUS
    <3>1. FreedSound
      BY DEF OrderInv, Linked, Doomed, Removing
    <3> QED
      BY <3>1 DEF OrderInv, TypeOK, FreedSound
  <2>2. TypeOK'
    BY <1>4, <2>1, GetchType DEF OrderInv
  <2> QED
    BY <1>4, <2>2, ReadOrder, TailOrder, LinkNextOrder, LinkPrevOrder, FreeOrder,
       SetHeadOrder, StoreSizeOrder DEF Getch
<1>5. CASE Halted
  BY <1>1, <1>5 DEF Halted
<1> QED
  BY <1>1, <1>2, <1>4, <1>5 DEF Next

-----------------------------------------------------------------------------
(***************************************************************************)
(* The presses.                                                            *)
(***************************************************************************)
\* No character has the number 0 of a node that was never used.
Numbered ==
  /\ \A a \in inuse : node[a].value >= 1
  /\ pc \notin {"wait", "value", "fault"} => local.ret >= 1
  /\ \A i \in DOMAIN got : got[i] >= 1

\* The first character of a press has a later press than all before it.
PressesAscend ==
  \A c, d \in 1 .. typed : c < d /\ d \in fresh => press[c] < press[d]

PressInv == Numbered /\ PressesAscend /\ typed <= MaxTyped

LEMMA CharPress ==
  ASSUME TypeOK, OrderInv, Numbered, NEW n \in Nat, CharIrq(n)
  PROVE  Numbered' /\ typed' = typed + 1 /\ typed' <= MaxTyped
         /\ press'[typed + 1] = n /\ \A c \in 1 .. typed : press'[c] = press[c]
<1>1. PICK a \in Addrs \ inuse :
        /\ inuse' = inuse \cup {a}
        /\ node' = IF tail # nullptr
                   THEN [node EXCEPT ![a] = Node(typed + 1, nullptr, tail), ![tail].next = a]
                   ELSE [node EXCEPT ![a] = Node(typed + 1, nullptr, nullptr)]
  BY DEF CharIrq, PushBack
<1>2. UNCHANGED <<got, pc, local>> /\ typed' = typed + 1 /\ typed < MaxTyped
  BY DEF CharIrq
<1>3. typed \in Nat /\ MaxTyped \in Nat
  BY StdinAssumption DEF TypeOK
<1>4. \A b \in inuse' : node'[b].value = typed + 1 \/ (b \in inuse /\ node'[b].value = node[b].value)
  <2>1. \A b \in inuse : b \in Addrs /\ b # a
    BY DEF TypeOK
  <2>2. /\ tail # nullptr => tail \in Addrs
        /\ node \in [Addrs -> [value : 0 .. typed, next : Pointers, prev : Pointers]]
    BY DEF TypeOK, Pointers
  <2>3. node'[a].value = typed + 1
    BY <1>1, <2>2 DEF Node
  <2>4. \A b \in Addrs \ {a} : node'[b].value = node[b].value
    BY <1>1, <2>2 DEF Node
  <2> QED
    BY <1>1, <2>1, <2>3, <2>4
<1>5. Numbered'
  BY <1>2, <1>3, <1>4 DEF Numbered
<1>6. press' = [press EXCEPT ![typed + 1] = n] /\ DOMAIN press = 1 .. MaxTyped
      /\ typed + 1 \in 1 .. MaxTyped /\ \A c \in 1 .. typed : c # typed + 1
  BY <1>2, <1>3 DEF CharIrq, TypeOK
<1>7. press'[typed + 1] = n /\ \A c \in 1 .. typed : press'[c] = press[c]
  BY <1>3, <1>6 DEF TypeOK
<1> QED
  BY <1>2, <1>3, <1>5, <1>7

LEMMA KeyPress ==
  ASSUME OrderInv, PressInv, KeyIrq
  PROVE  PressInv'
<1>1. TypeOK /\ typed \in Nat /\ presses \in Nat /\ fresh \subseteq 1 .. typed
      /\ \A key \in Keys : down[key] \in Nat
  BY DEF OrderInv, TypeOK
<1>2. CASE TakenForShift \/ \E key \in Shifts, make \in BOOLEAN : ShiftIrq(key, make)
  BY <1>2 DEF TakenForShift, ShiftIrq, keys, vector, PressInv, Numbered, PressesAscend
<1>3. ASSUME NEW key \in Keys, Press(key)
      PROVE  PressInv'
  <2>1. CharIrq(presses + 1) /\ fresh' = fresh \cup {typed + 1} /\ presses + 1 \in Nat
    BY <1>1, <1>3 DEF Press
  <2>2. /\ Numbered' /\ typed' = typed + 1 /\ typed' <= MaxTyped
        /\ press'[typed + 1] = presses + 1 /\ \A c \in 1 .. typed : press'[c] = press[c]
    BY <1>1, <2>1, CharPress DEF PressInv
  <2>3. \A c \in 1 .. typed : press[c] \in Nat /\ press[c] <= presses
    <3>1. \A c \in 1 .. typed : c \in 1 .. MaxTyped
      BY <1>1, StdinAssumption DEF PressInv
    <3> QED
      BY <3>1, <1>1 DEF TypeOK
  <2>4. ASSUME NEW c \in 1 .. typed', NEW d \in 1 .. typed', c < d, d \in fresh'
        PROVE  press'[c] < press'[d]
    <3>1. CASE d = typed + 1
      <4>1. c \in 1 .. typed
        BY <1>1, <2>2, <2>4, <3>1
      <4> QED
        BY <1>1, <2>2, <2>3, <3>1, <4>1
    <3>2. CASE d # typed + 1
      <4>1. c \in 1 .. typed /\ d \in 1 .. typed /\ d \in fresh
        BY <1>1, <2>1, <2>2, <2>4, <3>2
      <4> QED
        BY <2>2, <2>4, <4>1 DEF PressInv, PressesAscend
    <3> QED
      BY <3>1, <3>2
  <2> QED
    BY <2>2, <2>4 DEF PressInv, PressesAscend
<1>4. ASSUME NEW key \in Keys, Repeat(key) \/ (Release(key) /\ ~translated)
      PROVE  PressInv'
  <2>1. CharIrq(down[key]) /\ fresh' = fresh /\ down[key] \in Nat
    BY <1>1, <1>4 DEF Repeat, Release
  <2>2. /\ Numbered' /\ typed' = typed + 1 /\ typed' <= MaxTyped
        /\ \A c \in 1 .. typed : press'[c] = press[c]
    BY <1>1, <2>1, CharPress DEF PressInv
  <2>3. ASSUME NEW c \in 1 .. typed', NEW d \in 1 .. typed', c < d, d \in fresh'
        PROVE  press'[c] < press'[d]
    <3>1. c \in 1 .. typed /\ d \in 1 .. typed /\ d \in fresh
      BY <1>1, <2>1, <2>2, <2>3
    <3> QED
      BY <2>2, <2>3, <3>1 DEF PressInv, PressesAscend
  <2> QED
    BY <2>2, <2>3 DEF PressInv, PressesAscend
<1>5. ASSUME NEW key \in Keys, Release(key), translated
      PROVE  PressInv'
  BY <1>5 DEF Release, vector, PressInv, Numbered, PressesAscend
<1> QED
  BY <1>2, <1>3, <1>4, <1>5 DEF KeyIrq

\* getch changes no character's number.
LEMMA GetchPress ==
  ASSUME OrderInv, PressInv, Getch
  PROVE  PressInv'
<1>1. UNCHANGED <<typed, press, fresh>>
  BY DEF Getch, Wait, Fault, ReadValue, ReadNext, Compare, ClearTail, LinkNext, LinkPrev, Free,
         SetHead, LoadSize, StoreSize, keyboard, keys
<1>2. TypeOK /\ inuse \subseteq Addrs /\ Numbered
  BY DEF OrderInv, TypeOK, PressInv
<1>3. CASE Wait \/ Fault \/ ReadNext \/ Compare \/ ClearTail \/ SetHead \/ LoadSize
  <2>1. UNCHANGED <<node, inuse, got>> /\ local'.ret = local.ret
        /\ (pc' \notin {"wait", "value", "fault"} => pc \notin {"wait", "value", "fault"})
    BY <1>2, <1>3 DEF Wait, Fault, ReadNext, Compare, ClearTail, SetHead, LoadSize, Goto, vector, TypeOK
  <2> QED
    BY <1>1, <1>2, <2>1 DEF PressInv, Numbered, PressesAscend
<1>4. CASE ReadValue
  <2>1. UNCHANGED <<node, inuse, got>> /\ pc = "value" /\ head # nullptr /\ local'.ret = node[head].value
    BY <1>2, <1>4 DEF ReadValue, vector, TypeOK
  <2>2. head \in inuse
    BY <2>1 DEF OrderInv, Linked, Doomed, HeadSound
  <2> QED
    BY <1>1, <1>2, <2>1, <2>2 DEF PressInv, Numbered, PressesAscend
<1>5. CASE LinkNext \/ LinkPrev \/ Free
  <2>1. /\ got' = got /\ local'.ret = local.ret /\ inuse' \subseteq inuse
        /\ pc \notin {"wait", "value", "fault"}
    BY <1>2, <1>5 DEF LinkNext, LinkPrev, Free, Goto, TypeOK
  <2>2. \A a \in Addrs : node'[a].value = node[a].value
    <3>1. CASE LinkNext
      BY <1>2, <3>1 DEF LinkNext, TypeOK
    <3>2. CASE LinkPrev
      BY <1>2, <3>2 DEF LinkPrev, TypeOK
    <3>3. CASE Free
      BY <3>3 DEF Free
    <3> QED
      BY <1>5, <3>1, <3>2, <3>3
  <2> QED
    BY <1>1, <1>2, <2>1, <2>2 DEF PressInv, Numbered, PressesAscend
<1>6. CASE StoreSize
  <2>1. UNCHANGED <<node, inuse>> /\ pc = "store_size" /\ pc' = "wait" /\ got' = Append(got, local.ret)
    BY <1>6 DEF StoreSize, Goto
  <2>2. got \in Seq(Nat) /\ local.ret \in Nat /\ local.ret >= 1
    BY <1>2, <2>1 DEF TypeOK, Numbered
  <2>3. \A i \in DOMAIN got' : got'[i] >= 1
    <3>1. /\ DOMAIN got' = 1 .. Len(got) + 1 /\ Len(got) \in Nat /\ DOMAIN got = 1 .. Len(got)
          /\ got'[Len(got) + 1] = local.ret /\ \A i \in 1 .. Len(got) : got'[i] = got[i]
      BY <2>1, <2>2
    <3> QED
      BY <1>2, <2>2, <3>1 DEF Numbered
  <2> QED
    BY <1>1, <1>2, <2>1, <2>3 DEF PressInv, Numbered, PressesAscend
<1> QED
  BY <1>3, <1>4, <1>5, <1>6 DEF Getch

\* Characters come out once and in order, wherever the interrupts hit pop_head, and a
\* press comes twice only if its code was sent again.
THEOREM CharactersInOrder == Spec => []GotInOrder
<1>1. Init => OrderInv /\ PressInv
  <2> SUFFICES ASSUME Init PROVE OrderInv /\ PressInv
    OBVIOUS
  <2>1. PressInv
    BY StdinAssumption DEF Init, PressInv, Numbered, PressesAscend
  <2> QED
    BY <2>1, InitOrder
<1>2. (OrderInv /\ PressInv) /\ [Next]_vars => (OrderInv /\ PressInv)'
  <2> SUFFICES ASSUME OrderInv, PressInv, [Next]_vars PROVE PressInv'
    BY NextOrder
  <2>1. CASE UNCHANGED vars \/ Halted
    BY <2>1 DEF Halted, vars, vector, keyboard, keys, PressInv, Numbered, PressesAscend
  <2> QED
    BY <2>1, KeyPress, GetchPress DEF Next
<1>3. OrderInv /\ PressInv => GotInOrder
  <2> SUFFICES ASSUME OrderInv, PressInv,
                      NEW i \in DOMAIN got, NEW j \in DOMAIN got, i < j
               PROVE  got[i] < got[j] /\ (got[j] \in fresh => press[got[i]] < press[got[j]])
    BY DEF GotInOrder
  <2>1. got[i] < got[j]
    BY DEF OrderInv, GotAscends
  <2>2. got[i] \in 1 .. typed /\ got[j] \in 1 .. typed
    BY DEF OrderInv, TypeOK, PressInv, Numbered
  <2> QED
    BY <2>1, <2>2 DEF PressInv, PressesAscend
<1> QED
  BY <1>1, <1>2, <1>3, PTL DEF Spec

-----------------------------------------------------------------------------
(***************************************************************************)
(* The flag and the shift keys.                                            *)
(***************************************************************************)
ShiftInv ==
  translated =>
    /\ shift_pressed => held # {}
    /\ held # {} => shift_pressed \/ both
    /\ \A key, other \in held : key = other \/ both

\* What one flag can say of several keys: a press sets it, and a release clears it although
\* others may be held, all of which were down together.
LEMMA ShiftIrqInv ==
  ASSUME ShiftInv, NEW key, NEW make \in BOOLEAN, ShiftIrq(key, make)
  PROVE  ShiftInv'
<1>1. translated /\ translated' /\ shift_pressed' = make /\ HeldAfter(key, make)
  BY DEF ShiftIrq
<1>2. both' <=> held' # {} /\ (both \/ \E k, l \in held' : k # l)
  BY <1>1, Zenon DEF HeldAfter
<1>3. CASE make
  <2>1. held' = held \cup {key}
    BY <1>1, <1>3 DEF HeldAfter
  <2> QED
    BY <1>1, <1>2, <1>3, <2>1 DEF ShiftInv
<1>4. CASE ~make
  <2>1. held' = held \ {key} /\ key \in held
    BY <1>1, <1>4 DEF HeldAfter
  <2>2. held' # {} => both
    BY <1>1, <2>1 DEF ShiftInv
  <2> QED
    BY <1>1, <1>2, <1>4, <2>1, <2>2 DEF ShiftInv
<1> QED
  BY <1>3, <1>4

\* A character is from the upper set only if a shift key is down, and from the lower set
\* with one down only if several were.
THEOREM UpperCaseIffShifted == Spec => UpperIffShifted
<1>1. Init => ShiftInv
  BY DEF Init, ShiftInv
<1>2. ShiftInv /\ [Next]_vars => ShiftInv'
  <2> SUFFICES ASSUME ShiftInv, [Next]_vars PROVE ShiftInv'
    OBVIOUS
  <2>1. CASE \E key \in Shifts, make \in BOOLEAN : ShiftIrq(key, make)
    BY <2>1, ShiftIrqInv
  <2>2. CASE TakenForShift
    BY <2>2 DEF TakenForShift, ShiftInv
  <2>3. CASE \E key \in Keys : Press(key) \/ Repeat(key) \/ Release(key)
    <3>1. UNCHANGED <<translated, shifts>>
      BY <2>3 DEF Press, Repeat, Release, CharIrq
    <3> QED
      BY <3>1 DEF ShiftInv, shifts
  <2>4. CASE Getch \/ Halted \/ UNCHANGED vars
    <3>1. UNCHANGED keyboard
      BY <2>4 DEF Getch, Halted, Wait, Fault, ReadValue, ReadNext, Compare, ClearTail, LinkNext,
                  LinkPrev, Free, SetHead, LoadSize, StoreSize, vars
    <3> QED
      BY <3>1 DEF ShiftInv, keyboard, shifts
  <2> QED
    BY <2>1, <2>2, <2>3, <2>4 DEF Next, KeyIrq
<1>3. ShiftInv => (typed' # typed /\ translated =>
                     (Upper => held # {}) /\ (held # {} => Upper \/ both))
  BY DEF ShiftInv, Upper
<1> QED
  BY <1>1, <1>2, <1>3, PTL DEF Spec, UpperIffShifted

-----------------------------------------------------------------------------
LEMMA InitExact == Init => ExactInv
<1> SUFFICES ASSUME Init PROVE ExactInv
  OBVIOUS
<1>1. Len(got) = 0 /\ Waiting = 0 /\ size = 0 /\ pc = "wait"
  <2>1. got = <<>> /\ typed = 0 /\ size = 0 /\ pc = "wait"
    BY DEF Init
  <2>2. Len(got) = 0
    BY <2>1
  <2>3. typed = 0
    BY <2>1
  <2>4. Waiting = 0
    BY <2>2, <2>3 DEF Waiting
  <2> QED
    BY <2>1, <2>2, <2>4, Zenon
<1>2. [i \in 1 .. 0 |-> 0] \in [1 .. Waiting -> Addrs] /\ ListOf([i \in 1 .. 0 |-> 0], Len(got), Waiting)
  BY <1>1 DEF Init, ListOf, Chain
<1> QED
  BY <1>1, <1>2 DEF ExactInv, Removing

LEMMA CountTypes ==
  ASSUME TypeOK
  PROVE  typed \in Nat /\ Len(got) \in Nat /\ got \in Seq(Nat) /\ nullptr \notin Addrs
<1>1. typed \in Nat /\ got \in Seq(0 .. typed)
  BY DEF TypeOK
<1>2. got \in Seq(Nat)
  BY <1>1
<1>3. Len(got) \in Nat
  BY <1>1
<1>4. nullptr \notin Addrs
  BY StdinAssumption
<1> QED
  BY <1>1, <1>2, <1>3, <1>4

\* The nodes of a list are all different, as their characters are.
LEMMA NodesDiffer ==
  ASSUME NEW w \in Nat, NEW n \in Nat, NEW nth \in [1 .. w -> Addrs],
         \A i \in 1 .. w : node[nth[i]].value = n + i
  PROVE  \A i, j \in 1 .. w : nth[i] = nth[j] => i = j
OBVIOUS

\* A list, by the position of each node.
LEMMA ListPositions ==
  ASSUME NEW w \in Nat, NEW n, NEW nth \in [1 .. w -> Addrs], ListOf(nth, n, w)
  PROVE  /\ \A i \in 1 .. w :
              /\ node[nth[i]].value = n + i
              /\ node[nth[i]].next = IF i < w THEN nth[i + 1] ELSE nullptr
              /\ node[nth[i]].prev = IF i > 1 THEN nth[i - 1] ELSE nullptr
         /\ head = (IF w = 0 THEN nullptr ELSE nth[1])
         /\ tail = (IF w = 0 THEN nullptr ELSE nth[w])
         /\ inuse = {nth[i] : i \in 1 .. w}
<1>1. DOMAIN nth = 1 .. w /\ Chain(nth, n)
  BY DEF ListOf
<1>2. ASSUME NEW i \in 1 .. w
      PROVE  /\ node[nth[i]].value = n + i
             /\ node[nth[i]].next = IF i < w THEN nth[i + 1] ELSE nullptr
             /\ node[nth[i]].prev = IF i > 1 THEN nth[i - 1] ELSE nullptr
  <2>1. /\ node[nth[i]].value = n + i
        /\ node[nth[i]].next = IF i + 1 \in 1 .. w THEN nth[i + 1] ELSE nullptr
        /\ node[nth[i]].prev = IF i - 1 \in 1 .. w THEN nth[i - 1] ELSE nullptr
    BY <1>1, Zenon DEF Chain
  <2>2. (i + 1 \in 1 .. w <=> i < w) /\ (i - 1 \in 1 .. w <=> i > 1)
    OBVIOUS
  <2> QED
    BY <2>1, <2>2
<1> QED
  BY <1>2 DEF ListOf

\* An interrupt appends a node, if getch waits.
LEMMA CharExact ==
  ASSUME TypeOK, ExactInv, NEW m, CharIrq(m)
  PROVE  ExactInv'
<1> SUFFICES ASSUME ~raced, pc = "wait"
             PROVE  ExactInv'
  BY DEF CharIrq, ExactInv
<1>1. PICK n, w, nth : n = Len(got) /\ w = Waiting /\ nth \in [1 .. w -> Addrs] /\ ListOf(nth, n, w)
  BY DEF ExactInv
<1>2. PICK a \in Addrs \ inuse :
        /\ inuse' = inuse \cup {a} /\ tail' = a /\ size' = size + 1
        /\ node' = IF tail # nullptr
                   THEN [node EXCEPT ![a] = Node(typed + 1, nullptr, tail), ![tail].next = a]
                   ELSE [node EXCEPT ![a] = Node(typed + 1, nullptr, nullptr)]
        /\ head' = IF tail # nullptr THEN head ELSE a
  BY DEF CharIrq, PushBack
<1>3. w \in Nat /\ n \in Nat /\ typed = n + w /\ size = w /\ nullptr \notin Addrs
  BY <1>1, CountTypes DEF ExactInv, Waiting
<1>4. typed' = typed + 1 /\ got' = got /\ pc' = "wait" /\ Waiting' = w + 1 /\ Len(got') = n
      /\ typed + 1 \in 0 .. typed + 1
  BY <1>1, <1>3 DEF CharIrq, Waiting
<1>5. /\ \A i \in 1 .. w : /\ nth[i] \in Addrs /\ nth[i] # a
                           /\ node[nth[i]].value = n + i
                           /\ node[nth[i]].next = IF i < w THEN nth[i + 1] ELSE nullptr
                           /\ node[nth[i]].prev = IF i > 1 THEN nth[i - 1] ELSE nullptr
      /\ head = (IF w = 0 THEN nullptr ELSE nth[1])
      /\ tail = (IF w = 0 THEN nullptr ELSE nth[w])
      /\ inuse = {nth[i] : i \in 1 .. w}
  <2>1. /\ inuse = {nth[i] : i \in 1 .. w}
        /\ \A i \in 1 .. w : nth[i] \in Addrs
    BY <1>1 DEF ListOf
  <2>2. \A i \in 1 .. w : nth[i] \in Addrs /\ nth[i] # a
    BY <1>2, <2>1
  <2>3. /\ \A i \in 1 .. w :
             /\ node[nth[i]].value = n + i
             /\ node[nth[i]].next = IF i < w THEN nth[i + 1] ELSE nullptr
             /\ node[nth[i]].prev = IF i > 1 THEN nth[i - 1] ELSE nullptr
        /\ head = (IF w = 0 THEN nullptr ELSE nth[1])
        /\ tail = (IF w = 0 THEN nullptr ELSE nth[w])
    <3>1. w \in Nat /\ nth \in [1 .. w -> Addrs] /\ ListOf(nth, n, w)
      BY <1>1, <1>3
    <3> HIDE DEF nullptr
    <3> QED
      BY <3>1, ListPositions
  <2> QED
    BY <2>1, <2>2, <2>3, Zenon
<1>6. a # tail
  BY <1>2, <1>3, <1>5
<1>7. /\ node'[a].value = typed + 1 /\ node'[a].next = nullptr /\ node'[a].prev = tail
      /\ \A b \in Addrs \ {a} :
           /\ node'[b].value = node[b].value
           /\ node'[b].prev = node[b].prev
           /\ node'[b].next = IF b = tail THEN a ELSE node[b].next
  BY <1>2, <1>3, <1>4, <1>6, PushBackNodes
<1>8. \A i \in 1 .. w : nth[i] = tail <=> i = w
  BY <1>3, <1>5, NodesDiffer
<1> DEFINE more == [i \in 1 .. w + 1 |-> IF i = w + 1 THEN a ELSE nth[i]]
<1>9. more \in [1 .. Waiting' -> Addrs]
  BY <1>3, <1>4, <1>5
<1>10. ListOf(more, n, w + 1)'
  <2>1. Chain(more, n)'
    <3> SUFFICES ASSUME NEW i \in 1 .. w + 1
                 PROVE  /\ node'[more[i]].value = n + i
                        /\ node'[more[i]].next = IF i + 1 \in 1 .. w + 1 THEN more[i + 1] ELSE nullptr
                        /\ node'[more[i]].prev = IF i - 1 \in 1 .. w + 1 THEN more[i - 1] ELSE nullptr
      BY <1>4 DEF Chain
    <3>1. CASE i = w + 1
      BY <1>3, <1>5, <1>7, <3>1
    <3>2. CASE i # w + 1
      <4>1. i \in 1 .. w /\ more[i] = nth[i] /\ nth[i] \in Addrs \ {a}
        BY <1>3, <1>5, <3>2
      <4>2. i - 1 \in 1 .. w + 1 => more[i - 1] = nth[i - 1] /\ i > 1
        BY <1>3, <4>1
      <4>3. i + 1 \in 1 .. w + 1 /\ more[i + 1] = IF i = w THEN a ELSE nth[i + 1]
        BY <1>3, <4>1
      <4>4. nth[i] = tail <=> i = w
        BY <1>8, <4>1
      <4> HIDE DEF more
      <4> QED
        BY <1>3, <1>5, <1>7, <4>1, <4>2, <4>3, <4>4
    <3> QED
      BY <3>1, <3>2
  <2>2. head' = more[1] /\ tail' = more[w + 1]
    BY <1>2, <1>3, <1>5
  <2>3. inuse' = {more[i] : i \in 1 .. w + 1}
    <3>1. \A i \in 1 .. w : i \in 1 .. w + 1 /\ more[i] = nth[i]
      BY <1>3
    <3>2. w + 1 \in 1 .. w + 1 /\ more[w + 1] = a
      BY <1>3
    <3>3. \A i \in 1 .. w + 1 : i = w + 1 \/ i \in 1 .. w
      BY <1>3
    <3> HIDE DEF more
    <3> QED
      BY <1>2, <1>5, <3>1, <3>2, <3>3
  <2> QED
    BY <1>3, <1>4, <2>1, <2>2, <2>3 DEF ListOf
<1>11. size' = Waiting' /\ Waiting' \in Nat
  BY <1>2, <1>3, <1>4
<1> HIDE DEF more
<1> QED
  BY <1>3, <1>4, <1>9, <1>10, <1>11 DEF ExactInv, Removing

\* A step in the middle of pop_head.
LEMMA PoppingExact ==
  ASSUME TypeOK, ExactInv, ~raced, ~raced', UNCHANGED <<size, got, typed>>,
         pc \in Removing \cup {"value"}, pc' \in Removing \cup {"head"},
         \A n \in Nat, w \in Nat \ {0} : \A nth \in [1 .. w -> Addrs] :
           Popping(nth, n, w) => Popping(nth, n, w)'
  PROVE  ExactInv'
<1>1. PICK n, w, nth : n = Len(got) /\ w = Waiting /\ nth \in [1 .. w -> Addrs] /\ Popping(nth, n, w)
  BY DEF ExactInv
<1>2. w \in Nat \ {0} /\ n \in Nat
  BY <1>1, CountTypes DEF ExactInv, Removing
<1>3. Popping(nth, n, w)' /\ Len(got') = n /\ Waiting' = w
  BY <1>1, <1>2 DEF Waiting
<1>4. pc' \notin {"wait", "load_size", "store_size", "fault"}
  BY DEF Removing
<1> QED
  BY <1>1, <1>2, <1>3, <1>4 DEF ExactInv

\* The nodes' positions, and what a node is that is linked to.
LEMMA PoppingNodes ==
  ASSUME NEW n \in Nat, NEW w \in Nat \ {0}, NEW nth \in [1 .. w -> Addrs], Popping(nth, n, w)
  PROVE  /\ \A i, j \in 1 .. w : nth[i] = nth[j] => i = j
         /\ \A i \in 1 .. w : nth[i] \in Addrs /\ nth[i] # nullptr
         /\ 1 \in 1 .. w /\ w \in 1 .. w /\ (w # 1 => 2 \in 1 .. w)
<1>1. \A i \in 1 .. w : node[nth[i]].value = n + i
  BY DEF Popping
<1>2. \A i, j \in 1 .. w : nth[i] = nth[j] => i = j
  BY <1>1
<1>3. \A i \in 1 .. w : nth[i] \in Addrs /\ nth[i] # nullptr
  BY StdinAssumption
<1> QED
  BY <1>2, <1>3

\* The wait ends with the list that it found.
LEMMA WaitExact ==
  ASSUME TypeOK, ExactInv, Wait
  PROVE  ExactInv'
<1> SUFFICES ASSUME ~raced
             PROVE  ExactInv'
  BY DEF Wait, ExactInv
<1>1. /\ UNCHANGED <<head, tail, size, node, inuse, typed, got, raced, local>>
      /\ pc = "wait" /\ pc' = IF size < 1 THEN "wait" ELSE "value"
  BY DEF Wait, Goto, vector, keyboard, keys
<1>2. PICK n, w, nth : n = Len(got) /\ w = Waiting /\ nth \in [1 .. w -> Addrs] /\ ListOf(nth, n, w)
  BY <1>1 DEF ExactInv
<1>3. w \in Nat /\ size = w /\ Waiting' = w /\ Len(got') = n
  BY <1>1, <1>2 DEF ExactInv, Waiting
<1>4. CASE w = 0
  <2>1. pc' = pc
    BY <1>1, <1>3, <1>4
  <2> QED
    BY <1>1, <1>2, <1>3, <2>1 DEF ExactInv, ListOf, Chain, Removing
<1>5. CASE w # 0
  <2>1. pc' = "value"
    BY <1>1, <1>3, <1>5
  <2>2. /\ \A i \in 1 .. w :
             /\ node[nth[i]].value = n + i
             /\ node[nth[i]].next = IF i < w THEN nth[i + 1] ELSE nullptr
             /\ node[nth[i]].prev = IF i > 1 THEN nth[i - 1] ELSE nullptr
        /\ head = nth[1] /\ tail = nth[w]
        /\ inuse = {nth[i] : i \in 1 .. w}
    <3>1. w \in Nat /\ nth \in [1 .. w -> Addrs] /\ ListOf(nth, n, w)
      BY <1>2, <1>3
    <3> HIDE DEF nullptr
    <3> QED
      BY <1>5, <3>1, ListPositions
  <2>3. Popping(nth, n, w)'
    <3>1. \A i \in 1 .. w :
            node'[nth[i]].prev =
              IF i = 1 \/ (i = 2 /\ pc' \in Unlinked) THEN nullptr ELSE nth[i - 1]
      BY <1>1, <1>3, <2>1, <2>2 DEF Unlinked
    <3> QED
      BY <1>1, <1>3, <1>5, <2>1, <2>2, <3>1 DEF Popping, Unlinked
  <2> QED
    BY <1>1, <1>2, <1>3, <1>5, <2>1, <2>3 DEF ExactInv, Removing
<1> QED
  BY <1>4, <1>5

\* There is a node at the head: no fault, and its value is the next character.
LEMMA ReadExact ==
  ASSUME TypeOK, ExactInv, Fault \/ ReadValue \/ ReadNext
  PROVE  ExactInv'
<1> SUFFICES ASSUME ~raced
             PROVE  ExactInv'
  BY DEF Fault, ReadValue, ReadNext, ExactInv
<1>1. UNCHANGED <<head, tail, size, node, inuse, typed, got, raced>>
  BY DEF Fault, ReadValue, ReadNext, vector, keyboard, keys
<1>2. ~Fault
  <2> SUFFICES ASSUME Fault PROVE FALSE
    OBVIOUS
  <2>1. pc = "value" /\ head = nullptr
    BY DEF Fault
  <2>2. PICK n, w, nth : n = Len(got) /\ w = Waiting /\ nth \in [1 .. w -> Addrs] /\ Popping(nth, n, w)
    BY <2>1 DEF ExactInv
  <2>3. w \in Nat \ {0} /\ n \in Nat
    BY <2>1, <2>2, CountTypes DEF ExactInv
  <2>4. nth[1] # nullptr
    BY <2>2, <2>3, PoppingNodes
  <2> QED
    BY <2>1, <2>2, <2>4 DEF Popping
<1>3. pc \in Removing \cup {"value"} /\ pc' \in Removing \cup {"head"}
  BY <1>2 DEF ReadValue, ReadNext, Goto, Removing
<1>4. ASSUME NEW n \in Nat, NEW w \in Nat \ {0}, NEW nth \in [1 .. w -> Addrs], Popping(nth, n, w)
      PROVE  Popping(nth, n, w)'
  <2>1. CASE ReadValue
    <3>1. pc = "value" /\ pc' = "next" /\ local' = [local EXCEPT !.ret = node[head].value]
      BY <2>1 DEF ReadValue, Goto
    <3>2. node[head].value = n + 1
      BY <1>4 DEF Popping
    <3>3. local'.ret = node[head].value
      BY <3>1 DEF TypeOK
    <3> QED
      BY <1>1, <1>4, <3>1, <3>2, <3>3 DEF Popping, Unlinked
  <2>2. CASE ReadNext
    <3>1. pc = "next" /\ pc' = "compare" /\ local' = [local EXCEPT !.new_head = node[head].next]
      BY <2>2 DEF ReadNext, Goto
    <3>2. node[head].next = IF w = 1 THEN nullptr ELSE nth[2]
      BY <1>4 DEF Popping
    <3>3. local'.ret = local.ret /\ local'.new_head = node[head].next
      BY <3>1 DEF TypeOK
    <3> QED
      BY <1>1, <1>4, <3>1, <3>2, <3>3 DEF Popping, Unlinked
  <2> QED
    BY <1>2, <2>1, <2>2
<1> QED
  BY <1>1, <1>3, <1>4, PoppingExact

\* The tail is cleared exactly if its node is the only one.
LEMMA TailExact ==
  ASSUME TypeOK, ExactInv, Compare \/ ClearTail
  PROVE  ExactInv'
<1> SUFFICES ASSUME ~raced
             PROVE  ExactInv'
  BY DEF Compare, ClearTail, ExactInv
<1>1. UNCHANGED <<head, size, node, inuse, typed, got, raced>>
  BY DEF Compare, ClearTail, vector, keyboard, keys
<1>3. pc \in Removing \cup {"value"} /\ pc' \in Removing \cup {"head"}
  BY DEF Compare, ClearTail, Goto, Removing
<1>4. ASSUME NEW n \in Nat, NEW w \in Nat \ {0}, NEW nth \in [1 .. w -> Addrs], Popping(nth, n, w)
      PROVE  Popping(nth, n, w)'
  <2>1. CASE Compare
    <3>1. /\ pc = "compare" /\ tail' = tail
          /\ \/ head = tail /\ local' = [local EXCEPT !.new_head = nullptr] /\ pc' = "clear"
             \/ head # tail /\ local' = local /\ pc' = "link_next"
      BY <2>1 DEF Compare, Goto, vector
    <3>2. head = tail <=> w = 1
      <4>1. head = nth[1] /\ tail = nth[w]
        BY <1>4, <3>1 DEF Popping, Unlinked
      <4> QED
        BY <1>4, <4>1, PoppingNodes
    <3>3. local'.ret = local.ret /\ local'.new_head = IF w = 1 THEN nullptr ELSE nth[2]
      BY <1>4, <3>1, <3>2 DEF Popping, TypeOK
    <3> QED
      BY <1>1, <1>4, <3>1, <3>2, <3>3 DEF Popping, Unlinked
  <2>2. CASE ClearTail
    <3>1. pc = "clear" /\ tail' = nullptr /\ pc' = "link_next" /\ local' = local
      BY <2>2 DEF ClearTail, Goto
    <3> QED
      BY <1>1, <1>4, <3>1 DEF Popping, Unlinked
  <2> QED
    BY <2>1, <2>2
<1> QED
  BY <1>1, <1>3, <1>4, PoppingExact

\* ~node unlinks the second node from the first, and has nothing to link on the other side.
LEMMA UnlinkExact ==
  ASSUME TypeOK, ExactInv, LinkNext \/ LinkPrev \/ Free
  PROVE  ExactInv'
<1> SUFFICES ASSUME ~raced
             PROVE  ExactInv'
  BY DEF LinkNext, LinkPrev, Free, ExactInv
<1>1. UNCHANGED <<head, tail, size, typed, got, raced>>
  BY DEF LinkNext, LinkPrev, Free, keyboard, keys
<1>3. pc \in Removing \cup {"value"} /\ pc' \in Removing \cup {"head"}
  BY DEF LinkNext, LinkPrev, Free, Goto, Removing
<1>4. ASSUME NEW n \in Nat, NEW w \in Nat \ {0}, NEW nth \in [1 .. w -> Addrs], Popping(nth, n, w)
      PROVE  Popping(nth, n, w)'
  <2>1. /\ \A i, j \in 1 .. w : nth[i] = nth[j] => i = j
        /\ \A i \in 1 .. w : nth[i] \in Addrs /\ nth[i] # nullptr
        /\ 1 \in 1 .. w /\ w \in 1 .. w /\ (w # 1 => 2 \in 1 .. w)
    BY <1>4, PoppingNodes
  <2>2. CASE LinkNext
    <3>1. /\ pc = "link_next" /\ pc' = "link_prev" /\ inuse' = inuse
          /\ local' = [local EXCEPT !.freed = head]
          /\ node' = IF node[head].next = nullptr THEN node
                     ELSE [node EXCEPT ![node[head].next].prev = node[head].prev]
      BY <2>2 DEF LinkNext, Goto
    <3>2. local'.ret = local.ret /\ local'.new_head = local.new_head /\ local'.freed = head
      BY <3>1 DEF TypeOK
    <3>3. head = nth[1] /\ node[head].prev = nullptr /\ node[head].next = IF w = 1 THEN nullptr ELSE nth[2]
      BY <1>4, <2>1 DEF Popping
    <3>4. \A i \in 1 .. w :
            /\ node'[nth[i]].value = node[nth[i]].value /\ node'[nth[i]].next = node[nth[i]].next
            /\ node'[nth[i]].prev = IF i = 2 THEN nullptr ELSE node[nth[i]].prev
      <4>1. CASE w = 1
        <5>1. node' = node /\ \A i \in 1 .. w : i # 2
          BY <3>1, <3>3, <4>1
        <5> QED
          BY <5>1
      <4>2. CASE w # 1
        <5>1. node' = [node EXCEPT ![nth[2]].prev = nullptr] /\ nth[2] \in Addrs
          BY <2>1, <3>1, <3>3, <4>2
        <5>2. /\ node'[nth[2]].value = node[nth[2]].value /\ node'[nth[2]].next = node[nth[2]].next
              /\ node'[nth[2]].prev = nullptr
              /\ \A b \in Addrs \ {nth[2]} : node'[b] = node[b]
          BY <5>1 DEF TypeOK
        <5> QED
          BY <2>1, <4>2, <5>2
      <4> QED
        BY <4>1, <4>2
    <3>5. \A i \in 1 .. w :
            node[nth[i]].prev = IF i = 1 THEN nullptr ELSE nth[i - 1]
      BY <1>4, <3>1 DEF Popping, Unlinked
    <3> QED
      BY <1>1, <1>4, <3>1, <3>2, <3>3, <3>4, <3>5 DEF Popping, Unlinked
  <2>3. CASE LinkPrev
    <3>1. pc = "link_prev" /\ pc' = "free" /\ local' = local /\ inuse' = inuse
      BY <2>3 DEF LinkPrev, Goto
    <3>2. node[local.freed].prev = nullptr
      BY <1>4, <2>1, <3>1 DEF Popping
    <3>3. node' = node
      BY <2>3, <3>2 DEF LinkPrev
    <3> QED
      BY <1>1, <1>4, <3>1, <3>3 DEF Popping, Unlinked
  <2>4. CASE Free
    <3>1. pc = "free" /\ pc' = "head" /\ local' = local /\ node' = node /\ inuse' = inuse \ {local.freed}
      BY <2>4 DEF Free, Goto
    <3>2. local.freed = nth[1] /\ inuse = {nth[i] : i \in 1 .. w}
      BY <1>4, <3>1 DEF Popping
    <3>3. inuse' = {nth[i] : i \in 2 .. w}
      BY <2>1, <3>1, <3>2
    <3> QED
      BY <1>1, <1>4, <3>1, <3>3 DEF Popping, Unlinked
  <2> QED
    BY <2>2, <2>3, <2>4
<1> QED
  BY <1>1, <1>3, <1>4, PoppingExact

\* ListPositions read the other way, for what a step makes of a list.
LEMMA PositionsList ==
  ASSUME NEW w \in Nat, NEW n, NEW nth \in [1 .. w -> Addrs],
         \A i \in 1 .. w :
            /\ node'[nth[i]].value = n + i
            /\ node'[nth[i]].next = IF i < w THEN nth[i + 1] ELSE nullptr
            /\ node'[nth[i]].prev = IF i > 1 THEN nth[i - 1] ELSE nullptr,
         head' = (IF w = 0 THEN nullptr ELSE nth[1]),
         tail' = (IF w = 0 THEN nullptr ELSE nth[w]),
         inuse' = {nth[i] : i \in 1 .. w}
  PROVE  ListOf(nth, n, w)'
<1>1. ASSUME NEW i \in 1 .. w
      PROVE  /\ node'[nth[i]].value = n + i
             /\ node'[nth[i]].next = IF i + 1 \in 1 .. w THEN nth[i + 1] ELSE nullptr
             /\ node'[nth[i]].prev = IF i - 1 \in 1 .. w THEN nth[i - 1] ELSE nullptr
  <2>1. (i + 1 \in 1 .. w <=> i < w) /\ (i - 1 \in 1 .. w <=> i > 1)
    OBVIOUS
  <2> QED
    BY <2>1
<1>2. Chain(nth, n)'
  <2>1. DOMAIN nth = 1 .. w
    OBVIOUS
  <2> QED
    BY <1>1, <2>1, Zenon DEF Chain
<1> QED
  BY <1>2 DEF ListOf

\* The second node becomes the head, and all move up.
LEMMA SetHeadExact ==
  ASSUME TypeOK, ExactInv, SetHead
  PROVE  ExactInv'
<1> SUFFICES ASSUME ~raced
             PROVE  ExactInv'
  BY DEF SetHead, ExactInv
<1>1. /\ UNCHANGED <<tail, size, node, inuse, typed, got, raced, local>>
      /\ pc = "head" /\ pc' = "load_size" /\ head' = local.new_head
  BY DEF SetHead, Goto, keyboard, keys
<1>2. PICK n, w, nth : n = Len(got) /\ w = Waiting /\ nth \in [1 .. w -> Addrs] /\ Popping(nth, n, w)
  BY <1>1 DEF ExactInv
<1>3. w \in Nat \ {0} /\ n \in Nat
  BY <1>1, <1>2, CountTypes DEF ExactInv
<1>4. size = w /\ Waiting' = w /\ Len(got') = n /\ w - 1 \in Nat
  BY <1>1, <1>2, <1>3 DEF ExactInv, Waiting
<1> DEFINE rest == [i \in 1 .. w - 1 |-> nth[i + 1]]
<1>5. \A i \in 1 .. w - 1 : rest[i] = nth[i + 1] /\ i + 1 \in 2 .. w /\ i + 1 \in 1 .. w
  BY <1>3
<1>6. rest \in [1 .. w - 1 -> Addrs]
  BY <1>2, <1>5
<1>7. ListOf(rest, n + 1, w - 1)'
  <2>1. ASSUME NEW i \in 1 .. w - 1
        PROVE  /\ node'[rest[i]].value = (n + 1) + i
               /\ node'[rest[i]].next = IF i < w - 1 THEN rest[i + 1] ELSE nullptr
               /\ node'[rest[i]].prev = IF i > 1 THEN rest[i - 1] ELSE nullptr
    <3>1. /\ node[nth[i + 1]].value = n + (i + 1)
          /\ node[nth[i + 1]].next = IF i + 1 < w THEN nth[(i + 1) + 1] ELSE nullptr
          /\ node[nth[i + 1]].prev = IF i = 1 THEN nullptr ELSE nth[(i + 1) - 1]
      <4>1. /\ node[nth[i + 1]].value = n + (i + 1)
            /\ node[nth[i + 1]].next = IF i + 1 < w THEN nth[(i + 1) + 1] ELSE nullptr
            /\ node[nth[i + 1]].prev =
                 IF i + 1 = 1 \/ (i + 1 = 2 /\ pc \in Unlinked) THEN nullptr ELSE nth[(i + 1) - 1]
        BY <1>2, <1>5 DEF Popping
      <4>2. pc \in Unlinked /\ (i + 1 = 2 <=> i = 1) /\ i + 1 # 1
        BY <1>1 DEF Unlinked
      <4> QED
        BY <4>1, <4>2
    <3>2. i < w - 1 => rest[i + 1] = nth[(i + 1) + 1]
      BY <1>3, <1>5
    <3>3. i > 1 => rest[i - 1] = nth[(i + 1) - 1]
      BY <1>3, <1>5
    <3>4. rest[i] = nth[i + 1]
      BY <1>5
    <3> HIDE DEF rest
    <3> QED
      BY <1>1, <1>3, <3>1, <3>2, <3>3, <3>4
  <2>2. head' = (IF w - 1 = 0 THEN nullptr ELSE rest[1])
    <3>1. head' = IF w = 1 THEN nullptr ELSE nth[2]
      BY <1>1, <1>2 DEF Popping
    <3> QED
      BY <1>3, <1>5, <3>1
  <2>3. tail' = (IF w - 1 = 0 THEN nullptr ELSE rest[w - 1])
    <3>1. tail' = IF w = 1 THEN nullptr ELSE nth[w]
      BY <1>1, <1>2 DEF Popping, Unlinked
    <3> QED
      BY <1>3, <1>5, <3>1
  <2>4. inuse' = {rest[i] : i \in 1 .. w - 1}
    <3>1. inuse' = {nth[i] : i \in 2 .. w}
      BY <1>1, <1>2 DEF Popping
    <3>2. \A j \in 2 .. w : j - 1 \in 1 .. w - 1 /\ rest[j - 1] = nth[j]
      BY <1>3, <1>5
    <3> HIDE DEF rest
    <3> QED
      BY <1>5, <3>1, <3>2
  <2> HIDE DEF rest
  <2> QED
    BY <1>4, <1>6, <2>1, <2>2, <2>3, <2>4, PositionsList
<1>8. local'.ret = n + 1
  BY <1>1, <1>2 DEF Popping
<1> HIDE DEF rest
<1> QED
  BY <1>1, <1>3, <1>4, <1>6, <1>7, <1>8 DEF ExactInv, Removing

\* The length is decremented with the list as it is.
LEMMA SizeExact ==
  ASSUME TypeOK, ExactInv, LoadSize \/ StoreSize
  PROVE  ExactInv'
<1> SUFFICES ASSUME ~raced
             PROVE  ExactInv'
  BY DEF LoadSize, StoreSize, ExactInv
<1>1. /\ UNCHANGED <<head, tail, node, inuse, typed, raced>>
      /\ pc \in {"load_size", "store_size"}
  BY DEF LoadSize, StoreSize, vector, keyboard, keys
<1>2. PICK n, w, nth :
        /\ n = Len(got) /\ w = Waiting
        /\ nth \in [1 .. w - 1 -> Addrs] /\ ListOf(nth, n + 1, w - 1)
  BY <1>1 DEF ExactInv
<1>3. w \in Nat \ {0} /\ n \in Nat /\ typed = n + w /\ size = w /\ local.ret = n + 1
  <2>1. pc # "wait" /\ size = Waiting /\ Waiting \in Nat /\ Waiting > 0 /\ local.ret = Len(got) + 1
    BY <1>1 DEF ExactInv
  <2>2. typed \in Nat /\ Len(got) \in Nat
    BY CountTypes
  <2> QED
    BY <1>2, <2>1, <2>2 DEF Waiting
<1>4. ListOf(nth, n + 1, w - 1)'
  BY <1>1, <1>2 DEF ListOf, Chain
<1>5. CASE LoadSize
  <2>1. /\ pc' = "store_size" /\ local' = [local EXCEPT !.size = size]
        /\ size' = size /\ got' = got
    BY <1>5 DEF LoadSize, Goto, vector
  <2>2. local'.size = size /\ local'.ret = local.ret
    BY <2>1 DEF TypeOK
  <2>3. Waiting' = w /\ Len(got') = n
    BY <1>1, <1>2, <2>1 DEF Waiting
  <2> QED
    BY <1>1, <1>2, <1>3, <1>4, <2>1, <2>2, <2>3 DEF ExactInv, Removing
<1>6. CASE StoreSize
  <2>1. /\ pc = "store_size" /\ pc' = "wait" /\ size' = local.size - 1
        /\ got' = Append(got, local.ret)
    BY <1>6 DEF StoreSize, Goto
  <2>2. size' = w - 1
    BY <1>3, <2>1 DEF ExactInv
  <2>3. Len(got') = n + 1
    BY <1>2, <1>3, <2>1, CountTypes
  <2>4. Waiting' = w - 1
    BY <1>1, <1>3, <2>3 DEF Waiting
  <2> QED
    BY <1>1, <1>2, <1>3, <1>4, <2>1, <2>2, <2>3, <2>4 DEF ExactInv, Removing
<1> QED
  BY <1>5, <1>6

LEMMA NextExact == OrderInv /\ ExactInv /\ [Next]_vars => ExactInv'
<1> SUFFICES ASSUME OrderInv, ExactInv, [Next]_vars PROVE ExactInv'
  OBVIOUS
<1>1. TypeOK
  BY DEF OrderInv
<1>2. CASE UNCHANGED vars \/ Halted
  <2>1. UNCHANGED <<head, tail, size, node, inuse, typed, got, raced, pc, local>>
    BY <1>2 DEF Halted, vars, vector, keyboard, keys
  <2> QED
    BY <2>1 DEF ExactInv, Waiting, ListOf, Chain, Popping
<1>3. CASE KeyIrq
  <2>1. CASE \E n : CharIrq(n)
    BY <1>1, <2>1, CharExact
  <2>2. CASE UNCHANGED <<vector, typed, press, got, raced, pc, local>>
    <3>1. UNCHANGED <<head, tail, size, node, inuse, typed, got, raced, pc, local>>
      BY <2>2 DEF vector
    <3> QED
      BY <3>1 DEF ExactInv, Waiting, ListOf, Chain, Popping
  <2> QED
    BY <1>3, <2>1, <2>2, KeyIrqCases
<1>4. CASE Getch
  BY <1>1, <1>4, WaitExact, ReadExact, TailExact, UnlinkExact, SetHeadExact, SizeExact DEF Getch
<1> QED
  BY <1>2, <1>3, <1>4 DEF Next

\* Until an interrupt hits pop_head, the list is between two calls of getch exactly what
\* was typed and not returned, and no node has leaked.
THEOREM ListStaysExact == Spec => []ListExact
<1>1. Init => OrderInv /\ ExactInv
  BY InitOrder, InitExact
<1>2. (OrderInv /\ ExactInv) /\ [Next]_vars => (OrderInv /\ ExactInv)'
  BY NextOrder, NextExact
<1>3. OrderInv /\ ExactInv => ListExact
  BY DEF ExactInv, ListExact, Waiting
<1> QED
  BY <1>1, <1>2, <1>3, PTL DEF Spec
=============================================================================
