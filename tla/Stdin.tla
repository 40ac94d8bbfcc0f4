------------------------------- MODULE Stdin -------------------------------
(***************************************************************************)
(* Keyboard input: the keyboard's interrupt handler (drivers/ps2.cpp)      *)
(* appends to the vector Streams::stdin(), getch (libk/printk.cpp) takes   *)
(* from its head, and nothing keeps the two apart.  The gates of the IDT   *)
(* are interrupt gates (0x8E), so the handler runs without being           *)
(* interrupted and is one action; getch and pop_head (vector.hpp) are      *)
(* split where an interrupt can come in between, at each access to the     *)
(* vector or a node.  The heap is taken to be correct: new returns any     *)
(* address that is not in use, and what delete freed keeps its contents    *)
(* until it is handed out again.  The keyboard sends a code when a key is  *)
(* pressed, the same one again while it is held (Repeat), and another one  *)
(* when it is released; what that is depends on the controller (Release).  *)
(***************************************************************************)
EXTENDS Integers, Sequences, FiniteSets

CONSTANTS
  Addrs,          \* where nodes can be
  MaxTyped,       \* how many characters are typed
  Keys,           \* the keys with a character
  Shifts          \* the shift keys of the keyboard

nullptr == 0

Points == {"wait", "value", "next", "compare", "clear", "link_next",
           "link_prev", "free", "head", "load_size", "store_size"}

ASSUME StdinAssumption ==
  /\ Addrs \subseteq Nat \ {nullptr}
  /\ MaxTyped \in Nat

VARIABLES
  head, tail, size,  \* the vector
  node,              \* the nodes' memory
  inuse,             \* the addresses new has handed out
  translated,        \* does the controller translate the codes to set 1, as it is told to?
  shift_pressed,     \* of the driver
  held,              \* the shift keys that are down
  both,              \* were two of them down, since the last time none was?
  presses, down,     \* how often keys were pressed, and the presses that last
  typed,             \* how many characters were appended
  press, fresh,      \* the press each came from, and those that its first code brought
  got,               \* the characters getch returned, numbered as typed
  raced,             \* an interrupt has appended a character during pop_head
  pc,                \* where getch is, or "fault"
  local              \* the local variables of pop_head

vector == <<head, tail, size, node, inuse>>
shifts == <<shift_pressed, held, both>>
keys == <<presses, down, typed, press, fresh>>
keyboard == <<translated, shifts, keys>>
vars == <<vector, keyboard, got, raced, pc, local>>

Node(value, next, prev) == [value |-> value, next |-> next, prev |-> prev]

Unset == [ret |-> 0, new_head |-> nullptr, freed |-> nullptr, size |-> 0]

Init ==
  /\ head = nullptr /\ tail = nullptr /\ size = 0
  /\ node = [a \in Addrs |-> Node(0, nullptr, nullptr)]
  /\ inuse = {}
  /\ translated \in BOOLEAN
  /\ shift_pressed = FALSE /\ held = {} /\ both = FALSE
  /\ presses = 0 /\ down = [key \in Keys |-> 0]
  /\ typed = 0 /\ press = [i \in 1 .. MaxTyped |-> 0] /\ fresh = {}
  /\ got = <<>>
  /\ raced = FALSE
  /\ pc = "wait"
  /\ local = Unset

(***************************************************************************)
(* keyboard_irq_handler.                                                   *)
(***************************************************************************)
\* push_back: a new node behind the tail, or the only one.
PushBack(value) ==
  \E a \in Addrs \ inuse :
    /\ inuse' = inuse \cup {a}
    /\ tail' = a
    /\ size' = size + 1
    /\ \/ /\ tail # nullptr
          /\ node' = [node EXCEPT ![a] = Node(value, nullptr, tail), ![tail].next = a]
          /\ UNCHANGED head
       \/ /\ tail = nullptr
          /\ node' = [node EXCEPT ![a] = Node(value, nullptr, nullptr)]
          /\ head' = a

\* A shift key is pressed, or its code repeated, or it is released.
HeldAfter(key, make) ==
  /\ make \/ key \in held
  /\ held' = IF make THEN held \cup {key} ELSE held \ {key}
  /\ both' = (held' # {} /\ (both \/ \E k, l \in held' : k # l))

\* Mutant of ShiftIrq: the break codes are not recognized.
ShiftIrqMakeOnly(key, make) ==
  /\ pc # "fault" /\ translated
  /\ HeldAfter(key, make)
  /\ shift_pressed' = (shift_pressed \/ make)
  /\ UNCHANGED <<translated, keys, vector, got, raced, pc, local>>

\* The make or break code of a shift key.
ShiftIrq(key, make) ==
  /\ pc # "fault" /\ translated
  /\ HeldAfter(key, make)
  /\ shift_pressed' = make
  /\ UNCHANGED <<translated, keys, vector, got, raced, pc, local>>

\* Untranslated, the code that is shift's in set 1 is the one of a letter.
TakenForShift ==
  /\ pc # "fault" /\ ~translated
  /\ shift_pressed' = TRUE
  /\ UNCHANGED <<translated, held, both, keys, vector, got, raced, pc, local>>

\* Is the next character taken from the upper set?
Upper == shift_pressed

\* The code of a key with a character appends it, whatever was sent before.
CharIrq(n) ==
  /\ pc # "fault"
  /\ typed < MaxTyped
  /\ typed' = typed + 1
  /\ press' = [press EXCEPT ![typed + 1] = n]
  /\ PushBack(typed + 1)
  /\ raced' = (raced \/ pc # "wait")
  /\ UNCHANGED <<translated, shifts, got, pc, local>>

Press(key) ==
  /\ down[key] = 0
  /\ CharIrq(presses + 1)
  /\ presses' = presses + 1
  /\ down' = [down EXCEPT ![key] = presses + 1]
  /\ fresh' = fresh \cup {typed + 1}

\* A key that is held sends its code again.
Repeat(key) ==
  /\ down[key] # 0
  /\ CharIrq(down[key])
  /\ UNCHANGED <<presses, down, fresh>>

\* The top bit of a break code of set 1: it is skipped.  Untranslated it is two bytes, one
\* that is skipped for its top bit and the same code again.
Release(key) ==
  /\ pc # "fault"
  /\ down[key] # 0
  /\ down' = [down EXCEPT ![key] = 0]
  /\ UNCHANGED <<presses, fresh>>
  /\ IF translated
     THEN UNCHANGED <<translated, shifts, typed, press, vector, got, raced, pc, local>>
     ELSE CharIrq(down[key])

KeyIrq ==
  \/ \E key \in Shifts, make \in BOOLEAN : ShiftIrq(key, make)
  \/ TakenForShift
  \/ \E key \in Keys : Press(key) \/ Repeat(key) \/ Release(key)

(***************************************************************************)
(* getch and pop_head, from one shared access to the next.                 *)
(***************************************************************************)
Goto(p) == pc' = p

\* Mutant of Wait: length() <= 1.
WaitForTwo ==
  /\ pc = "wait"
  /\ Goto(IF size <= 1 THEN "wait" ELSE "value")
  /\ UNCHANGED <<vector, keyboard, got, local, raced>>

\* while (Streams::stdin().length() < 1) {}
Wait ==
  /\ pc = "wait"
  /\ Goto(IF size < 1 THEN "wait" ELSE "value")
  /\ UNCHANGED <<vector, keyboard, got, local, raced>>

\* Nothing is mapped at address 0: the page fault ends in kpanic.
Fault ==
  /\ pc = "value" /\ head = nullptr
  /\ Goto("fault")
  /\ UNCHANGED <<vector, keyboard, got, local, raced>>

ReadValue ==
  /\ pc = "value" /\ head # nullptr
  /\ local' = [local EXCEPT !.ret = node[head].value]
  /\ Goto("next")
  /\ UNCHANGED <<vector, keyboard, got, raced>>

ReadNext ==
  /\ pc = "next"
  /\ local' = [local EXCEPT !.new_head = node[head].next]
  /\ Goto("compare")
  /\ UNCHANGED <<vector, keyboard, got, raced>>

\* Mutant of Compare: no case for the last node.
CompareNever ==
  /\ pc = "compare"
  /\ Goto("link_next")
  /\ UNCHANGED <<vector, keyboard, got, local, raced>>

Compare ==
  /\ pc = "compare"
  /\ \/ /\ head = tail
        /\ local' = [local EXCEPT !.new_head = nullptr]
        /\ Goto("clear")
     \/ head # tail /\ Goto("link_next") /\ UNCHANGED local
  /\ UNCHANGED <<vector, keyboard, got, raced>>

ClearTail ==
  /\ pc = "clear"
  /\ tail' = nullptr
  /\ Goto("link_next")
  /\ UNCHANGED <<head, size, node, inuse, keyboard, got, local, raced>>

\* ~node links the neighbours of the node, first the next one to the previous.
LinkNext ==
  /\ pc = "link_next"
  /\ local' = [local EXCEPT !.freed = head]
  /\ node' = IF node[head].next = nullptr THEN node
             ELSE [node EXCEPT ![node[head].next].prev = node[head].prev]
  /\ Goto("link_prev")
  /\ UNCHANGED <<head, tail, size, inuse, keyboard, got, raced>>

LinkPrev ==
  /\ pc = "link_prev"
  /\ LET n == node[local.freed]
     IN  node' = IF n.prev = nullptr THEN node
                 ELSE [node EXCEPT ![n.prev].next = n.next]
  /\ Goto("free")
  /\ UNCHANGED <<head, tail, size, inuse, keyboard, got, local, raced>>

Free ==
  /\ pc = "free"
  /\ inuse' = inuse \ {local.freed}
  /\ Goto("head")
  /\ UNCHANGED <<head, tail, size, node, keyboard, got, local, raced>>

\* Mutant of SetHead: this->head is not advanced.
SetHeadForgotten ==
  /\ pc = "head"
  /\ Goto("load_size")
  /\ UNCHANGED <<vector, keyboard, got, local, raced>>

SetHead ==
  /\ pc = "head"
  /\ head' = local.new_head
  /\ Goto("load_size")
  /\ UNCHANGED <<tail, size, node, inuse, keyboard, got, local, raced>>

\* size-- is a load, a subtraction and a store (the kernel is built with -O0).
LoadSize ==
  /\ pc = "load_size"
  /\ local' = [local EXCEPT !.size = size]
  /\ Goto("store_size")
  /\ UNCHANGED <<vector, keyboard, got, raced>>

StoreSize ==
  /\ pc = "store_size"
  /\ size' = local.size - 1
  /\ got' = Append(got, local.ret)
  /\ local' = Unset
  /\ Goto("wait")
  /\ UNCHANGED <<head, tail, node, inuse, keyboard, raced>>

Getch ==
  \/ Wait \/ Fault \/ ReadValue \/ ReadNext \/ Compare \/ ClearTail
  \/ LinkNext \/ LinkPrev \/ Free \/ SetHead \/ LoadSize \/ StoreSize

Halted == pc = "fault" /\ UNCHANGED vars

Next ==
  \/ KeyIrq
  \/ Getch
  \/ Halted

Spec == Init /\ [][Next]_vars

\* The processor executes the monitor, the only caller of getch, whenever it is
\* not in an interrupt handler.
FairSpec == Spec /\ WF_vars(Getch)
-----------------------------------------------------------------------------
(***************************************************************************)
(* Properties.                                                             *)
(***************************************************************************)
\* Wherever the interrupts hit pop_head, characters can be lost, but getch returns none
\* twice and none before one that was appended earlier.  The characters of one press after
\* the first are those the keyboard sent the code again for: the "double characters" of the
\* comment at ps2.cpp:516 come with a key that is held, or with the break codes of a
\* controller that does not translate, and not from the stream.
GotInOrder ==
  \A i, j \in DOMAIN got : i < j =>
    /\ got[i] < got[j]
    /\ got[j] \in fresh => press[got[i]] < press[got[j]]

\* The list holds the characters after the first n, as many as nth has nodes: nth[i] is the
\* i-th node from the head.  Value, next and previous of all of them are as they should be.
Chain(nth, n) ==
  \A i \in DOMAIN nth :
    /\ node[nth[i]].value = n + i
    /\ node[nth[i]].next = IF i + 1 \in DOMAIN nth THEN nth[i + 1] ELSE nullptr
    /\ node[nth[i]].prev = IF i - 1 \in DOMAIN nth THEN nth[i - 1] ELSE nullptr

\* From head to tail, and nothing but these nodes is allocated.
ListOf(nth, n, w) ==
  /\ Chain(nth, n)
  /\ head = (IF w = 0 THEN nullptr ELSE nth[1])
  /\ tail = (IF w = 0 THEN nullptr ELSE nth[w])
  /\ inuse = {nth[i] : i \in 1 .. w}

\* As long as no interrupt has hit pop_head itself, the list holds between two
\* calls of getch exactly the characters that were typed and not returned, in
\* their order, doubly linked from head to tail; the length counts them; and no
\* other node is allocated, so none leaked.
ListExact ==
  pc = "wait" /\ ~raced =>
    LET waiting == typed - Len(got)
    IN  /\ size = waiting
        /\ \E nth \in [1 .. waiting -> Addrs] : ListOf(nth, Len(got), waiting)

\* Every character that is typed is returned by getch, unless an interrupt hits
\* pop_head itself.
EveryKeyReturned ==
  \A n \in 1 .. MaxTyped : typed >= n ~> Len(got) >= n \/ raced

\* "Toggle the right character set based upon shift" (ps2.cpp:527): no character is from
\* the upper set while no shift key is down, and one is from the lower set with a shift
\* key down only after both were: the release of one clears the flag for the other.
UpperIffShifted ==
  [][typed' # typed /\ translated =>
       /\ Upper => held # {}
       /\ held # {} => Upper \/ both]_vars

\* "wait for stdin to be populated" (printk.cpp:98): when the wait is over,
\* there is a node at the head for pop_head to take.
PopulatedAfterWait == pc = "value" => head # nullptr
=============================================================================
