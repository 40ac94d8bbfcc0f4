----------------------------- MODULE FramePool -----------------------------
(***************************************************************************)
(* What the physical memory manager promises the virtual memory manager   *)
(* and the heap (kernel/memory.h, namespace PMM): a frame belongs to at    *)
(* most one holder, an allocation is a run of consecutive frames that      *)
(* nobody held, and a frame that is given back can be handed out again.    *)
(* Which free run is chosen, and when the manager gives up, is open.       *)
(***************************************************************************)
EXTENDS Integers

CONSTANTS Frames,   \* the frames that may ever be handed out
          Sizes     \* the lengths of run a client asks for

VARIABLES free,     \* frames nobody holds
          held      \* allocations outstanding, [base, num] records

poolVars == <<free, held>>

Run(base, num) == base .. base + num - 1

PoolInit ==
  /\ free = Frames
  /\ held = {}

Take(base, num) ==
  /\ Run(base, num) \subseteq free
  /\ free' = free \ Run(base, num)
  /\ held' = held \cup {[base |-> base, num |-> num]}

GiveBack(a) ==
  /\ a \in held
  /\ free' = free \cup Run(a.base, a.num)
  /\ held' = held \ {a}

PoolNext ==
  \/ \E base \in Frames, num \in Sizes : Take(base, num)
  \/ \E a \in held : GiveBack(a)

PoolSpec == PoolInit /\ [][PoolNext]_poolVars
=============================================================================
