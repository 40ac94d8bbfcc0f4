------------------------------ MODULE PageMap ------------------------------
(***************************************************************************)
(* What the tables of an address space promise (abstract specification): a *)
(* map from pages to physical pages that grows by a page at a time.  A     *)
(* page that is mapped keeps what it is mapped to.                         *)
(***************************************************************************)
CONSTANTS Pages, Unmapped

VARIABLE map

Init == map = [v \in Pages |-> Unmapped]

Changed == {v \in Pages : map'[v] # map[v]}

MapPage == \A v \in Changed : map[v] = Unmapped /\ Changed = {v}

Spec == Init /\ [][MapPage]_map
=============================================================================
