------------------------------- MODULE MCBoot -------------------------------
(***************************************************************************)
(* Machines to boot on.                                                    *)
(***************************************************************************)
EXTENDS Boot

TwoPorts(first, second, good) ==
  [attached |-> <<first, second>>, dual |-> TRUE, healthy |-> TRUE, good |-> good,
   forgets |-> {}, default |-> [int |-> {}, off |-> Ports]]

Usual == TwoPorts("keyboard", "mouse", Ports)

\* A device on both ports and on either; the first port or the self test failing; a
\* controller that forgets its configuration in a self test, one that does so in the
\* resets and the detection, and one with a single channel.
MCBoards ==
  {Usual, TwoPorts("none", "mouse", Ports), TwoPorts("keyboard", "mouse", {Port2}),
   [TwoPorts("keyboard", "none", Ports) EXCEPT !.forgets = {"self_test"}],
   [Usual EXCEPT !.forgets = {"reset", "detect"}, !.default = [int |-> {}, off |-> {}]],
   [Usual EXCEPT !.healthy = FALSE],
   [Usual EXCEPT !.dual = FALSE, !.good = {Port1}, !.attached = <<"keyboard", "none">>]}
=============================================================================
