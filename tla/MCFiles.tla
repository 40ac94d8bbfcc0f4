------------------------------ MODULE MCFiles ------------------------------
(***************************************************************************)
(* Small archives for Files.                                               *)
(***************************************************************************)
EXTENDS Files

\* A directory, and two files of less than a block.
DirAndTwoFiles == <<<<>>, <<"a">>, <<"b">>>>

Numbered == [v \in Vnodes |-> v]

\* What is written is told from what was there.
OneAndTwoBytes == {<<"x">>, <<"x", "x">>}
=============================================================================
