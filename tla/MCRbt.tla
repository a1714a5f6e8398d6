------------------------------- MODULE MCRbt -------------------------------
(* A small instance of Rbt, whose last two nodes have the same key.         *)
EXTENDS Rbt

CONSTANT N

MCNodes == 1..N
MCKey == [n \in MCNodes |-> IF n = N THEN N - 1 ELSE n]
=============================================================================
