------------------------------- MODULE MCHash -------------------------------
(* A small instance of Hash: k1 and k2 share a slot in every table.         *)
EXTENDS Hash, TLC

CONSTANTS k1, k2, k3

MCHashFn == (k1 :> 2) @@ (k2 :> 4) @@ (k3 :> 3)
MCSymmetry == Permutations(Items)

\* Clients that stay away from hash_set_item_uniq, whose items have no links.
RemoveSpec == Init /\ [][CoreNext \/ \E k \in Keys : RemoveItem(k)]_vars
=============================================================================
