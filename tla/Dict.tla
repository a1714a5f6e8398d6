-------------------------------- MODULE Dict --------------------------------
(***************************************************************************)
(* What the chained hash table of hash.c promises its clients: a mapping   *)
(* from keys to a stack of values.  hash_set_item never looks for the key, *)
(* so one key can have several values, the newest of which shadows the     *)
(* others.                                                                 *)
(***************************************************************************)
EXTENDS Naturals, Sequences, SequencesExt

CONSTANTS Keys, Values

VARIABLE m          \* the values of each key, the visible one first

DInit == m = [k \in Keys |-> <<>>]

DSet(k, v) == m' = [m EXCEPT ![k] = <<v>> \o @]

\* hash_set_item_uniq: the visible value is replaced in its place.
DSetUniq(k, v) == m' = [m EXCEPT ![k] = IF @ = <<>> THEN <<v>> ELSE <<v>> \o Tail(@)]

DRemove(k) == m[k] # <<>> /\ m' = [m EXCEPT ![k] = Tail(@)]

\* hash_delete_pair: the client holds any of the pairs, visible or shadowed.
DDelete(k, i) == i \in DOMAIN m[k] /\ m' = [m EXCEPT ![k] = RemoveAt(@, i)]

\* hash_rehash keeps every pair but turns the stacks upside down.
DRehash == m' = [k \in Keys |-> Reverse(m[k])]

DClear == m' = [k \in Keys |-> <<>>]

DNext ==
    \/ \E k \in Keys, v \in Values : DSet(k, v) \/ DSetUniq(k, v)
    \/ \E k \in Keys : DRemove(k) \/ \E i \in DOMAIN m[k] : DDelete(k, i)
    \/ DRehash
    \/ DClear

DSpec == DInit /\ [][DNext]_m
=============================================================================
