--------------------------- MODULE PriorityQueue ---------------------------
(***************************************************************************)
(* What a client of a heap may count on: a bag of values, of which a pop   *)
(* hands out a least one.                                                  *)
(***************************************************************************)
EXTENDS BagsExt, Naturals

CONSTANTS Values, Nothing

VARIABLES
    bag,        \* the values in the queue
    out         \* what the last operation has handed out, or Nothing

Empty == [v \in {} |-> 0]

Least(v) == v \in DOMAIN bag /\ \A w \in DOMAIN bag : v =< w

QInit == bag = Empty /\ out = Nothing

QPush(v) == bag' = BagAdd(bag, v) /\ out' = Nothing

QPop ==
    IF bag = Empty
    THEN UNCHANGED bag /\ out' = Nothing
    ELSE \E v \in Values :
             /\ Least(v)
             /\ bag' = BagRemove(bag, v)
             /\ out' = v

\* Pop, then push: the new value is never the one that is handed out.
QReplace(v) ==
    /\ bag # Empty
    /\ \E w \in Values :
           /\ Least(w)
           /\ bag' = BagAdd(BagRemove(bag, w), v)
           /\ out' = w

QClear == bag' = Empty /\ out' = Nothing

QNext == QPop \/ QClear \/ \E v \in Values : QPush(v) \/ QReplace(v)

QSpec == QInit /\ [][QNext]_<<bag, out>>
=============================================================================
