-------------------------------- MODULE Rbt --------------------------------
(***************************************************************************)
(* The red-black tree of rbt.c: nodes that belong to the client and are    *)
(* linked both into a binary search tree and into a list in the order of   *)
(* the keys.                                                               *)
(*                                                                         *)
(* The sides of a node are the field names "left" and "right", so that the *)
(* two mirrored halves of each function are written once.                  *)
(***************************************************************************)
EXTENDS Naturals, FiniteSets, SequencesExt

CONSTANTS
    Nodes,      \* the client's nodes
    Key,        \* their keys, given to rbt_node_init
    Null        \* NULL

ASSUME RbtAssumption ==
    Null \notin Nodes /\ IsFiniteSet(Nodes) /\ Key \in [Nodes -> Nat]

VARIABLES
    tree,       \* rbt->root, the three tree links of the nodes, the red nodes
    list,       \* rbt->head, rbt->tail, the two list links of the nodes
    nelem       \* rbt->nelem

vars == <<tree, list, nelem>>

Ptr == Nodes \cup {Null}
Sides == {"left", "right"}

\* The flags of a node outside of the tree are not read: red leaves them out.
Trees ==
    [root : Ptr, parent : [Nodes -> Ptr], left : [Nodes -> Ptr],
     right : [Nodes -> Ptr], red : SUBSET Nodes]

Lists == [head : Ptr, tail : Ptr, prev : [Nodes -> Ptr], next : [Nodes -> Ptr]]

Unlinked == [n \in Nodes |-> Null]

Opposite(a) == IF a = "left" THEN "right" ELSE "left"

\* RBT_ISRED, whose negation is RBT_ISBLACK: NULL is black.
Red(t, n) == n \in t.red

\* The side on which n hangs from p, and the other child of p.
Side(t, p, n) == IF n = t.left[p] THEN "left" ELSE "right"
Sibling(t, p, n) == t[Opposite(Side(t, p, n))][p]

\* The subtree at `old`, below p, is replaced by the one at `new`.
Replace(t, p, old, new) ==
    IF p = Null THEN [t EXCEPT !.root = new]
                ELSE [t EXCEPT ![Side(t, p, old)][p] = new]

SetParent(t, n, p) == IF n = Null THEN t ELSE [t EXCEPT !.parent[n] = p]

\* The last node from n down one side.
Outermost(t, n, side) ==
    LET walk[m \in Nodes] == IF t[side][m] = Null THEN m ELSE walk[t[side][m]]
    IN  walk[n]

\* Where the search for a key ends: at its node, or at the node below which
\* one with this key would hang.
Descend(t, k) ==
    LET down[m \in Nodes] ==
          LET c == t[IF k < Key[m] THEN "left" ELSE "right"][m]
          IN  IF k = Key[m] \/ c = Null THEN m ELSE down[c]
    IN  IF t.root = Null THEN Null ELSE down[t.root]

Find(t, k) ==
    LET n == Descend(t, k)
    IN  IF n # Null /\ Key[n] # k THEN Null ELSE n

-----------------------------------------------------------------------------
\* The links a rotation writes: r is above n, and inner is below n.
Turn(t, p, n, r, up, inner) ==
    [t EXCEPT !.parent[r] = p, !.parent[n] = r, ![up][n] = inner, ![Opposite(up)][r] = n]

\* Mutant: the inner subtree keeps its parent.
RotateForgetful(t, n, up) ==
    LET p == t.parent[n]
        r == t[up][n]
    IN  Turn(Replace(t, p, n, r), p, n, r, up, t[Opposite(up)][r])

\* _rbt_rotate_left (up = "right") and _rbt_rotate_right (up = "left"): the
\* child of n on the side `up` takes its place.
Rotate(t, n, up) ==
    LET p == t.parent[n]
        r == t[up][n]
        inner == t[Opposite(up)][r]
    IN  SetParent(Turn(Replace(t, p, n, r), p, n, r, up, inner), inner, n)

\* Case 5 of _rbt_adjust_on_insert.  It repaints g even if it does not rotate.
Straighten(t, n, p, g) ==
    LET side == Side(t, p, n)
        turned == IF p = t[side][g] THEN Rotate(t, g, side) ELSE t
    IN  IF g = Null THEN t ELSE [turned EXCEPT !.red = (@ \ {p}) \cup {g}]

\* Cases 4 and 5.  After the rotation of case 4 the code takes p and g afresh
\* from a node that has moved up, so that case 5 sees the old g as p.
TurnOnInsert(t, n) ==
    LET p == t.parent[n]
        g == t.parent[p]
        side == Side(t, p, n)
        up == Rotate(t, p, side)
    IN  IF g # Null /\ p = t[Opposite(side)][g]
        THEN Straighten(up, n, up.parent[n], up.parent[up.parent[n]])
        ELSE Straighten(t, n, p, g)

\* A tree and the node of it at which an adjustment has arrived.
Spots == [tree : Trees, at : Nodes]
Spot(t, n) == [tree |-> t, at |-> n]

AdjustOnInsert[x \in Spots] ==
    LET t == x.tree
        n == x.at
        p == t.parent[n]
        g == t.parent[p]
        u == IF g = Null THEN Null ELSE Sibling(t, g, p)
    IN  IF n = t.root THEN [t EXCEPT !.red = @ \ {n}]
        ELSE IF ~Red(t, p) THEN t
        ELSE IF Red(t, u)
             THEN AdjustOnInsert[Spot([t EXCEPT !.red = (@ \ {p, u}) \cup {g}], g)]
        ELSE TurnOnInsert(t, n)

\* Cases 5 and 6 of _rbt_adjust_on_remove; s is the sibling of n.
TurnOnRemove(t, n) ==
    LET p == t.parent[n]
        side == Side(t, p, n)
        far == Opposite(side)
        s == t[far][p]
        near == t[side][s]
        bent == ~Red(t, s) /\ Red(t, near) /\ ~Red(t, t[far][s])
        t5 == IF bent
              THEN Rotate([t EXCEPT !.red = (@ \cup {s}) \ {near}], s, side)
              ELSE t
        s5 == t5[far][p]
        others == t5.red \ {p, s5, t5[far][s5]}
    IN  Rotate([t5 EXCEPT !.red = others \cup IF Red(t5, p) THEN {s5} ELSE {}], p, far)

\* The code takes the parent afresh after the rotation of case 2, which leaves
\* n below p.
AdjustOnRemove[x \in Spots] ==
    LET t == x.tree
        n == x.at
        p == t.parent[n]
        far == Opposite(Side(t, p, n))
        t2 == IF Red(t, t[far][p])
              THEN Rotate([t EXCEPT !.red = (@ \ {t[far][p]}) \cup {p}], p, far)
              ELSE t
        s == Sibling(t2, p, n)
        plain == ~Red(t2, s) /\ ~Red(t2, t2.left[s]) /\ ~Red(t2, t2.right[s])
    IN  IF p = Null THEN t
        ELSE IF s = Null THEN t2
        ELSE IF plain /\ ~Red(t2, p)
             THEN AdjustOnRemove[Spot([t2 EXCEPT !.red = @ \cup {s}], p)]
        ELSE IF plain THEN [t2 EXCEPT !.red = (@ \ {p}) \cup {s}]
        ELSE TurnOnRemove(t2, n)

-----------------------------------------------------------------------------
Linked(t, n) == t.root = n \/ t.parent[n] # Null

Init ==
    /\ tree = [root |-> Null, parent |-> Unlinked, left |-> Unlinked,
               right |-> Unlinked, red |-> {}]
    /\ list = [head |-> Null, tail |-> Null, prev |-> Unlinked, next |-> Unlinked]
    /\ nelem = 0

\* The list part of _rbt_insert: n goes before or after its parent m.
ListBefore(l, n, m) ==
    LET p == l.prev[m]
        linked == [l EXCEPT !.prev[n] = p, !.next[n] = m, !.prev[m] = n]
    IN  IF p = Null THEN [linked EXCEPT !.head = n] ELSE [linked EXCEPT !.next[p] = n]

ListAfter(l, n, m) ==
    LET q == l.next[m]
        linked == [l EXCEPT !.next[n] = q, !.prev[n] = m, !.next[m] = n]
    IN  IF q = Null THEN [linked EXCEPT !.tail = n] ELSE [linked EXCEPT !.prev[q] = n]

\* n becomes a red child of m, and m's neighbour in the list.
LinkBelow(n, m) ==
    LET side == IF Key[n] < Key[m] THEN "left" ELSE "right"
        hung == [tree EXCEPT ![side][m] = n, !.parent[n] = m, !.red = @ \cup {n}]
    IN  /\ tree' = AdjustOnInsert[Spot(hung, n)]
        /\ list' = IF side = "left" THEN ListBefore(list, n, m) ELSE ListAfter(list, n, m)
        /\ nelem' = nelem + 1

InsertRoot(n) ==
    /\ tree.root = Null
    /\ tree' = AdjustOnInsert[Spot([tree EXCEPT !.root = n, !.red = @ \cup {n}], n)]
    /\ list' = [list EXCEPT !.head = n, !.tail = n]
    /\ nelem' = nelem + 1

\* Mutant: the test for an equal key is >= and lets a second node with it in.
InsertTwice(n) ==
    LET m == Descend(tree, Key[n])
    IN  m # Null /\ (Key[m] = Key[n] => tree.right[m] = Null) /\ LinkBelow(n, m)

InsertBelow(n) ==
    LET m == Descend(tree, Key[n]) IN m # Null /\ Key[m] # Key[n] /\ LinkBelow(n, m)

\* The node with the same key goes out through dup; nothing changes.
InsertDuplicate(n) == Find(tree, Key[n]) # Null /\ UNCHANGED vars

\* rbt_insert of a node that is in no tree.
Insert(n) == ~Linked(tree, n) /\ (InsertRoot(n) \/ InsertBelow(n) \/ InsertDuplicate(n))

-----------------------------------------------------------------------------
\* The node that takes the place of n: its predecessor in its left subtree,
\* else its successor in its right one, else none.
Replacement(t, n) ==
    IF t.left[n] # Null THEN Outermost(t, t.left[n], "right")
    ELSE IF t.right[n] # Null THEN Outermost(t, t.right[n], "left")
    ELSE Null

\* The replacement's only child takes its place, before n is replaced.
Detach(t, n, repl) ==
    LET c == t[IF t.left[n] # Null THEN "left" ELSE "right"][repl]
        p == t.parent[repl]
        t1 == SetParent(Replace(t, p, repl, c), c, p)
    IN  IF repl = Null THEN t
        ELSE IF Red(t, repl) \/ c = Null THEN t1
        ELSE IF Red(t, c) THEN [t1 EXCEPT !.red = @ \ {c}]
        ELSE AdjustOnRemove[Spot(t1, c)]

\* The replacement takes over the links and the colour of n.
Supplant(t, n, repl) ==
    LET p == t.parent[n]
        above == Replace(t, p, n, repl)
        t1 == SetParent(SetParent(above, above.left[n], repl), above.right[n], repl)
        paint == IF Red(t, n) THEN t.red \cup {repl} ELSE t.red \ {repl}
    IN  IF repl = Null THEN t1
        ELSE [t1 EXCEPT !.parent[repl] = p, !.left[repl] = t1.left[n],
                        !.right[repl] = t1.right[n], !.red = paint]

RemovedFromTree(t, n) ==
    LET repl == Replacement(t, n)
        t1 == Supplant(Detach(t, n, repl), n, repl)
    IN  [t1 EXCEPT !.parent[n] = Null, !.left[n] = Null, !.right[n] = Null,
                   !.red = @ \ {n}]

\* Mutant: the removal of the last node leaves the tail.
RemovedKeepingTail(l, n) ==
    LET p == l.prev[n]
        q == l.next[n]
        l1 == IF q = Null THEN l ELSE [l EXCEPT !.prev[q] = p]
        l2 == IF p = Null THEN [l1 EXCEPT !.head = q] ELSE [l1 EXCEPT !.next[p] = q]
    IN  [l2 EXCEPT !.prev[n] = Null, !.next[n] = Null]

\* _rbt_remove_list, which does most of its assignments twice
RemovedFromList(l, n) ==
    LET p == l.prev[n]
        q == l.next[n]
        l1 == IF q = Null THEN [l EXCEPT !.tail = p] ELSE [l EXCEPT !.prev[q] = p]
        l2 == IF p = Null THEN [l1 EXCEPT !.head = q] ELSE [l1 EXCEPT !.next[p] = q]
    IN  [l2 EXCEPT !.prev[n] = Null, !.next[n] = Null]

\* rbt_remove_node
RemoveNode(n) ==
    /\ Linked(tree, n)
    /\ tree' = RemovedFromTree(tree, n)
    /\ list' = RemovedFromList(list, n)
    /\ nelem' = nelem - 1

\* rbt_remove_key; a key that is not there changes nothing.
RemoveKey(k) ==
    LET n == Find(tree, k) IN IF n = Null THEN UNCHANGED vars ELSE RemoveNode(n)

\* The nodes from the head of the list on.
Walk(l) ==
    LET from[n \in Ptr] == IF n = Null THEN <<>> ELSE <<n>> \o from[l.next[n]]
    IN  from[l.head]

\* rbt_fini: the head of the list is removed until there is none.
Fini ==
    LET nodes == Walk(list)
        after[i \in 0..Len(nodes)] ==
          IF i = 0 THEN [tree |-> tree, list |-> list]
          ELSE [tree |-> RemovedFromTree(after[i - 1].tree, nodes[i]),
                list |-> RemovedFromList(after[i - 1].list, nodes[i])]
    IN  /\ tree' = after[Len(nodes)].tree
        /\ list' = after[Len(nodes)].list
        /\ nelem' = nelem - Len(nodes)

Next ==
    \/ \E n \in Nodes : Insert(n) \/ RemoveNode(n)
    \/ \E k \in Range(Key) : RemoveKey(k)
    \/ Fini

Spec == Init /\ [][Next]_vars

-----------------------------------------------------------------------------
\* The fields keep their types: pointers are nodes or NULL, through every
\* rotation and every splice.
TypeOK == tree \in Trees /\ list \in Lists /\ nelem \in 0..Cardinality(Nodes)

InOrder(t) ==
    LET from[n \in Ptr] ==
          IF n = Null THEN <<>> ELSE from[t.left[n]] \o <<n>> \o from[t.right[n]]
    IN  from[t.root]

\* rbt_find comes to the node of the list that has the key, and to NULL only if
\* there is none, whatever the removals have done to the balance.
FindsWhatIsListed ==
    \A k \in Range(Key) :
        LET found == {n \in Range(Walk(list)) : Key[n] = k}
        IN  Find(tree, k) = IF found = {} THEN Null ELSE CHOOSE n \in found : TRUE

\* Through the rotations of both adjustments, and the removal of a node that
\* they have moved meanwhile, the tree stays a binary search tree whose
\* parent links are right, and a node outside has none of its tree links set,
\* so that it may be inserted again; and rbt_find finds exactly what is listed.
SearchTree ==
    LET nodes == InOrder(tree)
    IN  /\ TypeOK /\ FindsWhatIsListed
        /\ \A i, j \in DOMAIN nodes : i < j => Key[nodes[i]] < Key[nodes[j]]
        /\ tree.root # Null => tree.parent[tree.root] = Null
        /\ \A n \in Range(nodes), a \in Sides :
              tree[a][n] # Null => tree.parent[tree[a][n]] = n
        /\ \A n \in Nodes \ Range(nodes) :
              tree.parent[n] = Null /\ tree.left[n] = Null /\ tree.right[n] = Null

\* The list is the in-order walk of the tree, forwards and backwards, with its
\* two ends, and nelem counts it: two structures that the code keeps apart.
ListInOrder ==
    LET nodes == InOrder(tree)
        at(i) == IF i \in DOMAIN nodes THEN nodes[i] ELSE Null
    IN  /\ list.head = at(1) /\ list.tail = at(Len(nodes)) /\ nelem = Len(nodes)
        /\ \A i \in DOMAIN nodes :
              list.prev[nodes[i]] = at(i - 1) /\ list.next[nodes[i]] = at(i + 1)
        /\ \A n \in Nodes \ Range(nodes) : list.prev[n] = Null /\ list.next[n] = Null

Abstract == INSTANCE SortedSet WITH s <- Walk(list)

\* Insertions, removals and the finalisation do to the list what they would
\* do to a sorted set of nodes with different keys.
ImplementsSortedSet == Abstract!SSpec

\* A red node has no red child: the property of a red-black tree that bounds
\* its height, which case 2 of the insertion relies on.
NoRedRed == \A n \in tree.red : tree.parent[n] \notin tree.red
=============================================================================
