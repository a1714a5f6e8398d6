------------------------------- MODULE PBTrie ------------------------------
(***************************************************************************)
(* The path-compressed trie of pbtrie.c.  A leaf is a key; an inner node    *)
(* holds the bits its keys have in common, in prefix, and which bits these  *)
(* are, in xmask.  The key 0 (the head) and the greatest key (the tail) are *)
(* there from the beginning; a removed key leaves its inner node behind.    *)
(*                                                                         *)
(* Keys and masks are numbers of Width bits.  A mask is a run of ones       *)
(* followed by zeros, so that a bitwise and with it cuts off a remainder.   *)
(***************************************************************************)
EXTENDS Naturals, FiniteSets, SequencesExt

CONSTANTS
    Width,      \* 64 in the code
    Keys,       \* the keys the client uses, at most 2 ^ Width - 1
    Cells,      \* the addresses of nodes, the numbers from 1
    Null        \* NULL

Top == 2 ^ Width
MAX == Top - 1  \* UINT64_MAX

VARIABLES
    node,       \* the allocated nodes with their fields
    alive,      \* no assertion has failed
    held        \* history: the keys added and not removed, with their nodes

vars == <<node, alive, held>>

\* The three nodes of pbtrie_init.
root == 1
head == 2
tail == 3

Ptr == Cells \cup {Null}
Node(prefix, mask, parent) ==
    [prefix |-> prefix, xmask |-> mask, parent |-> parent,
     child |-> [s \in {0, 1} |-> Null]]

Masks == {Top - 2 ^ f : f \in 0 .. Width}

\* a & mask
And(a, mask) == a - (a % (Top - mask))

\* m >> 1 of a mask that is taken as a signed number.
Half(mask) == mask \div 2 + (IF mask >= Top \div 2 THEN Top \div 2 ELSE 0)

\* xmask: the bits above the highest one in which two numbers differ.
xmask(prefix, key) == Max({m \in Masks : And(prefix, m) = And(key, m)})

\* childsel
childsel(mask, parent, child) == IF And(child, Half(mask)) =< parent THEN 0 ELSE 1

\* What a child and a key have in common, in pbtrie_node_find_at.
Common(n, s, key) ==
    LET kid == node[n].child[s]
    IN  IF kid = Null THEN 0 ELSE Min({xmask(node[kid].prefix, key), node[kid].xmask})

\* pbtrie_node_find_at from the root; Null stands for its failing assertion.
FindAt(key) ==
    LET find[n \in Cells] ==
            LET xm == [s \in {0, 1} |-> Common(n, s, key)]
                s == IF xm[0] > xm[1] THEN 0 ELSE 1
                kid == node[n].child[s]
            IN  IF xm[0] = xm[1]
                THEN IF node[n].child = [t \in {0, 1} |-> Null] THEN n ELSE Null
                ELSE IF node[kid].xmask > xm[s] THEN kid ELSE find[kid]
    IN  find[root]

\* pbtrie_find_exact returns what find_at returns: the node of the key if there is
\* one, and otherwise the place where it would be added.
FindExact(key) == FindAt(key)

\* pbtrie_node_min (s = 0) and pbtrie_node_max (s = 1).
Outermost(n, s) ==
    LET down[m \in Cells] == IF node[m].child[s] = Null THEN m ELSE down[node[m].child[s]]
    IN  down[n]

\* Mutant: the climb goes on below the first parent, whose child may be used up.
NeighbourOfParent(n, s) ==
    LET p == node[n].parent
    IN  IF node[n].child[s] # Null THEN Outermost(node[n].child[s], 1 - s)
        ELSE IF p = Null \/ node[p].child[s] = Null THEN n
        ELSE Outermost(node[p].child[s], 1 - s)

\* pbtrie_node_next (s = 1) and pbtrie_node_prev (s = 0).
Neighbour(n, s) ==
    LET climb[m \in Cells] ==
            LET p == node[m].parent
            IN  IF p = Null THEN m
                ELSE IF node[p].child[s] \notin {Null, m}
                     THEN Outermost(node[p].child[s], 1 - s)
                     ELSE climb[p]
    IN  IF node[n].child[s] # Null THEN Outermost(node[n].child[s], 1 - s) ELSE climb[n]

\* pbtrie_traverse (s = 1) and pbtrie_reverse (s = 0): the nodes the callback is
\* given, up to the number there are.
Traverse(s) ==
    LET last == IF s = 1 THEN tail ELSE head
        walk[n \in Cells, k \in 0 .. Cardinality(Cells)] ==
            IF n = last \/ k = 0 THEN <<n>> ELSE <<n>> \o walk[Neighbour(n, s), k - 1]
    IN  walk[IF s = 1 THEN head ELSE tail, Cardinality(DOMAIN node)]
-----------------------------------------------------------------------------
\* pbtrie_node_split and pbtrie_add_node: a new inner node at `at` takes the place
\* of split, which goes on one side of it and the new leaf on the other.  The
\* result is NULL if one of the assertions fails.
Added(key, at, leaf) ==
    LET split == FindAt(key)
        xm == xmask(node[split].prefix, key)
        prefix == And(node[split].prefix, xm)
        old == node[split].parent
        side == IF node[old].child[0] = split THEN 0 ELSE 1
        ofSplit == childsel(xm, prefix, node[split].prefix)
        ofLeaf == childsel(xm, prefix, key)
        inner == [Node(prefix, xm, old) EXCEPT !.child[ofSplit] = split,
                                              !.child[ofLeaf] = leaf]
    IN  IF split = Null THEN Null
        ELSE IF xm >= node[split].xmask \/ old = Null \/ ofLeaf = ofSplit THEN Null
        ELSE [n \in DOMAIN node \cup {at, leaf} |->
                 CASE n = at -> inner
                   [] n = leaf -> Node(key, MAX, at)
                   [] n = split -> [node[n] EXCEPT !.parent = at]
                   [] n = old -> [node[n] EXCEPT !.child[side] = at]
                   [] OTHER -> node[n]]

\* pbtrie_remove_node of a key: its parent stays, with one child or none.
Removed(n) ==
    LET p == node[n].parent
        s == IF node[p].child[0] = n THEN 0 ELSE 1
    IN  [m \in DOMAIN node \ {n} |->
            IF m = p THEN [node[m] EXCEPT !.child[s] = Null] ELSE node[m]]

Free == Cells \ DOMAIN node

Init ==
    /\ node = root :> [Node(0, 0, Null) EXCEPT !.child = (0 :> head @@ 1 :> tail)]
              @@ head :> Node(0, MAX, root)
              @@ tail :> Node(MAX, MAX, root)
    /\ alive = TRUE
    /\ held = <<>>

AddNode(key) ==
    /\ alive
    /\ Cardinality(Free) >= 2
    /\ \E at \in {Min(Free)} : \E leaf \in {Min(Free \ {at})} : \E added \in {Added(key, at, leaf)} :
           IF added = Null
           THEN alive' = FALSE /\ UNCHANGED <<node, held>>
           ELSE /\ node' = added
                /\ held' = held @@ key :> leaf
                /\ UNCHANGED alive

RemoveNode(key) ==
    /\ alive
    /\ key \in DOMAIN held
    /\ node' = Removed(held[key])
    /\ held' = [k \in DOMAIN held \ {key} |-> held[k]]
    /\ UNCHANGED alive

Next == \E key \in Keys : AddNode(key) \/ RemoveNode(key)

Spec == Init /\ [][Next]_vars
-----------------------------------------------------------------------------
Present == held @@ (0 :> head) @@ (MAX :> tail)
Leaf(n) == node[n].xmask = MAX

\* Whatever removals have left behind, a search for a key that is there finds its
\* node; a search for another ends at a node that is not the key's, which the
\* client can tell from prefix and xmask; and both traversals give the callback
\* the keys in order, each once.
KeysKept ==
    alive =>
        /\ \A key \in DOMAIN Present : FindExact(key) = Present[key]
        /\ \A key \in 0 .. MAX \ DOMAIN Present :
               LET n == FindExact(key) IN n = Null \/ ~Leaf(n) \/ node[n].prefix # key
        /\ LET Order(s) ==
                   LET leaves == SelectSeq(Traverse(s), Leaf)
                   IN  [i \in 1 .. Len(leaves) |-> node[leaves[i]].prefix]
           IN  /\ Order(1) = SetToSortSeq(DOMAIN Present, <)
               /\ Order(0) = SetToSortSeq(DOMAIN Present, >)

\* An inner node that has lost both its children.
Emptied == {n \in DOMAIN node \ {root} :
               ~Leaf(n) /\ node[n].child = [s \in {0, 1} |-> Null]}

\* pbtrie_add_node fails an assertion for a key that is there, and for one below
\* an emptied inner node, and for no other.
AddsSucceed ==
    alive =>
        \A key \in 0 .. MAX :
            (\E at, leaf \in {0} : Added(key, at, leaf) = Null) <=>
                \/ key \in DOMAIN Present
                \/ \E n \in Emptied : And(key, node[n].xmask) = node[n].prefix
=============================================================================
