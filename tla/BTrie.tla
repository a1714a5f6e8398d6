------------------------------- MODULE BTrie -------------------------------
(***************************************************************************)
(* The bit trie of btrie.c.  A key of r + 1 bits is kept below the root    *)
(* with index r, one node per bit; a node with index 0 stands for a whole  *)
(* key.  The client writes node->value itself, NULL before a removal.      *)
(*                                                                         *)
(* A node is named by the place it was made for: <<r, p>> is the node that *)
(* is reached from root r along the bits of p.  What is in its links is    *)
(* another matter: mem holds the fields of the nodes that are allocated.   *)
(***************************************************************************)
EXTENDS Naturals, Sequences, FiniteSets, FiniteSetsExt

CONSTANTS
    TREE_DEPTH, \* the width of a key in bits
    Keys,       \* the keys the client uses
    Null        \* NULL

\* key >> i, and its last bit: MNBTRIE_CHILDSEL and its copies in the loops.
Shifted(key, i) ==
    LET half[j \in 0 .. i] == IF j = 0 THEN key ELSE half[j - 1] \div 2
    IN  half[i]
Bit(key, i) == Shifted(key, i) % 2

\* The client's keys are not 0, and have TREE_DEPTH bits at most.
ASSUME BTrieAssumption ==
    /\ TREE_DEPTH \in Nat \ {0}
    /\ Keys \subseteq Nat
    /\ \A key \in Keys : \E r \in 0 .. TREE_DEPTH - 1 : Shifted(key, r) = 1

VARIABLES
    mem,        \* the allocated nodes, the roots included, with their fields
    volume,     \* tr->volume
    inited,     \* btrie_init was called, and no btrie_fini since
    stored      \* history: the keys the client has a value under

vars == <<mem, volume, inited, stored>>

RootAt(r) == <<r, <<>>>>
Roots == {RootAt(r) : r \in 0 .. TREE_DEPTH - 1}
Places == UNION {{<<r, p>> : p \in UNION {[1 .. n -> {0, 1}] : n \in 0 .. r}} :
                    r \in 0 .. TREE_DEPTH - 1}

\* The place below n on side s.
Kid(n, s) == <<n[1], Append(n[2], s)>>

ASSUME NullAssumption == Null \notin Places

Val == "value"
Fields == [parent : Places \cup {Null}, child : [{0, 1} -> Places \cup {Null}],
           value : {Null, Val}, idx : 0 .. TREE_DEPTH - 1, sel : {0, 1}]

\* btrie_node_init.  sel is the selector bit of digit.
Node(parent, idx, sel) ==
    [parent |-> parent, child |-> [s \in {0, 1} |-> Null], value |-> Null,
     idx |-> idx, sel |-> sel]

\* flsl(key) - 1, the index of the root.
Msb(key) == CHOOSE r \in 0 .. TREE_DEPTH - 1 : Shifted(key, r) = 1
Root(key) == RootAt(Msb(key))

\* btrie_add_node: the trie after the bits down to i have been followed, each
\* missing node being made on the way.
AddNode(key) ==
    LET r == Msb(key)
        walk[i \in 0 .. r] ==
            IF i = r
            THEN [mem |-> mem, volume |-> volume, cur |-> Root(key)]
            ELSE LET s == walk[i + 1]
                     sel == Bit(key, i)
                     kid == s.mem[s.cur].child[sel]
                     new == Kid(s.cur, sel)
                 IN  IF kid # Null THEN [s EXCEPT !.cur = kid]
                     ELSE [mem |-> [n \in DOMAIN s.mem \cup {new} |->
                                       IF n = new THEN Node(s.cur, i, sel)
                                       ELSE IF n = s.cur
                                       THEN [s.mem[n] EXCEPT !.child[sel] = new]
                                       ELSE s.mem[n]],
                           volume |-> s.volume + 1, cur |-> new]
    IN  walk[0]

\* btrie_find_exact.
FindExact(key) ==
    LET r == Msb(key)
        walk[i \in 0 .. r] ==
            IF i = r THEN Root(key)
            ELSE IF walk[i + 1] = Null THEN Null
                 ELSE mem[walk[i + 1]].child[Bit(key, i)]
    IN  walk[0]

\* find_value_reverse (last = 1) and find_value_traverse (last = 0): the first
\* node with a value on a walk that takes the child `last` before the other.
FindValue(node, last) ==
    LET find[n \in Places \cup {Null}] ==
            IF n = Null THEN Null
            ELSE IF mem[n].value # Null THEN n
            ELSE LET found == find[mem[n].child[last]]
                 IN  IF found # Null THEN found ELSE find[mem[n].child[1 - last]]
    IN  find[node]

\* Mutant: the climb goes up one node only.
OutOfOne(node, s) == mem[node].parent

\* The climb of find_value_lean_left and find_value_lean_right out of the
\* subtrees on side s: to the parent of the first node on the other side.
\* (The selector of a root is 0.)
OutOf(node, s) ==
    LET climb[n \in Places] ==
            IF mem[n].parent # Null /\ mem[n].sel = s THEN climb[mem[n].parent] ELSE n
    IN  mem[climb[node]].parent

\* find_value_lean_left (s = 0) and find_value_lean_right (s = 1): the nearest
\* node with a value on side s of the place where a key is missing.
Lean(node, s) ==
    LET lean[n \in Places \cup {Null}] ==
            IF n = Null THEN Null
            ELSE LET found == FindValue(mem[n].child[s], 1 - s)
                 IN  IF found # Null THEN found
                     ELSE IF mem[n].parent = Null THEN Null
                     ELSE IF mem[n].sel = 1 - s THEN lean[mem[n].parent]
                          ELSE lean[OutOf(n, s)]
    IN  lean[node]

\* find_closest_partial_back (s = 0) and find_closest_partial_forw (s = 1): from
\* the bottom of the way as far as there is one.  A root with index 0 is looked
\* at for its value, another node with index 0 is returned as it is.
FindClosestPartial(key, s) ==
    LET r == Msb(key)
        walk[i \in 0 .. r] ==
            IF i = r THEN [node |-> Root(key), lost |-> FALSE]
            ELSE LET w == walk[i + 1]
                     kid == mem[w.node].child[Bit(key, i)]
                 IN  IF w.lost THEN w
                     ELSE IF kid # Null THEN [w EXCEPT !.node = kid]
                     ELSE [node |-> Lean(w.node, s), lost |-> TRUE]
    IN  IF r = 0 /\ mem[Root(key)].value = Null THEN Null ELSE walk[0].node

\* btrie_find_closest: then the nearest root on side s that has a value below.
FindClosest(key, s) ==
    LET found == FindClosestPartial(key, s)
        roots == {r \in 0 .. TREE_DEPTH - 1 :
                     /\ IF s = 1 THEN r > Msb(key) ELSE r < Msb(key)
                     /\ FindValue(RootAt(r), 1 - s) # Null}
    IN  IF found # Null THEN found
        ELSE IF roots = {} THEN Null
        ELSE FindValue(RootAt(IF s = 1 THEN Min(roots) ELSE Max(roots)), 1 - s)

\* The nodes that btrie_node_fini frees: those below a node.
Kids(m, n) == {m[n].child[0], m[n].child[1]} \ {Null}
Below(m, node) ==
    LET below[n \in DOMAIN m] == Kids(m, n) \cup UNION {below[k] : k \in Kids(m, n)}
    IN  below[node]

\* free(): a node that is not allocated any more.
Free(m, nodes) == [n \in DOMAIN m \ nodes |-> m[n]]

\* A trie and its volume are handed on together.
Trie == [mem |-> mem, volume |-> volume]

\* btrie_node_fini.
NodeFini(t, node) ==
    LET gone == Below(t.mem, node)
    IN  [mem |-> [Free(t.mem, gone) EXCEPT ![node].parent = Null,
                                           ![node].child = [s \in {0, 1} |-> Null]],
         volume |-> t.volume - Cardinality(gone)]

\* btrie_node_is_orphan
IsOrphan(m, n) == Kids(m, n) = {} /\ m[n].value = Null

\* Takes a node out of its parent and frees it.
Cut(t, n, p) ==
    LET s == IF t.mem[p].child[0] = n THEN 0 ELSE 1
    IN  [mem |-> [Free(t.mem, {n}) EXCEPT ![p].child[s] = Null],
         volume |-> t.volume - 1]

\* Mutant: the climb ends at the first ancestor.
CleanupParentOnly(trie, node) ==
    IF node = Null THEN trie
    ELSE IF trie.mem[node].parent = Null \/ ~IsOrphan(trie.mem, node) THEN trie
    ELSE Cut(trie, node, trie.mem[node].parent)

\* cleanup_orphans: n and its ancestors, as long as nothing hangs on them.
CleanupOrphans(trie, node) ==
    LET climb[k \in 0 .. TREE_DEPTH] ==     \* after k turns of the loop
            IF k = 0 THEN [t |-> trie, n |-> node]
            ELSE LET c == climb[k - 1]
                 IN  IF \/ c.n = Null
                        \/ c.t.mem[c.n].parent = Null
                        \/ ~IsOrphan(c.t.mem, c.n)
                     THEN [c EXCEPT !.n = Null]
                     ELSE LET p == c.t.mem[c.n].parent IN [t |-> Cut(c.t, c.n, p), n |-> p]
    IN  climb[TREE_DEPTH].t

\* The client has to write NULL to a node before it is removed (the assertion).
Emptied(n) == [Trie EXCEPT !.mem[n].value = Null]

\* Mutant: what is below the node is not freed.
RemoveAlone(n) ==
    IF mem[n].parent = Null THEN Emptied(n) ELSE Cut(Trie, n, mem[n].parent)

\* BTRIE_REMOVE_NODE_BODY without the clean-up: the node and all below it.  A
\* root only loses what is below it.
RemoveBody(n) ==
    LET t == NodeFini(Emptied(n), n)
    IN  IF mem[n].parent = Null THEN t ELSE Cut(t, n, mem[n].parent)

\* btrie_node_cleanup: a child is cleaned up and freed if it is, or has become,
\* an orphan.  That leaves the nodes with a value, or with one below them.
Empty(n) == \A k \in Below(mem, n) \cup {n} : mem[k].value = Null
NodeCleanup ==
    LET gone == {n \in DOMAIN mem \ Roots : Empty(n)}
        Left(p) == IF p \in gone THEN Null ELSE p
    IN  [mem |-> [n \in DOMAIN mem \ gone |->
                     [mem[n] EXCEPT !.child = [s \in {0, 1} |-> Left(mem[n].child[s])]]],
         volume |-> volume - Cardinality(gone)]
-----------------------------------------------------------------------------
\* The keys whose nodes are below a node, or are the node.
KeysAt(n) == {key \in Keys : FindExact(key) \in Below(mem, n) \cup {n}}

Become(trie) == mem' = trie.mem /\ volume' = trie.volume

Init ==
    /\ mem = [n \in Roots |-> Node(Null, n[1], 0)]
    /\ volume = 0
    /\ inited = TRUE
    /\ stored = {}

\* btrie_add_node; the client may write the value at once.
Add(key, value) ==
    /\ inited
    /\ \E a \in {AddNode(key)} :
           /\ mem' = IF value = Null THEN a.mem ELSE [a.mem EXCEPT ![a.cur].value = value]
           /\ volume' = a.volume
    /\ stored' = IF value = Null THEN stored ELSE stored \cup {key}
    /\ UNCHANGED inited

\* The client writes NULL to a node it has found, and leaves it at that.
Forget(key) ==
    /\ inited
    /\ FindExact(key) # Null
    /\ mem' = [mem EXCEPT ![FindExact(key)].value = Null]
    /\ stored' = stored \ {key}
    /\ UNCHANGED <<volume, inited>>

\* The nodes a client can hand to a removal: any it met in a traversal.
Removable(n) == inited /\ n \in DOMAIN mem

RemoveNoCleanup(n) ==
    /\ Removable(n)
    /\ Become(RemoveBody(n))
    /\ stored' = stored \ KeysAt(n)
    /\ UNCHANGED inited

Remove(n) ==
    /\ Removable(n)
    /\ Become(CleanupOrphans(RemoveBody(n), mem[n].parent))
    /\ stored' = stored \ KeysAt(n)
    /\ UNCHANGED inited

Cleanup ==
    /\ inited
    /\ Become(NodeCleanup)
    /\ UNCHANGED <<inited, stored>>

\* btrie_fini: btrie_node_fini of one root after the other.
AllFini ==
    LET after[i \in 0 .. TREE_DEPTH] ==
            IF i = 0 THEN Trie ELSE NodeFini(after[i - 1], RootAt(i - 1))
    IN  after[TREE_DEPTH]

Fini ==
    /\ inited
    /\ Become(AllFini)
    /\ inited' = FALSE
    /\ stored' = {}

\* btrie_init over a trie that was finalised.
InitAgain ==
    /\ ~inited
    /\ mem' = [n \in Roots |-> Node(Null, n[1], 0)]
    /\ volume' = 0
    /\ inited' = TRUE
    /\ UNCHANGED stored

Next ==
    \/ \E key \in Keys, value \in {Null, Val} : Add(key, value)
    \/ \E key \in Keys : Forget(key)
    \/ \E n \in Places : RemoveNoCleanup(n) \/ Remove(n)
    \/ Cleanup
    \/ Fini
    \/ InitAgain

Spec == Init /\ [][Next]_vars
-----------------------------------------------------------------------------
\* Links and memory agree: a child names its parent, has the index below and the
\* selector of its side, every allocated node hangs below a root and nothing else
\* does, and volume counts the nodes (all of them are gone after btrie_fini).
WellLinked ==
    /\ mem \in [DOMAIN mem -> Fields]
    /\ \A n \in DOMAIN mem : \A s \in {0, 1} :
           LET kid == mem[n].child[s]
           IN  kid # Null =>
                   /\ kid \in DOMAIN mem \ Roots
                   /\ mem[kid].parent = n
                   /\ mem[kid].idx + 1 = mem[n].idx
                   /\ mem[kid].sel = s
    /\ \A n \in DOMAIN mem \ Roots :
           mem[n].parent \in DOMAIN mem /\ n \in Kids(mem, mem[n].parent)
    /\ volume = Cardinality(DOMAIN mem \ Roots)
    /\ ~inited => volume = 0

\* What the client has stored is what is found: btrie_find_exact meets a node
\* with a value for these keys only, and btrie_find_closest the nearest key on
\* the side asked for, whichever root it is below.  (Where the node of the key
\* itself is there without a value, the search ends at it.)
NearestFound ==
    inited =>
        /\ stored = {key \in Keys : FindExact(key) # Null /\ mem[FindExact(key)].value # Null}
        /\ \A key \in 1 .. 2 ^ TREE_DEPTH - 1 :
               /\ FindClosest(key, 1) =
                      IF FindExact(key) # Null /\ Msb(key) > 0 THEN FindExact(key)
                      ELSE LET above == {k \in stored : k >= key}
                           IN  IF above = {} THEN Null ELSE FindExact(Min(above))
               /\ FindClosest(key, 0) =
                      IF FindExact(key) # Null /\ Msb(key) > 0 THEN FindExact(key)
                      ELSE LET below == {k \in stored : k =< key}
                           IN  IF below = {} THEN Null ELSE FindExact(Max(below))

Orphans == {n \in DOMAIN mem \ Roots : IsOrphan(mem, n)}

\* No operation leaves an empty branch behind but for the one the client leaves
\* itself: the node it added or emptied, or the parent of what it removed with
\* btrie_remove_node_no_cleanup.  btrie_cleanup leaves none.
TidyUp ==
    [][ /\ Cleanup => Orphans' = {}
        /\ \A n \in Places : Remove(n) => Orphans' \subseteq Orphans
        /\ Cardinality(Orphans' \ Orphans) =< 1 ]_vars
=============================================================================
