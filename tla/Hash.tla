-------------------------------- MODULE Hash --------------------------------
(***************************************************************************)
(* The chained hash table of hash.c at the level of its pointers.  An item *)
(* is linked to its neighbours in the chain by prev and next; the first    *)
(* item of a chain has no prev and points back at its slot of the table    *)
(* through bucket, which is NULL in the others.  hash_delete_pair unlinks  *)
(* an item from these three fields alone, so every other operation has to  *)
(* keep them right.                                                        *)
(***************************************************************************)
EXTENDS Naturals, Sequences, SequencesExt, FiniteSetsExt

CONSTANTS
    Items,       \* the cells malloc can hand out
    Keys,
    Values,
    HashFn,      \* dict->hashfn, [Keys -> Nat]
    Sizes,       \* the table sizes the client asks for
    NoValue,     \* the NULL value that hash_set_add stores
    FiniFails,   \* whether the client's finalizer may return non-zero
    NULL,
    Junk         \* what an uninitialised pointer holds when it is not NULL

\* What there is to know of a traversal or iteration in progress.
Travs == [kind : {"traverse", "iterate"}, b : Nat, cur : Items \cup {NULL},
          next : Items \cup {NULL}, seen : SUBSET Items, owed : SUBSET Items]

ASSUME HashAssumption ==
    /\ IsFiniteSet(Items)
    /\ HashFn \in [Keys -> Nat]
    /\ Sizes \subseteq Nat \ {0}
    /\ FiniFails \in BOOLEAN
    /\ {NULL, Junk} \cap Items = {}
    /\ \A sz \in Sizes : {NULL, Junk} \cap 0..sz - 1 = {}      \* no slot is there
    /\ NULL # Junk
    /\ NULL \notin Travs

VARIABLES
    table,       \* dict->table, slot -> first item
    elnum,       \* dict->elnum
    heap,        \* the allocated items; a cell outside its domain is free
    trav,        \* the traversal or iteration in progress, or NULL
    st,          \* "ok", "fini", or how the program died
    suspect,     \* history: chain heads left without proper prev and bucket
    leaked       \* history: items a vetoed hash_cleanup dropped

vars == <<table, elnum, heap, trav, st, suspect, leaked>>

Live == DOMAIN heap
Slots == DOMAIN table
Idx(k) == HashFn[k] % Cardinality(Slots)

\* The items from x on, following next, up to one that is not allocated; the number
\* of items bounds the walk.
Walk(hp, x) ==
    LET walk[n \in 0..Cardinality(Items)] ==
          [y \in Items \cup {NULL} |->
            IF n = 0 \/ y = NULL THEN <<>>
            ELSE IF y \in DOMAIN hp THEN <<y>> \o walk[n - 1][hp[y].next]
            ELSE <<y>>]
    IN  walk[Cardinality(Items)][x]

Chain(b) == Walk(heap, table[b])

Reachable == UNION {ToSet(Chain(b)) : b \in Slots}

\* hash_traverse_item's order: slot by slot, each chain from its head.
Traversal ==
    LET upto[n \in 0..Cardinality(Slots)] ==
            IF n = 0 THEN <<>> ELSE upto[n - 1] \o Chain(n - 1)
    IN  upto[Cardinality(Slots)]

\* Where the items with key k stand in chain c.
Hits(c, k) == {i \in DOMAIN c : heap[c[i]].key = k}

\* Mutant: the search runs on to the last match.
SearchLast(k) ==
    LET c == Chain(Idx(k))
    IN  IF Hits(c, k) = {} THEN NULL ELSE c[Max(Hits(c, k))]

\* The search loops of hash.c: the first item of its chain with key k.
Search(k) ==
    LET c == Chain(Idx(k))
    IN  IF Hits(c, k) = {} THEN NULL ELSE c[Min(Hits(c, k))]

\* hash_get_item
GetItem(k) == IF elnum = 0 THEN NULL ELSE Search(k)

-----------------------------------------------------------------------------
(* Operations.  Between two of them the dictionary is at rest; an operation *)
(* runs to its end before the next, except that the callback of a traversal *)
(* may itself use the dictionary.                                           *)

Idle == st = "ok" /\ trav = NULL
InCallback == st = "ok" /\ trav # NULL

EmptyTable(sz) == [b \in 0..sz - 1 |-> NULL]

\* Cell x, holding c, becomes the first of slot b of the table and heap in s.
LinkFirst(s, x, b, c) ==
    LET old == s.table[b]
    IN  [table |-> [s.table EXCEPT ![b] = x],
         heap  |-> [y \in DOMAIN s.heap \cup {x} |->
                      CASE y = x   -> [c EXCEPT !.next = old]
                        [] y = old -> [s.heap[y] EXCEPT !.prev = x, !.bucket = NULL]
                        [] OTHER   -> s.heap[y]]]

Without(hp, gone) == [y \in DOMAIN hp \ gone |-> hp[y]]

Cell(b, p, k, v) == [bucket |-> b, prev |-> p, next |-> NULL, key |-> k, value |-> v]

\* A fresh item for (k, v) goes first in its chain.
Insert(x, k, b, p, v) ==
    LET s == LinkFirst([table |-> table, heap |-> heap], x, Idx(k), Cell(b, p, k, v))
    IN  /\ table' = s.table
        /\ heap' = s.heap
        /\ elnum' = elnum + 1

SetItem(k, v) ==
    /\ st = "ok"
    /\ \E x \in Items \ Live :
          /\ Insert(x, k, Idx(k), NULL, v)
          /\ suspect' = suspect \ {table[Idx(k)]}
          /\ trav' = IF trav = NULL THEN NULL ELSE [trav EXCEPT !.seen = @ \ {x}]
    /\ UNCHANGED <<st, leaked>>

\* The three outcomes of hash_set_item_uniq.  Into an occupied slot the new
\* item goes without prev and bucket being set: they hold what malloc left.
SetItemUniq(k, v) ==
    /\ Idle
    /\ LET b   == Idx(k)
           hit == Search(k)
       IN  \/ /\ table[b] = NULL
              /\ \E x \in Items \ Live : Insert(x, k, b, NULL, v)
              /\ UNCHANGED suspect
           \/ /\ table[b] # NULL /\ hit # NULL
              /\ heap' = [heap EXCEPT ![hit].key = k, ![hit].value = v]
              /\ UNCHANGED <<table, elnum, suspect>>
           \/ /\ table[b] # NULL /\ hit = NULL
              /\ \E x \in Items \ Live, bucket, prev \in {NULL, Junk} :
                    /\ Insert(x, k, bucket, prev, v)
                    /\ suspect' = (suspect \ {table[b]}) \cup {x}
    /\ UNCHANGED <<trav, st, leaked>>

\* hash_remove_item: the successor of a removed head loses its prev but does
\* not receive the bucket.
RemoveItem(k) ==
    /\ Idle
    /\ Search(k) # NULL
    /\ LET hit == Search(k)
           c   == heap[hit]
           relinked ==
              [y \in Live |->
                 CASE y = c.next /\ table[Idx(k)] = hit -> [heap[y] EXCEPT !.prev = NULL]
                   [] y = c.next /\ table[Idx(k)] # hit -> [heap[y] EXCEPT !.prev = c.prev]
                   [] y = c.prev /\ table[Idx(k)] # hit -> [heap[y] EXCEPT !.next = c.next]
                   [] OTHER -> heap[y]]
       IN  /\ heap' = Without(relinked, {hit})
           /\ IF table[Idx(k)] = hit
              THEN /\ table' = [table EXCEPT ![Idx(k)] = c.next]
                   /\ suspect' = (suspect \ {hit}) \cup ({c.next} \ {NULL})
              ELSE UNCHANGED <<table, suspect>>
    /\ elnum' = elnum - 1
    /\ UNCHANGED <<trav, st, leaked>>

\* Following prev or bucket of a cell: what hash_delete_pair meets there.
DeleteFate(c) ==
    CASE c.prev = Junk -> "wild write"
      [] c.prev = NULL /\ c.bucket = NULL -> "assert bucket"
      [] c.prev = NULL /\ c.bucket = Junk -> "wild write"
      [] OTHER -> "ok"

\* Mutant: the successor of a deleted head does not inherit the bucket.
UnlinkNoBucket(hit) ==
    LET c == heap[hit]
        relinked ==
           [y \in Live |->
              CASE y = c.next -> [heap[y] EXCEPT !.prev = c.prev]
                [] y = c.prev -> [heap[y] EXCEPT !.next = c.next]
                [] OTHER -> heap[y]]
    IN  /\ heap' = Without(relinked, {hit})
        /\ table' = IF c.prev = NULL THEN [table EXCEPT ![c.bucket] = c.next] ELSE table
        /\ elnum' = elnum - 1
        /\ UNCHANGED suspect

\* hash_delete_pair and hash_delete_pair_no_fini on a linked item.
Unlink(hit) ==
    LET c == heap[hit]
        relinked ==
           [y \in Live |->
              CASE y = c.next /\ c.prev = NULL ->
                      [heap[y] EXCEPT !.prev = NULL, !.bucket = c.bucket]
                [] y = c.next /\ c.prev # NULL -> [heap[y] EXCEPT !.prev = c.prev]
                [] y = c.prev -> [heap[y] EXCEPT !.next = c.next]
                [] OTHER -> heap[y]]
    IN  /\ heap' = Without(relinked, {hit})
        /\ table' = IF c.prev = NULL THEN [table EXCEPT ![c.bucket] = c.next] ELSE table
        /\ elnum' = elnum - 1
        /\ UNCHANGED suspect

DeletePair(hit) ==
    /\ st = "ok" /\ hit \in Reachable
    /\ trav # NULL => trav.kind = "traverse" /\ hit = trav.cur
    /\ st' = DeleteFate(heap[hit])
    /\ IF st' = "ok" THEN Unlink(hit) ELSE UNCHANGED <<table, elnum, heap, suspect>>
    /\ trav' = IF trav = NULL THEN NULL ELSE [trav EXCEPT !.cur = NULL]
    /\ UNCHANGED leaked

\* The items of seq, linked one by one into a fresh table of sz slots.
Relinked(seq, sz) ==
    LET after[n \in 0..Len(seq)] ==
            IF n = 0 THEN [table |-> EmptyTable(sz), heap |-> heap]
            ELSE LET k == heap[seq[n]].key
                 IN  LinkFirst(after[n - 1], seq[n], HashFn[k] % sz,
                               Cell(HashFn[k] % sz, NULL, k, heap[seq[n]].value))
    IN  after[Len(seq)]

\* hash_rehash: collect the items, reset the table, link them one by one.
Rehash(sz) ==
    /\ Idle
    /\ IF Len(Traversal) # elnum
       THEN st' = "assert rehash" /\ UNCHANGED <<table, heap, suspect>>
       ELSE LET s == Relinked(Traversal, sz)
            IN  /\ table' = s.table
                /\ heap' = s.heap
                /\ suspect' = {}
                /\ UNCHANGED st
    /\ UNCHANGED <<elnum, trav, leaked>>

\* Mutant: elnum counts down before the finalizer is asked.
CleanupEarlyCount(veto) ==
    LET kept == {x \in Reachable : \E b \in Slots : \E i, j \in DOMAIN Chain(b) :
                    j <= i /\ Chain(b)[i] = x /\ Chain(b)[j] \in veto}
    IN  /\ heap' = Without(heap, Reachable \ kept)
        /\ elnum' = elnum - Cardinality(Reachable)
        /\ table' = [b \in Slots |-> NULL]
        /\ suspect' = {}
        /\ leaked' = leaked \cup kept

\* hash_cleanup: the finalizer's veto on an item keeps it and the rest of its
\* chain allocated, yet the slot is emptied.
CleanupBody(veto) ==
    LET kept == {x \in Reachable : \E b \in Slots : \E i, j \in DOMAIN Chain(b) :
                    j <= i /\ Chain(b)[i] = x /\ Chain(b)[j] \in veto}
    IN  /\ heap' = Without(heap, Reachable \ kept)
        /\ elnum' = elnum - Cardinality(Reachable \ kept)
        /\ table' = [b \in Slots |-> NULL]
        /\ suspect' = {}
        /\ leaked' = leaked \cup kept

Vetoes == IF FiniFails THEN SUBSET Reachable ELSE {{}}

Cleanup ==
    /\ Idle
    /\ \E veto \in Vetoes : CleanupBody(veto)
    /\ UNCHANGED <<trav, st>>

\* hash_fini and hash_destroy: the items, then the table itself.
Fini ==
    /\ Idle
    /\ \E veto \in Vetoes : CleanupBody(veto)
    /\ st' = "fini"
    /\ UNCHANGED trav

\* hash_init on a fresh or finalised dictionary; what leaked stays lost.
HashInit(sz) ==
    /\ st = "fini"
    /\ st' = "ok"
    /\ table' = EmptyTable(sz)
    /\ elnum' = 0
    /\ heap' = Without(heap, leaked)
    /\ leaked' = {}
    /\ UNCHANGED <<trav, suspect>>

SetAdd(k) == Idle /\ GetItem(k) = NULL /\ SetItem(k, NoValue)

-----------------------------------------------------------------------------
(* Traversal.  hash_traverse reads next before it calls back, so that the  *)
(* callback may delete the item it is given; hash_next reads it afterwards.*)

\* trav.cur is the item the callback holds, NULL once it has deleted it; seen
\* and owed are history: the items called back for before cur, and those that
\* were there from the start and still have to be.

\* Mutant: the end of a chain ends the traversal.
GoOnOneChain(t, b, x) ==
    IF x = NULL
    THEN [t EXCEPT !.cur = NULL]
    ELSE [t EXCEPT !.cur = x, !.next = heap[x].next]

\* Go on at item x of slot b or, past the end of that chain, at the first
\* non-empty slot after b.
GoOn(t, b, x) ==
    LET later == {j \in Slots : j > b /\ table[j] # NULL}
        b2 == IF x # NULL THEN b ELSE CHOOSE j \in later : \A l \in later : j <= l
        x2 == IF x # NULL THEN x ELSE table[b2]
    IN  IF x = NULL /\ later = {}
        THEN [t EXCEPT !.cur = NULL]
        ELSE [t EXCEPT !.b = b2, !.cur = x2, !.next = heap[x2].next]

Visit(t) ==
    IF t.cur = NULL THEN trav' = NULL
    ELSE trav' = [t EXCEPT !.owed = @ \ {t.cur}]

First ==
    LET filled == {j \in Slots : table[j] # NULL}
    IN  IF filled = {} THEN NULL
        ELSE table[CHOOSE j \in filled : \A l \in filled : j <= l]

TraverseStart(kind) ==
    /\ Idle
    /\ First # NULL
    /\ LET t == [kind |-> kind, b |-> 0, cur |-> NULL, next |-> NULL,
                 seen |-> {}, owed |-> Reachable]
       IN  Visit(GoOn(t, 0, table[0]))
    /\ UNCHANGED <<table, elnum, heap, st, suspect, leaked>>

TraverseNext ==
    /\ InCallback
    /\ LET nx == IF trav.kind = "traverse" THEN trav.next ELSE heap[trav.cur].next
       IN  Visit(GoOn([trav EXCEPT !.seen = @ \cup ({trav.cur} \ {NULL})], trav.b, nx))
    /\ UNCHANGED <<table, elnum, heap, st, suspect, leaked>>

\* The callback returns non-zero, or the client drops its iterator.
TraverseStop ==
    /\ InCallback
    /\ trav' = NULL
    /\ UNCHANGED <<table, elnum, heap, st, suspect, leaked>>

-----------------------------------------------------------------------------
Init ==
    /\ \E sz \in Sizes : table = EmptyTable(sz)
    /\ elnum = 0
    /\ heap = [x \in {} |-> NULL]
    /\ trav = NULL
    /\ st = "ok"
    /\ suspect = {}
    /\ leaked = {}

\* The operations that leave every chain fit for hash_delete_pair.
CoreNext ==
    \/ \E k \in Keys, v \in Values : SetItem(k, v)
    \/ \E k \in Keys : SetAdd(k)
    \/ \E hit \in Items : DeletePair(hit)
    \/ \E sz \in Sizes : Rehash(sz) \/ HashInit(sz)
    \/ Cleanup \/ Fini
    \/ \E kind \in {"traverse", "iterate"} : TraverseStart(kind)
    \/ TraverseNext \/ TraverseStop

Next ==
    \/ CoreNext
    \/ \E k \in Keys, v \in Values : SetItemUniq(k, v)
    \/ \E k \in Keys : RemoveItem(k)

Spec == Init /\ [][Next]_vars

-----------------------------------------------------------------------------
(* Properties *)

\* The variables stay within their types; the program dies in known ways.
TypeOK ==
    /\ \E sz \in Sizes : table \in [0..sz - 1 -> Items \cup {NULL}]
    /\ elnum \in Nat
    /\ Live \subseteq Items
    /\ heap \in [Live -> [bucket : Slots \cup {NULL, Junk},
                          prev : Items \cup {NULL, Junk}, next : Items \cup {NULL},
                          key : Keys, value : Values \cup {NoValue}]]
    /\ st \in {"ok", "fini", "wild write", "assert bucket", "assert rehash"}
    /\ suspect \subseteq Live
    /\ leaked \subseteq Live

\* No item is lost, shared or freed while linked: each allocated item is on
\* exactly one chain, once, or was dropped by a vetoed cleanup, and
\* dict->elnum counts the allocated items.  (hash.c keeps elnum by hand in
\* five places and hash_rehash asserts it.)
Accounted ==
    /\ TypeOK
    /\ elnum = Cardinality(Live)
    /\ Live = Reachable \cup leaked
    /\ Reachable \cap leaked = {}
    /\ Len(Traversal) = Cardinality(Reachable)

\* An item is on the chain its key hashes to for the present table size, so
\* that hash_get_item finds it.
Placed == \A b \in Slots : \A x \in ToSet(Chain(b)) : Idx(heap[x].key) = b

\* Every item is where hash_get_item looks for it, and those that
\* hash_delete_pair may be given have the links it relies on: prev is the item
\* before it, and the head of a chain has its slot in bucket unless
\* hash_remove_item or hash_set_item_uniq put it there.
WellLinked ==
    /\ Placed
    /\ \A b \in Slots : \A i \in DOMAIN Chain(b) :
          LET x == Chain(b)[i]
          IN  IF i = 1
              THEN x \in suspect \/ (heap[x].prev = NULL /\ heap[x].bucket = b)
              ELSE heap[x].prev = Chain(b)[i - 1] /\ heap[x].bucket = NULL

\* The program dies in hash_delete_pair only on a head that hash_remove_item
\* promoted or hash_set_item_uniq inserted, and in hash_rehash only after a
\* finalizer vetoed a cleanup.
DeathsExplained ==
    /\ st \in {"wild write", "assert bucket"} => suspect # {}
    /\ st = "assert rehash" => leaked # {}

\* hash_traverse calls back for no item twice, even though the callback
\* deletes items and inserts new ones.
VisitedOnce == trav # NULL => trav.cur \notin trav.seen

\* A traversal calls back for no item twice, and one that runs to its end has
\* called back for every item that was in the dictionary when it began and was
\* not deleted meanwhile.
TraversalComplete ==
    /\ []VisitedOnce
    /\ [][TraverseNext /\ trav' = NULL => trav.owed = {}]_vars

\* The values that a chain c has for key k.
Stack(c, k) ==
    LET of[i \in 0..Len(c)] ==
            IF i = 0 THEN <<>>
            ELSE IF heap[c[i]].key = k THEN Append(of[i - 1], heap[c[i]].value)
            ELSE of[i - 1]
    IN  of[Len(c)]

\* The table implements the dictionary of module Dict.
D == INSTANCE Dict WITH
        Values <- Values \cup {NoValue},
        m <- [k \in Keys |-> Stack(Chain(Idx(k)), k)]
ImplementsDict == D!DSpec

\* The assertion of hash_delete_pair (hash.c): the head of a chain has a bucket.
BucketAssertionHolds == st # "assert bucket"
=============================================================================
