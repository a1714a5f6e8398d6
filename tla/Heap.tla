-------------------------------- MODULE Heap -------------------------------
(***************************************************************************)
(* The binary heap of heap.c, kept in an array of Array.  The elements are *)
(* numbers, which heap->cmp compares; heap->swap exchanges two of them.    *)
(***************************************************************************)
EXTENDS Array

CONSTANTS
    Values,     \* the elements pushed, numbers from 0
    MaxLen,     \* bound on the number of elements
    Nothing     \* no value handed out

ASSUME HeapAssumption == Values \subseteq Nat /\ MaxLen \in Nat /\ Nothing \notin Nat

VARIABLES
    out,        \* what the last operation has handed out
    ordered     \* history: no foreign order since the elements were last sifted

hvars == <<avars, out, ordered>>

HEAP_D == 2
Parent(i) == (i - 1) \div HEAP_D

At(i) == ar.data[i]

\* The children of node i among the first n elements.
Kids(i, n) == {k \in HEAP_D * i + 1 .. HEAP_D * i + HEAP_D : k < n}

\* Mutant: a node is exchanged with its first child only.
FirstKid(d, i, n) == HEAP_D * i + 1

\* The least child, the first of equal ones.
LeastKid(d, i, n) == Min({k \in Kids(i, n) : \A l \in Kids(i, n) : d[k] =< d[l]})

\* heap->swap
Exchanged(d, i, j) == [d EXCEPT ![i] = d[j], ![j] = d[i]]

\* siftdown of the first n elements of d from i: exchange with the least child
\* as long as it is less.
Sift(d, n, i) ==
    LET down[x \in [data : [DOMAIN d -> Int], at : Nat]] ==
            LET k == LeastKid(x.data, x.at, n)
            IN  IF Kids(x.at, n) = {} \/ x.data[x.at] =< x.data[k] THEN x.data
                ELSE down[[data |-> Exchanged(x.data, x.at, k), at |-> k]]
    IN  down[[data |-> d, at |-> i]]

\* The loops that sift every node from i down to the first.
SiftFrom(d, n, i) ==
    LET after[j \in 0 .. i + 1] == IF j > i THEN d ELSE Sift(after[j + 1], n, j)
    IN  after[0]

Put(a, i, v) == [a EXCEPT !.data = [a.data EXCEPT ![i] = v]]
Swap(a, i, j) == [a EXCEPT !.data = Exchanged(a.data, i, j)]
Sifted(a, i) == [a EXCEPT !.data = SiftFrom(a.data, a.elnum, i)]

\* heap_push: the new last element, then every node from its parent down to the
\* first is sifted.
Pushed(v) ==
    LET a == Put(Incr(ar), ar.elnum, v)
    IN  IF a.elnum > 1 THEN Sifted(a, Parent(a.elnum - 1)) ELSE a

\* heap_pop: the last element takes the first place.
Popped ==
    LET last == ar.elnum - 1
        a == DecrFast(Swap(ar, 0, last))
    IN  IF last = 0 THEN DecrFast(ar) ELSE [a EXCEPT !.data = Sift(a.data, a.elnum, 0)]

\* heap_pushpop: the new element takes the place of the last, which takes the
\* first place.
Replaced(v) ==
    LET last == ar.elnum - 1
        a == Put(Swap(ar, 0, last), last, v)
    IN  IF last = 0 THEN Put(ar, 0, v) ELSE Sifted(a, Parent(last))

\* heap_get and heap_get_at: the search for an element goes below the elements
\* that are less.
HeapGet(v) ==
    LET get[i \in Nat] ==
            LET Tried(k) == IF At(k) = v THEN k ELSE IF v > At(k) THEN get[k] ELSE Nothing
                hits == {k \in Kids(i, ar.elnum) : Tried(k) # Nothing}
            IN  IF hits = {} THEN Nothing ELSE Tried(Min(hits))
    IN  IF ar.elnum = 0 THEN Nothing
        ELSE IF At(0) = v THEN 0
        ELSE IF v < At(0) THEN Nothing ELSE get[0]
-----------------------------------------------------------------------------
\* heap_init: no element; the room that is asked for is made by
\* array_ensure_datasz_dirty, which initialises none.
HeapInit(n) ==
    /\ ~ar.set
    /\ ar' = EnsureDirty(Fresh(0, 0), n, FALSE)
    /\ suspect' = {}
    /\ out' = Nothing
    /\ ordered' = TRUE

HeapPush(v) ==
    /\ ar.set
    /\ ar.elnum < MaxLen
    /\ Become(Pushed(v), {})
    /\ out' = Nothing
    /\ ordered' = (ordered \/ ar.elnum > 0)

\* heap_pop of a heap; it returns -1 if it is empty.
HeapPop ==
    /\ ar.set
    /\ ordered
    /\ IF ar.elnum = 0
       THEN out' = Nothing /\ UNCHANGED avars
       ELSE out' = At(0) /\ Become(Popped, {})
    /\ UNCHANGED ordered

\* heap_pushpop, which pushes only if the heap is empty, and returns -1.
HeapPushpop(v) ==
    /\ ar.set
    /\ ordered
    /\ IF ar.elnum = 0
       THEN out' = Nothing /\ Become(Pushed(v), {})
       ELSE out' = At(0) /\ Become(Replaced(v), {})
    /\ UNCHANGED ordered

\* heap_sort (up), and heap_sort_custom, whose order may be any.
HeapSort(up) ==
    /\ ar.set
    /\ ar.elnum > 0
    /\ \E d \in [First(ar.elnum) -> {At(i) : i \in First(ar.elnum)}] :
           /\ \A i, j \in First(ar.elnum) : i < j /\ up => d[i] =< d[j]
           /\ \A v \in Values : Cardinality({i \in First(ar.elnum) : d[i] = v}) =
                                Cardinality({i \in First(ar.elnum) : At(i) = v})
           /\ ar' = [ar EXCEPT !.data = [i \in DOMAIN @ |-> IF i < ar.elnum THEN d[i] ELSE @[i]]]
    /\ ordered' = up
    /\ UNCHANGED <<suspect, out>>

\* heap_ify
HeapIfy ==
    /\ ar.set
    /\ ar' = IF ar.elnum \div HEAP_D = 0 THEN ar ELSE Sifted(ar, ar.elnum \div HEAP_D - 1)
    /\ ordered' = TRUE
    /\ UNCHANGED <<suspect, out>>

\* heap_cleanup, with a finaliser that returns 0.
HeapCleanup == ArrayClear(ar.elnum) /\ out' = Nothing /\ ordered' = TRUE

HeapFini == ArrayFini /\ out' = Nothing /\ ordered' = TRUE

HeapStart == ArrayStart /\ out = Nothing /\ ordered = TRUE

HeapNext ==
    \/ \E n \in 0 .. MaxLen : HeapInit(n)
    \/ \E v \in Values : HeapPush(v) \/ HeapPushpop(v)
    \/ HeapPop
    \/ \E up \in BOOLEAN : HeapSort(up)
    \/ HeapIfy
    \/ HeapCleanup
    \/ HeapFini

HeapSpec == HeapStart /\ [][HeapNext]_hvars
-----------------------------------------------------------------------------
\* No element is less than its parent, and heap_get finds an element exactly if
\* it is there, wherever the branches it may leave out have been cut.
HeapOrder ==
    ordered =>
        /\ \A i \in 1 .. ar.elnum - 1 : At(Parent(i)) =< At(i)
        /\ \A v \in Values :
               IF \E i \in First(ar.elnum) : At(i) = v
               THEN HeapGet(v) # Nothing /\ At(HeapGet(v)) = v
               ELSE HeapGet(v) = Nothing

\* The priority queue a heap is to be.
Bag ==
    [v \in {At(i) : i \in First(ar.elnum)} |-> Cardinality({i \in First(ar.elnum) : At(i) = v})]
Queue == INSTANCE PriorityQueue WITH bag <- Bag
=============================================================================
