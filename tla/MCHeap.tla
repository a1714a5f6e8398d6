------------------------------ MODULE MCHeap ------------------------------
(***************************************************************************)
(* The array by itself, the heap over it, and the popularity set of cm.c   *)
(* in one run: a behaviour is one of a client of either, as use says.      *)
(***************************************************************************)
EXTENDS Heap, PSet

CONSTANT ArrayLen   \* bound on the elements of the array by itself

VARIABLE use

MCInit ==
    /\ HeapStart
    /\ Start
    /\ use \in {"array", "heap", "pset"}
    /\ use # "pset" => \A i \in Rows, k \in Keys : fasthash[i][k] = 0

MCNext ==
    \/ use = "array" /\ ArrayNext(ArrayLen) /\ UNCHANGED <<out, ordered, use, psvars>>
    \/ use = "heap" /\ HeapNext /\ UNCHANGED <<use, psvars>>
    \/ use = "pset" /\ PSetNext /\ UNCHANGED <<use, hvars>>

MCSpec == MCInit /\ [][MCNext]_<<hvars, use, psvars>>

\* The heap is a priority queue: the elements stay in heap order through siftup,
\* siftdown, heap_ify and heap_sort, heap_pop and heap_pushpop hand out a least
\* element, and the exchanges lose, repeat or make up none.
ImplementsPriorityQueue ==
    /\ [](use = "heap" => HeapOrder)
    /\ use = "heap" => Queue!QInit
    /\ [][use = "heap" => [Queue!QNext]_<<Bag, out>>]_<<hvars, use, psvars>>
=============================================================================
