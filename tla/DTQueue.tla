------------------------------ MODULE DTQueue ------------------------------
(***************************************************************************)
(* The doubly-linked tail queues of dtqueue.h, macros over links that live *)
(* in the client's entries: every queue shares the one link of an entry,   *)
(* and an entry that leaves a queue keeps what its link last held.         *)
(***************************************************************************)
EXTENDS Naturals, SequencesExt

CONSTANTS
    Queues,      \* the queue headers
    Entries,     \* the client's entries
    Null         \* NULL

ASSUME DTQueueAssumption == Null \notin Entries

VARIABLES
    dtq_head, dtq_tail,    \* per queue
    nelems,                \* per queue
    dtq_next, dtq_prev,    \* per entry
    order                  \* history: the entries a queue should hold, in order

links == <<dtq_next, dtq_prev>>
vars == <<dtq_head, dtq_tail, nelems, dtq_next, dtq_prev, order>>

Member(e) == \E q \in Queues : e \in Range(order[q])

\* A queue that DTQUEUE_DEQUEUE_FAST or DTQUEUE_POP_FAST has emptied, which
\* leave one end dangling: it may only be finalised.
Drained(q) == ~(dtq_head[q] = Null <=> dtq_tail[q] = Null)

\* Mutant: the head is not looked at.
OrphanByLinks(q, e) == dtq_prev[e] = Null /\ dtq_next[e] = Null

\* DTQUEUE_ORPHAN and DTQUEUE_EMPTY
Orphan(q, e) == dtq_head[q] # e /\ dtq_prev[e] = Null /\ dtq_next[e] = Null
Empty(q) == dtq_head[q] = Null /\ dtq_tail[q] = Null

-----------------------------------------------------------------------------
\* DTQUEUE_ENTRY_INIT and DTQUEUE_ENTRY_FINI on an entry outside of any queue.
EntryInit(e) ==
    /\ ~Member(e)
    /\ dtq_next' = [dtq_next EXCEPT ![e] = Null]
    /\ dtq_prev' = [dtq_prev EXCEPT ![e] = Null]
    /\ UNCHANGED <<dtq_head, dtq_tail, nelems, order>>

\* DTQUEUE_INIT and DTQUEUE_FINI: the entries still in q are not touched.
QueueInit(q) ==
    /\ dtq_head' = [dtq_head EXCEPT ![q] = Null]
    /\ dtq_tail' = [dtq_tail EXCEPT ![q] = Null]
    /\ nelems' = [nelems EXCEPT ![q] = 0]
    /\ order' = [order EXCEPT ![q] = <<>>]
    /\ UNCHANGED links

\* DTQUEUE_ENQUEUE.  Into an empty queue it leaves the link of the entry as it
\* is, so the client has to bring it initialised.
Enqueue(q, e) ==
    /\ ~Drained(q) /\ ~Member(e)
    /\ dtq_tail[q] = Null => dtq_next[e] = Null /\ dtq_prev[e] = Null
    /\ IF dtq_tail[q] = Null
       THEN dtq_head' = [dtq_head EXCEPT ![q] = e] /\ UNCHANGED links
       ELSE /\ dtq_next' = [dtq_next EXCEPT ![dtq_tail[q]] = e, ![e] = Null]
            /\ dtq_prev' = [dtq_prev EXCEPT ![e] = dtq_tail[q]]
            /\ UNCHANGED dtq_head
    /\ dtq_tail' = [dtq_tail EXCEPT ![q] = e]
    /\ nelems' = [nelems EXCEPT ![q] = @ + 1]
    /\ order' = [order EXCEPT ![q] = Append(@, e)]

\* DTQUEUE_DEQUEUE; the entry that leaves keeps its dtq_next.
Dequeue(q) ==
    /\ ~Drained(q)
    /\ IF dtq_head[q] = Null
       THEN UNCHANGED vars
       ELSE LET h == dtq_next[dtq_head[q]]
            IN  /\ dtq_head' = [dtq_head EXCEPT ![q] = h]
                /\ dtq_tail' = IF h = Null THEN [dtq_tail EXCEPT ![q] = Null] ELSE dtq_tail
                /\ dtq_prev' = IF h = Null THEN dtq_prev ELSE [dtq_prev EXCEPT ![h] = Null]
                /\ nelems' = [nelems EXCEPT ![q] = @ - 1]
                /\ order' = [order EXCEPT ![q] = Tail(@)]
                /\ UNCHANGED dtq_next

\* DTQUEUE_POP; the entry that leaves keeps its dtq_prev.
Pop(q) ==
    /\ ~Drained(q)
    /\ IF dtq_tail[q] = Null
       THEN UNCHANGED vars
       ELSE LET t == dtq_prev[dtq_tail[q]]
            IN  /\ dtq_tail' = [dtq_tail EXCEPT ![q] = t]
                /\ dtq_head' = IF t = Null THEN [dtq_head EXCEPT ![q] = Null] ELSE dtq_head
                /\ dtq_next' = IF t = Null THEN dtq_next ELSE [dtq_next EXCEPT ![t] = Null]
                /\ nelems' = [nelems EXCEPT ![q] = @ - 1]
                /\ order' = [order EXCEPT ![q] = Front(@)]
                /\ UNCHANGED dtq_prev

\* DTQUEUE_DEQUEUE_FAST in the loop of its comment: while there is a head.
DequeueFast(q) ==
    /\ ~Drained(q) /\ dtq_head[q] # Null
    /\ LET h == dtq_next[dtq_head[q]]
       IN  /\ dtq_head' = [dtq_head EXCEPT ![q] = h]
           /\ dtq_prev' = IF h = Null THEN dtq_prev ELSE [dtq_prev EXCEPT ![h] = Null]
    /\ nelems' = [nelems EXCEPT ![q] = @ - 1]
    /\ order' = [order EXCEPT ![q] = Tail(@)]
    /\ UNCHANGED <<dtq_tail, dtq_next>>

\* DTQUEUE_POP_FAST, likewise while there is a tail.
PopFast(q) ==
    /\ ~Drained(q) /\ dtq_tail[q] # Null
    /\ LET t == dtq_prev[dtq_tail[q]]
       IN  /\ dtq_tail' = [dtq_tail EXCEPT ![q] = t]
           /\ dtq_next' = IF t = Null THEN dtq_next ELSE [dtq_next EXCEPT ![t] = Null]
    /\ nelems' = [nelems EXCEPT ![q] = @ - 1]
    /\ order' = [order EXCEPT ![q] = Front(@)]
    /\ UNCHANGED <<dtq_head, dtq_prev>>

\* Where e stands in q.
Place(q, e) == CHOOSE i \in DOMAIN order[q] : order[q][i] = e

\* Mutant: the tail keeps pointing at the removed last entry.
CutEndsKeepsTail(q, e) ==
    LET p == dtq_prev[e]
        n == dtq_next[e]
    IN  /\ dtq_head' = IF p = Null THEN [dtq_head EXCEPT ![q] = n] ELSE dtq_head
        /\ dtq_tail' = IF n = Null /\ p = Null THEN [dtq_tail EXCEPT ![q] = p] ELSE dtq_tail

\* The four cases of DTQUEUE_REMOVE_DIRTY on e's neighbours: the queue's ends
\* and the links afterwards.
CutEnds(q, e) ==
    LET p == dtq_prev[e]
        n == dtq_next[e]
    IN  /\ dtq_head' = IF p = Null THEN [dtq_head EXCEPT ![q] = n] ELSE dtq_head
        /\ dtq_tail' = IF n = Null THEN [dtq_tail EXCEPT ![q] = p] ELSE dtq_tail
CutNext(e) ==
    IF dtq_prev[e] = Null THEN dtq_next ELSE [dtq_next EXCEPT ![dtq_prev[e]] = dtq_next[e]]
CutPrev(e) ==
    IF dtq_next[e] = Null THEN dtq_prev ELSE [dtq_prev EXCEPT ![dtq_next[e]] = dtq_prev[e]]

\* DTQUEUE_REMOVE_DIRTY of an entry of q; its link keeps what it held.
RemoveDirty(q, e) ==
    /\ ~Drained(q) /\ e \in Range(order[q])
    /\ CutEnds(q, e)
    /\ dtq_next' = CutNext(e)
    /\ dtq_prev' = CutPrev(e)
    /\ nelems' = [nelems EXCEPT ![q] = @ - 1]
    /\ order' = [order EXCEPT ![q] = RemoveAt(@, Place(q, e))]

\* DTQUEUE_REMOVE: the same, and DTQUEUE_ENTRY_FINI.
RemoveEntry(q, e) ==
    /\ ~Drained(q) /\ e \in Range(order[q])
    /\ CutEnds(q, e)
    /\ dtq_next' = [CutNext(e) EXCEPT ![e] = Null]
    /\ dtq_prev' = [CutPrev(e) EXCEPT ![e] = Null]
    /\ nelems' = [nelems EXCEPT ![q] = @ - 1]
    /\ order' = [order EXCEPT ![q] = RemoveAt(@, Place(q, e))]

\* Mutant: the entry before b is not told.
InsertBeforeHalf(q, b, e) ==
    LET p == dtq_prev[b]
    IN  /\ ~Drained(q) /\ b \in Range(order[q]) /\ ~Member(e)
        /\ dtq_head' = IF p = Null THEN [dtq_head EXCEPT ![q] = e] ELSE dtq_head
        /\ dtq_prev' = [dtq_prev EXCEPT ![e] = p, ![b] = e]
        /\ dtq_next' = [dtq_next EXCEPT ![e] = b]
        /\ nelems' = [nelems EXCEPT ![q] = @ + 1]
        /\ order' = [order EXCEPT ![q] = InsertAt(@, Place(q, b), e)]
        /\ UNCHANGED dtq_tail

\* DTQUEUE_INSERT_BEFORE an entry b of q.
InsertBefore(q, b, e) ==
    LET p == dtq_prev[b]
    IN  /\ ~Drained(q) /\ b \in Range(order[q]) /\ ~Member(e)
        /\ dtq_head' = IF p = Null THEN [dtq_head EXCEPT ![q] = e] ELSE dtq_head
        /\ dtq_prev' = [dtq_prev EXCEPT ![e] = p, ![b] = e]
        /\ dtq_next' = IF p = Null THEN [dtq_next EXCEPT ![e] = b]
                                   ELSE [dtq_next EXCEPT ![e] = b, ![p] = e]
        /\ nelems' = [nelems EXCEPT ![q] = @ + 1]
        /\ order' = [order EXCEPT ![q] = InsertAt(@, Place(q, b), e)]
        /\ UNCHANGED dtq_tail

Init ==
    /\ dtq_head = [q \in Queues |-> Null]
    /\ dtq_tail = [q \in Queues |-> Null]
    /\ nelems = [q \in Queues |-> 0]
    /\ dtq_next = [e \in Entries |-> Null]
    /\ dtq_prev = [e \in Entries |-> Null]
    /\ order = [q \in Queues |-> <<>>]

Next ==
    \/ \E e \in Entries : EntryInit(e)
    \/ \E q \in Queues :
         \/ QueueInit(q)
         \/ Dequeue(q) \/ Pop(q) \/ DequeueFast(q) \/ PopFast(q)
         \/ \E e \in Entries :
              \/ Enqueue(q, e) \/ RemoveDirty(q, e) \/ RemoveEntry(q, e)
              \/ \E b \in Entries : InsertBefore(q, b, e)

Spec == Init /\ [][Next]_vars

-----------------------------------------------------------------------------
(* Properties *)

\* Every pointer is NULL or an entry, and an entry is in one queue, once.
TypeOK ==
    /\ dtq_head \in [Queues -> Entries \cup {Null}]
    /\ dtq_tail \in [Queues -> Entries \cup {Null}]
    /\ nelems \in [Queues -> Nat]
    /\ dtq_next \in [Entries -> Entries \cup {Null}]
    /\ dtq_prev \in [Entries -> Entries \cup {Null}]
    /\ order \in [Queues -> Seq(Entries)]
    /\ \A p, q \in Queues : \A i \in DOMAIN order[p], j \in DOMAIN order[q] :
         order[p][i] = order[q][j] => p = q /\ i = j

\* Following the pointers of a queue, forwards or backwards, visits just the
\* entries that were put in and not taken out, in their order, whatever the
\* stale links of the entries outside say.
WellLinked ==
    \A q \in Queues :
      LET s == order[q]
      IN  /\ s # <<>> => dtq_head[q] = s[1] /\ dtq_tail[q] = s[Len(s)]
          /\ \A i \in DOMAIN s :
               /\ dtq_next[s[i]] = IF i = Len(s) THEN Null ELSE s[i + 1]
               /\ dtq_prev[s[i]] = IF i = 1 THEN Null ELSE s[i - 1]

\* DTQUEUE_LENGTH and DTQUEUE_EMPTY tell the truth: nelems does not drift and
\* does not wrap, and an empty queue has no head.
Counted ==
    \A q \in Queues :
      /\ nelems[q] = Len(order[q])
      /\ ~Drained(q) => (Empty(q) <=> order[q] = <<>>)
      /\ Drained(q) => order[q] = <<>>

\* DTQUEUE_ORPHAN never takes an entry of the queue for one outside.
NoFalseOrphan == \A q \in Queues : \A e \in Range(order[q]) : ~Orphan(q, e)

\* What the reading macros tell is true: DTQUEUE_LENGTH, DTQUEUE_EMPTY and
\* DTQUEUE_ORPHAN, through any sequence of insertions and removals.
ReadersTruthful == Counted /\ NoFalseOrphan
=============================================================================
