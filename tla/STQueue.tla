------------------------------ MODULE STQueue -------------------------------
(***************************************************************************)
(* The singly-linked tail queues of stqueue.h.  As in dtqueue.h the link   *)
(* lives in the entry and keeps what it last held; here the client may     *)
(* forget to initialise it, and may go on with a queue that the fast macro *)
(* has emptied.                                                            *)
(***************************************************************************)
EXTENDS Naturals, SequencesExt

CONSTANTS
    Queues,      \* the queue headers
    Entries,     \* the client's entries
    Null         \* NULL

VARIABLES
    stq_head, stq_tail,    \* per queue
    nelems,                \* per queue
    stq_next,              \* per entry
    order,                 \* history: the entries a queue should hold, in order
    mark                   \* history: "sound"; "loose" if the only entry came with a link
                           \* that was not initialised; "drained" if the fast macro took
                           \* the last entry; "astray" if such a queue was used further

svars == <<stq_head, stq_tail, nelems, stq_next, order, mark>>

Member(e) == \E q \in Queues : e \in Range(order[q])

\* STQUEUE_EMPTY and STQUEUE_ORPHAN
Empty(q) == stq_head[q] = Null /\ stq_tail[q] = Null
Orphan(q, e) == stq_tail[q] # e /\ stq_next[e] = Null

-----------------------------------------------------------------------------
\* STQUEUE_ENTRY_INIT and STQUEUE_ENTRY_FINI on an entry outside of any queue.
EntryInit(e) ==
    /\ ~Member(e)
    /\ stq_next' = [stq_next EXCEPT ![e] = Null]
    /\ UNCHANGED <<stq_head, stq_tail, nelems, order, mark>>

\* STQUEUE_INIT and STQUEUE_FINI, all that a client does with a queue gone astray.
QueueInit(q) ==
    /\ stq_head' = [stq_head EXCEPT ![q] = Null]
    /\ stq_tail' = [stq_tail EXCEPT ![q] = Null]
    /\ nelems' = [nelems EXCEPT ![q] = 0]
    /\ order' = [order EXCEPT ![q] = <<>>]
    /\ mark' = [mark EXCEPT ![q] = "sound"]
    /\ UNCHANGED stq_next

\* Mutant: the link of the new tail is left as it is.
EnqueueLeavesLink(q, e) ==
    LET t == stq_tail[q]
    IN  /\ mark[q] \notin {"astray", "drained"} /\ ~Member(e)
        /\ IF t = Null
           THEN stq_head' = [stq_head EXCEPT ![q] = e] /\ UNCHANGED stq_next
           ELSE stq_next' = [stq_next EXCEPT ![t] = e] /\ UNCHANGED stq_head
        /\ stq_tail' = [stq_tail EXCEPT ![q] = e]
        /\ nelems' = [nelems EXCEPT ![q] = @ + 1]
        /\ order' = [order EXCEPT ![q] = Append(@, e)]
        /\ mark' = [mark EXCEPT ![q] = IF t = Null /\ stq_next[e] # Null THEN "loose"
                                       ELSE "sound"]

\* STQUEUE_ENQUEUE writes through the tail, also through the one that the fast macro
\* has left, which by now may be an entry of another queue.
Enqueue(q, e) ==
    LET t == stq_tail[q]
        harmed == { p \in Queues : mark[q] = "drained" /\ (p = q \/ t \in Range(order[p])) }
    IN  /\ mark[q] # "astray" /\ ~Member(e)
        /\ IF t = Null
           THEN stq_head' = [stq_head EXCEPT ![q] = e] /\ UNCHANGED stq_next
           ELSE stq_next' = [stq_next EXCEPT ![t] = e, ![e] = Null] /\ UNCHANGED stq_head
        /\ stq_tail' = [stq_tail EXCEPT ![q] = e]
        /\ nelems' = [nelems EXCEPT ![q] = @ + 1]
        /\ order' = [order EXCEPT ![q] = Append(@, e)]
        /\ mark' = [p \in Queues |->
              IF p \in harmed THEN "astray"
              ELSE IF p # q THEN mark[p]
              ELSE IF t = Null /\ stq_next[e] # Null THEN "loose" ELSE "sound"]

\* Mutant: the tail is left where it was.
DequeueKeepsTail(q) ==
    /\ mark[q] # "astray" /\ stq_head[q] # Null
    /\ stq_head' = [stq_head EXCEPT ![q] = stq_next[stq_head[q]]]
    /\ nelems' = [nelems EXCEPT ![q] = @ - 1]
    /\ order' = [order EXCEPT ![q] = Tail(@)]
    /\ mark' = [mark EXCEPT ![q] = IF @ = "loose" THEN "astray" ELSE @]
    /\ UNCHANGED <<stq_next, stq_tail>>

\* STQUEUE_DEQUEUE; the entry that leaves keeps its link.  It makes a queue whole that
\* the fast macro has emptied.
Dequeue(q) ==
    /\ mark[q] # "astray"
    /\ IF stq_head[q] = Null
       THEN /\ stq_tail' = [stq_tail EXCEPT ![q] = Null]
            /\ mark' = [mark EXCEPT ![q] = "sound"]
            /\ UNCHANGED <<stq_head, nelems, order>>
       ELSE LET h == stq_next[stq_head[q]]
            IN  /\ stq_head' = [stq_head EXCEPT ![q] = h]
                /\ stq_tail' = IF h = Null THEN [stq_tail EXCEPT ![q] = Null] ELSE stq_tail
                /\ nelems' = [nelems EXCEPT ![q] = @ - 1]
                /\ order' = [order EXCEPT ![q] = Tail(@)]
                /\ mark' = [mark EXCEPT ![q] = IF @ = "loose" THEN "astray" ELSE @]
    /\ UNCHANGED stq_next

\* STQUEUE_DEQUEUE_FAST in the loop of its comment: while there is a head.
DequeueFast(q) ==
    /\ mark[q] # "astray" /\ stq_head[q] # Null
    /\ stq_head' = [stq_head EXCEPT ![q] = stq_next[stq_head[q]]]
    /\ nelems' = [nelems EXCEPT ![q] = @ - 1]
    /\ order' = [order EXCEPT ![q] = Tail(@)]
    /\ mark' = [mark EXCEPT ![q] = IF @ = "loose" THEN "astray"
                                   ELSE IF Len(order[q]) = 1 THEN "drained" ELSE @]
    /\ UNCHANGED <<stq_tail, stq_next>>

SInit ==
    /\ stq_head = [q \in Queues |-> Null]
    /\ stq_tail = [q \in Queues |-> Null]
    /\ nelems = [q \in Queues |-> 0]
    /\ stq_next \in [Entries -> Entries \cup {Null}]
    /\ order = [q \in Queues |-> <<>>]
    /\ mark = [q \in Queues |-> "sound"]

SNext ==
    \/ \E e \in Entries : EntryInit(e)
    \/ \E q \in Queues :
         \/ QueueInit(q) \/ Dequeue(q) \/ DequeueFast(q)
         \/ \E e \in Entries : Enqueue(q, e)

SSpec == SInit /\ [][SNext]_svars

-----------------------------------------------------------------------------
\* A queue that has not gone astray holds the entries put in and not taken out, in
\* their order, and its reading macros are true, though links are never cleared: the
\* only link that may lead astray is that of a single entry that came into an empty
\* queue with an old link, which the next entry behind it mends.
Linked(q) ==
    LET s == order[q]
    IN  mark[q] # "astray" =>
          /\ nelems[q] = Len(s)
          /\ stq_head[q] = IF s = <<>> THEN Null ELSE s[1]
          /\ mark[q] # "drained" =>
               /\ stq_tail[q] = IF s = <<>> THEN Null ELSE Last(s)
               /\ Empty(q) <=> s = <<>>
          /\ \A i \in 1..Len(s) - 1 : stq_next[s[i]] = s[i + 1]
          /\ s # <<>> => (stq_next[Last(s)] = Null <=> mark[q] # "loose")
          /\ mark[q] = "loose" => Len(s) = 1
          /\ \A e \in Range(s) : ~Orphan(q, e)

SinglyLinked == \A q \in Queues : Linked(q)
=============================================================================
