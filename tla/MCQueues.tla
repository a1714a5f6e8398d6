------------------------------ MODULE MCQueues ------------------------------
(***************************************************************************)
(* The queues of dtqueue.h and of stqueue.h, the lists of list.c and a     *)
(* ring in one run.  They share nothing: a behaviour is one of a client of *)
(* one of them, as use says.                                               *)
(***************************************************************************)
EXTENDS DTQueue

CONSTANTS
    Lists, MaxLen, Cells, MaxFails,        \* those of List
    MaxRing                                \* that of Ring

ASSUME CellsAssumption == Cells \in Nat

VARIABLES
    use,
    stq_head, stq_tail, stq_nelems, stq_next, stq_order, mark,    \* those of STQueue
    lst, mem, unsure, fails, leaked,                              \* those of List
    num, cursor, it, walk, seen                                   \* those of Ring

svars == <<stq_head, stq_tail, stq_nelems, stq_next, stq_order, mark>>
lvars == <<lst, mem, unsure, fails, leaked>>
rvars == <<num, cursor, it, walk, seen>>

S == INSTANCE STQueue WITH nelems <- stq_nelems, order <- stq_order
L == INSTANCE List
R == INSTANCE Ring

MCInit ==
    /\ Init /\ S!SInit /\ L!LStart /\ R!Init
    /\ use \in {"dtqueue", "stqueue", "list", "ring"}
    /\ use # "stqueue" => stq_next = [e \in Entries |-> Null]
    /\ use # "ring" => num = 1

MCNext ==
    \/ use = "dtqueue" /\ Next /\ UNCHANGED <<use, svars, lvars, rvars>>
    \/ use = "stqueue" /\ S!SNext /\ UNCHANGED <<use, vars, lvars, rvars>>
    \/ use = "list" /\ L!LNext /\ UNCHANGED <<use, vars, svars, rvars>>
    \/ use = "ring" /\ R!Next /\ UNCHANGED <<use, vars, svars, lvars>>

MCSpec == MCInit /\ [][MCNext]_<<use, vars, svars, lvars, rvars>>

\* SinglyLinked of the queues of stqueue.h: each macro keeps links and count, unless a
\* queue emptied by STQUEUE_DEQUEUE_FAST, or one with an old link, is used further.
SinglyLinked == S!SinglyLinked

\* ListSound of the lists: list_ensure_len and list_move keep chain and index of each
\* list together, whatever the initialiser refuses.
ListSound == L!ListSound

\* WalksRound of the ring: mnring_next_stop and mnring_prev_stop go round once.
WalksRound == R!WalksRound
=============================================================================
