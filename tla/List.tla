-------------------------------- MODULE List --------------------------------
(***************************************************************************)
(* The lists of list.c: entries malloc'd one by one, in a doubly linked    *)
(* chain, and an index of pointers to them.  An initialiser that fails     *)
(* leaves its entry in the chain and out of the index.                     *)
(***************************************************************************)
EXTENDS Integers, SequencesExt

CONSTANTS
    Lists,      \* the list_t of the client
    MaxLen,     \* bounds the length asked for
    Cells,      \* bounds the entries allocated at a time, numbered 1..Cells
    MaxFails    \* bounds how often an initialiser fails or an item is cleared

VARIABLES
    lst,        \* per list: index (below elnum), head, tail, and st: "none" before
                \* list_init and after list_fini, "ok", or "broken" if list_init failed
    mem,        \* the allocated entries: next, prev and their data, "live" between
                \* initialiser and finaliser, else "raw"
    unsure,     \* history: lists in which an initialiser has failed or an item was cleared
    fails,      \* how often this happened
    leaked      \* history: entries dropped with the chain of a list of length 0

lvars == <<lst, mem, unsure, fails, leaked>>

NULL == 0

elnum(l) == Len(l.index)

\* The entries from c on, along next.
Run(m, c) ==
    LET walk[i \in 0..Cells] ==
          IF i = 0 THEN <<>>
          ELSE LET s == walk[i - 1]
                   e == IF s = <<>> THEN c ELSE m[Last(s)].next
               IN  IF e = NULL THEN s ELSE Append(s, e)
    IN  walk[Cells]

Chain(x) == Run(mem, lst[x].head)

\* The entries that k calls of malloc give: free ones, no two the same.
Malloced(m, k) == CHOOSE s \in [1..k -> 1..Cells \ DOMAIN m] : IsInjective(s)
Room(m) == Cells - Cardinality(DOMAIN m)

\* Mutant: the entry before the new ones is not told.
JoinedOneWay(m, before, new, refused) ==
    [c \in DOMAIN m \cup Range(new) |->
        IF c \in DOMAIN m THEN m[c]
        ELSE LET i == CHOOSE i \in DOMAIN new : new[i] = c
             IN  [next |-> IF i = Len(new) THEN NULL ELSE new[i + 1],
                  prev |-> IF i = 1 THEN before ELSE new[i - 1],
                  data |-> IF i = Len(new) /\ refused THEN "raw" ELSE "live"]]

\* New entries joined behind `before`; the initialiser refuses the last one or none.
Joined(m, before, new, refused) ==
    [c \in DOMAIN m \cup Range(new) |->
        IF c = before /\ new # <<>> THEN [m[c] EXCEPT !.next = new[1]]
        ELSE IF c \in DOMAIN m THEN m[c]
        ELSE LET i == CHOOSE i \in DOMAIN new : new[i] = c
             IN  [next |-> IF i = Len(new) THEN NULL ELSE new[i + 1],
                  prev |-> IF i = 1 THEN before ELSE new[i - 1],
                  data |-> IF i = Len(new) /\ refused THEN "raw" ELSE "live"]]

\* free of some entries.
Freed(m, gone) == [c \in DOMAIN m \ gone |-> m[c]]

\* list_data_reinit with both callbacks, in which the initialiser refuses the
\* entry at place bad of the chain, if there is one.
Reinit(m, l, bad) ==
    LET s == Run(m, l.head)
    IN  [c \in DOMAIN m |->
            IF \E i \in DOMAIN s : s[i] = c /\ i < bad THEN [m[c] EXCEPT !.data = "live"]
            ELSE IF bad \in DOMAIN s /\ s[bad] = c THEN [m[c] EXCEPT !.data = "raw"]
            ELSE m[c]]

\* Whether something failed in list x.
Failed(x, so) ==
    /\ fails' = IF so THEN fails + 1 ELSE fails
    /\ fails' <= MaxFails
    /\ unsure' = IF so THEN unsure \cup {x} ELSE unsure

Become(x, l, m) == lst' = [lst EXCEPT ![x] = l] /\ mem' = m

Unset == [index |-> <<>>, head |-> NULL, tail |-> NULL, st |-> "none"]

\* list_data_fini: the whole chain goes.
DataFini(x, st) ==
    /\ Become(x, [Unset EXCEPT !.st = st], Freed(mem, Range(Chain(x))))
    /\ unsure' = unsure \ {x}
    /\ UNCHANGED <<fails, leaked>>

\* Mutant: the tail is the entry it was.
ShortKeepsTail(l, n) == [l EXCEPT !.index = SubSeq(@, 1, n)]

\* The part of list_ensure_len that removes the entries from index[n] on.
Short(l, n) == [l EXCEPT !.index = SubSeq(@, 1, n), !.tail = mem[l.index[n + 1]].prev]
ShortMem(l, n) ==
    Freed([mem EXCEPT ![mem[l.index[n + 1]].prev].next = NULL], Range(Run(mem, l.index[n + 1])))

\* The part that appends n entries to a list l, of which the initialiser refuses
\* the last: then they all stay in the chain, and none is counted.  Without a
\* counted entry a new chain is begun.
Extend(x, l, m, n, refused) ==
    LET new == Malloced(m, n)
        first == l.index = <<>>
    IN  /\ n =< Room(m)
        /\ Become(x, [l EXCEPT !.index = IF refused THEN @ ELSE @ \o new,
                               !.head = IF first THEN new[1] ELSE @,
                               !.tail = Last(new)],
                  Joined(m, IF first THEN NULL ELSE l.tail, new, refused))
        /\ leaked' = IF first THEN leaked \cup Range(Chain(x)) ELSE leaked

-----------------------------------------------------------------------------
\* list_init; a failure ends it with elnum set, the index half filled and perhaps no
\* tail, so that only list_fini, which follows the chain, can be called.
ListInit(x, n, refused) ==
    /\ lst[x].st = "none"
    /\ n =< Room(mem) /\ (refused => n > 0)
    /\ LET new == Malloced(mem, n)
       IN  Become(x, [index |-> IF refused THEN <<>> ELSE new,
                      head |-> IF n = 0 THEN NULL ELSE new[1],
                      tail |-> IF n = 0 \/ refused THEN NULL ELSE Last(new),
                      st |-> IF refused THEN "broken" ELSE "ok"],
                  Joined(mem, NULL, new, refused))
    /\ Failed(x, refused)
    /\ UNCHANGED leaked

ListFini(x) == lst[x].st # "none" /\ DataFini(x, "none")

\* list_move: dst is finalised, and src gives it all it has.
ListMove(dst, src) ==
    /\ dst # src /\ lst[dst].st # "none" /\ lst[src].st = "ok"
    /\ lst' = [lst EXCEPT ![dst] = lst[src], ![src] = Unset]
    /\ mem' = Freed(mem, Range(Chain(dst)))
    /\ unsure' = (unsure \ {dst, src}) \cup (IF src \in unsure THEN {dst} ELSE {})
    /\ UNCHANGED <<fails, leaked>>

\* list_ensure_len: excess entries are removed; without LIST_FLAG_SAVE those that
\* are there, or are left, are initialised anew, and the initialiser may refuse the
\* one at place bad of the chain; then new ones are appended.
EnsureLen(x, n, save, bad) ==
    LET old == elnum(lst[x])
        less == 0 < n /\ n < old
        l == IF less THEN Short(lst[x], n) ELSE lst[x]
        left == IF less THEN ShortMem(lst[x], n) ELSE mem
        stops == ~save /\ bad \in DOMAIN Run(left, l.head)
        m == IF save THEN left ELSE Reinit(left, l, bad)
    IN  /\ lst[x].st = "ok"
        /\ IF n = 0 /\ old > 0 THEN DataFini(x, "ok")
           ELSE IF stops \/ n =< old
                THEN Become(x, l, m) /\ Failed(x, stops) /\ UNCHANGED leaked
           ELSE \/ Extend(x, l, m, n - old, FALSE) /\ Failed(x, FALSE)
                \/ \E made \in 1..n - old : Extend(x, l, m, made, TRUE) /\ Failed(x, TRUE)

\* list_incr and list_incr_iter; list_decr, of a list that is not empty.
ListIncr(x) == elnum(lst[x]) < MaxLen /\ EnsureLen(x, elnum(lst[x]) + 1, TRUE, 1)
ListDecr(x) == elnum(lst[x]) > 0 /\ EnsureLen(x, elnum(lst[x]) - 1, TRUE, 1)

\* list_clear_item; there is no function that initialises the item again.
ClearItem(x, i) ==
    /\ lst[x].st = "ok" /\ i \in DOMAIN lst[x].index
    /\ mem' = [mem EXCEPT ![lst[x].index[i]].data = "raw"]
    /\ Failed(x, TRUE)
    /\ UNCHANGED <<lst, leaked>>

LStart == lst = [x \in Lists |-> Unset] /\ mem = <<>> /\ unsure = {} /\ fails = 0 /\ leaked = {}

LNext ==
    \E x \in Lists :
      \/ \E n \in 0..MaxLen :
           \/ \E refused \in BOOLEAN : ListInit(x, n, refused)
           \/ EnsureLen(x, n, TRUE, 1)
           \/ \E bad \in 1..Len(Chain(x)) + 1 : EnsureLen(x, n, FALSE, bad)
      \/ \E i \in 1..MaxLen : ClearItem(x, i)
      \/ \E y \in Lists : ListMove(x, y)
      \/ ListIncr(x) \/ ListDecr(x) \/ ListFini(x)

-----------------------------------------------------------------------------
\* The entries of t are some of those of s, in the order they have there.
Within(t, s) ==
    /\ Range(t) \subseteq Range(s)
    /\ \A i, j \in DOMAIN t, a, b \in DOMAIN s :
         i < j /\ t[i] = s[a] /\ t[j] = s[b] => a < b

\* Whatever the initialiser refuses, the chain of a list leads forwards and backwards
\* through the same entries up to its tail, the index points into it in order, no
\* entry is in two chains, and every other one was lost where a list of length 0
\* began a new chain.  Where nothing failed the index is the chain, and each entry
\* has been initialised and not finalised since.
ListSound ==
    /\ \A c \in DOMAIN mem : {mem[c].next, mem[c].prev} \subseteq DOMAIN mem \cup {NULL}
    /\ \A x \in Lists :
         LET l == lst[x]
             s == Chain(x)
         IN  /\ {l.head, l.tail} \cup Range(l.index) \subseteq DOMAIN mem \cup {NULL}
             /\ IsInjective(s)
             /\ \A i \in DOMAIN s : mem[s[i]].prev = IF i = 1 THEN NULL ELSE s[i - 1]
             /\ l.st = "ok" => l.tail = IF s = <<>> THEN NULL ELSE Last(s)
             /\ Within(l.index, s)
             /\ x \notin unsure =>
                  l.index = s /\ \A c \in Range(s) : mem[c].data = "live"
    /\ \A x, y \in Lists : x # y => Range(Chain(x)) \cap Range(Chain(y)) = {}
    /\ DOMAIN mem = leaked \cup UNION { Range(Chain(x)) : x \in Lists }
=============================================================================
