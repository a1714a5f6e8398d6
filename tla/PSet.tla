-------------------------------- MODULE PSet --------------------------------
(***************************************************************************)
(* The popularity set of cm.c, a hash of at most so many keys, with the    *)
(* count-min sketch it is made for: the client of testcm.c tells the       *)
(* sketch of each key it reads, and keeps the keys that come most often.   *)
(***************************************************************************)
EXTENDS Integers, FiniteSets

CONSTANTS
    Keys,        \* what the items of the set point to
    Width,       \* cm->w, the number of rows
    Depth,       \* cm->d, the number of counters in a row
    Thresh,      \* how many keys the set may hold
    MinThresh,   \* pset->minthresh
    MaxLines     \* bounds the keys read

VARIABLES
    fasthash,    \* for each row and key the counter fasthash picks
    cm,          \* cm->v
    d,           \* pset->d: the keys in the set, with the cmprop of their items
    nleft,       \* pset->nleft
    fast_pop_thresh,
    count,       \* history: how often each key was read
    last,        \* history: the cmprop each key had when it was last offered
    lent         \* history: whether the client popped items, and how often in vain

pset == <<d, nleft, fast_pop_thresh>>
psvars == <<fasthash, cm, pset, count, last, lent>>

Rows == 0 .. Width - 1
Cell(i, k) == Depth * i + fasthash[i][k]

\* cm_add: one more in the cell of k in each row.
Added(k) ==
    [c \in DOMAIN cm |-> IF \E i \in Rows : c = Cell(i, k) THEN cm[c] + 1 ELSE cm[c]]

\* cm_get of a counter that is large enough to begin with: the least row.
Get(v, k) ==
    CHOOSE x \in {v[Cell(i, k)] : i \in Rows} : \A i \in Rows : x <= v[Cell(i, k)]

Larger(a, b) == IF a >= b THEN a ELSE b      \* MAX

\* What hash_traverse and pset_mingen_fast may find, in whatever order the hash
\* has its items; to stop at a cmprop of 1 makes no difference.
Least(items) == {k \in DOMAIN items : \A l \in DOMAIN items : items[k] <= items[l]}

Without(items, k) == [l \in DOMAIN items \ {k} |-> items[l]]
With(items, k, prop) == [l \in DOMAIN items \cup {k} |-> IF l = k THEN prop ELSE items[l]]

\* Mutant: the threshold stays when there is room again.
PSetPoppedKeepsThresh(items, n) ==
    \E k \in Least(items) :
        /\ d' = Without(items, k)
        /\ nleft' = n + 1
        /\ fast_pop_thresh' = Larger(items[k], MinThresh)

\* pset_pop of a set that holds something.
PSetPopped(items, n) ==
    \E k \in Least(items) :
        /\ d' = Without(items, k)
        /\ nleft' = n + 1
        /\ fast_pop_thresh' = IF n + 1 <= 0 THEN Larger(items[k], MinThresh) ELSE MinThresh

\* pset_push of an item of key k: handed back at once if it is not popular
\* enough; if its key is there it is neither taken nor handed back; one too many
\* pushes a least one out.
Push(k, prop) ==
    LET known == k \in DOMAIN d
        items == IF known THEN d ELSE With(d, k, prop)
        n == IF known THEN nleft ELSE nleft - 1
    IN  IF prop <= fast_pop_thresh THEN UNCHANGED pset
        ELSE IF n < 0 THEN PSetPopped(items, n)
        ELSE d' = items /\ nleft' = n /\ UNCHANGED fast_pop_thresh

-----------------------------------------------------------------------------
\* One turn of test3 in testcm.c, with pset_item_tell_cm: pset_peek finds the
\* item of the key, which is brought up to date, or a new one is pushed.
Tell(k) ==
    /\ count[k] < MaxLines
    /\ cm' = Added(k)
    /\ count' = [count EXCEPT ![k] = @ + 1]
    /\ last' = [last EXCEPT ![k] = Get(cm', k)]
    /\ IF k \in DOMAIN d
       THEN d' = With(d, k, Get(cm', k)) /\ UNCHANGED <<nleft, fast_pop_thresh>>
       ELSE Push(k, Get(cm', k))
    /\ UNCHANGED <<fasthash, lent>>

\* A client that pushes without a look whether the key is there.
PushBlindly(k) ==
    /\ Push(k, Get(cm, k))
    /\ last' = IF k \in DOMAIN d THEN last ELSE [last EXCEPT ![k] = Get(cm, k)]
    /\ UNCHANGED <<fasthash, cm, count, lent>>

\* pset_pop by the client.
Pop ==
    /\ DOMAIN d # {}
    /\ PSetPopped(d, nleft)
    /\ lent' = [lent EXCEPT !.popped = TRUE]
    /\ UNCHANGED <<fasthash, cm, count, last>>

\* pset_pop of an empty set: the item on pset_pop's own stack is handed out, its
\* key NULL, and one more may be pushed than before.
PopInVain ==
    /\ DOMAIN d = {}
    /\ lent.vain < MaxLines
    /\ nleft' = nleft + 1
    /\ fast_pop_thresh' = MinThresh
    /\ lent' = [popped |-> TRUE, vain |-> lent.vain + 1]
    /\ UNCHANGED <<fasthash, cm, d, count, last>>

Cleared == [c \in 0 .. Width * Depth - 1 |-> 0]
NoCount == [k \in Keys |-> 0]
NotLent == [popped |-> FALSE, vain |-> 0]

\* cm_init and pset_init
Start ==
    /\ fasthash \in [Rows -> [Keys -> 0 .. Depth - 1]]
    /\ cm = Cleared
    /\ d = [k \in {} |-> 0] /\ nleft = Thresh /\ fast_pop_thresh = MinThresh
    /\ count = NoCount /\ last = NoCount /\ lent = NotLent

\* cm_fini and pset_fini, and the beginning again.
Restart ==
    /\ cm' = Cleared
    /\ d' = [k \in {} |-> 0] /\ nleft' = Thresh /\ fast_pop_thresh' = MinThresh
    /\ count' = NoCount /\ last' = NoCount /\ lent' = NotLent
    /\ UNCHANGED fasthash

PSetNext ==
    \/ \E k \in Keys : Tell(k) \/ PushBlindly(k)
    \/ Pop \/ PopInVain \/ Restart

PSetSpec == Start /\ [][PSetNext]_psvars

-----------------------------------------------------------------------------
(* Properties *)

\* The set holds as many keys as nleft says, and never more than it may, but for
\* those that pops of an empty set have made room for.
Capacity ==
    /\ IsFiniteSet(DOMAIN d) /\ nleft \in Nat
    /\ Cardinality(DOMAIN d) + nleft = Thresh + lent.vain

\* As long as there is room, all that is popular enough is taken.
RoomIsUsed == nleft > 0 => fast_pop_thresh = MinThresh

\* The sketch never counts less than there was.
NeverUndercounts == \A k \in Keys : count[k] <= Get(cm, k)

\* A key that is not in the set, though it was popular enough when it was last
\* offered, was not more popular than any that is: the threshold of the pushes,
\* which is what the last pop found, is never ahead of the least member or behind
\* a key that was turned away.  (A client that pops makes room for any.)
MostPopular ==
    \A k \in Keys \ DOMAIN d :
        ~lent.popped /\ last[k] > MinThresh =>
            /\ nleft = 0
            /\ \A l \in DOMAIN d : last[k] <= d[l]

\* What the client of cm.c relies on: the popularity set keeps the most popular
\* keys that fit in, by counts that are never too small.
PopularKept == Capacity /\ RoomIsUsed /\ NeverUndercounts /\ MostPopular
=============================================================================
