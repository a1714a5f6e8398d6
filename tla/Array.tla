------------------------------- MODULE Array -------------------------------
(***************************************************************************)
(* The growing array of array.c, with an initialiser and a finaliser.      *)
(*                                                                         *)
(* A slot is Raw after malloc or realloc, New after the initialiser, Dead   *)
(* after the finaliser, or holds the number the client wrote.  The slots of *)
(* the block are numbered from 0; sizes are in bytes.                      *)
(***************************************************************************)
EXTENDS Integers, FiniteSetsExt

CONSTANTS
    Elsz,       \* ar->elsz
    Small,      \* MNARRAY_SMALL_DATASZ
    SmallBits   \* its logarithm: 20

ASSUME ArrayAssumption ==
    /\ {Elsz, Small} \subseteq Nat \ {0}
    /\ SmallBits \in Nat
    /\ Small = 2 ^ SmallBits

VARIABLES
    ar,         \* elnum, datasz and data of the array, and whether its
                \* callbacks are set (between array_init and array_fini)
    suspect     \* history: the slots for which initialiser and finaliser
                \* are not called in turn, see below

avars == <<ar, suspect>>

New == -1
Dead == -2
Raw == -3
Live(slot) == slot \notin {Raw, Dead}

First(n) == 0 .. n - 1

\* A pointer that is NULL has no slot.
Null == [i \in {} |-> Raw]

\* ARRAY_ENSURE_SET_DATASZ, and from 0 the size array_init computes: the size is
\* doubled until it is enough, and exact from Small on.
SetDatasz(m, v) ==
    LET from == IF m = 0 \/ m > Small THEN 1 ELSE m
    IN  IF v >= Small THEN v
        ELSE Min({b \in {from * 2 ^ j : j \in 0 .. SmallBits} : b >= v})

\* realloc: slots keep what they held, new ones hold anything.
Realloc(data, sz) ==
    [i \in First(sz \div Elsz) |-> IF i \in DOMAIN data THEN data[i] ELSE Raw]

\* The calls of the initialiser or the finaliser for some slots.
Call(a, slots, outcome) ==
    [a EXCEPT !.data = [i \in DOMAIN a.data |-> IF i \in slots THEN outcome ELSE a.data[i]]]
InitSlots(a, slots) == Call(a, slots, New)
FiniSlots(a, slots) == Call(a, slots, Dead)

\* free(ar->data)
FreeData(a) == [a EXCEPT !.datasz = 0, !.data = Null]

\* Mutant: the block is enlarged for the elements there are, not for the new.
GrowDataForOld(a, n) ==
    LET sz == SetDatasz(a.datasz, Elsz * a.elnum)
    IN  IF a.datasz < Elsz * n THEN [a EXCEPT !.datasz = sz, !.data = Realloc(a.data, sz)] ELSE a

\* The part of the ensure bodies that enlarges the block if it is too small.
GrowData(a, n) ==
    LET sz == SetDatasz(a.datasz, Elsz * n)
    IN  IF a.datasz < Elsz * n THEN [a EXCEPT !.datasz = sz, !.data = Realloc(a.data, sz)] ELSE a

\* ARRAY_ENSURE_DIRTY_BODY: no element is initialised or finalised.
EnsureDirty(a, n, save) ==
    IF n > 0 THEN (IF save /\ n =< a.elnum THEN a ELSE GrowData(a, n)) ELSE FreeData(a)

\* Mutant: a shorter array keeps its elements in case it grows again.
EnsureKeeping(a, n, save) ==
    IF n = 0 THEN FreeData(FiniSlots(a, First(a.elnum)))
    ELSE IF save THEN InitSlots(GrowData(a, n), a.elnum .. n - 1)
    ELSE InitSlots(GrowData(FiniSlots(a, First(a.elnum)), n), First(n))

\* ARRAY_ENSURE_BODY: without ARRAY_FLAG_SAVE every element is finalised and as
\* many are initialised as are asked for; with it, those that make the difference.
Ensure(a, n, save) ==
    LET old == IF save THEN n .. a.elnum - 1 ELSE First(a.elnum)
        new == IF save THEN a.elnum .. n - 1 ELSE First(n)
        gone == FiniSlots(a, old)
    IN  IF save /\ n = a.elnum THEN a
        ELSE IF n > 0 THEN InitSlots(GrowData(gone, n), new) ELSE FreeData(gone)

\* array_ensure_len
EnsureLen(a, n, save) == [Ensure(a, n, save) EXCEPT !.elnum = n]

\* array_incr and array_decr_fast (of an array that is not empty).
Incr(a) == EnsureLen(a, a.elnum + 1, TRUE)
DecrFast(a) == [FiniSlots(a, {a.elnum - 1}) EXCEPT !.elnum = a.elnum - 1]

\* array_init and array_reset_no_fini: a new block, of which the slots from
\* `bad` on stay raw because the initialiser failed.
Fresh(n, bad) ==
    LET sz == SetDatasz(0, Elsz * n)
        a == [elnum |-> n, datasz |-> sz, data |-> Realloc(Null, sz), set |-> TRUE]
    IN  IF n = 0 THEN [a EXCEPT !.datasz = 0, !.data = Null] ELSE InitSlots(a, First(bad))

\* array_fini leaves datasz as it is.
FiniArray(a) ==
    [FiniSlots(a, First(a.elnum)) EXCEPT !.data = Null, !.elnum = 0, !.set = FALSE]
-----------------------------------------------------------------------------
(***************************************************************************)
(* suspect: array_get_safe counts elements without initialising them and   *)
(* initialises others without counting them; array_ensure_datasz does the  *)
(* latter; array_init returns 0 when the initialiser fails, and            *)
(* array_clear gives up at the first finaliser that fails.                 *)
(***************************************************************************)
Become(a, doubt) ==
    /\ ar' = a
    /\ suspect' = IF a.data = Null THEN {} ELSE suspect \cup doubt

\* array_init, array_new, array_init_from: n elements, of which the initialiser
\* refuses the one with the number bad, if there is one.
ArrayInit(n, bad) ==
    /\ ~ar.set
    /\ bad =< n
    /\ ar' = Fresh(n, bad)
    /\ suspect' = bad .. n - 1

ArrayFini == ar.set /\ Become(FiniArray(ar), {})

\* array_reset_no_fini: the elements are dropped, as its name says.
ArrayResetNoFini(n) == ar.set /\ ar' = Fresh(n, n) /\ suspect' = {}

ArrayEnsureLen(n, save) == ar.set /\ Become(EnsureLen(ar, n, save), {})

\* The client is to initialise what array_ensure_len_dirty adds, and to finalise
\* what it takes away: here it does neither.
ArrayEnsureLenDirty(n, save) ==
    /\ ar.set
    /\ Become([EnsureDirty(ar, n, save) EXCEPT !.elnum = n], n .. ar.elnum - 1 \cup ar.elnum .. n - 1)

\* As in profile.c and vbytestream.c, room for the elements there are or more.
ArrayEnsureDatasz(n, save) ==
    /\ ar.set
    /\ n >= ar.elnum
    /\ Become(Ensure(ar, n, save), ar.elnum .. n - 1)

\* array_clear, in which the finaliser of the element bad returns an error.
ArrayClear(bad) ==
    /\ ar.set
    /\ bad =< ar.elnum
    /\ IF bad = ar.elnum
       THEN Become([FiniSlots(ar, First(ar.elnum)) EXCEPT !.elnum = 0], {})
       ELSE Become(FiniSlots(ar, 0 .. bad), 0 .. bad)

\* array_clear_item, then array_init_item.
ArrayRenewItem(i) ==
    /\ i < ar.elnum
    /\ Become(InitSlots(FiniSlots(ar, {i}), {i}), {})

\* array_get_safe: twice the room that is asked for, if there is not enough.
ArrayGetSafe(i) ==
    /\ ar.set
    /\ i >= ar.elnum
    /\ IF Elsz * (i + 1) > ar.datasz
       THEN Become([Ensure(ar, 2 * (i + 1), TRUE) EXCEPT !.elnum = i + 1],
                   i + 1 .. 2 * (i + 1) - 1)
       ELSE Become([ar EXCEPT !.elnum = i + 1], ar.elnum .. i)

ArrayIncr == ar.set /\ Become(Incr(ar), {})
ArrayDecrFast == ar.elnum > 0 /\ Become(DecrFast(ar), {})
ArrayDecr == ar.elnum > 0 /\ Become(EnsureLen(ar, ar.elnum - 1, TRUE), {})

Empty == [elnum |-> 0, datasz |-> 0, data |-> Null, set |-> FALSE]

ArrayStart == ar = Empty /\ suspect = {}

\* The operations for arrays of up to max elements.
ArrayNext(max) ==
    \/ \E n \in 0 .. max :
           \/ \E bad \in 0 .. max : ArrayInit(n, bad)
           \/ \E save \in BOOLEAN :
                  \/ ArrayEnsureLen(n, save)
                  \/ ArrayEnsureLenDirty(n, save)
                  \/ ArrayEnsureDatasz(n, save)
           \/ ArrayClear(n)
           \/ ArrayResetNoFini(n)
    \/ \E i \in First(max) : ArrayRenewItem(i) \/ ArrayGetSafe(i)
    \/ ar.elnum < max /\ ArrayIncr
    \/ ArrayDecrFast \/ ArrayDecr \/ ArrayFini

ArraySpec(max) == ArrayStart /\ [][ArrayNext(max)]_avars
-----------------------------------------------------------------------------
\* The block has room for the elements that are counted, through whatever
\* sequence of the two growth policies, clearing and freeing; the size that is
\* remembered is the size of the block.
RoomForAll ==
    /\ First(ar.elnum) \subseteq DOMAIN ar.data
    /\ ar.set => DOMAIN ar.data = First(ar.datasz \div Elsz)

\* Initialiser and finaliser are called in turn for each element: those that are
\* counted have been initialised and not finalised since, all others are not in
\* use, but for the slots an operation has left in doubt.
CalledInTurn == \A i \in DOMAIN ar.data \ suspect : Live(ar.data[i]) <=> i < ar.elnum
=============================================================================
