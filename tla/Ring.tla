-------------------------------- MODULE Ring --------------------------------
(***************************************************************************)
(* The ring of ring.c: an array of at least one element that is walked     *)
(* around from a cursor, which the client may advance at any time.  It has *)
(* one iterator.                                                           *)
(***************************************************************************)
EXTENDS Integers, SequencesExt

CONSTANT MaxRing    \* bounds the number of elements

VARIABLES
    num,         \* ARRAY_ELNUM(&ring->a)
    cursor,      \* ring->cursor.iter
    it,          \* it->iter
    walk,        \* "none" before the first walk; "next" after mnring_first and
                 \* mnring_next_stop alone, "prev" after mnring_last and
                 \* mnring_prev_stop; "over" when they returned NULL; else "free"
    seen         \* history: the elements of the walk, in order

rvars == <<num, cursor, it, walk, seen>>

\* The % of C, which takes its sign from a.
Rem(a, b) == IF a >= 0 THEN a % b ELSE -((-a) % b)

\* Mutant: the remainder is taken as it is.
RoundTruncated(i) == Rem(i, num)

\* ((i % mod) + mod) % mod
Round(i) == Rem(Rem(i, num) + num, num)

\* Which way a walk with steps of dir goes.
Way(dir) == IF dir = 1 THEN "next" ELSE "prev"

\* mnring_init
Init ==
    /\ num \in 1..MaxRing
    /\ cursor = 0 /\ it = 0 /\ walk = "none" /\ seen = <<>>

\* mnring_advance
Advance(incr) ==
    /\ cursor' = Rem(cursor + Round(incr), num)
    /\ walk' = IF walk = "none" THEN walk ELSE "free"
    /\ seen' = <<>>
    /\ UNCHANGED <<num, it>>

\* mnring_first (dir = 1) and mnring_last (dir = -1)
Begin(dir) ==
    /\ it' = IF dir = 1 THEN cursor ELSE Round(cursor - 1)
    /\ walk' = Way(dir) /\ seen' = <<it'>>
    /\ UNCHANGED <<num, cursor>>

\* mnring_next and mnring_prev
Step(dir) ==
    /\ walk # "none"
    /\ it' = Round(it + dir)
    /\ walk' = "free" /\ seen' = <<>>
    /\ UNCHANGED <<num, cursor>>

\* Mutant: both walks end at the cursor.
EndOfWalkAtCursor(dir) == cursor

\* The element in front of which a walk ends.
EndOfWalk(dir) == IF dir = 1 THEN cursor ELSE Round(cursor - 1)

\* mnring_next_stop and mnring_prev_stop: NULL at the end, with the iterator left
\* on the last element.
StepStop(dir) ==
    LET i == Round(it + dir)
    IN  /\ walk # "none"
        /\ IF i = EndOfWalk(dir)
           THEN walk' = (IF walk = Way(dir) THEN "over" ELSE walk) /\ UNCHANGED <<it, seen>>
           ELSE /\ it' = i
                /\ IF walk = Way(dir) THEN seen' = Append(seen, i) /\ UNCHANGED walk
                   ELSE seen' = <<>> /\ walk' = "free"
        /\ UNCHANGED <<num, cursor>>

Next ==
    \/ \E dir \in {1, -1} : Begin(dir) \/ Step(dir) \/ StepStop(dir)
    \/ \E incr \in -2 * MaxRing..2 * MaxRing : Advance(incr)

\* The iterator is always on an element, through any advance of the cursor by any
\* number, and a walk with mnring_next_stop or mnring_prev_stop alone visits each
\* element once, up to the last.
WalksRound ==
    /\ cursor \in 0..num - 1 /\ it \in 0..num - 1
    /\ IsInjective(seen)
    /\ walk = "over" /\ seen # <<>> => Range(seen) = 0..num - 1
=============================================================================
