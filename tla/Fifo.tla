-------------------------------- MODULE Fifo --------------------------------
(***************************************************************************)
(* What a bytestream promises its two ends: a queue of bytes.  Bytes have  *)
(* no other value here than their number: the n-th byte ever put is n.     *)
(***************************************************************************)
EXTENDS Naturals, Sequences

VARIABLES
    q,          \* the bytes put and not yet taken
    n           \* the number of bytes put so far

FInit == n \in Nat /\ q = [i \in 1..n |-> i - 1]

FPut(k) ==
    /\ q' = q \o [i \in 1..k |-> n + i - 1]
    /\ n' = n + k

FTake(k) == k <= Len(q) /\ q' = SubSeq(q, k + 1, Len(q)) /\ UNCHANGED n

\* The client discards what the stream holds.
FDrop == q' = <<>> /\ UNCHANGED n

\* The client starts over with k bytes of its own.
FRestart(k) == q' = [i \in 1..k |-> n + i - 1] /\ n' = n + k

FNext ==
    \/ \E k \in 1..n' - n : FPut(k) \/ FRestart(k)
    \/ \E k \in 1..Len(q) : FTake(k)
    \/ FDrop

FSpec == FInit /\ [][FNext]_<<q, n>>
=============================================================================
