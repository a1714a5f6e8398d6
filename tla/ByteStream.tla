----------------------------- MODULE ByteStream -----------------------------
(***************************************************************************)
(* The byte stream of bytestream.c: a buffer that grows by realloc, filled *)
(* at eod and consumed at pos, whose consumed front bytestream_recycle     *)
(* moves out.  The bytes in it stand for the order they were put in: the   *)
(* buffer holds their numbers.                                             *)
(***************************************************************************)
EXTENDS Integers, Sequences

CONSTANTS
    GrowSz,      \* stream->growsz
    PageSz,      \* getpagesize()
    Chunk,       \* bounds the size of one request
    MaxBytes     \* bounds the bytes put over a run

ASSUME ByteStreamAssumption ==
    /\ GrowSz \in Nat \ {0}
    /\ PageSz \in Nat \ {0}
    /\ Chunk \in Nat \ {0}
    /\ MaxBytes \in Nat

VARIABLES
    data,        \* the bytes of stream->buf.data below eod
    sz,          \* stream->buf.sz
    eod,         \* stream->eod
    pos,         \* stream->pos
    put,         \* history: how many bytes were put so far
    fault        \* history: "none", or the failed call that spoiled an offset

vars == <<data, sz, eod, pos, put, fault>>

Larger(a, b) == IF a >= b THEN a ELSE b      \* MAX

\* Mutant: the room needed is counted from pos.
GrownFromPos(n) ==
    LET need == (pos + n) - sz
    IN  IF need > 0 THEN sz + Larger(need, GrowSz) ELSE sz

\* bytestream_ensure_buf, and the same lines in each operation that puts
\* bytes: room for n more, at least growsz at a time.
Grown(n) ==
    LET need == (eod + n) - sz
    IN  IF need > 0 THEN sz + Larger(need, GrowSz) ELSE sz

\* SCATI: room for n more, growsz by growsz.
GrownByLoop(n) ==
    LET need == (eod + n) - sz
    IN  IF need > 0 THEN sz + ((need + GrowSz - 1) \div GrowSz) * GrowSz ELSE sz

Ok == fault = "none"

\* The next n bytes end up at eod.
Put(n) ==
    /\ put + n <= MaxBytes
    /\ data' = [i \in 0..eod + n - 1 |-> IF i < eod THEN data[i] ELSE put + i - eod]
    /\ eod' = eod + n
    /\ put' = put + n

-----------------------------------------------------------------------------
\* bytestream_ensure_buf and, with growsz, bytestream_grow.
EnsureBuf(n) ==
    /\ Ok
    /\ sz + n <= MaxBytes + GrowSz
    /\ sz' = Grown(n)
    /\ UNCHANGED <<data, eod, pos, put, fault>>

\* bytestream_cat
Cat(n) == Ok /\ sz' = Grown(n) /\ Put(n) /\ UNCHANGED <<pos, fault>>

\* SCATC and the SCATI family.
Scat(n) ==
    /\ Ok
    /\ sz' = IF n = 1 THEN (IF eod >= sz THEN sz + GrowSz ELSE sz) ELSE GrownByLoop(n)
    /\ Put(n)
    /\ UNCHANGED <<pos, fault>>

\* bytestream_nprintf and bytestream_vnprintf with room for n characters: the
\* text takes `used` of them; if it does not fit it is not put; if vsnprintf
\* fails, its -1 is added to eod all the same.
Nprintf(n, used) ==
    /\ Ok
    /\ sz + n <= MaxBytes + GrowSz
    /\ sz' = Grown(n)
    /\ \/ used >= n /\ UNCHANGED <<data, eod, put, fault>>
       \/ used \in 0..n - 1 /\ Put(used) /\ UNCHANGED fault
       \/ /\ used < 0
          /\ eod' = eod - 1 /\ data' = [i \in 0..eod - 2 |-> data[i]]
          /\ fault' = "format"
          /\ UNCHANGED put
    /\ UNCHANGED pos

\* bytestream_read_more and bytestream_recv_more, which differ in the system
\* call only: it is asked for n bytes and gives nread, or -1.
ReadMore(n, nread) ==
    /\ sz' = Grown(n)
    /\ IF nread >= 0 THEN Put(nread) ELSE UNCHANGED <<data, eod, put>>
    /\ UNCHANGED <<pos, fault>>

\* bytestream_consume_data
Wanted == IF (pos + GrowSz) - eod <= 0 THEN GrowSz ELSE (pos + GrowSz) - eod
ConsumeData(nread) == Ok /\ ReadMore(Wanted, nread)

\* bytestream_write and bytestream_stderr_write: n bytes are offered, of which
\* the system takes nwritten, or fails.
Write(n, nwritten) ==
    /\ Ok
    /\ pos + n <= eod
    /\ pos' = IF nwritten >= 0 THEN pos + nwritten ELSE pos
    /\ UNCHANGED <<data, sz, eod, put, fault>>

\* bytestream_send adds the result of send(2) to pos without looking at it.
Send(n, nwritten) ==
    /\ Ok
    /\ pos + n <= eod
    /\ pos' = pos + nwritten
    /\ fault' = IF nwritten < 0 THEN "send" ELSE fault
    /\ UNCHANGED <<data, sz, eod, put>>

\* bytestream_produce_data through either of them.
ProduceData(nwritten) == Write(eod - pos, nwritten) \/ Send(eod - pos, nwritten)

\* SADVANCEPOS, within SAVAIL as the README asks.
AdvancePos(n) ==
    /\ Ok
    /\ n <= eod - pos
    /\ pos' = pos + n
    /\ UNCHANGED <<data, sz, eod, put, fault>>

\* bytestream_rewind and bytestream_zero
Rewind ==
    /\ Ok
    /\ pos' = 0 /\ eod' = 0 /\ data' = <<>>
    /\ UNCHANGED <<sz, put, fault>>

\* Mutant: pos is left where it was.
RecycleKeepsPos(ngrowsz, upto) ==
    LET from == upto - (upto % PageSz)
    IN  /\ Ok
        /\ IF from > GrowSz * ngrowsz
           THEN /\ data' = [i \in 0..eod - from - 1 |-> data[i + from]]
                /\ eod' = eod - from
                /\ UNCHANGED pos
           ELSE UNCHANGED <<data, eod, pos>>
        /\ UNCHANGED <<sz, put, fault>>

\* bytestream_recycle: the whole pages in front of `upto` move out, once they
\* are more than ngrowsz increments.
Recycle(ngrowsz, upto) ==
    LET from == upto - (upto % PageSz)
    IN  /\ Ok
        /\ IF from > GrowSz * ngrowsz
           THEN /\ data' = [i \in 0..eod - from - 1 |-> data[i + from]]
                /\ eod' = eod - from
                /\ pos' = pos - from
           ELSE UNCHANGED <<data, eod, pos>>
        /\ UNCHANGED <<sz, put, fault>>

\* bytestream_fini and bytestream_init again (n = 0), or bytestream_init_data
\* with n bytes that the client brings along.
Reinit(n) ==
    /\ Ok
    /\ put + n <= MaxBytes
    /\ data' = [i \in 0..n - 1 |-> put + i]
    /\ sz' = IF n = 0 THEN GrowSz ELSE n
    /\ eod' = n /\ pos' = 0 /\ put' = put + n
    /\ UNCHANGED fault

Init ==
    /\ data = <<>> /\ sz = GrowSz
    /\ eod = 0 /\ pos = 0 /\ put = 0
    /\ fault = "none"

Next ==
    \/ \E n \in 1..Chunk : EnsureBuf(n) \/ Cat(n) \/ Scat(n)
    \/ \E n \in 1..Chunk : \E used \in -1..n : Nprintf(n, used)
    \/ \E n \in 1..Chunk : \E nread \in -1..n : Ok /\ ReadMore(n, nread)
    \/ \E nread \in -1..Wanted : ConsumeData(nread)
    \/ \E n \in 1..Chunk : \E nwritten \in -1..n : Write(n, nwritten) \/ Send(n, nwritten)
    \/ \E nwritten \in -1..eod - pos : ProduceData(nwritten)
    \/ \E n \in 1..Chunk : AdvancePos(n)
    \/ Rewind
    \/ \E ngrowsz \in 0..2, upto \in 0..pos : Recycle(ngrowsz, upto)
    \/ \E n \in 0..Chunk : Reinit(n)

Spec == Init /\ [][Next]_vars

-----------------------------------------------------------------------------
(* Properties *)

\* The offsets are numbers and the buffer holds numbered bytes.
TypeOK ==
    /\ sz \in Nat /\ put \in Nat
    /\ eod \in Int /\ pos \in Int
    /\ DOMAIN data = 0..eod - 1
    /\ fault \in {"none", "send", "format"}

\* As long as no failed send or vsnprintf was added to an offset, pos and eod
\* stay within the buffer and in order, through every growth and recycling.
Bounds == fault = "none" => 0 <= pos /\ pos <= eod /\ eod <= sz

\* The bytes in the buffer are the last ones that were put, without a gap, a
\* repetition or a stranger.
InOrder == fault = "none" => \A i \in 0..eod - 1 : data[i] = put - eod + i

\* What lies between pos and eod is the queue of module Fifo; a client whose
\* stream has been spoiled has to give it up.
Q == INSTANCE Fifo WITH
        q <- IF fault = "none" THEN [i \in 1..eod - pos |-> data[pos + i - 1]] ELSE <<>>,
        n <- put
ImplementsFifo == Q!FSpec
=============================================================================
