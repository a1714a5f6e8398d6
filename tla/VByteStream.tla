----------------------------- MODULE VByteStream -----------------------------
(***************************************************************************)
(* The vectored byte stream of vbytestream.c: an array of iovecs, each of  *)
(* which points at a string of its own, filled at eod by printing, reading *)
(* and adopting strings, and written from pos.  As in ByteStream a byte is *)
(* the number under which the client put it.                               *)
(***************************************************************************)
EXTENDS Integers, SequencesExt

CONSTANTS
    GrowSz,      \* stream->growsz; no string of the client is longer
    IovMax,      \* IOV_MAX
    MaxBytes,    \* bounds the bytes put, and those written
    MaxDoubts    \* bounds the ways in which a client misuses one stream

VARIABLES
    iov,         \* the array: index |-> whether it points at a string, iov_len, the string
    veod,        \* stream->eod
    vpos,        \* stream->pos
    st,          \* "ok", or "dead" after a failed assertion
    vput,        \* history: how many bytes were put so far
    wrote,       \* history: the bytes that writev(2) took
    doubt        \* history: what the client did that the stream is not up to

vsvars == <<iov, veod, vpos, st, vput, wrote, doubt>>

Junk == -1                                   \* a byte nobody put

NoIov == [base |-> FALSE, len |-> 0, str |-> <<>>]                  \* iovec_init
IovOf(str) == [base |-> TRUE, len |-> Len(str), str |-> str]
Alloc(sz) == IovOf([i \in 1..sz |-> Junk])                          \* iovec_alloc
NextBytes(n) == [i \in 1..n |-> vput + i - 1]

Origin == [idx |-> 0, offt |-> 0, total |-> 0]
Partial == IF veod.offt > 0 THEN 1 ELSE 0
FirstFree == veod.idx + Partial

\* array_ensure_len with ARRAY_FLAG_SAVE, up or down.
Resized(v, n) == [i \in 0..n - 1 |-> IF i \in DOMAIN v THEN v[i] ELSE NoIov]

\* vbytestream_iovec_get_safe
GetSafe(v, i) == IF i \in DOMAIN v THEN v ELSE Resized(v, i + 1)

\* The bytes that writev(2) finds in n iovecs from the first-th on.
Gathered(v, first, n) ==
    FlattenSeq([k \in 1..n |-> SubSeq(v[first + k - 1].str, 1, v[first + k - 1].len)])

\* The iovecs with the edge cut at eod, and what they hold from the one of pos on.
Cut == IF Partial = 1 THEN [iov EXCEPT ![veod.idx].len = veod.offt] ELSE iov
Offered == Gathered(Cut, vpos.idx, FirstFree - vpos.idx)

\* What is between pos and eod, by their offsets.
Pending == SubSeq(Offered, vpos.offt + 1, Len(Offered))

Doubt(why) == Cardinality(doubt \cup why) <= MaxDoubts /\ doubt' = doubt \cup why

\* A failed assertion.
Die == st' = "dead" /\ UNCHANGED <<iov, veod, vpos, vput, wrote, doubt>>

-----------------------------------------------------------------------------
\* The next n bytes behind the first `at` of a string.
Printed(str, at, n) ==
    [i \in DOMAIN str |-> IF i \in at + 1..at + n THEN vput + i - at - 1 ELSE str[i]]

\* n bytes of text are printed at e, into the iovecs v; the -1 of a vsnprintf
\* that fails is added to eod all the same.
PutText(v, e, n) ==
    /\ iov' = [v EXCEPT ![e.idx].str = Printed(@, e.offt, n)]
    /\ veod' = [e EXCEPT !.offt = @ + n, !.total = @ + n]
    /\ vput' = IF n > 0 THEN vput + n ELSE vput
    /\ Doubt({w \in {"format"} : n < 0} \cup {w \in {"empty"} : n = 0 /\ e.offt = 0})

\* vbytestream_nprintf into an iovec that points nowhere yet: if the text does not
\* fit, the iovec is as before.
PutFresh(v, e, sz, n) ==
    IF n < sz THEN PutText([v EXCEPT ![e.idx] = Alloc(sz)], e, n)
    ELSE iov' = v /\ veod' = e /\ UNCHANGED <<vput, doubt>>

\* Mutant: the edge that is left behind is not cut at eod.
PutBehindUncut(v, sz, n) ==
    LET next == [veod EXCEPT !.idx = @ + 1, !.offt = 0]
    IN  PutFresh(GetSafe(v, next.idx), next, sz, n)

\* vbytestream_nprintf of a text that does not fit behind what is there already:
\* the edge is closed, and the next one begun.
PutBehind(v, sz, n) ==
    LET next == [veod EXCEPT !.idx = @ + 1, !.offt = 0]
    IN  PutFresh(GetSafe([v EXCEPT ![veod.idx].len = veod.offt], next.idx), next, sz, n)

\* vbytestream_nprintf of a text of n bytes, with room for sz.
Nprintf(sz, n) ==
    LET v == GetSafe(iov, veod.idx)
        edge == v[veod.idx]
        fits == n < edge.len - veod.offt
        occupied == veod.idx + 1 \in DOMAIN iov /\ iov[veod.idx + 1].base
    IN  /\ st = "ok"
        /\ vput + n <= MaxBytes
        /\ IF edge.base # (veod.offt > 0) \/ (edge.base /\ ~fits /\ occupied)
           THEN Die
           ELSE /\ IF ~edge.base THEN PutFresh(v, veod, sz, n)
                   ELSE IF fits THEN PutText(v, veod, n)
                   ELSE PutBehind(v, sz, n)
                /\ UNCHANGED <<vpos, st, wrote>>

\* vbytestream_adopt of a string of n bytes: it goes to the iovec behind a partial
\* edge, but eod gets no further than that iovec.
Adopt(n) ==
    LET v == Resized(iov, FirstFree + 1)
    IN  /\ st = "ok"
        /\ vput + n <= MaxBytes
        /\ IF v[FirstFree].base THEN Die
           ELSE /\ iov' = [v EXCEPT ![FirstFree] = IovOf(NextBytes(n))]
                /\ veod' = [idx |-> veod.idx + 1, offt |-> 0, total |-> veod.total + n]
                /\ vput' = vput + n
                /\ Doubt({w \in {"behind"} : Partial = 1})
                /\ UNCHANGED <<vpos, st, wrote>>

\* vbytestream_read: readv(2) is asked to fill the iovecs behind the edge, none of
\* which gets a string, since the loop that would give them theirs begins at the
\* end of the array; only those which a rewind left behind have one.  (Their strings
\* have to be of growsz bytes, or the offsets fall behind their ends.)
Read(sz, nread) ==
    LET needed == (sz + GrowSz - 1) \div GrowSz
        v == Resized(iov, FirstFree + needed)
        room(i) == Len(Gathered(v, FirstFree, i - FirstFree))
        filled(i) == [j \in DOMAIN v[i].str |->
                        IF j <= v[i].len /\ room(i) + j <= nread THEN vput + room(i) + j - 1
                        ELSE v[i].str[j]]
        idx == veod.idx + (nread \div GrowSz)
        rem == nread % GrowSz
    IN  /\ st = "ok"
        /\ needed \in 1..IovMax - 1
        /\ \A i \in FirstFree..FirstFree + needed - 1 : v[i].base => Len(v[i].str) = GrowSz
        /\ nread <= room(FirstFree + needed)
        /\ vput + nread <= MaxBytes
        /\ IF nread <= 0 THEN iov' = v /\ UNCHANGED <<veod, vput, doubt>>
           ELSE /\ iov' = [i \in DOMAIN v |->
                     [v[i] EXCEPT !.str = IF i >= FirstFree THEN filled(i) ELSE @,
                                  !.len = IF i = idx /\ rem > 0 THEN rem ELSE @]]
                /\ veod' = [idx |-> idx, offt |-> rem, total |-> veod.total + nread]
                /\ vput' = vput + nread
                /\ Doubt({"read"})
        /\ UNCHANGED <<vpos, st, wrote>>

\* vbytestream_write of which the system takes nwritten bytes: the edge is cut for
\* the call, and open again behind it; pos goes to eod however much was taken, and
\* the next call begins at the start of its iovec.
Write(nwritten) ==
    /\ st = "ok"
    /\ FirstFree - vpos.idx \in 1..IovMax - 1
    /\ vpos.total < MaxBytes
    /\ nwritten <= Len(Offered)
    /\ iov' = IF Partial = 1 THEN [iov EXCEPT ![veod.idx].len = Len(iov[veod.idx].str)]
              ELSE iov
    /\ IF nwritten < 0 THEN UNCHANGED <<vpos, wrote, doubt>>
       ELSE /\ vpos' = [idx |-> veod.idx, offt |-> veod.offt,
                        total |-> vpos.total + nwritten]
            /\ wrote' = wrote \o SubSeq(Offered, 1, nwritten)
            /\ Doubt({w \in {"short"} : nwritten < Len(Offered)}
                     \cup {w \in {"again"} : vpos.offt > 0})
    /\ UNCHANGED <<veod, st, vput>>

\* vbytestream_rewind: the strings stay, in full length.
Rewind ==
    /\ st = "ok"
    /\ iov' = [i \in DOMAIN iov |-> [iov[i] EXCEPT !.len = Len(iov[i].str)]]
    /\ veod' = Origin /\ vpos' = Origin
    /\ vput' = 0 /\ wrote' = <<>>
    /\ Doubt({"rewind"})
    /\ UNCHANGED st

\* vbytestream_init
VStart ==
    /\ iov = [i \in {} |-> NoIov]
    /\ veod = Origin /\ vpos = Origin
    /\ st = "ok" /\ vput = 0 /\ wrote = <<>> /\ doubt = {}

\* vbytestream_fini, and the beginning again.
VRestart ==
    /\ iov' = [i \in {} |-> NoIov]
    /\ veod' = Origin /\ vpos' = Origin
    /\ st' = "ok" /\ vput' = 0 /\ wrote' = <<>> /\ doubt' = {}

VNext ==
    \/ \E sz \in 1..GrowSz : \E n \in -1..sz : Nprintf(sz, n)
    \/ \E n \in 1..GrowSz : Adopt(n)
    \/ \E sz \in 1..2 * GrowSz : \E nread \in -1..MaxBytes : Read(sz, nread)
    \/ \E nwritten \in -1..2 * MaxBytes : Write(nwritten)
    \/ Rewind \/ VRestart

VSpec == VStart /\ [][VNext]_vsvars

-----------------------------------------------------------------------------
(* Properties *)

\* No assertion of vbytestream.c fails under a client that never rewinds, adopts a
\* string behind a partial edge, prints an empty text to a fresh iovec, or prints
\* with a vsnprintf that fails.
AssertionsHold == st = "dead" => doubt \cap {"rewind", "behind", "empty", "format"} # {}

\* As long as nothing is adopted behind a partial edge or read, no vsnprintf fails
\* and no write is short or follows one that left a partial edge, the bytes written
\* and those between pos and eod are all that were put since the beginning or the
\* last rewind, in order, across the iovecs that were closed early, begun in vain
\* or written with room left; and the totals of pos and eod count them.
NothingMissing ==
    doubt \subseteq {"empty", "rewind"} =>
        /\ wrote \o Pending = [i \in 1..vput |-> i - 1]
        /\ vpos.total = Len(wrote) /\ veod.total = vput

\* What the client of a vectored stream relies on.
VectorKept == AssertionsHold /\ NothingMissing
=============================================================================
