-------------------------- MODULE ByteStreamProofs --------------------------
(***************************************************************************)
(* Proofs of the invariants of ByteStream for every growsz, page size and  *)
(* length of run; and of what VByteStream promises, by induction over the  *)
(* iovecs that writev(2) is given.                                         *)
(***************************************************************************)
EXTENDS MCStreams, SequenceTheorems, WellFoundedInduction, TLAPS

IInv == TypeOK /\ Bounds /\ InOrder

\* Division by a positive d, as C and TLA+ have it for what is not negative.
LEMMA Division ==
    ASSUME NEW a \in Nat, NEW d \in Nat \ {0}
    PROVE  /\ a \div d \in Nat /\ a % d \in 0..d - 1
           /\ a = d * (a \div d) + (a % d)
           /\ a % d <= a
  <1>1. a \div d \in Int /\ a % d \in 0..d - 1 /\ a = d * (a \div d) + (a % d)
    OBVIOUS
  <1>2. a \div d >= 0
    OBVIOUS
  <1>3. d * (a \div d) >= 0
    BY <1>1, <1>2
  <1> QED
    BY <1>1, <1>2, <1>3

\* Growing makes room for n more bytes.
LEMMA GrownFits ==
    ASSUME sz \in Nat, eod \in Nat, NEW n \in Nat
    PROVE  Grown(n) \in Nat /\ Grown(n) >= sz /\ Grown(n) >= eod + n
  BY ByteStreamAssumption DEF Grown, Larger

\* So does growing growsz by growsz.
LEMMA GrownByLoopFits ==
    ASSUME sz \in Nat, eod \in Nat, NEW n \in Nat
    PROVE  GrownByLoop(n) \in Nat /\ GrownByLoop(n) >= sz /\ GrownByLoop(n) >= eod + n
  <1> DEFINE need == (eod + n) - sz
             steps == (need + GrowSz - 1) \div GrowSz
  <1>1. CASE need > 0
    <2>1. need + GrowSz - 1 \in Nat /\ GrowSz \in Nat \ {0}
      BY <1>1, ByteStreamAssumption
    <2>2. /\ steps \in Nat /\ (need + GrowSz - 1) % GrowSz \in 0..GrowSz - 1
          /\ need + GrowSz - 1 = GrowSz * steps + ((need + GrowSz - 1) % GrowSz)
      BY <2>1, Division
    <2>3. GrowSz * steps >= need /\ GrowSz * steps \in Nat /\ steps * GrowSz = GrowSz * steps
      BY <2>1, <2>2
    <2>4. GrownByLoop(n) = sz + steps * GrowSz
      BY <1>1 DEF GrownByLoop
    <2> QED  BY <2>3, <2>4
  <1>2. CASE ~(need > 0)
    BY <1>2 DEF GrownByLoop
  <1> QED
    BY <1>1, <1>2

\* Putting n bytes into a buffer that has room for them keeps it in order.
LEMMA PutInv ==
    ASSUME IInv, Ok, NEW n \in Nat, Put(n),
           sz' \in Nat, sz' >= eod + n, UNCHANGED <<pos, fault>>
    PROVE  IInv'
  <1>1. /\ sz \in Nat /\ put \in Nat /\ eod \in Nat /\ pos \in Nat /\ pos <= eod
        /\ fault = "none" /\ DOMAIN data = 0..eod - 1
        /\ \A i \in 0..eod - 1 : data[i] = put - eod + i
    BY DEF IInv, TypeOK, Bounds, InOrder, Ok
  <1>2. /\ data' = [i \in 0..eod + n - 1 |-> IF i < eod THEN data[i] ELSE put + i - eod]
        /\ eod' = eod + n /\ put' = put + n /\ pos' = pos /\ fault' = fault
    BY DEF Put
  <1>3. TypeOK'
    BY <1>1, <1>2 DEF TypeOK
  <1>4. Bounds'
    BY <1>1, <1>2 DEF Bounds
  <1>5. ASSUME NEW i \in 0..eod' - 1
        PROVE  data'[i] = put' - eod' + i
    BY <1>1, <1>2
  <1> QED
    BY <1>3, <1>4, <1>5 DEF IInv, InOrder

\* What leaves the bytes alone and keeps pos and eod within the buffer.
LEMMA OffsetInv ==
    ASSUME IInv, Ok, UNCHANGED <<data, eod, put>>,
           sz' \in Nat, sz' >= eod, pos' \in Int, fault' \in {"none", "send", "format"},
           fault' = "none" => pos' \in 0..eod
    PROVE  IInv'
  BY DEF IInv, TypeOK, Bounds, InOrder, Ok

LEMMA NumbersOk ==
    ASSUME IInv, Ok
    PROVE  sz \in Nat /\ put \in Nat /\ eod \in Nat /\ pos \in 0..eod /\ eod <= sz
           /\ fault = "none"
  BY DEF IInv, TypeOK, Bounds, Ok

LEMMA ReadMoreInv ==
    ASSUME IInv, Ok, NEW n \in Nat, NEW nread \in -1..n, ReadMore(n, nread)
    PROVE  IInv'
  <1>1. sz' \in Nat /\ sz' >= eod + n
    BY NumbersOk, GrownFits DEF ReadMore
  <1>2. CASE nread >= 0
    BY <1>1, <1>2, PutInv, NumbersOk DEF ReadMore
  <1>3. CASE ~(nread >= 0)
    BY <1>1, <1>3, OffsetInv, NumbersOk DEF ReadMore
  <1> QED
    BY <1>2, <1>3

LEMMA WriteInv ==
    ASSUME IInv, NEW n \in Nat, NEW nwritten \in -1..n, Write(n, nwritten) \/ Send(n, nwritten)
    PROVE  IInv'
  <1>1. CASE Write(n, nwritten)
    BY <1>1, NumbersOk, OffsetInv DEF Write
  <1>2. CASE Send(n, nwritten)
    BY <1>2, NumbersOk, OffsetInv DEF Send
  <1> QED
    BY <1>1, <1>2

LEMMA NprintfInv ==
    ASSUME IInv, NEW n \in Nat, NEW used \in -1..n, Nprintf(n, used)
    PROVE  IInv'
  <1>1. Ok /\ sz' \in Nat /\ sz' >= eod + n /\ pos' = pos
    BY NumbersOk, GrownFits DEF Nprintf
  <1>2. CASE used >= n
    BY <1>1, <1>2, OffsetInv, NumbersOk DEF Nprintf
  <1>3. CASE used \in 0..n - 1
    <2>1. Put(used) /\ fault' = fault
      BY <1>3 DEF Nprintf
    <2> QED  BY <1>1, <1>3, <2>1, PutInv, NumbersOk
  <1>4. CASE used < 0 /\ ~(used >= n)
    <2>1. /\ eod' = eod - 1 /\ data' = [i \in 0..eod - 2 |-> data[i]]
          /\ fault' = "format" /\ put' = put
      BY <1>4 DEF Nprintf
    <2> QED  BY <1>1, <2>1, NumbersOk DEF IInv, TypeOK, Bounds, InOrder
  <1> QED
    BY <1>2, <1>3, <1>4

\* The whole pages that move out lie in front of pos.
LEMMA RecycleInv ==
    ASSUME IInv, NEW ngrowsz \in Nat, NEW upto \in 0..pos, Recycle(ngrowsz, upto)
    PROVE  IInv'
  <1> DEFINE off == upto - (upto % PageSz)
  <1>1. Ok /\ sz' = sz /\ put' = put /\ fault' = fault
    BY DEF Recycle
  <1>2. /\ sz \in Nat /\ put \in Nat /\ eod \in Nat /\ pos \in 0..eod /\ eod <= sz
        /\ fault = "none" /\ upto \in Nat
    BY <1>1, NumbersOk
  <1>3. off \in 0..pos
    <2>1. PageSz \in Nat \ {0}
      BY ByteStreamAssumption
    <2>2. upto % PageSz \in 0..PageSz - 1 /\ upto % PageSz <= upto
      BY <1>2, <2>1, Division
    <2>3. upto <= pos /\ pos \in Nat
      BY <1>2
    <2> QED  BY <1>2, <2>1, <2>2, <2>3
  <1>4. CASE off > GrowSz * ngrowsz
    <2>1. /\ data' = [i \in 0..eod - off - 1 |-> data[i + off]]
          /\ eod' = eod - off /\ pos' = pos - off
      BY <1>4 DEF Recycle
    <2> HIDE DEF off
    <2>2. TypeOK'
      BY <1>1, <1>2, <1>3, <2>1 DEF TypeOK
    <2>3. Bounds'
      BY <1>1, <1>2, <1>3, <2>1 DEF Bounds
    <2>4. InOrder'
      <3> SUFFICES ASSUME NEW i \in 0..eod' - 1
                   PROVE  data'[i] = put' - eod' + i
        BY DEF InOrder
      <3>1. i + off \in 0..eod - 1 /\ data'[i] = data[i + off]
        BY <1>2, <1>3, <2>1
      <3>2. data[i + off] = put - eod + (i + off)
        BY <1>2, <3>1 DEF IInv, InOrder
      <3> QED  BY <1>1, <1>2, <1>3, <2>1, <3>1, <3>2
    <2> QED  BY <2>2, <2>3, <2>4 DEF IInv
  <1>5. CASE ~(off > GrowSz * ngrowsz)
    BY <1>1, <1>2, <1>5, OffsetInv DEF Recycle
  <1> QED
    BY <1>4, <1>5

LEMMA ReinitInv == ASSUME IInv, NEW n \in Nat, Reinit(n) PROVE IInv'
  BY NumbersOk, ByteStreamAssumption DEF Reinit, IInv, TypeOK, Bounds, InOrder

LEMMA Inductive == IInv /\ [Next]_vars => IInv'
  <1> SUFFICES ASSUME IInv, [Next]_vars PROVE IInv'
    OBVIOUS
  <1> USE ByteStreamAssumption
  <1>1. ASSUME NEW n \in 1..Chunk, EnsureBuf(n) PROVE IInv'
    BY <1>1, NumbersOk, GrownFits, OffsetInv DEF EnsureBuf
  <1>2. ASSUME NEW n \in 1..Chunk, Cat(n) PROVE IInv'
    BY <1>2, NumbersOk, GrownFits, PutInv DEF Cat
  <1>3. ASSUME NEW n \in 1..Chunk, Scat(n) PROVE IInv'
    <2>1. sz' \in Nat /\ sz' >= eod + n
      BY <1>3, NumbersOk, GrownByLoopFits DEF Scat
    <2> QED  BY <1>3, <2>1, PutInv DEF Scat
  <1>4. ASSUME NEW n \in 1..Chunk, NEW used \in -1..n, Nprintf(n, used) PROVE IInv'
    BY <1>4, NprintfInv
  <1>5. ASSUME NEW n \in 1..Chunk, NEW nread \in -1..n, Ok, ReadMore(n, nread) PROVE IInv'
    BY <1>5, ReadMoreInv
  <1>6. ASSUME NEW nread \in -1..Wanted, ConsumeData(nread) PROVE IInv'
    <2>1. Ok /\ ReadMore(Wanted, nread)
      BY <1>6 DEF ConsumeData
    <2>2. Wanted \in Nat
      BY <2>1, NumbersOk DEF Wanted
    <2> QED  BY <2>1, <2>2, ReadMoreInv
  <1>7. ASSUME NEW n \in 1..Chunk, NEW nwritten \in -1..n,
               Write(n, nwritten) \/ Send(n, nwritten) PROVE IInv'
    BY <1>7, WriteInv
  <1>8. ASSUME NEW nwritten \in -1..eod - pos, ProduceData(nwritten) PROVE IInv'
    <2>1. Ok
      BY <1>8 DEF ProduceData, Write, Send
    <2>2. eod - pos \in Nat
      BY <2>1, NumbersOk
    <2> QED  BY <1>8, <2>2, WriteInv DEF ProduceData
  <1>9. ASSUME NEW n \in 1..Chunk, AdvancePos(n) PROVE IInv'
    BY <1>9, NumbersOk, OffsetInv DEF AdvancePos
  <1>10. CASE Rewind
    BY <1>10, NumbersOk DEF Rewind, IInv, TypeOK, Bounds, InOrder
  <1>11. ASSUME NEW ngrowsz \in 0..2, NEW upto \in 0..pos, Recycle(ngrowsz, upto) PROVE IInv'
    BY <1>11, RecycleInv
  <1>12. ASSUME NEW n \in 0..Chunk, Reinit(n) PROVE IInv'
    BY <1>12, ReinitInv
  <1>13. CASE UNCHANGED vars
    BY <1>13 DEF vars, IInv, TypeOK, Bounds, InOrder
  <1> QED
    BY <1>1, <1>2, <1>3, <1>4, <1>5, <1>6, <1>7, <1>8, <1>9, <1>10, <1>11, <1>12, <1>13
       DEF Next

LEMMA Invariance == Spec => []IInv
  <1>1. Init => IInv
    BY ByteStreamAssumption DEF Init, IInv, TypeOK, Bounds, InOrder
  <1> QED
    BY <1>1, Inductive, PTL DEF Spec

\* The offsets of bytestream.c stay numbers, and the buffer holds as many
\* bytes as eod says, through every operation.
THEOREM TypeCorrect == Spec => []TypeOK
  BY Invariance, PTL DEF IInv

\* pos <= eod <= buf.sz through every growth and recycling, until a failed
\* send or vsnprintf is added to an offset.
THEOREM WithinBounds == Spec => []Bounds
  BY Invariance, PTL DEF IInv

\* bytestream_recycle and the growths lose no byte, repeat none and keep them
\* in order.
THEOREM BytesInOrder == Spec => []InOrder
  BY Invariance, PTL DEF IInv

-----------------------------------------------------------------------------
(* The queue between pos and eod *)

\* The last k of the first m bytes, which is what the queue holds.
Run(k, m) == [i \in 1..k |-> m - k + i - 1]

LEMMA RunIsSeq ==
    ASSUME NEW k \in Nat, NEW m \in Int
    PROVE  /\ Run(k, m) \in Seq(Int) /\ Len(Run(k, m)) = k
           /\ \A i \in 1..k : Run(k, m)[i] = m - k + i - 1
  BY DEF Run

LEMMA RunPut ==
    ASSUME NEW k \in Nat, NEW m \in Nat, NEW j \in Nat
    PROVE  Run(k + j, m + j) = Run(k, m) \o [i \in 1..j |-> m + i - 1]
  <1> DEFINE s == Run(k, m)
             t == [i \in 1..j |-> m + i - 1]
  <1>1. s \in Seq(Int) /\ Len(s) = k /\ \A i \in 1..k : s[i] = m - k + i - 1
    BY RunIsSeq
  <1>2. t \in Seq(Int) /\ Len(t) = j /\ \A i \in 1..j : t[i] = m + i - 1
    OBVIOUS
  <1> DEFINE u == Run(k + j, m + j)
  <1>3. u \in Seq(Int) /\ Len(u) = k + j /\ \A i \in 1..k + j : u[i] = m - k + i - 1
    <2>1. k + j \in Nat /\ m + j \in Int
      OBVIOUS
    <2>2. \A i \in 1..k + j : u[i] = (m + j) - (k + j) + i - 1
      BY <2>1, RunIsSeq
    <2> QED  BY <2>1, <2>2, RunIsSeq
  <1> HIDE DEF s, t, u
  <1>4. /\ s \o t \in Seq(Int) /\ Len(s \o t) = k + j
        /\ \A i \in 1..k + j : (s \o t)[i] = IF i <= k THEN s[i] ELSE t[i - k]
    <2>1. s \in Seq(Int) /\ t \in Seq(Int) /\ Len(s) = k /\ Len(t) = j
      BY ONLY <1>1, <1>2
    <2>2. /\ s \o t \in Seq(Int) /\ Len(s \o t) = Len(s) + Len(t)
          /\ \A i \in 1..Len(s) + Len(t) :
               (s \o t)[i] = IF i <= Len(s) THEN s[i] ELSE t[i - Len(s)]
      BY ONLY <2>1, ConcatProperties
    <2> QED  BY ONLY <2>1, <2>2
  <1>5. \A i \in 1..k + j : (s \o t)[i] = m - k + i - 1
    BY <1>1, <1>2, <1>4
  <1>6. u = s \o t
    BY <1>3, <1>4, <1>5, SeqEqual
  <1> QED
    BY <1>6, Zenon DEF s, t, u

LEMMA RunTake ==
    ASSUME NEW k \in Nat, NEW m \in Int, NEW j \in 0..k
    PROVE  Run(k - j, m) = SubSeq(Run(k, m), j + 1, k)
  <1> DEFINE s == Run(k, m)
             t == Run(k - j, m)
  <1>1. s \in Seq(Int) /\ Len(s) = k /\ \A i \in 1..k : s[i] = m - k + i - 1
    BY RunIsSeq
  <1>2. k - j \in Nat
    OBVIOUS
  <1>3. t \in Seq(Int) /\ Len(t) = k - j /\ \A i \in 1..k - j : t[i] = m - (k - j) + i - 1
    BY <1>2, RunIsSeq
  <1> HIDE DEF s, t
  <1>4. /\ SubSeq(s, j + 1, k) \in Seq(Int) /\ Len(SubSeq(s, j + 1, k)) = k - j
        /\ \A i \in 1..k - j : SubSeq(s, j + 1, k)[i] = s[j + i]
    <2>1. \A i \in j + 1..k : s[i] \in Int
      BY <1>1
    <2>2. /\ SubSeq(s, j + 1, k) \in Seq(Int)
          /\ Len(SubSeq(s, j + 1, k)) = IF j + 1 <= k THEN k - (j + 1) + 1 ELSE 0
          /\ \A i \in 1..k - (j + 1) + 1 : SubSeq(s, j + 1, k)[i] = s[j + 1 + i - 1]
      BY <2>1, SubSeqProperties
    <2> QED  BY <2>2
  <1>5. \A i \in 1..k - j : s[j + i] = m - (k - j) + i - 1
    BY <1>1
  <1>6. t = SubSeq(s, j + 1, k)
    <2> DEFINE u == SubSeq(s, j + 1, k)
    <2>1. u \in Seq(Int) /\ Len(u) = Len(t)
      BY <1>3, <1>4
    <2>2. \A i \in 1..Len(t) : t[i] = u[i]
      BY <1>3, <1>4, <1>5
    <2> HIDE DEF u
    <2>3. t = u
      BY <1>3, <2>1, <2>2, SeqEqual
    <2> QED  BY <2>3 DEF u
  <1> QED
    BY <1>6 DEF s, t

LEMMA RunRestart ==
    ASSUME NEW m \in Int, NEW j \in Nat
    PROVE  Run(j, m + j) = [i \in 1..j |-> m + i - 1] /\ Run(0, m) = <<>>
  BY DEF Run

\* The refinement mapping, by name.
Pending == IF fault = "none" THEN [i \in 1..eod - pos |-> data[pos + i - 1]] ELSE <<>>

\* In terms of the counters alone.
LEMMA PendingIsRun ==
    ASSUME IInv, fault = "none"
    PROVE  eod - pos \in Nat /\ put \in Nat /\ Pending = Run(eod - pos, put)
  <1>1. eod \in Nat /\ pos \in 0..eod /\ put \in Nat
    BY DEF IInv, TypeOK, Bounds
  <1>2. \A i \in 1..eod - pos : data[pos + i - 1] = put - (eod - pos) + i - 1
    <2> SUFFICES ASSUME NEW i \in 1..eod - pos
                 PROVE  data[pos + i - 1] = put - (eod - pos) + i - 1
      OBVIOUS
    <2>1. pos + i - 1 \in 0..eod - 1
      BY <1>1
    <2>2. data[pos + i - 1] = put - eod + (pos + i - 1)
      BY <2>1 DEF IInv, InOrder
    <2> QED  BY <1>1, <2>2
  <1>3. [i \in 1..eod - pos |-> data[pos + i - 1]]
          = [i \in 1..eod - pos |-> put - (eod - pos) + i - 1]
    BY <1>2, Zenon
  <1> QED
    BY <1>1, <1>3 DEF Pending, Run

\* What a step may do to the numbers of bytes waiting, k of them before and l
\* after, and put, m of them before and n after.
Moves(k, l, m, n) ==
    \/ n = m /\ l \in 0..k
    \/ n > m /\ l = k + (n - m)
    \/ n > m /\ l = n - m

\* Each of these is a step of the queue, or none.
LEMMA MovesAreSteps ==
    ASSUME NEW k \in Nat, NEW l \in Nat, NEW m \in Nat, NEW n \in Nat,
           Moves(k, l, m, n), put = m, put' = n,
           Pending = Run(k, m), Pending' = Run(l, n)
    PROVE  Q!FNext \/ UNCHANGED <<Pending, put>>
  <1>1. CASE n = m /\ l \in 0..k
    <2>1. CASE l = k
      BY <1>1, <2>1
    <2>2. CASE l # k
      <3>1. PICK j \in 1..k : l = k - j
        <4>1. k - l \in 1..k /\ l = k - (k - l)
          BY <1>1, <2>2
        <4> QED  BY <4>1
      <3>2. Len(Run(k, m)) = k
        BY RunIsSeq
      <3>3. Run(l, m) = SubSeq(Run(k, m), j + 1, k)
        BY <3>1, RunTake
      <3>4. Pending' = SubSeq(Pending, j + 1, Len(Pending)) /\ j <= Len(Pending)
        BY <1>1, <3>1, <3>2, <3>3
      <3>5. Q!FTake(j)
        BY <1>1, <3>4, Zenon DEF Q!FTake, Pending
      <3>6. j \in 1..Len(Pending)
        BY <3>1, <3>2
      <3> QED  BY <3>5, <3>6, Zenon DEF Q!FNext, Pending
    <2> QED  BY <2>1, <2>2
  <1>2. CASE n > m /\ l = k + (n - m)
    <2>1. PICK j \in Nat : j = n - m
      BY <1>2
    <2>2. j \in 1..n - m /\ n = m + j /\ l = k + j
      BY <1>2, <2>1
    <2>3. Run(l, n) = Run(k, m) \o [i \in 1..j |-> m + i - 1]
      <3>1. Run(k + j, m + j) = Run(k, m) \o [i \in 1..j |-> m + i - 1]
        BY RunPut, Zenon
      <3> QED  BY <2>2, <3>1, Zenon
    <2>4. Q!FPut(j)
      BY <2>2, <2>3, Zenon DEF Q!FPut, Pending
    <2> QED  BY <2>2, <2>4, Zenon DEF Q!FNext
  <1>3. CASE n > m /\ l = n - m
    <2>1. PICK j \in Nat : j = n - m
      BY <1>3
    <2>2. j \in 1..n - m /\ n = m + j /\ l = j
      BY <1>3, <2>1
    <2>3. Run(l, n) = [i \in 1..j |-> m + i - 1]
      BY <2>2, RunRestart
    <2>4. Q!FRestart(j)
      BY <2>2, <2>3, Zenon DEF Q!FRestart, Pending
    <2> QED  BY <2>2, <2>4, Zenon DEF Q!FNext
  <1> QED
    BY <1>1, <1>2, <1>3 DEF Moves

\* A step that keeps the stream sound moves the counters like that; one that
\* spoils it leaves the queue empty.
LEMMA StepMoves ==
    ASSUME IInv, IInv', fault = "none",
           fault' = "none" => Moves(eod - pos, eod' - pos', put, put'),
           fault' # "none" => put' = put
    PROVE  Q!FNext \/ UNCHANGED <<Pending, put>>
  <1>1. CASE fault' # "none"
    <2>1. Pending' = <<>>
      BY <1>1 DEF Pending
    <2> QED  BY <1>1, <2>1 DEF Q!FNext, Q!FDrop, Pending
  <1>2. CASE fault' = "none"
    <2>1. eod - pos \in Nat /\ put \in Nat /\ Pending = Run(eod - pos, put)
      BY PendingIsRun
    <2>2. (IInv /\ fault = "none" =>
             eod - pos \in Nat /\ put \in Nat /\ Pending = Run(eod - pos, put))'
      BY PendingIsRun, PTL
    <2>3. eod' - pos' \in Nat /\ put' \in Nat /\ Pending' = Run(eod' - pos', put')
      BY <1>2, <2>2 DEF Run
    <2>4. Moves(eod - pos, eod' - pos', put, put')
      BY <1>2
    <2> QED  BY <2>1, <2>3, <2>4, MovesAreSteps
  <1> QED
    BY <1>1, <1>2

\* Put, wherever it happens, moves the counters by the same number.
LEMMA PutMoves ==
    ASSUME IInv, fault = "none", NEW n \in Nat, eod' = eod + n, put' = put + n, pos' = pos
    PROVE  Moves(eod - pos, eod' - pos', put, put')
  <1>1. eod \in Nat /\ pos \in 0..eod /\ put \in Nat
    BY DEF IInv, TypeOK, Bounds
  <1>2. Moves(eod - pos, (eod + n) - pos, put, put + n)
    BY <1>1 DEF Moves
  <1> QED
    BY <1>2

\* What leaves eod and put alone and advances pos, or moves both offsets back.
LEMMA OffsetMoves ==
    ASSUME IInv, fault = "none", put' = put,
           NEW k \in 0..eod - pos, eod' - pos' = (eod - pos) - k
    PROVE  Moves(eod - pos, eod' - pos', put, put')
  <1>1. eod \in Nat /\ pos \in 0..eod /\ put \in Nat
    BY DEF IInv, TypeOK, Bounds
  <1>2. Moves(eod - pos, (eod - pos) - k, put, put)
    BY <1>1 DEF Moves
  <1> QED
    BY <1>2

LEMMA ReadMoreMoves ==
    ASSUME IInv, Ok, NEW n \in Nat, NEW nread \in -1..n, ReadMore(n, nread)
    PROVE  fault' = "none" /\ Moves(eod - pos, eod' - pos', put, put')
  <1>1. fault' = "none" /\ pos' = pos
    BY DEF ReadMore, Ok
  <1>2. CASE nread >= 0
    <2>1. nread \in Nat /\ eod' = eod + nread /\ put' = put + nread
      BY <1>2 DEF ReadMore, Put
    <2> QED  BY <1>1, <2>1, PutMoves DEF Ok
  <1>3. CASE ~(nread >= 0)
    <2>1. eod' = eod + 0 /\ put' = put + 0
      BY <1>3, NumbersOk DEF ReadMore
    <2> QED  BY <1>1, <2>1, PutMoves DEF Ok
  <1> QED
    BY <1>2, <1>3

\* No operation of the stream does anything else to the queue.
LEMMA StepSimulates ==
    ASSUME IInv, IInv', [Next]_vars
    PROVE  Q!FNext \/ UNCHANGED <<Pending, put>>
  <1> USE ByteStreamAssumption
  <1>1. CASE UNCHANGED vars
    BY <1>1 DEF vars, Pending
  <1>2. CASE Next
    <2>1. Ok /\ fault = "none"
      BY <1>2 DEF Next, EnsureBuf, Cat, Scat, Nprintf, ConsumeData, Write, Send,
                  ProduceData, AdvancePos, Rewind, Recycle, Reinit, Ok
    <2>2. /\ sz \in Nat /\ put \in Nat /\ eod \in Nat /\ pos \in 0..eod /\ eod <= sz
      BY <2>1, NumbersOk
    <2> DEFINE Sound == fault' = "none" /\ Moves(eod - pos, eod' - pos', put, put')
               Spoiled == fault' # "none" /\ put' = put
    <2>3. ASSUME NEW n \in 1..Chunk, EnsureBuf(n) PROVE Sound
      BY <2>1, <2>2, <2>3, OffsetMoves DEF EnsureBuf
    <2>4. ASSUME NEW n \in 1..Chunk, Cat(n) \/ Scat(n) PROVE Sound
      BY <2>1, <2>4, PutMoves DEF Cat, Scat, Put
    <2>5. ASSUME NEW n \in 1..Chunk, NEW used \in -1..n, Nprintf(n, used)
          PROVE  Sound \/ Spoiled
      <3>1. CASE UNCHANGED <<data, eod, put, fault>>
        BY <2>1, <2>2, <2>5, <3>1, OffsetMoves DEF Nprintf
      <3>2. CASE used \in 0..n - 1 /\ Put(used) /\ UNCHANGED fault
        BY <2>1, <2>5, <3>2, PutMoves DEF Nprintf, Put
      <3>3. CASE fault' = "format" /\ UNCHANGED put
        BY <3>3
      <3> QED  BY <2>5, <3>1, <3>2, <3>3 DEF Nprintf
    <2>6. ASSUME NEW n \in 1..Chunk, NEW nread \in -1..n, Ok, ReadMore(n, nread) PROVE Sound
      BY <2>6, ReadMoreMoves
    <2>7. ASSUME NEW nread \in -1..Wanted, ConsumeData(nread) PROVE Sound
      <3>1. Ok /\ ReadMore(Wanted, nread)
        BY <2>7 DEF ConsumeData
      <3>2. Wanted \in Nat
        BY <2>2 DEF Wanted
      <3> QED  BY <3>1, <3>2, ReadMoreMoves
    <2>8. ASSUME NEW n \in Nat, NEW nwritten \in -1..n,
                 Write(n, nwritten) \/ Send(n, nwritten)
          PROVE  Sound \/ Spoiled
      <3>1. eod' = eod /\ put' = put /\ pos + n <= eod
        BY <2>8 DEF Write, Send
      <3>2. CASE fault' = "none" /\ nwritten >= 0 /\ pos' = pos + nwritten
        <4>1. nwritten \in 0..eod - pos /\ eod' - pos' = (eod - pos) - nwritten
          BY <2>2, <3>1, <3>2
        <4> QED  BY <2>1, <3>1, <3>2, <4>1, OffsetMoves
      <3>3. CASE fault' = "none" /\ pos' = pos
        <4>1. 0 \in 0..eod - pos /\ eod' - pos' = (eod - pos) - 0
          BY <2>2, <3>1, <3>3
        <4> QED  BY <2>1, <3>1, <3>3, <4>1, OffsetMoves
      <3>4. CASE fault' = "send"
        BY <3>1, <3>4
      <3> QED  BY <2>1, <2>8, <3>2, <3>3, <3>4 DEF Write, Send
    <2>9. ASSUME NEW nwritten \in -1..eod - pos, ProduceData(nwritten)
          PROVE  Sound \/ Spoiled
      <3>1. eod - pos \in Nat
        BY <2>2
      <3> QED  BY <2>8, <2>9, <3>1 DEF ProduceData
    <2>10. ASSUME NEW n \in 1..Chunk, AdvancePos(n) PROVE Sound
      <3>1. n \in 0..eod - pos /\ eod' - pos' = (eod - pos) - n
        BY <2>2, <2>10 DEF AdvancePos
      <3> QED  BY <2>1, <2>10, <3>1, OffsetMoves DEF AdvancePos
    <2>11. ASSUME Rewind PROVE Sound
      <3>1. eod - pos \in 0..eod - pos /\ eod' - pos' = (eod - pos) - (eod - pos)
        BY <2>2, <2>11 DEF Rewind
      <3> QED  BY <2>1, <2>11, <3>1, OffsetMoves DEF Rewind
    <2>12. ASSUME NEW ngrowsz \in 0..2, NEW upto \in 0..pos, Recycle(ngrowsz, upto) PROVE Sound
      <3>1. upto \in Nat /\ upto % PageSz \in Nat
        BY <2>2, Division
      <3>2. 0 \in 0..eod - pos /\ eod' - pos' = (eod - pos) - 0
        BY <2>2, <2>12, <3>1 DEF Recycle
      <3> QED  BY <2>1, <2>12, <3>2, OffsetMoves DEF Recycle
    <2>13. ASSUME NEW n \in 0..Chunk, Reinit(n) PROVE Sound
      <3>1. CASE n = 0
        <4>1. eod - pos \in 0..eod - pos /\ eod' - pos' = (eod - pos) - (eod - pos)
          BY <2>2, <2>13, <3>1 DEF Reinit
        <4>2. put' = put
          BY <2>2, <2>13, <3>1 DEF Reinit
        <4> QED  BY <2>1, <2>13, <4>1, <4>2, OffsetMoves DEF Reinit
      <3>2. CASE n # 0
        <4>1. Moves(eod - pos, n - 0, put, put + n)
          BY <2>2, <3>2 DEF Moves
        <4> QED  BY <2>1, <2>13, <4>1 DEF Reinit
      <3> QED  BY <3>1, <3>2
    <2>14. Sound \/ Spoiled
      <3> HIDE DEF Sound, Spoiled
      <3>1. \A n \in 1..Chunk : n \in Nat
        OBVIOUS
      <3> QED  BY <1>2, <2>3, <2>4, <2>5, <2>6, <2>7, <2>8, <2>9, <2>10, <2>11, <2>12, <2>13,
                  <3>1 DEF Next
    <2> QED  BY <2>1, <2>14, StepMoves
  <1> QED
    BY <1>1, <1>2

\* Between any two ends a bytestream is a queue of bytes: what a client takes
\* at pos is what was put at eod, in order, until it drops or loses the stream.
THEOREM IsAFifo == Spec => ImplementsFifo
  <1>1. Init => Q!FInit
    <2> SUFFICES ASSUME Init PROVE Q!FInit
      OBVIOUS
    <2>1. Pending = [i \in 1..put |-> i - 1]
      BY DEF Init, Pending
    <2> QED  BY <2>1 DEF Init, Q!FInit, Pending
  <1>2. IInv /\ IInv' /\ [Next]_vars => [Q!FNext]_<<Pending, put>>
    BY StepSimulates
  <1>3. IInv /\ IInv' /\ [Next]_vars =>
          [Q!FNext]_<<IF fault = "none" THEN [i \in 1..eod - pos |-> data[pos + i - 1]]
                      ELSE <<>>, put>>
    BY <1>2 DEF Pending
  <1> QED
    BY <1>1, <1>3, Invariance, PTL DEF Spec, ImplementsFifo, Q!FSpec

-----------------------------------------------------------------------------
(* What iovecs hold *)

LEMMA Induction ==
    ASSUME NEW T \in SUBSET Nat, 0 \in T, \A n \in T : n + 1 \in T
    PROVE  T = Nat
  <1> DEFINE R == {ss \in Nat \X Nat : ss[1] < ss[2]}
  <1>1. IsWellFoundedOn(R, Nat)
    BY NatLessThanWellFounded DEF OpToRel
  <1>2. \A x, y \in Nat : y < x => <<y, x>> \in R
    OBVIOUS
  <1> HIDE DEF R
  <1>3. ASSUME NEW D, D \subseteq Nat, D \cap T = {}, D \cup T = Nat, D # {} PROVE FALSE
    <2>1. PICK x \in D : \A y \in D : <<y, x>> \notin R
      BY <1>1, <1>3, WFMin
    <2>2. x \in Nat /\ x # 0 /\ x - 1 \in Nat /\ x - 1 < x
      BY <1>3
    <2>3. x - 1 \notin D
      BY <1>2, <2>1, <2>2
    <2>4. x - 1 \in T /\ (x - 1) + 1 = x /\ x \notin T
      BY <1>3, <2>2, <2>3
    <2> QED  BY <2>4
  <1> DEFINE D == Nat \ T
  <1>4. D \subseteq Nat /\ D \cap T = {} /\ D \cup T = Nat /\ (D = {} => T = Nat)
    OBVIOUS
  <1> HIDE DEF D
  <1> QED  BY <1>3, <1>4

\* The function with which FlattenSeq puts the first n of the sequences s together.
IsFlat(f, s, n) == \A i \in 1..n : f[i] = IF i = 1 THEN s[i] ELSE f[i - 1] \o s[i]

LEMMA FlatExists ==
    ASSUME NEW s, NEW n \in Nat
    PROVE  \E f : f = [i \in 1..n |-> f[i]] /\ IsFlat(f, s, n)
  <1> DEFINE Good(f, m) == f = [i \in 1..m |-> f[i]] /\ IsFlat(f, s, m)
             T == {m \in Nat : \E f : Good(f, m)}
  <1>1. 0 \in T
    <2> DEFINE f == [i \in 1..0 |-> <<>>]
    <2>1. f = [i \in 1..0 |-> f[i]] /\ IsFlat(f, s, 0)
      BY DEF IsFlat
    <2> HIDE DEF f
    <2> QED  BY <2>1
  <1>2. ASSUME NEW m \in T PROVE m + 1 \in T
    <2>1. PICK f : f = [i \in 1..m |-> f[i]] /\ IsFlat(f, s, m)
      OBVIOUS
    <2> DEFINE g == [i \in 1..m + 1 |-> IF i =< m THEN f[i]
                                        ELSE IF i = 1 THEN s[i] ELSE f[i - 1] \o s[i]]
    <2>2. g = [i \in 1..m + 1 |-> g[i]]
      OBVIOUS
    <2>7. m \in Nat
      OBVIOUS
    <2>3. \A i \in 1..m + 1 : g[i] = IF i =< m THEN f[i]
                                     ELSE IF i = 1 THEN s[i] ELSE f[i - 1] \o s[i]
      OBVIOUS
    <2>4. \A i \in 1..m : f[i] = IF i = 1 THEN s[i] ELSE f[i - 1] \o s[i]
      BY <2>1 DEF IsFlat
    <2> HIDE DEF g
    <2>5. ASSUME NEW i \in 1..m + 1 PROVE g[i] = IF i = 1 THEN s[i] ELSE g[i - 1] \o s[i]
      <3>3. i \in 1..m \/ i = m + 1
        BY <2>7
      <3>1. g[i] = IF i = 1 THEN s[i] ELSE f[i - 1] \o s[i]
        BY ONLY <2>3, <2>4, <2>7, <3>3
      <3>4. i # 1 => i - 1 \in 1..m /\ i - 1 \in 1..m + 1 /\ i - 1 =< m
        BY <2>7
      <3>2. i # 1 => i - 1 \in 1..m /\ g[i - 1] = f[i - 1]
        BY ONLY <2>3, <3>4
      <3> QED  BY <3>1, <3>2
    <2>6. Good(g, m + 1)
      BY <2>2, <2>5 DEF IsFlat
    <2> HIDE DEF Good
    <2> QED  BY <2>7, <2>6
  <1>3. T = Nat
    <2>1. T \in SUBSET Nat
      OBVIOUS
    <2> HIDE DEF T
    <2> QED  BY <1>1, <1>2, <2>1, Induction
  <1> HIDE DEF Good
  <1>4. \E f : Good(f, n)
    BY <1>3
  <1> QED  BY <1>4 DEF Good

LEMMA FlatSame ==
    ASSUME NEW n \in Nat, NEW f, NEW g, NEW s, NEW t, IsFlat(f, s, n), IsFlat(g, t, n),
           \A i \in 1..n : s[i] = t[i]
    PROVE  \A i \in 1..n : f[i] = g[i]
  <1> DEFINE T == {m \in Nat : m \in 1..n => f[m] = g[m]}
  <1>1. T \in SUBSET Nat /\ 0 \in T
    OBVIOUS
  <1>2. ASSUME NEW m \in T PROVE m + 1 \in T
    <2> SUFFICES ASSUME m + 1 \in 1..n PROVE f[m + 1] = g[m + 1]
      OBVIOUS
    <2>1. m \in Nat /\ (m # 0 => m \in 1..n)
      OBVIOUS
    <2>2. f[m + 1] = IF m = 0 THEN s[m + 1] ELSE f[m] \o s[m + 1]
      BY <2>1 DEF IsFlat
    <2>3. g[m + 1] = IF m = 0 THEN t[m + 1] ELSE g[m] \o t[m + 1]
      BY <2>1 DEF IsFlat
    <2> QED  BY <2>1, <2>2, <2>3
  <1> HIDE DEF T
  <1>3. T = Nat
    BY <1>1, <1>2, Induction
  <1> QED  BY <1>3 DEF T

\* What an iovec holds.
Piece(x) == SubSeq(x.str, 1, x.len)

\* The same iovecs hold the same.
LEMMA GatheredSame ==
    ASSUME NEW v, NEW w, NEW p \in Nat, NEW n \in Nat,
           \A k \in p..p + n - 1 : Piece(w[k]) = Piece(v[k])
    PROVE  V!Gathered(w, p, n) = V!Gathered(v, p, n)
  <1> DEFINE P(u, k) == SubSeq(u[p + k - 1].str, 1, u[p + k - 1].len)
  <1>1. ASSUME NEW k \in 1..n PROVE P(w, k) = P(v, k)
    <2>1. p + k - 1 \in p..p + n - 1
      OBVIOUS
    <2>2. Piece(w[p + k - 1]) = Piece(v[p + k - 1])
      BY <2>1
    <2> QED  BY <2>2 DEF Piece
  <1> HIDE DEF P
  <1>2. [k \in 1..n |-> P(w, k)] = [k \in 1..n |-> P(v, k)]
    BY <1>1
  <1> QED  BY <1>2, Zenon DEF V!Gathered, P

FlatOf(f, s, v, p, n) ==
    /\ V!Gathered(v, p, n) = IF n = 0 THEN <<>> ELSE f[n]
    /\ \A k \in 1..n : s[k] = Piece(v[p + k - 1])
    /\ IsFlat(f, s, n)

LEMMA GatheredIs ==
    ASSUME NEW v, NEW p \in Nat, NEW n \in Nat
    PROVE  \E f, s : FlatOf(f, s, v, p, n)
  <1> DEFINE s == [k \in 1..n |-> SubSeq(v[p + k - 1].str, 1, v[p + k - 1].len)]
             Eq(f) == f = [i \in 1..Len(s) |-> IF i = 1 THEN s[i] ELSE f[i - 1] \o s[i]]
             flat == CHOOSE f : Eq(f)
  <1>1. Len(s) = n /\ \A k \in 1..n : s[k] = Piece(v[p + k - 1])
    <2> DEFINE P(k) == SubSeq(v[p + k - 1].str, 1, v[p + k - 1].len)
               t == [k \in 1..n |-> P(k)]
    <2>1. \A k \in 1..n : P(k) = Piece(v[p + k - 1])
      BY DEF Piece
    <2>2. s = t
      OBVIOUS
    <2> HIDE DEF P, s
    <2>3. Len(t) = n /\ \A k \in 1..n : t[k] = P(k)
      OBVIOUS
    <2> HIDE DEF t
    <2> QED  BY <2>1, <2>2, <2>3
  <1>2. n = 0 => s = <<>>
    OBVIOUS
  <1>3. V!Gathered(v, p, n) = IF Len(s) = 0 THEN s ELSE flat[Len(s)]
    BY DEF V!Gathered, V!FlattenSeq
  <1> HIDE DEF s
  <1>4. \E f : Eq(f)
    <2>1. PICK f : f = [i \in 1..n |-> f[i]] /\ IsFlat(f, s, n)
      BY FlatExists
    <2>2. \A i \in 1..n : f[i] = IF i = 1 THEN s[i] ELSE f[i - 1] \o s[i]
      BY <2>1 DEF IsFlat
    <2>3. f = [i \in 1..n |-> f[i]]
      BY <2>1
    <2>4. Eq(f)
      BY <1>1, <2>2, <2>3
    <2> HIDE DEF Eq
    <2> QED  BY <2>4
  <1>5. Eq(flat)
    <2> HIDE DEF Eq
    <2> QED  BY <1>4
  <1> HIDE DEF flat
  <1>6. IsFlat(flat, s, n)
    BY <1>1, <1>5 DEF IsFlat
  <1>7. FlatOf(flat, s, v, p, n)
    BY <1>1, <1>2, <1>3, <1>6 DEF FlatOf
  <1> QED  BY <1>7

\* One iovec more.
LEMMA GatheredMore ==
    ASSUME NEW v, NEW p \in Nat, NEW n \in Nat, Piece(v[p + n]) \in Seq(Int)
    PROVE  V!Gathered(v, p, n + 1) = V!Gathered(v, p, n) \o Piece(v[p + n])
  <1>1. PICK f, s : FlatOf(f, s, v, p, n)
    BY GatheredIs
  <1>2. PICK g, t : FlatOf(g, t, v, p, n + 1)
    <2>1. n + 1 \in Nat
      OBVIOUS
    <2> QED  BY <2>1, GatheredIs
  <1>8. n + 1 \in 1..n + 1 /\ n + 1 # 0 /\ p + (n + 1) - 1 = p + n /\ (n + 1) - 1 = n
    OBVIOUS
  <1>3. IsFlat(f, s, n) /\ IsFlat(g, t, n + 1)
    BY <1>1, <1>2 DEF FlatOf
  <1>4. t[n + 1] = Piece(v[p + n]) /\ V!Gathered(v, p, n + 1) = g[n + 1]
    BY <1>2, <1>8 DEF FlatOf
  <1>9. g[n + 1] = (IF n = 0 THEN t[n + 1] ELSE g[n] \o t[n + 1]) /\ IsFlat(g, t, n)
    <2>1. \A i \in 1..n + 1 : g[i] = IF i = 1 THEN t[i] ELSE g[i - 1] \o t[i]
      BY <1>3 DEF IsFlat
    <2>2. g[n + 1] = IF n + 1 = 1 THEN t[n + 1] ELSE g[n] \o t[n + 1]
      BY <1>8, <2>1
    <2>3. (n + 1 = 1 <=> n = 0) /\ 1..n \subseteq 1..n + 1
      OBVIOUS
    <2> QED  BY <2>1, <2>2, <2>3 DEF IsFlat
  <1>10. ASSUME NEW i \in 1..n PROVE s[i] = t[i]
    <2>1. i \in 1..n + 1
      OBVIOUS
    <2>2. \A k \in 1..n : s[k] = Piece(v[p + k - 1])
      BY ONLY <1>1 DEF FlatOf
    <2>3. \A k \in 1..n + 1 : t[k] = Piece(v[p + k - 1])
      BY ONLY <1>2 DEF FlatOf
    <2>4. s[i] = Piece(v[p + i - 1]) /\ t[i] = Piece(v[p + i - 1])
      BY ONLY <2>1, <2>2, <2>3, i \in 1..n
    <2> QED  BY <2>4
  <1>5. \A i \in 1..n : f[i] = g[i]
    BY <1>3, <1>9, <1>10, FlatSame
  <1>11. V!Gathered(v, p, n) = IF n = 0 THEN <<>> ELSE f[n]
    BY <1>1 DEF FlatOf
  <1>6. CASE n = 0
    <2>1. V!Gathered(v, p, n + 1) = Piece(v[p + n]) /\ V!Gathered(v, p, n) = <<>>
      BY <1>4, <1>6, <1>9, <1>11
    <2> QED  BY <2>1, ConcatEmptySeq
  <1>7. CASE n # 0
    <2>1. f[n] = g[n]
      BY <1>5, <1>7
    <2> QED  BY <1>4, <1>7, <1>9, <1>11, <2>1
  <1> QED  BY <1>6, <1>7

LEMMA GatheredNone ==
    ASSUME NEW v, NEW p \in Nat
    PROVE  V!Gathered(v, p, 0) = <<>>
  <1>1. PICK f, s : FlatOf(f, s, v, p, 0)
    BY GatheredIs
  <1> QED  BY <1>1 DEF FlatOf

LEMMA GatheredSeq ==
    ASSUME NEW v, NEW p \in Nat, NEW n \in Nat, \A k \in p..p + n - 1 : Piece(v[k]) \in Seq(Int)
    PROVE  V!Gathered(v, p, n) \in Seq(Int)
  <1> DEFINE T == {m \in Nat : m =< n => V!Gathered(v, p, m) \in Seq(Int)}
  <1>1. T \in SUBSET Nat /\ 0 \in T
    <2>1. V!Gathered(v, p, 0) \in Seq(Int)
      BY GatheredNone, EmptySeq
    <2> QED  BY <2>1
  <1>2. ASSUME NEW m \in T PROVE m + 1 \in T
    <2> SUFFICES ASSUME m + 1 =< n PROVE V!Gathered(v, p, m + 1) \in Seq(Int)
      OBVIOUS
    <2>1. m \in Nat /\ V!Gathered(v, p, m) \in Seq(Int) /\ p + m \in p..p + n - 1
      OBVIOUS
    <2>2. V!Gathered(v, p, m + 1) = V!Gathered(v, p, m) \o Piece(v[p + m])
      BY <2>1, GatheredMore
    <2> QED  BY <2>1, <2>2, ConcatProperties
  <1> HIDE DEF T
  <1>3. n \in T
    BY <1>1, <1>2, Induction
  <1> QED  BY <1>3 DEF T

\* Iovecs that point nowhere hold nothing.
LEMMA GatheredEmpty ==
    ASSUME NEW v, NEW p \in Nat, NEW n \in Nat, \A k \in p..p + n - 1 : Piece(v[k]) = <<>>
    PROVE  V!Gathered(v, p, n) = <<>>
  <1> DEFINE T == {m \in Nat : m =< n => V!Gathered(v, p, m) = <<>>}
  <1>1. T \in SUBSET Nat /\ 0 \in T
    BY GatheredNone
  <1>2. ASSUME NEW m \in T PROVE m + 1 \in T
    <2> SUFFICES ASSUME m + 1 =< n PROVE V!Gathered(v, p, m + 1) = <<>>
      OBVIOUS
    <2>1. m \in Nat /\ V!Gathered(v, p, m) = <<>> /\ p + m \in p..p + n - 1
      OBVIOUS
    <2>3. Piece(v[p + m]) = <<>> /\ Piece(v[p + m]) \in Seq(Int)
      BY <2>1, EmptySeq
    <2>2. V!Gathered(v, p, m + 1) = V!Gathered(v, p, m) \o Piece(v[p + m])
      BY <2>1, <2>3, GatheredMore
    <2> QED  BY <2>1, <2>2, <2>3, ConcatEmptySeq
  <1> HIDE DEF T
  <1>3. n \in T
    BY <1>1, <1>2, Induction
  <1> QED  BY <1>3 DEF T

-----------------------------------------------------------------------------
(* The array of iovecs and eod *)

Offsets == [idx : Nat, offt : Nat, total : Int]

\* An iovec is as long as its string, or cut, and one that points nowhere is empty.
Iovecs == {x \in [base : BOOLEAN, len : Nat, str : Seq(Int)] :
             x.len =< Len(x.str) /\ (~x.base => x.str = <<>>)}

IsVector(v) == \E n \in Nat : v \in [0..n - 1 -> Iovecs]

Free(e) == IF e.offt > 0 THEN e.idx + 1 ELSE e.idx
CutAt(v, e) == IF e.offt > 0 THEN [v EXCEPT ![e.idx].len = e.offt] ELSE v

\* The iovecs before eod have strings; a partial edge is not cut.
Shape(v, e) ==
    /\ IsVector(v) /\ e \in Offsets
    /\ \A i \in 0..Free(e) - 1 : i \in DOMAIN v /\ v[i].base
    /\ e.offt > 0 => v[e.idx].len = Len(v[e.idx].str) /\ e.offt =< v[e.idx].len

\* No iovec behind eod has a string.
Open(v, e) == \A i \in DOMAIN v : i >= Free(e) => ~v[i].base

\* The bytes from the p-th iovec to eod.
All(v, e, p) == V!Gathered(CutAt(v, e), p, Free(e) - p)

LEMMA VectorIs ==
    ASSUME NEW v, IsVector(v)
    PROVE  /\ DOMAIN v \subseteq Nat
           /\ \A i, j \in Nat : i \in DOMAIN v /\ j =< i => j \in DOMAIN v
           /\ v = [i \in DOMAIN v |-> v[i]]
           /\ \A i \in DOMAIN v : /\ v[i] \in [base : BOOLEAN, len : Nat, str : Seq(Int)]
                                  /\ v[i].base \in BOOLEAN /\ v[i].len \in Nat
                                  /\ v[i].str \in Seq(Int) /\ Len(v[i].str) \in Nat
                                  /\ v[i].len =< Len(v[i].str)
                                  /\ ~v[i].base => v[i].len = 0 /\ v[i].str = <<>>
  <1>1. PICK n \in Nat : v \in [0..n - 1 -> Iovecs]
    BY DEF IsVector
  <1>2. DOMAIN v = 0..n - 1 /\ v = [i \in DOMAIN v |-> v[i]]
    BY <1>1
  <1>3. ASSUME NEW i \in DOMAIN v
        PROVE  /\ v[i] \in [base : BOOLEAN, len : Nat, str : Seq(Int)]
               /\ v[i].base \in BOOLEAN /\ v[i].len \in Nat
               /\ v[i].str \in Seq(Int) /\ Len(v[i].str) \in Nat
               /\ v[i].len =< Len(v[i].str)
               /\ ~v[i].base => v[i].len = 0 /\ v[i].str = <<>>
    <2>1. v[i] \in Iovecs
      BY <1>1
    <2>2. v[i] \in [base : BOOLEAN, len : Nat, str : Seq(Int)] /\ v[i].len =< Len(v[i].str)
          /\ (~v[i].base => v[i].str = <<>>)
      BY <2>1 DEF Iovecs
    <2>3. v[i].base \in BOOLEAN /\ v[i].len \in Nat /\ v[i].str \in Seq(Int)
      BY <2>2
    <2>4. Len(v[i].str) \in Nat /\ (v[i].str = <<>> => Len(v[i].str) = 0)
      BY <2>3, LenProperties, EmptySeq
    <2> QED  BY <2>2, <2>3, <2>4
  <1> QED  BY <1>2, <1>3

LEMMA PieceIs ==
    ASSUME NEW x \in [base : BOOLEAN, len : Nat, str : Seq(Int)], x.len =< Len(x.str)
    PROVE  Piece(x) \in Seq(Int) /\ Len(Piece(x)) = x.len /\ (x.len = 0 => Piece(x) = <<>>)
  <1>1. x.str \in Seq(Int) /\ x.len \in Nat /\ Len(x.str) \in Nat
    BY LenProperties
  <1>2. \A i \in 1..x.len : x.str[i] \in Int
    BY <1>1, ElementOfSeq
  <1>3. SubSeq(x.str, 1, x.len) \in Seq(Int)
        /\ Len(SubSeq(x.str, 1, x.len)) = IF 1 <= x.len THEN x.len - 1 + 1 ELSE 0
    BY <1>1, <1>2, SubSeqProperties
  <1>4. x.len = 0 => SubSeq(x.str, 1, x.len) = <<>>
    BY <1>1, SubSeqEmpty
  <1> QED  BY <1>1, <1>3, <1>4 DEF Piece

\* Another vector with the same iovecs before eod.
LEMMA AllSame ==
    ASSUME NEW v, NEW w, NEW e \in Offsets, NEW p \in 0..Free(e),
           \A k \in p..Free(e) - 1 : Piece(CutAt(w, e)[k]) = Piece(CutAt(v, e)[k])
    PROVE  All(w, e, p) = All(v, e, p)
  <1>1. Free(e) - p \in Nat /\ p \in Nat /\ p + (Free(e) - p) - 1 = Free(e) - 1
    BY DEF Free, Offsets
  <1> DEFINE n == Free(e) - p
  <1>2. \A k \in p..p + n - 1 : Piece(CutAt(w, e)[k]) = Piece(CutAt(v, e)[k])
    BY <1>1
  <1>3. n \in Nat /\ p \in Nat
    BY <1>1
  <1> DEFINE cv == CutAt(v, e)
             cw == CutAt(w, e)
  <1> HIDE DEF n, cv, cw
  <1>4. V!Gathered(cw, p, n) = V!Gathered(cv, p, n)
    BY <1>2, <1>3, GatheredSame DEF cv, cw
  <1> QED  BY <1>4 DEF All, n, cv, cw

\* The bytes up to the edge, and those of it.
LEMMA AllEdge ==
    ASSUME NEW v, IsVector(v), NEW e \in Offsets, e.idx \in DOMAIN v,
           e.offt =< Len(v[e.idx].str), NEW p \in 0..e.idx
    PROVE  /\ All(v, e, p) = V!Gathered(v, p, e.idx - p) \o SubSeq(v[e.idx].str, 1, e.offt)
           /\ V!Gathered(v, p, e.idx - p) \in Seq(Int)
           /\ SubSeq(v[e.idx].str, 1, e.offt) \in Seq(Int)
           /\ Len(SubSeq(v[e.idx].str, 1, e.offt)) = e.offt
  <1>7. e.idx \in Nat /\ \A i \in Nat : i =< e.idx => i \in DOMAIN v
    <2>1. e.idx \in Nat
      BY DEF Offsets
    <2> QED  BY <2>1, VectorIs
  <1> DEFINE x == v[e.idx]
             y == [x EXCEPT !.len = e.offt]
             n == e.idx - p
  <1>1. /\ e.idx \in Nat /\ e.offt \in Nat /\ p \in Nat /\ n \in Nat /\ p + n = e.idx
        /\ x \in [base : BOOLEAN, len : Nat, str : Seq(Int)]
    BY VectorIs DEF Offsets
  <1>2. /\ y \in [base : BOOLEAN, len : Nat, str : Seq(Int)] /\ y.len = e.offt /\ y.str = x.str
    BY <1>1
  <1> HIDE DEF y
  <1>3. /\ Piece(y) \in Seq(Int) /\ Len(Piece(y)) = e.offt /\ (e.offt = 0 => Piece(y) = <<>>)
        /\ Piece(y) = SubSeq(x.str, 1, e.offt)
    <2>1. y.len =< Len(y.str)
      BY <1>2
    <2>2. Piece(y) = SubSeq(x.str, 1, e.offt)
      BY <1>2 DEF Piece
    <2> HIDE DEF x
    <2> QED  BY <1>2, <2>1, <2>2, PieceIs
  <1>4. V!Gathered(v, p, n) \in Seq(Int)
    <2>1. ASSUME NEW k \in p..p + n - 1 PROVE Piece(v[k]) \in Seq(Int)
      <3>3. k \in Nat /\ k =< e.idx
        BY <1>1
      <3>1. k \in DOMAIN v
        BY ONLY <1>7, <3>3
      <3>2. v[k] \in [base : BOOLEAN, len : Nat, str : Seq(Int)] /\ v[k].len =< Len(v[k].str)
        BY <3>1, VectorIs
      <3> QED  BY <3>2, PieceIs
    <2> HIDE DEF n
    <2> QED  BY <1>1, <2>1, GatheredSeq
  <1>5. CASE e.offt = 0
    <2>1. All(v, e, p) = V!Gathered(v, p, n)
      BY <1>5 DEF All, Free, CutAt
    <2> HIDE DEF n, x
    <2>2. V!Gathered(v, p, n) \o Piece(y) = V!Gathered(v, p, n)
      BY <1>3, <1>4, <1>5, ConcatEmptySeq
    <2> QED  BY <1>3, <1>4, <2>1, <2>2 DEF n, x
  <1>6. CASE e.offt # 0
    <2> DEFINE c == [v EXCEPT ![e.idx].len = e.offt]
    <2>1. Free(e) - p = n + 1 /\ CutAt(v, e) = c
      BY <1>1, <1>6 DEF Free, CutAt
    <2>2. c[e.idx] = y /\ \A k \in DOMAIN v \ {e.idx} : c[k] = v[k]
      BY <1>1 DEF y
    <2> HIDE DEF c
    <2>3. V!Gathered(c, p, n) = V!Gathered(v, p, n)
      <3>1. ASSUME NEW k \in p..p + n - 1 PROVE Piece(c[k]) = Piece(v[k])
        <4>1. k \in Nat /\ k =< e.idx /\ k # e.idx
          BY <1>1
        <4>2. k \in DOMAIN v
          BY ONLY <1>7, <4>1
        <4> QED  BY <2>2, <4>1, <4>2
      <3> HIDE DEF n, x
      <3>2. n \in Nat /\ p \in Nat
        BY <1>1
      <3> QED  BY ONLY <3>1, <3>2, GatheredSame
    <2>4. V!Gathered(c, p, n + 1) = V!Gathered(c, p, n) \o Piece(c[p + n])
      <3>1. Piece(c[p + n]) \in Seq(Int)
        BY <1>1, <1>3, <2>2
      <3> HIDE DEF n
      <3> QED  BY <1>1, <3>1, GatheredMore
    <2>5. All(v, e, p) = V!Gathered(v, p, n) \o Piece(y)
      BY <1>1, <2>1, <2>2, <2>3, <2>4 DEF All
    <2> HIDE DEF n, x
    <2> QED  BY <1>3, <1>4, <2>5 DEF n, x
  <1> QED  BY <1>5, <1>6

\* One iovec of a vector replaced.
Replaced(w, v, i, x) ==
    /\ IsVector(w) /\ DOMAIN w = DOMAIN v /\ w[i] = x
    /\ \A j \in DOMAIN v : j # i => w[j] = v[j]

LEMMA ExceptIs ==
    ASSUME NEW v, IsVector(v), NEW i \in DOMAIN v, NEW x \in Iovecs
    PROVE  Replaced([v EXCEPT ![i] = x], v, i, x)
  <1> DEFINE w == [v EXCEPT ![i] = x]
  <1>1. PICK n \in Nat : v \in [0..n - 1 -> Iovecs]
    BY DEF IsVector
  <1>2. w \in [0..n - 1 -> Iovecs]
    BY <1>1
  <1>3. DOMAIN w = DOMAIN v /\ w[i] = x /\ \A j \in DOMAIN v : j # i => w[j] = v[j]
    BY <1>1
  <1>4. IsVector(w)
    BY <1>2 DEF IsVector
  <1> QED  BY <1>3, <1>4 DEF Replaced

\* w is v, grown or cut behind the first m iovecs.
Extends(w, v, m) ==
    /\ IsVector(w)
    /\ \A i \in 0..m - 1 : i \in DOMAIN v => i \in DOMAIN w
    /\ \A i \in DOMAIN w : w[i] = IF i \in DOMAIN v THEN v[i] ELSE V!NoIov

LEMMA NoIovIs == V!NoIov \in Iovecs /\ ~V!NoIov.base
  <1>1. <<>> \in Seq(Int) /\ Len(<<>>) = 0
    BY EmptySeq
  <1> QED  BY <1>1 DEF V!NoIov, Iovecs

LEMMA ResizedIs ==
    ASSUME NEW v, IsVector(v), NEW n \in Nat, NEW m \in 0..n
    PROVE  Extends(V!Resized(v, n), v, m) /\ DOMAIN V!Resized(v, n) = 0..n - 1
  <1> DEFINE w == V!Resized(v, n)
  <1>1. DOMAIN w = 0..n - 1 /\ w = [i \in DOMAIN w |-> w[i]]
        /\ \A i \in 0..n - 1 : w[i] = IF i \in DOMAIN v THEN v[i] ELSE V!NoIov
    BY DEF V!Resized
  <1> HIDE DEF w
  <1>2. PICK k \in Nat : v \in [0..k - 1 -> Iovecs]
    BY DEF IsVector
  <1>3. \A i \in DOMAIN v : v[i] \in Iovecs
    BY <1>2
  <1>4. w \in [0..n - 1 -> Iovecs]
    BY <1>1, <1>3, NoIovIs
  <1>5. IsVector(w)
    BY <1>4 DEF IsVector
  <1>6. 0..m - 1 \subseteq 0..n - 1
    OBVIOUS
  <1> QED  BY <1>1, <1>5, <1>6 DEF Extends, w

LEMMA GetSafeIs ==
    ASSUME NEW v, IsVector(v), NEW i \in Nat, NEW m \in 0..i
    PROVE  Extends(V!GetSafe(v, i), v, m) /\ i \in DOMAIN V!GetSafe(v, i)
  <1>1. CASE i \in DOMAIN v
    BY <1>1 DEF V!GetSafe, Extends
  <1>2. CASE i \notin DOMAIN v
    <2>1. i + 1 \in Nat /\ m \in 0..i + 1 /\ i \in 0..(i + 1) - 1
      OBVIOUS
    <2>2. Extends(V!Resized(v, i + 1), v, m) /\ DOMAIN V!Resized(v, i + 1) = 0..(i + 1) - 1
      BY <2>1, ResizedIs
    <2> QED  BY <1>2, <2>1, <2>2 DEF V!GetSafe
  <1> QED  BY <1>1, <1>2

\* What is before eod stays as it is.
LEMMA ExtendsKeeps ==
    ASSUME NEW v, NEW e, NEW w, Shape(v, e), Extends(w, v, Free(e))
    PROVE  /\ Shape(w, e)
           /\ Open(v, e) => Open(w, e)
           /\ \A p \in 0..Free(e) : All(w, e, p) = All(v, e, p)
  <1>1. e \in Offsets /\ e.idx \in Nat /\ e.offt \in Nat /\ Free(e) \in Nat
    BY DEF Shape, Offsets, Free
  <1>2. \A i \in 0..Free(e) - 1 : i \in DOMAIN v /\ i \in DOMAIN w /\ w[i] = v[i] /\ v[i].base
    BY DEF Shape, Extends
  <1>3. e.offt > 0 => e.idx \in 0..Free(e) - 1
    BY <1>1 DEF Free
  <1>4. Shape(w, e)
    BY <1>1, <1>2, <1>3 DEF Shape, Extends
  <1>5. Open(v, e) => Open(w, e)
    BY NoIovIs DEF Extends, Open
  <1>6. ASSUME NEW k \in 0..Free(e) - 1 PROVE CutAt(w, e)[k] = CutAt(v, e)[k]
    <2>1. k \in DOMAIN v /\ k \in DOMAIN w /\ w[k] = v[k]
      BY <1>2
    <2>2. k = e.idx => [v EXCEPT ![e.idx].len = e.offt][k] = [v[k] EXCEPT !.len = e.offt]
                       /\ [w EXCEPT ![e.idx].len = e.offt][k] = [w[k] EXCEPT !.len = e.offt]
      BY <2>1
    <2>3. k # e.idx => [v EXCEPT ![e.idx].len = e.offt][k] = v[k]
                       /\ [w EXCEPT ![e.idx].len = e.offt][k] = w[k]
      BY <2>1
    <2> QED  BY <2>1, <2>2, <2>3 DEF CutAt
  <1>7. ASSUME NEW p \in 0..Free(e) PROVE All(w, e, p) = All(v, e, p)
    <2>1. p..Free(e) - 1 \subseteq 0..Free(e) - 1
      BY <1>1
    <2>2. \A k \in p..Free(e) - 1 : Piece(CutAt(w, e)[k]) = Piece(CutAt(v, e)[k])
      BY <1>6, <2>1
    <2> QED  BY <1>1, <2>2, AllSame
  <1> QED  BY <1>4, <1>5, <1>7

LEMMA PrintedIs ==
    ASSUME NEW str \in Seq(Int), NEW at \in Nat, NEW n \in Nat, at + n =< Len(str),
           vput \in Int
    PROVE  /\ V!Printed(str, at, n) \in Seq(Int)
           /\ Len(V!Printed(str, at, n)) = Len(str)
           /\ V!NextBytes(n) \in Seq(Int) /\ Len(V!NextBytes(n)) = n
           /\ SubSeq(V!Printed(str, at, n), 1, at + n)
                = SubSeq(str, 1, at) \o V!NextBytes(n)
  <1> DEFINE t == V!Printed(str, at, n)
             nx == V!NextBytes(n)
             a == SubSeq(str, 1, at)
             b == SubSeq(t, 1, at + n)
  <1>1. Len(str) \in Nat /\ DOMAIN str = 1..Len(str) /\ \A i \in 1..Len(str) : str[i] \in Int
    BY LenProperties, ElementOfSeq
  <1>2. /\ DOMAIN t = 1..Len(str) /\ t = [i \in 1..Len(str) |-> t[i]]
        /\ \A i \in 1..Len(str) :
              t[i] = IF i \in at + 1..at + n THEN vput + i - at - 1 ELSE str[i]
    BY <1>1 DEF V!Printed
  <1>3. /\ nx \in Seq(Int) /\ Len(nx) = n
        /\ \A i \in 1..n : nx[i] = vput + i - 1
    BY DEF V!NextBytes
  <1> HIDE DEF t, nx
  <1>4. t \in Seq(Int) /\ Len(t) = Len(str)
    BY <1>1, <1>2
  <1>5. a \in Seq(Int) /\ Len(a) = at /\ \A i \in 1..at : a[i] = str[i]
    <2>1. \A i \in 1..at : str[i] \in Int
      BY <1>1
    <2> QED  BY <1>1, <2>1, SubSeqProperties
  <1>6. b \in Seq(Int) /\ Len(b) = at + n /\ \A i \in 1..at + n : b[i] = t[i]
    <2>1. \A i \in 1..at + n : t[i] \in Int
      BY <1>1, <1>2
    <2> QED  BY <1>4, <2>1, SubSeqProperties
  <1> HIDE DEF a, b
  <1>7. a \o nx \in Seq(Int) /\ Len(a \o nx) = at + n
        /\ \A i \in 1..at + n : (a \o nx)[i] = IF i =< at THEN a[i] ELSE nx[i - at]
    <2>1. a \in Seq(Int) /\ nx \in Seq(Int)
      BY <1>3, <1>5
    <2>2. /\ a \o nx \in Seq(Int) /\ Len(a \o nx) = Len(a) + Len(nx)
          /\ \A i \in 1..Len(a) + Len(nx) :
               (a \o nx)[i] = IF i <= Len(a) THEN a[i] ELSE nx[i - Len(a)]
      BY ONLY <2>1, ConcatProperties
    <2>3. Len(a) = at /\ Len(nx) = n
      BY <1>3, <1>5
    <2> QED  BY ONLY <2>2, <2>3
  <1>8. ASSUME NEW i \in 1..at + n PROVE b[i] = (a \o nx)[i]
    <2>1. i \in 1..Len(str) /\ b[i] = t[i]
      BY <1>1, <1>6
    <2>2. CASE i =< at
      <3>1. i \in 1..at /\ i \notin at + 1..at + n
        BY <2>2
      <3> QED  BY <1>2, <1>5, <1>7, <2>1, <2>2, <3>1
    <2>3. CASE ~(i =< at)
      <3>1. i - at \in 1..n /\ i \in at + 1..at + n /\ vput + i - at - 1 = vput + (i - at) - 1
        BY <2>3
      <3>2. t[i] = vput + i - at - 1 /\ nx[i - at] = vput + (i - at) - 1
        BY <1>2, <1>3, <2>1, <3>1
      <3> QED  BY <1>7, <2>1, <2>3, <3>1, <3>2
    <2> QED  BY <2>2, <2>3
  <1>9. b = a \o nx
    BY <1>6, <1>7, <1>8, SeqEqual
  <1> QED  BY <1>3, <1>4, <1>9 DEF t, nx, a, b

-----------------------------------------------------------------------------
(* Bytes put at eod *)

\* Eod is in an iovec with a string, which is not cut.
Ready(v, e) ==
    /\ IsVector(v) /\ e \in Offsets
    /\ \A i \in 0..e.idx : i \in DOMAIN v /\ v[i].base
    /\ v[e.idx].len = Len(v[e.idx].str) /\ e.offt =< v[e.idx].len

LEMMA ShapeReady ==
    ASSUME NEW v, NEW e, Shape(v, e), e.offt > 0
    PROVE  Ready(v, e)
  BY DEF Shape, Ready, Free, Offsets

\* w and f are v and e after n bytes more.
Puts(v, e, w, f, n) ==
    /\ Shape(w, f)
    /\ f.idx >= e.idx /\ f.total = e.total + n
    /\ \A p \in 0..e.idx : All(w, f, p) = All(v, e, p) \o V!NextBytes(n)

\* Eod after n bytes more in the same iovec.
Behind(f, e, n) ==
    f \in Offsets /\ f.idx = e.idx /\ f.offt = e.offt + n /\ f.total = e.total + n

LEMMA BehindIs ==
    ASSUME NEW e \in Offsets, NEW n \in Nat
    PROVE  Behind([e EXCEPT !.offt = @ + n, !.total = @ + n], e, n)
  <1> DEFINE a == e.offt + n
             c == e.total + n
             f == [e EXCEPT !.offt = a, !.total = c]
  <1>1. e \in [idx : Nat, offt : Nat, total : Int] /\ a \in Nat /\ c \in Int
    BY DEF Offsets
  <1> HIDE DEF a, c
  <1>2. f \in [idx : Nat, offt : Nat, total : Int]
    BY ONLY <1>1
  <1>3. f.idx = e.idx /\ f.offt = a /\ f.total = c
    BY ONLY <1>1
  <1> HIDE DEF f
  <1>4. Behind(f, e, n)
    BY <1>2, <1>3 DEF Behind, Offsets, a, c
  <1> QED  BY <1>4 DEF f, a, c

\* An iovec into whose string something else was printed.
LEMMA StrIs ==
    ASSUME NEW y \in [base : BOOLEAN, len : Nat, str : Seq(Int)], y.base,
           NEW b \in Seq(Int), y.len =< Len(b)
    PROVE  /\ [y EXCEPT !.str = b] \in Iovecs
           /\ [y EXCEPT !.str = b].base /\ [y EXCEPT !.str = b].str = b
           /\ [y EXCEPT !.str = b].len = y.len
  <1> DEFINE x == [y EXCEPT !.str = b]
  <1>1. x \in [base : BOOLEAN, len : Nat, str : Seq(Int)]
        /\ x.str = b /\ x.len = y.len /\ x.base = y.base
    OBVIOUS
  <1> HIDE DEF x
  <1>2. x \in Iovecs
    BY <1>1 DEF Iovecs
  <1> QED  BY <1>1, <1>2 DEF x

LEMMA Concatenated ==
    \A s, t, u \in Seq(Int) : (s \o t) \o u = s \o (t \o u)
  <1> SUFFICES ASSUME NEW s \in Seq(Int), NEW t \in Seq(Int), NEW u \in Seq(Int)
               PROVE  (s \o t) \o u = s \o (t \o u)
    OBVIOUS
  <1> QED  BY ONLY s \in Seq(Int), t \in Seq(Int), u \in Seq(Int), ConcatAssociative,
            SMTT(30)

LEMMA PutTextIs ==
    ASSUME NEW v, NEW e, Ready(v, e), NEW n \in Nat, e.offt + n =< v[e.idx].len, vput \in Int,
           NEW f, Behind(f, e, n),
           NEW w, w = [v EXCEPT ![e.idx].str = V!Printed(@, e.offt, n)]
    PROVE  /\ Puts(v, e, w, f, n)
           /\ f.offt > 0 /\ (\A i \in DOMAIN v : i > e.idx => ~v[i].base) => Open(w, f)
  <1>1. /\ e \in Offsets /\ e.idx \in Nat /\ e.offt \in Nat /\ e.total \in Int
        /\ e.idx \in DOMAIN v /\ v[e.idx].base /\ IsVector(v)
        /\ v[e.idx].len = Len(v[e.idx].str)
        /\ v[e.idx].len \in Nat /\ v[e.idx].str \in Seq(Int)
        /\ v[e.idx] \in [base : BOOLEAN, len : Nat, str : Seq(Int)]
    <2>1. e \in Offsets /\ IsVector(v) /\ v[e.idx].len = Len(v[e.idx].str)
      BY DEF Ready
    <2>2. e.idx \in Nat /\ e.offt \in Nat /\ e.total \in Int
      BY <2>1 DEF Offsets
    <2>3. e.idx \in DOMAIN v /\ v[e.idx].base
      BY <2>2 DEF Ready
    <2> QED  BY <2>1, <2>2, <2>3, VectorIs
  <1>2. f \in Offsets /\ f.idx = e.idx /\ f.offt = e.offt + n /\ f.total = e.total + n
    BY DEF Behind
  <1> DEFINE a == v[e.idx].str
             b == V!Printed(a, e.offt, n)
             x == [v[e.idx] EXCEPT !.str = b]
  <1>3. /\ b \in Seq(Int) /\ Len(b) = Len(a)
        /\ V!NextBytes(n) \in Seq(Int)
        /\ SubSeq(b, 1, e.offt + n) = SubSeq(a, 1, e.offt) \o V!NextBytes(n)
    <2>1. a \in Seq(Int) /\ e.offt + n =< Len(a) /\ e.offt \in Nat
      BY <1>1
    <2> HIDE DEF a
    <2> QED  BY <2>1, PrintedIs
  <1>4. w = [v EXCEPT ![e.idx] = x]
    BY <1>1
  <1>5. x \in Iovecs /\ x.str = b /\ x.len = Len(b) /\ x.base
    <2>1. v[e.idx].len =< Len(b) /\ v[e.idx].len = Len(b)
      BY <1>1, <1>3
    <2> HIDE DEF b
    <2> QED  BY ONLY <1>1, <1>3, <2>1, StrIs DEF x
  <1> HIDE DEF x, b
  <1>6. IsVector(w) /\ DOMAIN w = DOMAIN v /\ w[e.idx] = x
        /\ \A j \in DOMAIN v : j # e.idx => w[j] = v[j]
    <2>1. Replaced([v EXCEPT ![e.idx] = x], v, e.idx, x)
      BY ONLY <1>1, <1>5, ExceptIs
    <2> QED  BY ONLY <1>4, <2>1 DEF Replaced
  <1>7. Shape(w, f)
    <2>1. ASSUME NEW i \in 0..Free(f) - 1 PROVE i \in DOMAIN w /\ w[i].base
      <3>1. i \in 0..e.idx
        BY <1>1, <1>2 DEF Free
      <3>2. i \in DOMAIN v /\ v[i].base
        BY <3>1 DEF Ready
      <3> QED  BY <1>5, <1>6, <3>2
    <2>2. w[f.idx].len = Len(w[f.idx].str) /\ f.offt =< w[f.idx].len
      BY <1>1, <1>2, <1>3, <1>5, <1>6
    <2> QED  BY <1>2, <1>6, <2>1, <2>2 DEF Shape
  <1>8. ASSUME f.offt > 0, \A i \in DOMAIN v : i > e.idx => ~v[i].base PROVE Open(w, f)
    <2> SUFFICES ASSUME NEW i \in DOMAIN w, i >= Free(f) PROVE ~w[i].base
      BY DEF Open
    <2>1. i \in DOMAIN v /\ i \in Nat /\ Free(f) = e.idx + 1
      BY <1>1, <1>2, <1>6, <1>8, VectorIs DEF Free
    <2>2. i > e.idx /\ i # e.idx
      BY <1>1, <2>1
    <2> QED  BY <1>6, <1>8, <2>1, <2>2
  <1>9. ASSUME NEW p \in 0..e.idx PROVE All(w, f, p) = All(v, e, p) \o V!NextBytes(n)
    <2> DEFINE g == V!Gathered(v, p, e.idx - p)
    <2>1. /\ All(v, e, p) = g \o SubSeq(a, 1, e.offt) /\ g \in Seq(Int)
          /\ SubSeq(a, 1, e.offt) \in Seq(Int)
      <3>1. e.offt =< Len(v[e.idx].str)
        BY <1>1
      <3> QED  BY <1>1, <3>1, AllEdge
    <2>2. All(w, f, p) = V!Gathered(w, p, e.idx - p) \o SubSeq(b, 1, e.offt + n)
      <3>1. f.idx \in DOMAIN w /\ f.offt =< Len(w[f.idx].str) /\ p \in 0..f.idx
        BY <1>1, <1>2, <1>3, <1>5, <1>6
      <3>2. All(w, f, p) = V!Gathered(w, p, f.idx - p) \o SubSeq(w[f.idx].str, 1, f.offt)
        BY ONLY <1>2, <1>6, <3>1, AllEdge
      <3> QED  BY <1>2, <1>5, <1>6, <3>2
    <2>3. V!Gathered(w, p, e.idx - p) = g
      <3>1. e.idx - p \in Nat /\ p \in Nat
        BY <1>1
      <3>2. ASSUME NEW k \in p..p + (e.idx - p) - 1 PROVE Piece(w[k]) = Piece(v[k])
        <4>3. e.idx \in Nat
          BY <1>1
        <4>1. k \in 0..e.idx /\ k # e.idx
          BY ONLY <4>3, p \in 0..e.idx, k \in p..p + (e.idx - p) - 1
        <4>2. k \in DOMAIN v
          BY <4>1 DEF Ready
        <4> QED  BY <1>6, <4>1, <4>2
      <3> DEFINE m == e.idx - p
      <3>3. m \in Nat /\ p \in Nat
        BY <3>1
      <3>5. \A k \in p..p + m - 1 : Piece(w[k]) = Piece(v[k])
        BY <3>2
      <3> HIDE DEF m, g
      <3>4. V!Gathered(w, p, m) = V!Gathered(v, p, m)
        BY ONLY <3>3, <3>5, GatheredSame
      <3> QED  BY <3>4 DEF m, g
    <2> HIDE DEF g, a
    <2>4. All(w, f, p) = g \o (SubSeq(a, 1, e.offt) \o V!NextBytes(n))
      BY <1>3, <2>2, <2>3
    <2>5. (g \o SubSeq(a, 1, e.offt)) \o V!NextBytes(n)
            = g \o (SubSeq(a, 1, e.offt) \o V!NextBytes(n))
      <3> DEFINE h == SubSeq(a, 1, e.offt)
                 nx == V!NextBytes(n)
      <3>1. g \in Seq(Int) /\ h \in Seq(Int) /\ nx \in Seq(Int)
        BY <1>3, <2>1
      <3> HIDE DEF h, nx
      <3>2. (g \o h) \o nx = g \o (h \o nx)
        BY ONLY <3>1, Concatenated, Zenon
      <3> QED  BY <3>2 DEF h, nx
    <2> QED  BY ONLY <2>1, <2>4, <2>5
  <1>10. f.idx >= e.idx
    BY <1>1, <1>2
  <1>11. Puts(v, e, w, f, n)
    BY ONLY <1>2, <1>7, <1>9, <1>10 DEF Puts
  <1> QED  BY ONLY <1>8, <1>11

LEMMA AllSeq ==
    ASSUME NEW v, NEW e, Shape(v, e), NEW p \in 0..e.idx
    PROVE  All(v, e, p) \in Seq(Int)
  <1>1. e \in Offsets /\ e.idx \in Nat /\ e.offt \in Nat /\ IsVector(v)
    BY DEF Shape, Offsets
  <1>2. CASE e.offt > 0
    <2>1. e.idx \in DOMAIN v /\ e.offt =< Len(v[e.idx].str)
      BY <1>1, <1>2 DEF Shape, Free
    <2> DEFINE g == V!Gathered(v, p, e.idx - p)
               h == SubSeq(v[e.idx].str, 1, e.offt)
    <2>2. All(v, e, p) = g \o h /\ g \in Seq(Int) /\ h \in Seq(Int)
      BY <1>1, <2>1, AllEdge
    <2> HIDE DEF g, h
    <2> QED  BY ONLY <2>2, ConcatProperties
  <1>3. CASE e.offt = 0
    <2>1. All(v, e, p) = V!Gathered(v, p, e.idx - p)
      BY <1>3 DEF All, Free, CutAt
    <2> DEFINE n == e.idx - p
    <2>2. n \in Nat /\ p \in Nat
      BY <1>1
    <2>3. ASSUME NEW k \in p..p + n - 1 PROVE Piece(v[k]) \in Seq(Int)
      <3>1. k \in 0..Free(e) - 1
        BY <1>1, <1>3 DEF Free
      <3>2. k \in DOMAIN v
        BY <3>1 DEF Shape
      <3>3. v[k] \in [base : BOOLEAN, len : Nat, str : Seq(Int)] /\ v[k].len =< Len(v[k].str)
        BY <1>1, <3>2, VectorIs
      <3> QED  BY ONLY <3>3, PieceIs
    <2> HIDE DEF n
    <2>4. V!Gathered(v, p, n) \in Seq(Int)
      BY ONLY <2>2, <2>3, GatheredSeq
    <2> QED  BY <2>1, <2>4 DEF n
  <1> QED  BY <1>1, <1>2, <1>3

\* v and e written in another way.
Same(v, e, u, f) ==
    /\ Shape(u, f)
    /\ e \in Offsets /\ f.idx >= e.idx /\ f.total = e.total
    /\ \A p \in 0..e.idx : All(u, f, p) = All(v, e, p)

\* The two kinds of clients.
Sane == doubt \cap {"rewind", "behind", "empty", "format"} = {}
Faithful == doubt \subseteq {"empty", "rewind"}

\* A step that puts some bytes behind v and e.
Adds(v, e) ==
    Sane' \/ Faithful' => \E m \in Nat : Puts(v, e, iov', veod', m) /\ vput' = vput + m

Step(v, e) ==
    /\ doubt \subseteq doubt' /\ Adds(v, e)
    /\ Sane' /\ Open(v, e) => Open(iov', veod')

LEMMA AddsSame ==
    ASSUME NEW v, NEW e, NEW u, NEW f, Same(v, e, u, f), Adds(u, f)
    PROVE  Adds(v, e)
  <1>1. e.idx \in Nat /\ f.idx \in Nat /\ f.idx >= e.idx /\ f.total = e.total
    BY DEF Same, Shape, Offsets
  <1>2. ASSUME NEW m \in Nat, Puts(u, f, iov', veod', m) PROVE Puts(v, e, iov', veod', m)
    <2>1. Shape(iov', veod') /\ veod'.idx >= f.idx /\ veod'.total = e.total + m
          /\ veod'.idx \in Nat
      BY <1>1, <1>2 DEF Puts, Shape, Offsets
    <2>2. ASSUME NEW p \in 0..e.idx
          PROVE  All(iov', veod', p) = All(v, e, p) \o V!NextBytes(m)
      <3>1. p \in 0..f.idx
        BY <1>1
      <3>2. All(iov', veod', p) = All(u, f, p) \o V!NextBytes(m)
        BY <1>2, <3>1 DEF Puts
      <3> QED  BY <3>2 DEF Same
    <2>3. veod'.idx >= e.idx
      BY <1>1, <2>1
    <2> QED  BY <2>1, <2>2, <2>3 DEF Puts
  <1> QED  BY <1>2 DEF Adds

LEMMA NoBytes == V!NextBytes(0) = <<>>
  BY DEF V!NextBytes

\* Nothing was put.
LEMMA StepNone ==
    ASSUME NEW v, NEW e, Shape(v, e), Same(v, e, iov', veod'), vput \in Nat,
           UNCHANGED <<vput, doubt>>, Open(v, e) => Open(iov', veod')
    PROVE  Step(v, e)
  <1>1. ASSUME NEW p \in 0..e.idx PROVE All(iov', veod', p) = All(v, e, p) \o V!NextBytes(0)
    <2>1. All(v, e, p) \in Seq(Int)
      BY AllSeq
    <2>2. All(v, e, p) \o <<>> = All(v, e, p)
      BY <2>1, ConcatEmptySeq
    <2> QED  BY <2>2, NoBytes DEF Same
  <1>2. e.total \in Int
    BY DEF Same, Offsets
  <1>3. Puts(v, e, iov', veod', 0) /\ vput' = vput + 0
    BY <1>1, <1>2 DEF Puts, Same
  <1>4. Adds(v, e)
    BY <1>3 DEF Adds
  <1> QED  BY <1>4 DEF Step

LEMMA SameExtended ==
    ASSUME NEW v, NEW e, NEW w, Shape(v, e), Extends(w, v, Free(e))
    PROVE  Same(v, e, w, e) /\ (Open(v, e) => Open(w, e))
  <1>1. e \in Offsets /\ e.idx \in Nat /\ 0..e.idx \subseteq 0..Free(e)
    BY DEF Shape, Offsets, Free
  <1> QED  BY <1>1, ExtendsKeeps DEF Same

\* vbytestream_nprintf with its text printed at e.
LEMMA PutTextStep ==
    ASSUME NEW v, NEW e, Ready(v, e), NEW n \in Int, n >= -1, vput \in Nat,
           e.offt + n =< v[e.idx].len, V!PutText(v, e, n)
    PROVE  /\ doubt \subseteq doubt' /\ Adds(v, e)
           /\ Sane' /\ (\A i \in DOMAIN v : i > e.idx => ~v[i].base) => Open(iov', veod')
  <1> DEFINE why == {w \in {"format"} : n < 0} \cup {w \in {"empty"} : n = 0 /\ e.offt = 0}
  <1>1. /\ iov' = [v EXCEPT ![e.idx].str = V!Printed(@, e.offt, n)]
        /\ veod' = [e EXCEPT !.offt = @ + n, !.total = @ + n]
        /\ vput' = (IF n > 0 THEN vput + n ELSE vput)
        /\ doubt' = doubt \cup why
    BY DEF V!PutText, V!Doubt
  <1>2. n < 0 => "format" \in doubt'
    BY <1>1
  <1>3. n = 0 /\ e.offt = 0 => "empty" \in doubt'
    BY <1>1
  <1>4. doubt \subseteq doubt'
    BY <1>1
  <1>5. Sane' \/ Faithful' => n \in Nat
    <2>1. n < 0 => ~Sane' /\ ~Faithful'
      BY <1>2 DEF Sane, Faithful
    <2> QED  BY <2>1
  <1>6. Sane' => ~(n = 0 /\ e.offt = 0)
    BY <1>3 DEF Sane
  <1>7. e \in Offsets /\ e.offt \in Nat
    BY DEF Ready, Offsets
  <1>8. ASSUME n \in Nat
        PROVE  /\ Puts(v, e, iov', veod', n) /\ vput' = vput + n
               /\ veod'.offt = e.offt + n
               /\ veod'.offt > 0 /\ (\A i \in DOMAIN v : i > e.idx => ~v[i].base)
                    => Open(iov', veod')
    <2>1. Behind(veod', e, n)
      <3>1. Behind([e EXCEPT !.offt = @ + n, !.total = @ + n], e, n)
        BY ONLY <1>7, <1>8, BehindIs
      <3> QED  BY <1>1, <3>1
    <2>2. veod'.offt = e.offt + n
      BY <2>1 DEF Behind
    <2>3. iov' = [v EXCEPT ![e.idx].str = V!Printed(@, e.offt, n)]
      BY <1>1
    <2>4. /\ Puts(v, e, iov', veod', n)
          /\ veod'.offt > 0 /\ (\A i \in DOMAIN v : i > e.idx => ~v[i].base)
                    => Open(iov', veod')
      <3>1. vput \in Int
        OBVIOUS
      <3> QED  BY <1>8, <2>1, <2>3, <3>1, PutTextIs
    <2>5. vput' = vput + n
      BY <1>1, <1>8
    <2> QED  BY <2>2, <2>4, <2>5
  <1>9. Sane' => n \in Nat /\ veod'.offt > 0
    BY <1>5, <1>6, <1>7, <1>8
  <1>10. Adds(v, e)
    BY <1>5, <1>8 DEF Adds
  <1> QED  BY <1>4, <1>8, <1>9, <1>10

LEMMA IovOfIs ==
    ASSUME NEW str \in Seq(Int)
    PROVE  /\ V!IovOf(str) \in Iovecs /\ V!IovOf(str).base
           /\ V!IovOf(str).str = str /\ V!IovOf(str).len = Len(str)
  <1>1. Len(str) \in Nat
    BY LenProperties
  <1> QED  BY <1>1 DEF V!IovOf, Iovecs

LEMMA AllocIs ==
    ASSUME NEW n \in Nat
    PROVE  /\ V!Alloc(n) \in Iovecs /\ V!Alloc(n).base
           /\ V!Alloc(n).len = n /\ Len(V!Alloc(n).str) = n
  <1> DEFINE str == [i \in 1..n |-> V!Junk]
  <1>1. str \in Seq(Int) /\ Len(str) = n
    BY DEF V!Junk
  <1> HIDE DEF str
  <1>2. V!Alloc(n) = V!IovOf(str)
    BY Zenon DEF V!Alloc, str
  <1> QED  BY <1>1, <1>2, IovOfIs

\* A string given to the iovec of eod.
LEMMA FreshIs ==
    ASSUME NEW v, NEW e, Shape(v, e), e.offt = 0, e.idx \in DOMAIN v,
           NEW x \in Iovecs, x.base, x.len = Len(x.str),
           NEW u, u = [v EXCEPT ![e.idx] = x]
    PROVE  /\ Ready(u, e) /\ Same(v, e, u, e) /\ u[e.idx] = x /\ DOMAIN u = DOMAIN v
           /\ \A i \in DOMAIN v : i # e.idx => u[i] = v[i]
  <1>1. e \in Offsets /\ e.idx \in Nat /\ Free(e) = e.idx /\ IsVector(v)
    BY DEF Shape, Offsets, Free
  <1>2. /\ IsVector(u) /\ DOMAIN u = DOMAIN v /\ u[e.idx] = x
        /\ \A i \in DOMAIN v : i # e.idx => u[i] = v[i]
    BY <1>1, ExceptIs DEF Replaced
  <1>3. \A i \in 0..e.idx - 1 : i \in DOMAIN v /\ v[i].base /\ i # e.idx
    BY <1>1 DEF Shape
  <1>4. \A i \in 0..e.idx : i \in DOMAIN u /\ u[i].base
    <2> SUFFICES ASSUME NEW i \in 0..e.idx PROVE i \in DOMAIN u /\ u[i].base
      OBVIOUS
    <2>1. i \in 0..e.idx - 1 \/ i = e.idx
      BY <1>1
    <2> QED  BY <1>2, <1>3, <2>1
  <1>5. x.len \in Nat
    BY DEF Iovecs
  <1>6. Ready(u, e)
    BY <1>1, <1>2, <1>4, <1>5 DEF Ready
  <1>7. Shape(u, e)
    BY <1>1, <1>2, <1>4 DEF Shape
  <1>8. \A p \in 0..e.idx : All(u, e, p) = All(v, e, p)
    <2> SUFFICES ASSUME NEW p \in 0..e.idx PROVE All(u, e, p) = All(v, e, p)
      OBVIOUS
    <2>1. CutAt(u, e) = u /\ CutAt(v, e) = v
      BY DEF CutAt
    <2>2. ASSUME NEW k \in p..Free(e) - 1 PROVE Piece(u[k]) = Piece(v[k])
      <3>1. k \in 0..e.idx - 1
        BY <1>1
      <3> QED  BY <1>2, <1>3, <3>1
    <2>3. p \in 0..Free(e)
      BY <1>1
    <2> QED  BY ONLY <1>1, <2>1, <2>2, <2>3, AllSame
  <1>9. Same(v, e, u, e)
    <2>1. e.idx >= e.idx
      BY <1>1
    <2> QED  BY ONLY <1>1, <1>7, <1>8, <2>1 DEF Same
  <1> QED  BY ONLY <1>2, <1>6, <1>9

\* vbytestream_nprintf into an iovec that has no string.
LEMMA PutFreshStep ==
    ASSUME NEW v, NEW e, Shape(v, e), e.offt = 0, e.idx \in DOMAIN v, ~v[e.idx].base,
           vput \in Nat, NEW s \in Nat, NEW n \in Int, n >= -1, V!PutFresh(v, e, s, n)
    PROVE  Step(v, e)
  <1>1. e \in Offsets /\ e.idx \in Nat /\ e.total \in Int /\ Free(e) = e.idx /\ IsVector(v)
    BY DEF Shape, Offsets, Free
  <1>2. CASE n < s
    <2> DEFINE x == V!Alloc(s)
               u == [v EXCEPT ![e.idx] = x]
    <2>1. x \in Iovecs /\ x.base /\ x.len = s /\ Len(x.str) = s
      BY AllocIs
    <2>2. V!PutText(u, e, n)
      BY <1>2 DEF V!PutFresh
    <2> HIDE DEF x
    <2>3. /\ Ready(u, e) /\ Same(v, e, u, e) /\ u[e.idx] = x /\ DOMAIN u = DOMAIN v
          /\ \A i \in DOMAIN v : i # e.idx => u[i] = v[i]
      BY <2>1, FreshIs
    <2> HIDE DEF u
    <2>4. e.offt + n =< u[e.idx].len
      BY <1>2, <2>1, <2>3
    <2>5. /\ doubt \subseteq doubt' /\ Adds(u, e)
          /\ Sane' /\ (\A i \in DOMAIN u : i > e.idx => ~u[i].base) => Open(iov', veod')
      BY <2>2, <2>3, <2>4, PutTextStep
    <2>6. Adds(v, e)
      BY <2>3, <2>5, AddsSame
    <2>7. ASSUME Open(v, e), NEW i \in DOMAIN u, i > e.idx PROVE ~u[i].base
      <3>1. i \in DOMAIN v /\ i \in Nat
        BY <1>1, <2>3, VectorIs
      <3>2. i >= Free(e) /\ i # e.idx
        BY <1>1, <2>7, <3>1
      <3> QED  BY <2>3, <2>7, <3>1, <3>2 DEF Open
    <2> QED  BY <2>5, <2>6, <2>7 DEF Step
  <1>3. CASE ~(n < s)
    <2>1. iov' = v /\ veod' = e /\ UNCHANGED <<vput, doubt>>
      BY <1>3 DEF V!PutFresh
    <2>2. Same(v, e, v, e)
      BY <1>1 DEF Same
    <2> QED  BY <2>1, <2>2, StepNone
  <1> QED  BY <1>2, <1>3

\* Behind an edge that is cut at eod, the next iovec.
LEMMA BehindStep ==
    ASSUME NEW v, NEW e, Shape(v, e), e.offt > 0, e = veod,
           e.idx + 1 \in DOMAIN v => ~v[e.idx + 1].base,
           vput \in Nat, NEW s \in Nat, NEW n \in Int, n >= -1, V!PutBehind(v, s, n)
    PROVE  Step(v, e)
  <1> DEFINE x == [v[e.idx] EXCEPT !.len = e.offt]
             w == [v EXCEPT ![e.idx].len = e.offt]
             f == [e EXCEPT !.idx = @ + 1, !.offt = 0]
             u == V!GetSafe(w, f.idx)
  <1>1. /\ e \in Offsets /\ e.idx \in Nat /\ e.offt \in Nat /\ e.total \in Int
        /\ Free(e) = e.idx + 1 /\ IsVector(v)
    BY DEF Shape, Offsets, Free
  <1>2. /\ e.idx \in DOMAIN v /\ v[e.idx].base /\ e.offt =< Len(v[e.idx].str)
        /\ v[e.idx] \in [base : BOOLEAN, len : Nat, str : Seq(Int)]
    <2>1. e.idx \in DOMAIN v /\ v[e.idx].base /\ e.offt =< Len(v[e.idx].str)
      BY <1>1 DEF Shape
    <2> QED  BY <1>1, <2>1, VectorIs
  <1>3. V!PutFresh(u, f, s, n)
    BY DEF V!PutBehind
  <1>4. f \in Offsets /\ f.idx = e.idx + 1 /\ f.offt = 0 /\ f.total = e.total
    <2>1. e \in [idx : Nat, offt : Nat, total : Int] /\ 0 \in Nat
      BY <1>1 DEF Offsets
    <2> DEFINE a == e.idx + 1
               h == [e EXCEPT !.idx = a, !.offt = 0]
    <2>2. a \in Nat
      BY <1>1
    <2> HIDE DEF a
    <2>3. h \in [idx : Nat, offt : Nat, total : Int]
          /\ h.idx = a /\ h.offt = 0 /\ h.total = e.total
      BY ONLY <2>1, <2>2
    <2>4. f = h
      BY DEF a
    <2> HIDE DEF h, f
    <2> QED  BY <2>3, <2>4 DEF a, Offsets
  <1>5. x \in Iovecs /\ x.base /\ x.str = v[e.idx].str /\ x.len = e.offt
    <2>1. /\ x \in [base : BOOLEAN, len : Nat, str : Seq(Int)]
          /\ x.base = v[e.idx].base /\ x.str = v[e.idx].str /\ x.len = e.offt
      BY <1>1, <1>2
    <2> HIDE DEF x
    <2> QED  BY <1>2, <2>1 DEF Iovecs
  <1>6. Replaced(w, v, e.idx, x)
    <2>1. Replaced([v EXCEPT ![e.idx] = x], v, e.idx, x)
      <3> HIDE DEF x
      <3> QED  BY <1>1, <1>2, <1>5, ExceptIs
    <2> QED  BY <1>2, <2>1
  <1>7. w = CutAt(v, e)
    BY DEF CutAt
  <1> HIDE DEF x, w, f
  <1>8. Shape(w, f)
    <2>1. ASSUME NEW i \in 0..Free(f) - 1 PROVE i \in DOMAIN w /\ w[i].base
      <3>1. i \in 0..Free(e) - 1
        BY <1>1, <1>4 DEF Free
      <3>2. i \in DOMAIN v /\ v[i].base
        BY <3>1 DEF Shape
      <3> QED  BY <1>5, <1>6, <3>2 DEF Replaced
    <2> QED  BY <1>4, <1>6, <2>1 DEF Shape, Replaced
  <1>9. Same(v, e, w, f)
    <2>1. Free(f) = Free(e) /\ CutAt(w, f) = w
      BY <1>1, <1>4 DEF Free, CutAt
    <2>2. \A p \in 0..e.idx : All(w, f, p) = All(v, e, p)
      BY <1>7, <2>1 DEF All
    <2>3. f.idx >= e.idx
      BY <1>1, <1>4
    <2> QED  BY <1>1, <1>4, <1>8, <2>2, <2>3 DEF Same
  <1>10. Open(v, e) => Open(w, f)
    <2>1. Free(f) = Free(e)
      BY <1>1, <1>4 DEF Free
    <2>2. ASSUME Open(v, e), NEW i \in DOMAIN w, i >= Free(f) PROVE ~w[i].base
      <3>1. i \in DOMAIN v /\ i \in Nat
        BY <1>1, <1>6, VectorIs DEF Replaced
      <3>2. i # e.idx
        BY <1>1, <2>1, <2>2, <3>1
      <3> QED  BY <1>6, <2>1, <2>2, <3>1, <3>2 DEF Replaced, Open
    <2> QED  BY <2>2 DEF Open
  <1>11. Extends(u, w, Free(f)) /\ f.idx \in DOMAIN u
    <2>1. IsVector(w) /\ f.idx \in Nat /\ Free(f) \in 0..f.idx
      BY <1>1, <1>4, <1>6 DEF Replaced, Free
    <2> QED  BY ONLY <2>1, GetSafeIs
  <1> HIDE DEF u
  <1>12. ~u[f.idx].base
    <2>1. f.idx \in DOMAIN w => ~w[f.idx].base
      <3>1. f.idx \in DOMAIN w => f.idx \in DOMAIN v /\ w[f.idx] = v[f.idx]
        BY <1>1, <1>4, <1>6 DEF Replaced
      <3> QED  BY <1>4, <3>1
    <2> QED  BY <1>11, <2>1, NoIovIs DEF Extends
  <1>13. Shape(u, f) /\ Same(w, f, u, f) /\ (Open(w, f) => Open(u, f))
    BY <1>8, <1>11, SameExtended DEF Same
  <1>14. Step(u, f)
    BY ONLY <1>3, <1>4, <1>11, <1>12, <1>13, PutFreshStep, vput \in Nat, s \in Nat,
            n \in Int, n >= -1
  <1>15. Adds(v, e)
    BY <1>9, <1>13, <1>14, AddsSame DEF Step
  <1> QED  BY <1>10, <1>13, <1>14, <1>15 DEF Step

\* A failed assertion changes nothing else.
Dies == st' = "dead" /\ UNCHANGED <<iov, veod, vpos, vput, wrote, doubt>>

LEMMA NprintfStep ==
    ASSUME Shape(iov, veod), vput \in Nat, NEW s \in Nat, NEW n \in Int, n >= -1, n =< s,
           V!Nprintf(s, n)
    PROVE  \/ Dies /\ ~Open(iov, veod)
           \/ Step(iov, veod) /\ UNCHANGED <<vpos, st, wrote>>
  <1> DEFINE v == V!GetSafe(iov, veod.idx)
             edge == v[veod.idx]
             fits == n < edge.len - veod.offt
             occupied == veod.idx + 1 \in DOMAIN iov /\ iov[veod.idx + 1].base
  <1>1. /\ veod \in Offsets /\ veod.idx \in Nat /\ veod.offt \in Nat /\ veod.total \in Int
        /\ IsVector(iov) /\ Free(veod) = IF veod.offt > 0 THEN veod.idx + 1 ELSE veod.idx
    BY DEF Shape, Offsets, Free
  <1>2. \/ (edge.base # (veod.offt > 0) \/ (edge.base /\ ~fits /\ occupied)) /\ Dies
        \/ /\ ~(edge.base # (veod.offt > 0) \/ (edge.base /\ ~fits /\ occupied))
           /\ IF ~edge.base THEN V!PutFresh(v, veod, s, n)
              ELSE IF fits THEN V!PutText(v, veod, n)
              ELSE V!PutBehind(v, s, n)
           /\ UNCHANGED <<vpos, st, wrote>>
    <2>1. IF edge.base # (veod.offt > 0) \/ (edge.base /\ ~fits /\ occupied)
          THEN V!Die
          ELSE /\ IF ~edge.base THEN V!PutFresh(v, veod, s, n)
                  ELSE IF fits THEN V!PutText(v, veod, n)
                  ELSE V!PutBehind(v, s, n)
               /\ UNCHANGED <<vpos, st, wrote>>
      BY Zenon DEF V!Nprintf
    <2>2. V!Die => Dies
      BY DEF V!Die, Dies
    <2> HIDE DEF edge, fits, occupied, v
    <2> QED  BY <2>1, <2>2
  <1>3. Extends(v, iov, Free(veod)) /\ veod.idx \in DOMAIN v
    <2>1. CASE veod.offt = 0
      <3>1. Free(veod) \in 0..veod.idx
        BY <1>1, <2>1
      <3> QED  BY ONLY <1>1, <3>1, GetSafeIs
    <2>2. CASE veod.offt # 0
      <3>1. veod.idx \in DOMAIN iov
        BY <1>1, <2>2 DEF Shape
      <3>2. v = iov
        BY <3>1 DEF V!GetSafe
      <3> HIDE DEF v
      <3> QED  BY <1>1, <3>1, <3>2 DEF Extends
    <2> QED  BY <2>1, <2>2
  <1> HIDE DEF v
  <1>4. Shape(v, veod) /\ Same(iov, veod, v, veod) /\ (Open(iov, veod) => Open(v, veod))
    BY <1>3, SameExtended DEF Same
  <1>5. edge.base \in BOOLEAN /\ edge.len \in Nat
    BY <1>3, VectorIs DEF Extends
  <1>6. Open(v, veod) /\ Open(iov, veod)
          => edge.base = (veod.offt > 0) /\ (edge.base => ~occupied)
    <2> SUFFICES ASSUME Open(v, veod), Open(iov, veod)
                 PROVE  edge.base = (veod.offt > 0) /\ (edge.base => ~occupied)
      OBVIOUS
    <2>1. veod.offt > 0 => edge.base /\ ~occupied
      <3>1. veod.offt > 0 => edge.base
        BY <1>1, <1>4 DEF Shape
      <3>2. veod.offt > 0 /\ veod.idx + 1 \in DOMAIN iov => ~iov[veod.idx + 1].base
        BY <1>1 DEF Open
      <3> QED  BY <3>1, <3>2
    <2>2. ~(veod.offt > 0) => ~edge.base
      BY <1>1, <1>3 DEF Open
    <2> HIDE DEF edge, occupied
    <2> QED  BY <1>5, <2>1, <2>2
  <1>7. CASE (edge.base # (veod.offt > 0) \/ (edge.base /\ ~fits /\ occupied)) /\ Dies
    <2> HIDE DEF edge, occupied, fits
    <2> QED  BY <1>4, <1>6, <1>7
  <1>8. CASE /\ ~(edge.base # (veod.offt > 0) \/ (edge.base /\ ~fits /\ occupied))
             /\ IF ~edge.base THEN V!PutFresh(v, veod, s, n)
                ELSE IF fits THEN V!PutText(v, veod, n)
                ELSE V!PutBehind(v, s, n)
             /\ UNCHANGED <<vpos, st, wrote>>
    <2>1. edge.base = (veod.offt > 0) /\ ~(edge.base /\ ~fits /\ occupied)
      <3> HIDE DEF edge, occupied, fits
      <3> QED  BY <1>8
    <2>2. Step(v, veod)
      <3>1. CASE ~edge.base
        <4>1. veod.offt = 0 /\ V!PutFresh(v, veod, s, n)
          <5>1. V!PutFresh(v, veod, s, n)
            BY <1>8, <3>1, Zenon
          <5>2. ~(veod.offt > 0)
            <6> HIDE DEF edge
            <6> QED  BY <2>1, <3>1
          <5> QED  BY <1>1, <5>1, <5>2
        <4> QED  BY <1>3, <1>4, <3>1, <4>1, PutFreshStep
      <3>2. CASE edge.base /\ fits
        <4>1. veod.offt > 0 /\ V!PutText(v, veod, n)
          <5> HIDE DEF edge, occupied, fits
          <5> QED  BY <1>1, <1>8, <2>1, <3>2
        <4>2. Ready(v, veod)
          BY <1>4, <4>1, ShapeReady
        <4>3. veod.offt + n =< v[veod.idx].len
          BY <1>1, <1>5, <3>2
        <4>4. /\ doubt \subseteq doubt' /\ Adds(v, veod)
              /\ Sane' /\ (\A i \in DOMAIN v : i > veod.idx => ~v[i].base)
                   => Open(iov', veod')
          BY <4>1, <4>2, <4>3, PutTextStep
        <4>5. ASSUME Open(v, veod), NEW i \in DOMAIN v, i > veod.idx PROVE ~v[i].base
          <5>1. i \in Nat
            BY <1>3, VectorIs DEF Extends
          <5>2. i >= Free(veod)
            BY <1>1, <4>1, <4>5, <5>1
          <5> QED  BY <4>5, <5>2 DEF Open
        <4> QED  BY <4>4, <4>5 DEF Step
      <3>3. CASE edge.base /\ ~fits
        <4>1. veod.offt > 0 /\ V!PutBehind(v, s, n) /\ ~occupied
          <5> HIDE DEF edge, occupied, fits
          <5> QED  BY <1>1, <1>8, <2>1, <3>3
        <4>2. veod.idx + 1 \in DOMAIN v => ~v[veod.idx + 1].base
          BY <1>3, <4>1, NoIovIs DEF Extends
        <4> QED  BY <1>4, <4>1, <4>2, BehindStep
      <3> HIDE DEF edge, fits
      <3> QED  BY <3>1, <3>2, <3>3
    <2>3. Step(iov, veod)
      <3>1. Adds(iov, veod)
        BY <1>4, <2>2, AddsSame DEF Step
      <3> QED  BY <1>4, <2>2, <3>1 DEF Step
    <2> QED  BY <1>8, <2>3
  <1> HIDE DEF edge, fits, occupied
  <1> QED  BY <1>2, <1>7, <1>8

LEMMA FreeIs ==
    ASSUME veod \in Offsets
    PROVE  /\ V!FirstFree = Free(veod) /\ Free(veod) \in Nat
           /\ V!Partial = 1 <=> veod.offt > 0
           /\ veod.offt = 0 => Free(veod) = veod.idx
           /\ V!Cut = CutAt(iov, veod)
           /\ V!Offered = V!Gathered(CutAt(iov, veod), vpos.idx, Free(veod) - vpos.idx)
  <1>1. veod.idx \in Nat /\ veod.offt \in Nat
    BY DEF Offsets
  <1>2. V!Partial = IF veod.offt > 0 THEN 1 ELSE 0
    BY DEF V!Partial
  <1>3. V!FirstFree = Free(veod) /\ Free(veod) \in Nat
    BY <1>1, <1>2 DEF V!FirstFree, Free
  <1>4. V!Cut = CutAt(iov, veod)
    BY <1>2 DEF V!Cut, CutAt
  <1> QED  BY <1>1, <1>2, <1>3, <1>4 DEF V!Offered, Free

LEMMA AdoptStep ==
    ASSUME Shape(iov, veod), vput \in Nat, NEW n \in Nat, V!Adopt(n)
    PROVE  \/ Dies /\ ~Open(iov, veod)
           \/ Step(iov, veod) /\ UNCHANGED <<vpos, st, wrote>>
  <1> DEFINE F == Free(veod)
             v == V!Resized(iov, F + 1)
             x == V!IovOf(V!NextBytes(n))
             u == [v EXCEPT ![F] = x]
  <1>1. /\ veod \in Offsets /\ veod.idx \in Nat /\ veod.offt \in Nat /\ veod.total \in Int
        /\ IsVector(iov)
    BY DEF Shape, Offsets
  <1>2. F \in Nat /\ F + 1 \in Nat /\ (veod.offt = 0 => F = veod.idx) /\ V!FirstFree = F
        /\ (V!Partial = 1 <=> veod.offt > 0) /\ F >= veod.idx
    BY <1>1, FreeIs DEF Free
  <1>3. \/ v[F].base /\ Dies
        \/ /\ ~v[F].base /\ iov' = u
           /\ veod' = [idx |-> veod.idx + 1, offt |-> 0, total |-> veod.total + n]
           /\ vput' = vput + n
           /\ doubt' = doubt \cup {w \in {"behind"} : V!Partial = 1}
           /\ UNCHANGED <<vpos, st, wrote>>
    <2>1. V!Die => Dies
      BY DEF V!Die, Dies
    <2>2. V!FirstFree = F
      BY <1>2
    <2> QED  BY <2>1, <2>2 DEF V!Adopt, V!Doubt
  <1>4. Extends(v, iov, F) /\ DOMAIN v = 0..F
    <2> DEFINE m == F + 1
    <2>1. m \in Nat /\ F \in 0..m /\ m - 1 = F
      BY <1>2
    <2> HIDE DEF m, F
    <2>2. Extends(V!Resized(iov, m), iov, F) /\ DOMAIN V!Resized(iov, m) = 0..m - 1
      BY <1>1, <2>1, ResizedIs
    <2> QED  BY <2>1, <2>2 DEF m
  <1>5. F \in DOMAIN v
    BY <1>2, <1>4
  <1> HIDE DEF v, F
  <1>6. Shape(v, veod) /\ Same(iov, veod, v, veod) /\ (Open(iov, veod) => Open(v, veod))
    BY <1>4, SameExtended DEF Same, F
  <1>7. CASE v[F].base /\ Dies
    <2>1. Open(v, veod) => ~v[F].base
      BY <1>2, <1>5 DEF Open, F
    <2> QED  BY <1>6, <1>7, <2>1
  <1>8. CASE /\ ~v[F].base /\ iov' = u
             /\ veod' = [idx |-> veod.idx + 1, offt |-> 0, total |-> veod.total + n]
             /\ vput' = vput + n
             /\ doubt' = doubt \cup {w \in {"behind"} : V!Partial = 1}
             /\ UNCHANGED <<vpos, st, wrote>>
    <2>1. x \in Iovecs /\ x.base /\ x.len = Len(x.str) /\ Piece(x) = V!NextBytes(n)
          /\ V!NextBytes(n) \in Seq(Int)
      <3> DEFINE nx == V!NextBytes(n)
      <3>1. nx \in Seq(Int)
        BY DEF V!NextBytes
      <3> HIDE DEF nx
      <3>2. x \in Iovecs /\ x.base /\ x.str = nx /\ x.len = Len(nx)
        <4>1. x = V!IovOf(nx)
          BY DEF nx
        <4> QED  BY ONLY <3>1, <4>1, IovOfIs
      <3>3. SubSeq(nx, 1, Len(nx)) = nx
        BY ONLY <3>1, SubSeqFull
      <3> QED  BY <3>1, <3>2, <3>3 DEF Piece, nx
    <2> HIDE DEF x
    <2>2. Sane' \/ Faithful' => veod.offt = 0 /\ veod.idx = F
      <3>1. veod.offt > 0 => "behind" \in doubt'
        BY <1>2, <1>8
      <3>2. "behind" \in doubt' => ~Sane' /\ ~Faithful'
        BY DEF Sane, Faithful
      <3> QED  BY <1>1, <1>2, <3>1, <3>2
    <2>3. /\ veod' \in Offsets /\ veod'.idx = veod.idx + 1 /\ veod'.offt = 0
          /\ veod'.total = veod.total + n /\ Free(veod') = veod.idx + 1
      BY <1>1, <1>8 DEF Offsets, Free
    <2>4. doubt \subseteq doubt' /\ vput' = vput + n
      BY <1>8
    <2>5. ASSUME veod.offt = 0, veod.idx = F
          PROVE  Puts(v, veod, iov', veod', n) /\ (Open(v, veod) => Open(iov', veod'))
      <3>1. iov' = [v EXCEPT ![veod.idx] = x] /\ veod.idx \in DOMAIN v
        BY <1>5, <1>8, <2>5
      <3>2. /\ Ready(iov', veod) /\ Same(v, veod, iov', veod) /\ iov'[veod.idx] = x
            /\ DOMAIN iov' = DOMAIN v
            /\ \A i \in DOMAIN v : i # veod.idx => iov'[i] = v[i]
        BY ONLY <1>6, <2>1, <2>5, <3>1, FreshIs
      <3>3. Shape(iov', veod')
        <4>1. 0..Free(veod') - 1 = 0..veod.idx
          BY <1>1, <2>3
        <4>2. IsVector(iov') /\ \A i \in 0..veod.idx : i \in DOMAIN iov' /\ iov'[i].base
          BY <3>2 DEF Ready
        <4>3. veod' \in Offsets /\ ~(veod'.offt > 0)
          BY <2>3
        <4> QED  BY ONLY <4>1, <4>2, <4>3 DEF Shape
      <3>4. ASSUME NEW p \in 0..veod.idx
            PROVE  All(iov', veod', p) = All(v, veod, p) \o V!NextBytes(n)
        <4> DEFINE k == veod.idx - p
        <4>1. k \in Nat /\ p \in Nat /\ p + k = veod.idx /\ Free(veod') - p = k + 1
              /\ Free(veod) - p = k
          BY <1>1, <2>3, <2>5 DEF F
        <4>2. CutAt(iov', veod') = iov' /\ CutAt(iov', veod) = iov'
          BY <2>3, <2>5 DEF CutAt
        <4> HIDE DEF k
        <4>3. Piece(iov'[p + k]) = V!NextBytes(n) /\ Piece(iov'[p + k]) \in Seq(Int)
          BY <2>1, <3>2, <4>1
        <4>4. V!Gathered(iov', p, k + 1) = V!Gathered(iov', p, k) \o Piece(iov'[p + k])
          BY ONLY <4>1, <4>3, GatheredMore
        <4>5. All(iov', veod', p) = All(iov', veod, p) \o V!NextBytes(n)
          BY ONLY <4>1, <4>2, <4>3, <4>4 DEF All
        <4>6. All(iov', veod, p) = All(v, veod, p)
          BY <3>2 DEF Same
        <4> QED  BY ONLY <4>5, <4>6
      <3>5. Open(v, veod) => Open(iov', veod')
        <4>1. ASSUME Open(v, veod), NEW i \in DOMAIN iov', i >= Free(veod') PROVE ~iov'[i].base
          <5>1. i \in DOMAIN v /\ i \in Nat
            BY <1>6, <3>2, VectorIs DEF Shape
          <5>2. i # veod.idx /\ i >= Free(veod)
            BY <1>1, <2>3, <2>5, <4>1, <5>1 DEF F
          <5> QED  BY <3>2, <4>1, <5>1, <5>2 DEF Open
        <4> QED  BY <4>1 DEF Open
      <3>6. veod'.idx >= veod.idx /\ veod'.total = veod.total + n
        BY <1>1, <2>3
      <3> QED  BY ONLY <3>3, <3>4, <3>5, <3>6 DEF Puts
    <2>6. Adds(v, veod)
      BY <2>2, <2>4, <2>5 DEF Adds
    <2>7. Adds(iov, veod)
      BY <1>6, <2>6, AddsSame
    <2>8. Step(iov, veod)
      BY ONLY <1>6, <2>2, <2>4, <2>5, <2>7 DEF Step
    <2> QED  BY <1>8, <2>8
  <1> HIDE DEF u, x
  <1> QED  BY <1>3, <1>7, <1>8

\* readv(2) finds no room, unless a rewind left some.
LEMMA ReadStep ==
    ASSUME Shape(iov, veod), vput \in Nat, Sane => Open(iov, veod),
           NEW s \in Nat, NEW n \in Int, V!Read(s, n)
    PROVE  Step(iov, veod) /\ UNCHANGED <<vpos, st, wrote>>
  <1> DEFINE F == Free(veod)
             needed == (s + VGrowSz - 1) \div VGrowSz
             m == F + needed
             v == V!Resized(iov, m)
             room(i) == Len(V!Gathered(v, F, i - F))
  <1>1. /\ veod \in Offsets /\ veod.idx \in Nat /\ veod.offt \in Nat /\ veod.total \in Int
        /\ IsVector(iov) /\ F \in Nat /\ V!FirstFree = F
    BY FreeIs DEF Shape, Offsets
  <1>2. /\ needed \in Int /\ needed >= 1
    <2>1. needed \in 1..IovMax - 1
      BY DEF V!Read
    <2> HIDE DEF needed
    <2>2. IovMax \in Nat
      BY VectorAssumption
    <2> QED  BY <2>1, <2>2
  <1>3. n =< room(m)
    BY <1>1 DEF V!Read
  <1>4. \/ n =< 0 /\ iov' = v /\ UNCHANGED <<veod, vput, doubt>>
        \/ n > 0 /\ doubt' = doubt \cup {"read"}
    <2> DEFINE w == V!Resized(iov, V!FirstFree + needed)
    <2>1. n <= 0 => iov' = w /\ UNCHANGED <<veod, vput, doubt>>
      BY Zenon DEF V!Read
    <2>2. ~(n <= 0) => V!Doubt({"read"})
      BY Zenon DEF V!Read
    <2>3. w = v
      BY <1>1
    <2> HIDE DEF w, v
    <2> QED  BY ONLY <2>1, <2>2, <2>3, n \in Int DEF V!Doubt
  <1>5. UNCHANGED <<vpos, st, wrote>>
    BY DEF V!Read
  <1>11. m \in Nat /\ F \in 0..m /\ m - F = needed /\ F + needed = m
    <2> HIDE DEF needed, F
    <2> QED  BY <1>1, <1>2
  <1> HIDE DEF needed, m
  <1>6. Extends(v, iov, F) /\ DOMAIN v = 0..m - 1
    <2> HIDE DEF F
    <2> QED  BY ONLY <1>1, <1>11, ResizedIs
  <1> HIDE DEF v
  <1>7. Shape(v, veod) /\ Same(iov, veod, v, veod) /\ (Open(iov, veod) => Open(v, veod))
    BY <1>6, SameExtended DEF Same
  <1>8. ASSUME Open(v, veod) PROVE n =< 0
    <2>1. m - F = needed /\ needed \in Nat
      BY <1>2, <1>11
    <2>2. ASSUME NEW k \in F..F + needed - 1 PROVE Piece(v[k]) = <<>>
      <3>1. k \in DOMAIN v /\ k >= F
        BY <1>1, <1>2, <1>6, <1>11
      <3>2. ~v[k].base
        BY <1>8, <3>1 DEF Open
      <3>3. /\ v[k] \in [base : BOOLEAN, len : Nat, str : Seq(Int)]
            /\ v[k].len =< Len(v[k].str) /\ v[k].len = 0
        BY <1>6, <3>1, <3>2, VectorIs DEF Extends
      <3> QED  BY ONLY <3>3, PieceIs
    <2> HIDE DEF F
    <2>3. V!Gathered(v, F, needed) = <<>>
      BY ONLY <1>1, <2>1, <2>2, GatheredEmpty
    <2>4. Len(<<>>) = 0
      OBVIOUS
    <2> QED  BY ONLY <1>3, <2>1, <2>3, <2>4
  <1>9. CASE n =< 0 /\ iov' = v /\ UNCHANGED <<veod, vput, doubt>>
    <2>1. Same(iov, veod, iov', veod') /\ (Open(iov, veod) => Open(iov', veod'))
          /\ UNCHANGED <<vput, doubt>>
      BY <1>7, <1>9
    <2> QED  BY <1>5, <2>1, StepNone
  <1>10. CASE n > 0 /\ doubt' = doubt \cup {"read"}
    <2>1. ~Open(v, veod)
      BY <1>8, <1>10
    <2>2. ~Sane
      BY <1>7, <2>1
    <2>3. ~Sane'
      BY <1>10, <2>2 DEF Sane
    <2>4. ~Faithful'
      BY <1>10 DEF Faithful
    <2> QED  BY <1>5, <1>10, <2>3, <2>4 DEF Step, Adds
  <1> QED  BY <1>4, <1>9, <1>10

-----------------------------------------------------------------------------
(* What was written, and what is between pos and eod *)

\* The bytes from the iovec of pos to eod.
Rest == All(iov, veod, vpos.idx)

Linked ==
    /\ wrote \in Seq(Int)
    /\ vpos \in Offsets /\ vpos.idx \in 0..veod.idx /\ vpos.offt =< Len(Rest)
    /\ wrote \o SubSeq(Rest, vpos.offt + 1, Len(Rest)) = Run(vput, vput)
    /\ vpos.total = Len(wrote) /\ veod.total = vput

VInv ==
    /\ Sane => st = "ok" /\ Open(iov, veod)
    /\ Sane \/ Faithful => Shape(iov, veod) /\ vput \in Nat
    /\ Faithful => Linked

LEMMA TailOfConcat ==
    ASSUME NEW s \in Seq(Int), NEW t \in Seq(Int), NEW k \in Nat, k =< Len(s)
    PROVE  SubSeq(s \o t, k + 1, Len(s \o t)) = SubSeq(s, k + 1, Len(s)) \o t
  <1> DEFINE a == SubSeq(s, 1, k)
             b == SubSeq(s, k + 1, Len(s))
             u == SubSeq(s \o t, k + 1, Len(s \o t))
             c == b \o t
  <1>1. Len(s) \in Nat /\ Len(t) \in Nat /\ \A i \in 1..Len(s) : s[i] \in Int
    BY LenProperties, ElementOfSeq
  <1>2. /\ s \o t \in Seq(Int) /\ Len(s \o t) = Len(s) + Len(t)
        /\ \A i \in 1..Len(s) + Len(t) : (s \o t)[i] = IF i =< Len(s) THEN s[i] ELSE t[i - Len(s)]
    BY ConcatProperties
  <1>3. b \in Seq(Int) /\ Len(b) = Len(s) - k /\ \A i \in 1..Len(s) - k : b[i] = s[k + i]
    <2>1. \A i \in k + 1..Len(s) : s[i] \in Int
      BY <1>1
    <2>2. /\ b \in Seq(Int) /\ Len(b) = IF k + 1 <= Len(s) THEN Len(s) - (k + 1) + 1 ELSE 0
          /\ \A i \in 1..Len(s) - (k + 1) + 1 : b[i] = s[(k + 1) + i - 1]
      BY <1>1, <2>1, SubSeqProperties
    <2> HIDE DEF b
    <2> QED  BY <1>1, <2>2
  <1>4. /\ u \in Seq(Int) /\ Len(u) = (Len(s) + Len(t)) - k
        /\ \A i \in 1..(Len(s) + Len(t)) - k : u[i] = (s \o t)[k + i]
    <2> DEFINE r == s \o t
               m == Len(s) + Len(t)
    <2>1. Len(r) = m /\ r \in Seq(Int) /\ m \in Nat /\ k =< m
      BY <1>1, <1>2
    <2> HIDE DEF r, m
    <2>2. \A i \in k + 1..m : r[i] \in Int
      BY <2>1, ElementOfSeq
    <2>3. /\ SubSeq(r, k + 1, m) \in Seq(Int)
          /\ Len(SubSeq(r, k + 1, m)) = IF k + 1 <= m THEN m - (k + 1) + 1 ELSE 0
          /\ \A i \in 1..m - (k + 1) + 1 : SubSeq(r, k + 1, m)[i] = r[(k + 1) + i - 1]
      <3>1. k + 1 \in Int /\ m \in Int
        BY <2>1
      <3> QED  BY ONLY <2>2, <3>1, SubSeqProperties
    <2>4. u = SubSeq(r, k + 1, m)
      BY <2>1 DEF r
    <2> HIDE DEF u
    <2>5. u \in Seq(Int) /\ Len(u) = m - k /\ \A i \in 1..m - k : u[i] = r[k + i]
      BY <2>1, <2>3, <2>4
    <2> QED  BY ONLY <2>5, Zenon DEF r, m
  <1> HIDE DEF b, u
  <1>5. /\ c \in Seq(Int) /\ Len(c) = Len(b) + Len(t)
        /\ \A i \in 1..Len(b) + Len(t) : c[i] = IF i =< Len(b) THEN b[i] ELSE t[i - Len(b)]
    BY <1>3, ConcatProperties
  <1> HIDE DEF c
  <1>6. ASSUME NEW i \in 1..Len(u) PROVE u[i] = c[i]
    <2>1. /\ i \in Nat /\ k + i \in 1..Len(s) + Len(t) /\ u[i] = (s \o t)[k + i]
          /\ i \in 1..Len(b) + Len(t) /\ (k + i) - Len(s) = i - Len(b)
          /\ (k + i =< Len(s) <=> i =< Len(b)) /\ (i =< Len(b) => i \in 1..Len(s) - k)
      BY <1>1, <1>3, <1>4
    <2>2. u[i] = IF i =< Len(b) THEN s[k + i] ELSE t[i - Len(b)]
      BY <1>2, <2>1
    <2>3. c[i] = IF i =< Len(b) THEN s[k + i] ELSE t[i - Len(b)]
      BY <1>3, <1>5, <2>1
    <2> QED  BY <2>2, <2>3
  <1>7. Len(u) = Len(c)
    BY <1>1, <1>3, <1>4, <1>5
  <1>8. u = c
    BY <1>4, <1>5, <1>6, <1>7, SeqEqual
  <1> QED  BY <1>8 DEF u, c, b

LEMMA OfferedIs ==
    ASSUME veod \in Offsets
    PROVE  V!Offered = Rest /\ V!Pending = SubSeq(Rest, vpos.offt + 1, Len(Rest))
  <1>1. V!Offered = Rest
    BY FreeIs DEF Rest, All
  <1> QED  BY <1>1 DEF V!Pending

LEMMA RestSeq ==
    ASSUME Shape(iov, veod), Linked
    PROVE  Rest \in Seq(Int) /\ Len(Rest) \in Nat
           /\ SubSeq(Rest, vpos.offt + 1, Len(Rest)) \in Seq(Int)
  <1>1. Rest \in Seq(Int)
    BY AllSeq DEF Linked, Rest
  <1>2. Len(Rest) \in Nat /\ \A i \in 1..Len(Rest) : Rest[i] \in Int
    BY <1>1, LenProperties, ElementOfSeq
  <1>3. vpos.offt + 1 \in Int /\ \A i \in vpos.offt + 1..Len(Rest) : Rest[i] \in Int
    BY <1>2 DEF Linked, Offsets
  <1>4. Len(Rest) \in Int
    BY <1>2
  <1>5. SubSeq(Rest, vpos.offt + 1, Len(Rest)) \in Seq(Int)
    BY ONLY <1>3, <1>4, SubSeqProperties
  <1> QED  BY <1>1, <1>2, <1>5

\* The bytes that a step puts are behind what is there.
LEMMA StepInv ==
    ASSUME VInv, Step(iov, veod), UNCHANGED <<vpos, st, wrote>>
    PROVE  VInv'
  <1>1. doubt \subseteq doubt'
    BY DEF Step
  <1>2. (Sane' => Sane) /\ (Faithful' => Faithful)
    BY <1>1 DEF Sane, Faithful
  <1>3. Sane' => st' = "ok" /\ Open(iov', veod')
    BY <1>2 DEF VInv, Step
  <1>4. Sane' \/ Faithful' => Shape(iov', veod') /\ vput' \in Nat
    BY <1>2 DEF VInv, Step, Adds, Puts
  <1>5. ASSUME Faithful' PROVE Linked'
    <2>1. Shape(iov, veod) /\ vput \in Nat /\ Linked
      BY <1>2, <1>5 DEF VInv
    <2>2. PICK m \in Nat : Puts(iov, veod, iov', veod', m) /\ vput' = vput + m
      BY <1>5 DEF Step, Adds
    <2> DEFINE R == Rest
               N == V!NextBytes(m)
               k == vpos.offt
               P == SubSeq(R, k + 1, Len(R))
    <2>3. Rest' = R \o N
      BY <2>1, <2>2 DEF Puts, Linked, Rest
    <2>4. R \in Seq(Int) /\ Len(R) \in Nat /\ P \in Seq(Int)
      BY <2>1, RestSeq
    <2>5. N \in Seq(Int) /\ N = [i \in 1..m |-> vput + i - 1]
      BY <2>1 DEF V!NextBytes
    <2>6. /\ wrote \in Seq(Int) /\ k \in Nat /\ k =< Len(R) /\ vpos \in Offsets
          /\ wrote \o P = Run(vput, vput)
          /\ vpos.idx \in 0..veod.idx
      BY <2>1 DEF Linked, Offsets
    <2>12. vpos' = vpos /\ wrote' = wrote /\ veod \in Offsets
           /\ vpos'.total = Len(wrote') /\ veod.total = vput
      BY <2>1 DEF Linked, Shape
    <2> HIDE DEF R, N, k, P
    <2>7. SubSeq(R \o N, k + 1, Len(R \o N)) = P \o N
      BY <2>4, <2>5, <2>6, TailOfConcat DEF P
    <2>8. (wrote \o P) \o N = wrote \o (P \o N)
      <3>1. wrote \in Seq(Int) /\ P \in Seq(Int) /\ N \in Seq(Int)
        BY <2>4, <2>5, <2>6
      <3> QED  BY ONLY <3>1, Concatenated, Zenon
    <2>9. Run(vput + m, vput + m) = Run(vput, vput) \o N
      BY <2>1, <2>5, RunPut
    <2>10. wrote \o (P \o N) = Run(vput', vput')
      BY <2>2, <2>6, <2>8, <2>9
    <2>11. k =< Len(R \o N)
      <3>1. Len(R \o N) = Len(R) + Len(N) /\ Len(N) \in Nat
        BY <2>4, <2>5, ConcatProperties, LenProperties
      <3> QED  BY <2>4, <2>6, <3>1
    <2>13. vpos'.idx \in 0..veod'.idx
      <3>1. veod'.idx \in Nat /\ veod'.idx >= veod.idx /\ veod.idx \in Nat
        BY <2>2, <2>12 DEF Puts, Shape, Offsets
      <3> QED  BY <2>6, <2>12, <3>1
    <2>14. veod'.total = vput'
      BY <2>2, <2>12 DEF Puts
    <2>15. wrote' \o SubSeq(Rest', vpos'.offt + 1, Len(Rest')) = Run(vput', vput')
      BY <2>3, <2>7, <2>10, <2>12 DEF k
    <2>16. vpos'.offt =< Len(Rest')
      BY <2>3, <2>11, <2>12 DEF k
    <2> QED  BY <2>6, <2>12, <2>13, <2>14, <2>15, <2>16 DEF Linked
  <1> QED  BY <1>3, <1>4, <1>5 DEF VInv

LEMMA DiesInv ==
    ASSUME VInv, Dies, ~Open(iov, veod)
    PROVE  VInv'
  <1>1. ~Sane
    BY DEF VInv
  <1> QED  BY <1>1 DEF VInv, Dies, Sane, Faithful, Linked, Rest

LEMMA VWriteInv ==
    ASSUME VInv, NEW n \in Int, V!Write(n)
    PROVE  VInv'
  <1>1. doubt \subseteq doubt' /\ UNCHANGED <<veod, st, vput>>
    BY DEF V!Write, V!Doubt
  <1>2. (Sane' => Sane) /\ (Faithful' => Faithful)
    BY <1>1 DEF Sane, Faithful
  <1>3. ASSUME Shape(iov, veod) PROVE iov' = iov
    <2>1. veod \in Offsets /\ IsVector(iov)
      BY <1>3 DEF Shape
    <2>2. iov' = IF V!Partial = 1 THEN [iov EXCEPT ![veod.idx].len = Len(iov[veod.idx].str)]
                 ELSE iov
      BY DEF V!Write
    <2>3. CASE V!Partial = 1
      <3>1. veod.offt > 0
        BY <2>1, <2>3, FreeIs
      <3>2. iov[veod.idx].len = Len(iov[veod.idx].str)
        BY <1>3, <3>1 DEF Shape
      <3>3. veod.idx \in DOMAIN iov
        BY <1>3, <3>1 DEF Shape, Free, Offsets
      <3>4. iov[veod.idx] \in [base : BOOLEAN, len : Nat, str : Seq(Int)]
        BY <2>1, <3>3, VectorIs
      <3> DEFINE y == iov[veod.idx]
      <3>5. [y EXCEPT !.len = y.len] = y
        <4> HIDE DEF y
        <4> QED  BY <3>4 DEF y
      <3>6. iov = [i \in DOMAIN iov |-> iov[i]]
        BY <2>1, VectorIs
      <3> DEFINE w == [iov EXCEPT ![veod.idx] = y]
      <3>7. w = iov
        <4> HIDE DEF y
        <4> QED  BY <3>6 DEF y
      <3>8. iov' = [iov EXCEPT ![veod.idx].len = y.len]
        BY <2>2, <2>3, <3>2
      <3> QED  BY <3>5, <3>7, <3>8
    <2>4. CASE V!Partial # 1
      BY <2>2, <2>4
    <2> QED  BY <2>3, <2>4
  <1>4. Sane' \/ Faithful' => Shape(iov, veod) /\ vput \in Nat /\ iov' = iov
    BY <1>2, <1>3 DEF VInv
  <1>5. ASSUME Faithful' PROVE Linked'
    <2>1. Shape(iov, veod) /\ vput \in Nat /\ Linked /\ iov' = iov /\ veod \in Offsets
      BY <1>2, <1>4, <1>5 DEF VInv, Shape
    <2>2. Rest \in Seq(Int) /\ Len(Rest) \in Nat
      BY <2>1, RestSeq
    <2>3. V!Offered = Rest
      BY <2>1, OfferedIs
    <2>4. CASE n < 0
      <3>1. UNCHANGED <<iov, veod, vput, vpos, wrote>>
        BY <1>1, <2>1, <2>4 DEF V!Write
      <3> QED  BY <2>1, <3>1 DEF Linked, Rest
    <2>5. CASE ~(n < 0)
      <3>1. /\ vpos' = [idx |-> veod.idx, offt |-> veod.offt, total |-> vpos.total + n]
            /\ wrote' = wrote \o SubSeq(Rest, 1, n)
            /\ V!Doubt({w \in {"short"} : n < Len(Rest)} \cup {w \in {"again"} : vpos.offt > 0})
            /\ n <= Len(Rest)
        BY <2>3, <2>5 DEF V!Write
      <3>2. ~(n < Len(Rest)) /\ ~(vpos.offt > 0)
        <4>1. "short" \notin doubt' /\ "again" \notin doubt'
          BY <1>5 DEF Faithful
        <4> QED  BY <3>1, <4>1 DEF V!Doubt
      <3>3. n = Len(Rest) /\ vpos.offt = 0 /\ vpos.total = Len(wrote) /\ veod.total = vput
            /\ wrote \in Seq(Int) /\ vpos \in Offsets
        BY <2>1, <2>2, <3>1, <3>2 DEF Linked, Offsets
      <3>4. SubSeq(Rest, 1, n) = Rest
        BY <2>2, <3>3, SubSeqFull
      <3>5. wrote \o Rest = Run(vput, vput)
        <4>1. wrote \o SubSeq(Rest, vpos.offt + 1, Len(Rest)) = Run(vput, vput)
          BY <2>1 DEF Linked
        <4>2. vpos.offt + 1 = 1
          BY <3>3
        <4> QED  BY <3>3, <3>4, <4>1, <4>2
      <3>6. wrote' = Run(vput', vput') /\ wrote' \in Seq(Int) /\ Len(wrote') = Len(wrote) + n
        <4>1. wrote' = wrote \o Rest
          BY <3>1, <3>4
        <4> QED  BY <1>1, <2>2, <3>3, <3>5, <4>1, ConcatProperties
      <3>7. /\ vpos' \in Offsets /\ vpos'.idx = veod.idx /\ vpos'.offt = veod.offt
            /\ vpos'.total = vpos.total + n /\ veod.idx \in Nat /\ veod.offt \in Nat
        BY <2>1, <3>1, <3>3 DEF Offsets
      <3>8. Rest' \in Seq(Int) /\ Len(Rest') = veod.offt
        <4>1. Rest' = All(iov, veod, veod.idx)
          BY <1>1, <2>1, <3>7 DEF Rest
        <4>2. CASE veod.offt = 0
          <5>1. Free(veod) - veod.idx = 0
            BY <3>7, <4>2 DEF Free
          <5>2. All(iov, veod, veod.idx) = <<>>
            BY <3>7, <5>1, GatheredNone DEF All
          <5> QED  BY <4>1, <4>2, <5>2, EmptySeq
        <4>3. CASE veod.offt # 0
          <5>1. veod.idx \in DOMAIN iov /\ veod.offt =< Len(iov[veod.idx].str)
                /\ IsVector(iov) /\ veod.idx \in 0..veod.idx
            BY <2>1, <3>7, <4>3 DEF Shape, Free
          <5> DEFINE h == SubSeq(iov[veod.idx].str, 1, veod.offt)
          <5>2. /\ All(iov, veod, veod.idx) = V!Gathered(iov, veod.idx, veod.idx - veod.idx) \o h
                /\ h \in Seq(Int) /\ Len(h) = veod.offt
            BY <2>1, <5>1, AllEdge
          <5> HIDE DEF h
          <5>3. V!Gathered(iov, veod.idx, veod.idx - veod.idx) = <<>>
            <6>1. veod.idx - veod.idx = 0
              BY <3>7
            <6> QED  BY <3>7, <6>1, GatheredNone
          <5>4. All(iov, veod, veod.idx) = h
            BY <5>2, <5>3, ConcatEmptySeq
          <5> QED  BY <4>1, <5>2, <5>4
        <4> QED  BY <4>2, <4>3
      <3>9. SubSeq(Rest', vpos'.offt + 1, Len(Rest')) = <<>>
        BY <3>7, <3>8, SubSeqEmpty
      <3>10. wrote' \o SubSeq(Rest', vpos'.offt + 1, Len(Rest')) = Run(vput', vput')
        BY <3>6, <3>9, ConcatEmptySeq
      <3>11. vpos'.total = Len(wrote') /\ veod'.total = vput' /\ vpos'.offt =< Len(Rest')
             /\ vpos'.idx \in 0..veod'.idx
        BY <1>1, <3>3, <3>6, <3>7, <3>8
      <3> QED  BY <3>6, <3>7, <3>10, <3>11 DEF Linked
    <2> QED  BY <2>4, <2>5
  <1>6. Sane' => st' = "ok" /\ Open(iov', veod')
    BY <1>1, <1>2, <1>4 DEF VInv
  <1>7. Sane' \/ Faithful' => Shape(iov', veod') /\ vput' \in Nat
    BY <1>1, <1>4
  <1> QED  BY <1>5, <1>6, <1>7 DEF VInv

LEMMA EmptyRun ==
    /\ Run(0, 0) = <<>> /\ <<>> \in Seq(Int) /\ Len(<<>>) = 0
    /\ <<>> \o <<>> = <<>>
  <1>1. <<>> \in Seq(Int) /\ Len(<<>>) = 0
    OBVIOUS
  <1>2. <<>> \o <<>> = <<>>
    BY ONLY <1>1, ConcatEmptySeq
  <1>3. 0 \in Nat /\ 0 \in Int
    OBVIOUS
  <1>4. Run(0, 0) = <<>>
    BY ONLY <1>3, RunRestart
  <1> QED  BY <1>1, <1>2, <1>4

\* vbytestream_rewind
LEMMA RewindInv ==
    ASSUME VInv, V!Rewind
    PROVE  VInv'
  <1>1. /\ iov' = [i \in DOMAIN iov |-> [iov[i] EXCEPT !.len = Len(iov[i].str)]]
        /\ veod' = [idx |-> 0, offt |-> 0, total |-> 0]
        /\ vpos' = [idx |-> 0, offt |-> 0, total |-> 0]
        /\ vput' = 0 /\ wrote' = <<>> /\ doubt' = doubt \cup {"rewind"}
    BY DEF V!Rewind, V!Origin, V!Doubt
  <1>2. ~Sane' /\ (Faithful' => Faithful)
    BY <1>1 DEF Sane, Faithful
  <1>3. ASSUME Faithful' PROVE Shape(iov', veod') /\ vput' \in Nat /\ Linked'
    <2>1. IsVector(iov)
      BY <1>2, <1>3 DEF VInv, Shape
    <2>2. PICK n \in Nat : iov \in [0..n - 1 -> Iovecs]
      BY <2>1 DEF IsVector
    <2> DEFINE w == [i \in DOMAIN iov |-> [iov[i] EXCEPT !.len = Len(iov[i].str)]]
    <2>3. ASSUME NEW i \in DOMAIN iov PROVE [iov[i] EXCEPT !.len = Len(iov[i].str)] \in Iovecs
      <3> DEFINE y == iov[i]
                 k == Len(y.str)
                 x == [y EXCEPT !.len = k]
      <3>1. y \in [base : BOOLEAN, len : Nat, str : Seq(Int)] /\ k \in Nat
            /\ (~y.base => y.str = <<>>)
        BY <2>1, VectorIs
      <3> HIDE DEF y
      <3>2. k = Len(y.str)
        OBVIOUS
      <3> HIDE DEF k
      <3>3. x \in [base : BOOLEAN, len : Nat, str : Seq(Int)]
            /\ x.base = y.base /\ x.str = y.str /\ x.len = k
        BY ONLY <3>1
      <3> HIDE DEF x
      <3>4. x \in Iovecs
        BY ONLY <3>1, <3>2, <3>3 DEF Iovecs
      <3> QED  BY <3>4 DEF x, y, k
    <2>4. w \in [0..n - 1 -> Iovecs]
      BY <2>2, <2>3
    <2>5. iov' = w
      BY <1>1
    <2> HIDE DEF w
    <2>6. IsVector(iov')
      BY <2>4, <2>5 DEF IsVector
    <2>7. veod' \in Offsets /\ vpos' \in Offsets /\ veod'.idx = 0 /\ veod'.offt = 0
          /\ vpos'.idx = 0 /\ vpos'.offt = 0 /\ vpos'.total = 0 /\ veod'.total = 0
      BY <1>1 DEF Offsets
    <2>8. Shape(iov', veod') /\ Free(veod') = 0
      BY <2>6, <2>7 DEF Shape, Free
    <2>9. Rest' = <<>>
      <3>1. Free(veod') - vpos'.idx = 0
        BY <2>7, <2>8
      <3>2. V!Gathered(CutAt(iov', veod'), 0, 0) = <<>>
        BY GatheredNone
      <3> QED  BY <2>7, <3>1, <3>2 DEF Rest, All
    <2>10. SubSeq(Rest', vpos'.offt + 1, Len(Rest')) = <<>> /\ Len(Rest') = 0
      BY <2>7, <2>9, SubSeqEmpty
    <2>11. vput' = 0 /\ wrote' = <<>>
      BY <1>1
    <2>13. vpos'.idx \in 0..veod'.idx /\ vpos'.offt =< Len(Rest')
           /\ vpos'.total = Len(wrote') /\ veod'.total = vput'
      BY <2>7, <2>10, <2>11, EmptyRun
    <2>12. Linked'
      BY ONLY <2>7, <2>10, <2>11, <2>13, EmptyRun DEF Linked
    <2> QED  BY <1>1, <2>8, <2>12
  <1> QED  BY <1>2, <1>3 DEF VInv

LEMMA StartIs == V!VStart => VInv
  <1> SUFFICES ASSUME V!VStart PROVE VInv
    OBVIOUS
  <1>1. /\ iov = [i \in {} |-> V!NoIov] /\ st = "ok" /\ vput = 0 /\ wrote = <<>>
        /\ veod = [idx |-> 0, offt |-> 0, total |-> 0]
        /\ vpos = [idx |-> 0, offt |-> 0, total |-> 0]
    BY DEF V!VStart, V!Origin
  <1>2. DOMAIN iov = {} /\ iov \in [0..0 - 1 -> Iovecs]
    BY <1>1
  <1>3. IsVector(iov)
    BY <1>2 DEF IsVector
  <1>4. veod \in Offsets /\ vpos \in Offsets /\ veod.idx = 0 /\ veod.offt = 0
        /\ vpos.idx = 0 /\ vpos.offt = 0 /\ vpos.total = 0 /\ veod.total = 0
    BY <1>1 DEF Offsets
  <1>5. Shape(iov, veod) /\ Open(iov, veod) /\ Free(veod) = 0
    BY <1>2, <1>3, <1>4 DEF Shape, Open, Free
  <1>6. Rest = <<>>
    <2>1. Free(veod) - vpos.idx = 0
      BY <1>4, <1>5
    <2>2. V!Gathered(CutAt(iov, veod), 0, 0) = <<>>
      BY GatheredNone
    <2> QED  BY <1>4, <2>1, <2>2 DEF Rest, All
  <1>7. SubSeq(Rest, vpos.offt + 1, Len(Rest)) = <<>> /\ Len(Rest) = 0
    BY <1>4, <1>6, SubSeqEmpty
  <1>8. vpos.idx \in 0..veod.idx /\ vpos.offt =< Len(Rest)
        /\ vpos.total = Len(wrote) /\ veod.total = vput
    BY <1>1, <1>4, <1>7, EmptyRun
  <1>9. Linked
    BY ONLY <1>1, <1>4, <1>7, <1>8, EmptyRun DEF Linked
  <1> QED  BY <1>1, <1>5, <1>9 DEF VInv

LEMMA VInductive == VInv /\ V!VNext => VInv'
  <1> SUFFICES ASSUME VInv, V!VNext PROVE VInv'
    OBVIOUS
  <1>1. VGrowSz \in Nat /\ VMaxBytes \in Nat
    BY VectorAssumption
  <1>3. ASSUME NEW s \in 1..VGrowSz, NEW n \in -1..s, V!Nprintf(s, n) PROVE VInv'
    <2>1. s \in Nat /\ n \in Int /\ n >= -1 /\ n =< s
      BY <1>1
    <2>2. CASE Sane \/ Faithful
      <3>1. Shape(iov, veod) /\ vput \in Nat
        BY <2>2 DEF VInv
      <3>2. \/ Dies /\ ~Open(iov, veod)
            \/ Step(iov, veod) /\ UNCHANGED <<vpos, st, wrote>>
        BY ONLY <1>3, <2>1, <3>1, NprintfStep
      <3> QED  BY <3>2, DiesInv, StepInv
    <2>3. CASE ~(Sane \/ Faithful)
      <3>1. doubt \subseteq doubt'
        BY <1>3 DEF V!Nprintf, V!Die, V!PutFresh, V!PutText, V!PutBehind, V!Doubt
      <3> QED  BY <2>3, <3>1 DEF VInv, Sane, Faithful
    <2> QED  BY <2>2, <2>3
  <1>4. ASSUME NEW n \in 1..VGrowSz, V!Adopt(n) PROVE VInv'
    <2>1. n \in Nat
      BY <1>1
    <2>2. CASE Sane \/ Faithful
      <3>1. Shape(iov, veod) /\ vput \in Nat
        BY <2>2 DEF VInv
      <3>2. \/ Dies /\ ~Open(iov, veod)
            \/ Step(iov, veod) /\ UNCHANGED <<vpos, st, wrote>>
        BY ONLY <1>4, <2>1, <3>1, AdoptStep
      <3> QED  BY <3>2, DiesInv, StepInv
    <2>3. CASE ~(Sane \/ Faithful)
      <3>1. doubt \subseteq doubt'
        BY <1>4 DEF V!Adopt, V!Die, V!Doubt
      <3> QED  BY <2>3, <3>1 DEF VInv, Sane, Faithful
    <2> QED  BY <2>2, <2>3
  <1>5. ASSUME NEW s \in 1..2 * VGrowSz, NEW n \in -1..VMaxBytes, V!Read(s, n) PROVE VInv'
    <2>1. s \in Nat /\ n \in Int
      BY <1>1
    <2>2. CASE Sane \/ Faithful
      <3>1. Shape(iov, veod) /\ vput \in Nat /\ (Sane => Open(iov, veod))
        BY <2>2 DEF VInv
      <3>2. Step(iov, veod) /\ UNCHANGED <<vpos, st, wrote>>
        BY ONLY <1>5, <2>1, <3>1, ReadStep
      <3> QED  BY <3>2, StepInv
    <2>3. CASE ~(Sane \/ Faithful)
      <3>1. doubt \subseteq doubt'
        BY <1>5 DEF V!Read, V!Doubt
      <3> QED  BY <2>3, <3>1 DEF VInv, Sane, Faithful
    <2> QED  BY <2>2, <2>3
  <1>6. ASSUME NEW n \in -1..2 * VMaxBytes, V!Write(n) PROVE VInv'
    <2>1. n \in Int
      BY <1>1
    <2> QED  BY <1>6, <2>1, VWriteInv
  <1>7. ASSUME V!VRestart PROVE VInv'
    <2>1. V!VStart'
      BY <1>7 DEF V!VRestart, V!VStart, V!Origin
    <2>2. V!VStart' => VInv'
      BY StartIs, PTL
    <2> QED  BY <2>1, <2>2
  <1> QED  BY <1>3, <1>4, <1>5, <1>6, <1>7, RewindInv DEF V!VNext

\* Nothing that a client of a vectored stream does, of any length and in any
\* order, makes an assertion of vbytestream.c fail or loses, repeats or displaces
\* a byte, without one of the uses that VByteStream names; and no choice of
\* growsz, IOV_MAX or the bounds of the model is what it rests on.
THEOREM VectorIsKept == MCSpec => []VectorKept
  <1>1. MCInit => VInv
    BY StartIs DEF MCInit
  <1>2. VInv /\ [MCNext]_<<vars, vsvars, use>> => VInv'
    <2> SUFFICES ASSUME VInv, [MCNext]_<<vars, vsvars, use>> PROVE VInv'
      OBVIOUS
    <2>1. CASE use = "vector" /\ V!VNext
      BY <2>1, VInductive
    <2>2. CASE UNCHANGED vsvars
      BY <2>2 DEF vsvars, VInv, Sane, Faithful, Linked, Rest
    <2>3. UNCHANGED <<vars, vsvars, use>> => UNCHANGED vsvars
      OBVIOUS
    <2> QED  BY <2>1, <2>2, <2>3 DEF MCNext
  <1>3. VInv => VectorKept
    <2> SUFFICES ASSUME VInv PROVE VectorKept
      OBVIOUS
    <2>1. V!AssertionsHold
      BY DEF VInv, Sane, V!AssertionsHold
    <2>2. V!NothingMissing
      <3> SUFFICES ASSUME Faithful
                   PROVE  /\ wrote \o V!Pending = [i \in 1..vput |-> i - 1]
                          /\ vpos.total = Len(wrote) /\ veod.total = vput
        BY DEF V!NothingMissing, Faithful
      <3>1. Linked /\ veod \in Offsets /\ vput \in Nat
        BY DEF VInv, Shape
      <3>2. wrote \o V!Pending = Run(vput, vput)
        BY <3>1, OfferedIs DEF Linked
      <3>3. Run(vput, vput) = [i \in 1..vput |-> i - 1]
        BY <3>1 DEF Run
      <3> QED  BY <3>1, <3>2, <3>3 DEF Linked
    <2> QED  BY <2>1, <2>2 DEF VectorKept, V!VectorKept
  <1> QED  BY <1>1, <1>2, <1>3, PTL DEF MCSpec
=============================================================================
