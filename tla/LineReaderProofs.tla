--------------------------- MODULE LineReaderProofs ---------------------------
(***************************************************************************)
(* bytestream_consume_lines hands out whole lines, misses none, and keeps  *)
(* its memory bounded, for any input, any growsz and any page size.        *)
(*                                                                         *)
(* The argument names bytes by their numbers, which growing and recycling  *)
(* the buffer leave alone: First is the byte line.start stands for, Taken  *)
(* the byte pos stands for.                                                *)
(***************************************************************************)
EXTENDS LineReader, WellFoundedInduction, TLAPS

\* The buffer ends with the last byte that was put, and pos is in it.
Numbered ==
    /\ S!TypeOK
    /\ fault = "none"
    /\ 0 =< pos /\ pos =< eod /\ eod =< put
    /\ \A i \in 0..eod - 1 : data[i] = put - eod + i

Types ==
    /\ nl \subseteq 0..put - 1 /\ told \subseteq nl
    /\ pc \in {"idle", "fill", "scan"}
    /\ from \in 0..put
    /\ pc # "idle" => start \in 0..pos

\* The number of the byte at line.start.
First == put - eod + start

\* A line may start at byte f of a call that began at byte g.
Starts(f, g) == f = g \/ (f > g /\ f - 1 \in nl)

AtStart == pc # "idle" => Starts(First, from) /\ (First..Taken - 1) \cap nl = {}

LineWhole ==
    line # NoLine =>
      \E last \in told : LET first == last - Len(line)
                         IN  /\ line = [i \in 1..Len(line) |-> first + i - 1]
                             /\ (first..last - 1) \cap nl = {}
                             /\ Starts(first, from)

IInv == Numbered /\ Types /\ AtStart /\ LineWhole /\ NoneMissed

-----------------------------------------------------------------------------
(* Numbers *)

\* Rounding down to a multiple goes neither up nor below zero.
LEMMA Division ==
  ASSUME NEW a \in Nat, NEW b \in Nat \ {0}
  PROVE  a - (a % b) \in 0..a
<1>1. a % b \in 0..b - 1 /\ a = b * (a \div b) + (a % b) /\ a \div b \in Nat
  OBVIOUS
<1>2. b * (a \div b) \in Nat
  BY <1>1
<1> QED
  BY <1>1, <1>2

\* The offsets and the numbers they stand for.
LEMMA NumberedFacts ==
  ASSUME Numbered
  PROVE  /\ sz \in Nat /\ put \in Nat /\ eod \in Nat /\ pos \in Nat
         /\ Taken \in 0..put /\ Taken = put - eod + pos
         /\ DOMAIN data = 0..eod - 1
  BY DEF Numbered, S!TypeOK, Taken

\* What the invariant says is what the properties ask.
LEMMA IInvSuffices == IInv => LinesWhole /\ NoneMissed
<1> SUFFICES ASSUME IInv PROVE LinesWhole /\ NoneMissed
  OBVIOUS
<1>1. TypeOK
  BY DEF IInv, Numbered, Types, TypeOK
<1>2. ASSUME pc # "idle" PROVE RecyclePos \in 0..pos
  <2>1. start \in 0..pos /\ pos \in Nat
    BY <1>2, NumberedFacts DEF IInv, Types
  <2>2. RecyclePos \in 0..start
    BY <2>1, Division, LineReaderAssumption DEF RecyclePos
  <2> QED
    BY <2>1, <2>2
<1>3. AtLineStart
  BY <1>2 DEF AtLineStart, IInv, AtStart, Starts, First
<1> QED
  BY <1>1, <1>3 DEF IInv, LinesWhole, LineWhole, Starts

\* SADVANCEPOS by one byte.
LEMMA AdvanceNumbered ==
  ASSUME Numbered, pos < eod, S!AdvancePos(1)
  PROVE  /\ Numbered'
         /\ pos' = pos + 1 /\ eod' = eod /\ put' = put /\ data' = data
         /\ Taken' = Taken + 1
<1>1. /\ pos' = pos + 1 /\ eod' = eod /\ put' = put
      /\ data' = data /\ sz' = sz /\ fault' = fault
  BY DEF S!AdvancePos
<1>2. pos \in Int /\ eod \in Int /\ put \in Int
  BY NumberedFacts
<1>3. Numbered'
  BY <1>1, <1>2 DEF Numbered, S!TypeOK
<1>4. Taken' = put - (eod - (pos + 1))
  BY <1>1 DEF Taken
<1>5. put - (eod - (pos + 1)) = Taken + 1
  BY <1>2 DEF Taken
<1> QED
  BY <1>1, <1>3, <1>4, <1>5

-----------------------------------------------------------------------------
(* Steps that leave the numbers alone *)

\* The reader stays where it is while bytes arrive behind what it knows, or the
\* buffer moves.
LEMMA Kept ==
  ASSUME IInv, Numbered', pc # "idle", pc' \in {"idle", "fill", "scan"},
         pc' # "idle" => start' \in 0..pos',
         NEW upto \in Nat, put' = upto, put =< upto,
         NEW new \in SUBSET (put..upto - 1), nl' = nl \cup new,
         told' = told, line' = line, from' = from,
         First' = First, Taken' = Taken
  PROVE  IInv'
<1>1. put \in Nat /\ Taken \in 0..put
  BY NumberedFacts DEF IInv
<1>2. nl \subseteq 0..put - 1 /\ told \subseteq nl /\ from \in 0..put
  BY DEF IInv, Types
<1>3. \A x \in new : x \in Int /\ x >= put
  BY <1>1
<1>4. Types'
  <2>1. nl' \subseteq 0..upto - 1
    BY <1>1, <1>2
  <2>2. told' \subseteq nl' /\ from' \in 0..upto
    BY <1>1, <1>2
  <2>3. nl' \subseteq 0..put' - 1 /\ from' \in 0..put'
    BY <2>1, <2>2, Zenon
  <2> QED
    BY <2>2, <2>3 DEF Types
<1>5. ASSUME NEW f \in Int, NEW g, Starts(f, g) PROVE Starts(f, g)'
  BY <1>5 DEF Starts
<1>6. ASSUME NEW f \in Int, NEW l \in Int, l =< put, (f..l - 1) \cap nl = {}
      PROVE  (f..l - 1) \cap nl' = {}
  BY <1>1, <1>3, <1>6
<1>7. First \in Int
  <2>1. start \in Int /\ eod \in Int
    BY NumberedFacts DEF IInv, Types
  <2> QED
    BY <1>1, <2>1 DEF First
<1>8. AtStart'
  <2>1. Starts(First, from) /\ (First..Taken - 1) \cap nl = {}
    BY DEF IInv, AtStart
  <2>2. First = from \/ (First > from /\ First - 1 \in nl')
    BY <2>1 DEF Starts
  <2>3. (First..Taken - 1) \cap nl' = {}
    BY <1>1, <1>6, <1>7, <2>1
  <2>4. First' = from' \/ (First' > from' /\ First' - 1 \in nl')
    BY <2>2, Zenon
  <2>5. (First'..Taken' - 1) \cap nl' = {}
    BY <2>3, Zenon
  <2> QED
    BY <2>4, <2>5 DEF AtStart, Starts
<1>9. LineWhole'
  <2>1. SUFFICES ASSUME line # NoLine
        PROVE  \E last \in told : LET first == last - Len(line)
                                  IN  /\ line = [i \in 1..Len(line) |-> first + i - 1]
                                      /\ (first..last - 1) \cap nl' = {}
                                      /\ first = from \/ (first > from /\ first - 1 \in nl')
    BY DEF LineWhole, Starts
  <2>2. PICK last \in told : LET first == last - Len(line)
                             IN  /\ line = [i \in 1..Len(line) |-> first + i - 1]
                                 /\ (first..last - 1) \cap nl = {}
                                 /\ first = from \/ (first > from /\ first - 1 \in nl)
    BY <2>1 DEF IInv, LineWhole, Starts
  <2> DEFINE first == last - Len(line)
  <2>3. last \in Int /\ last =< put
    BY <1>1, <1>2
  <2>4. (first..last - 1) \cap nl' = {}
    BY <1>1, <1>3, <2>2, <2>3
  <2> QED
    BY <2>2, <2>4
<1>10. NoneMissed'
  <2>1. nl \cap (from..Taken - 1) \subseteq told
    BY DEF IInv, NoneMissed
  <2>2. nl' \cap (from..Taken - 1) \subseteq told
    BY <1>1, <1>2, <1>3, <2>1
  <2> QED
    BY <2>2 DEF NoneMissed
<1> QED
  BY <1>4, <1>8, <1>9, <1>10 DEF IInv

-----------------------------------------------------------------------------
(* One lemma per step *)

LEMMA InitInv == Init => IInv
<1> SUFFICES ASSUME Init PROVE IInv
  OBVIOUS
<1>1. /\ data = <<>> /\ sz = GrowSz /\ eod = 0 /\ pos = 0 /\ put = 0 /\ fault = "none"
      /\ nl = {} /\ pc = "idle" /\ start = 0 /\ from = 0 /\ line = NoLine /\ told = {}
  BY DEF Init, S!Init
<1>2. Numbered
  <2>1. DOMAIN data = {} /\ 0..eod - 1 = {}
    BY <1>1
  <2> QED
    BY <1>1, <2>1, LineReaderAssumption DEF Numbered, S!TypeOK
<1>3. Types /\ AtStart /\ LineWhole /\ NoneMissed
  BY <1>1 DEF Types, AtStart, LineWhole, NoneMissed
<1> QED
  BY <1>2, <1>3 DEF IInv

LEMMA CallInv == IInv /\ Call => IInv'
<1> SUFFICES ASSUME IInv, Call PROVE IInv'
  OBVIOUS
<1>1. /\ data' = data /\ sz' = sz /\ eod' = eod /\ pos' = pos /\ put' = put /\ fault' = fault
      /\ nl' = nl /\ pc' = "fill" /\ start' = pos /\ from' = Taken
      /\ line' = NoLine /\ told' = {}
  BY DEF Call, stream
<1>2. Numbered
  BY DEF IInv
<1>3. /\ pos \in Nat /\ put \in Nat /\ eod \in Nat
      /\ Taken \in 0..put /\ Taken = put - eod + pos
  BY <1>2, NumberedFacts
<1>4. Numbered'
  BY <1>1, <1>2 DEF Numbered, S!TypeOK
<1>5. Types'
  BY <1>1, <1>3 DEF IInv, Types
<1>6. Taken' = Taken /\ First' = Taken
  BY <1>1, <1>3 DEF Taken, First
<1>7. (Taken..Taken - 1) = {}
  BY <1>3
<1>8. AtStart'
  <2>1. (First'..Taken' - 1) = {}
    BY <1>6, <1>7, Zenon
  <2>2. First' = from'
    BY <1>1, <1>6
  <2> QED
    BY <2>1, <2>2 DEF AtStart, Starts
<1>9. NoneMissed'
  <2>1. (from'..Taken' - 1) = {}
    BY <1>1, <1>6, <1>7, Zenon
  <2> QED
    BY <2>1 DEF NoneMissed
<1>10. LineWhole'
  BY <1>1 DEF LineWhole, NoLine
<1> QED
  BY <1>4, <1>5, <1>8, <1>9, <1>10 DEF IInv

LEMMA StepOverInv == IInv /\ StepOver => IInv'
<1> SUFFICES ASSUME IInv, StepOver PROVE IInv'
  OBVIOUS
<1>1. /\ pc = "idle" /\ pos < eod /\ S!AdvancePos(1)
      /\ nl' = nl /\ pc' = pc /\ start' = start /\ from' = from /\ line' = line /\ told' = told
  BY DEF StepOver
<1>2. Numbered' /\ put' = put
  BY <1>1, AdvanceNumbered DEF IInv
<1>3. Types' /\ AtStart' /\ NoneMissed'
  BY <1>1, <1>2 DEF IInv, Types, AtStart, NoneMissed
<1>4. LineWhole'
  BY <1>1 DEF IInv, LineWhole, Starts
<1> QED
  BY <1>2, <1>3, <1>4 DEF IInv

LEMMA ScanByteInv == IInv /\ ScanByte => IInv'
<1> SUFFICES ASSUME IInv, ScanByte PROVE IInv'
  OBVIOUS
<1>1. /\ pc = "scan" /\ pos < eod /\ data[pos] \notin nl /\ S!AdvancePos(1)
      /\ nl' = nl /\ pc' = pc /\ start' = start /\ from' = from /\ line' = line /\ told' = told
  BY DEF ScanByte
<1>2. /\ Numbered' /\ put' = put /\ eod' = eod /\ pos' = pos + 1 /\ Taken' = Taken + 1
  BY <1>1, AdvanceNumbered DEF IInv
<1>3. /\ pos \in Nat /\ put \in Nat /\ eod \in Nat
      /\ Taken \in 0..put /\ Taken = put - eod + pos
  BY NumberedFacts DEF IInv
<1>4. data[pos] = Taken
  BY <1>1, <1>3 DEF IInv, Numbered
<1>5. Types'
  <2>1. start \in 0..pos + 1
    BY <1>1, <1>3 DEF IInv, Types
  <2> QED
    BY <1>1, <1>2, <2>1 DEF IInv, Types
<1>6. First' = First /\ First \in Int
  BY <1>1, <1>2, <1>3 DEF First, IInv, Types
<1>7. AtStart'
  <2>1. Starts(First, from) /\ (First..Taken - 1) \cap nl = {}
    BY <1>1 DEF IInv, AtStart
  <2>2. (First..(Taken + 1) - 1) \cap nl = {}
    BY <1>1, <1>3, <1>4, <1>6, <2>1
  <2>3. (First'..Taken' - 1) \cap nl' = {}
    BY <1>1, <1>2, <1>6, <2>2, Zenon
  <2>4. Starts(First, from)'
    BY <1>1, <1>6, <2>1 DEF Starts
  <2> QED
    BY <2>3, <2>4 DEF AtStart
<1>8. NoneMissed'
  <2>1. nl \cap (from..Taken - 1) \subseteq told
    BY <1>1 DEF IInv, NoneMissed
  <2>2. nl \cap (from..(Taken + 1) - 1) \subseteq told
    BY <1>1, <1>3, <1>4, <2>1 DEF IInv, Types
  <2>3. nl' \cap (from'..Taken' - 1) \subseteq told'
    BY <1>1, <1>2, <2>2, Zenon
  <2> QED
    BY <2>3 DEF NoneMissed
<1>9. LineWhole'
  BY <1>1 DEF IInv, LineWhole, Starts
<1> QED
  BY <1>2, <1>5, <1>7, <1>8, <1>9 DEF IInv

\* The line that linecb gets is the one from First to the '\n'.
LEMMA NewlineHanded ==
  ASSUME IInv, NEW stop \in BOOLEAN, ScanNewline(stop)
  PROVE  LineWhole'
<1> DEFINE n == pos - start
           handed == [i \in 1..n |-> data[start + i - 1]]
<1>1. /\ pc = "scan" /\ pos < eod /\ data[pos] \in nl
      /\ line' = handed /\ told' = told \cup {data[pos]}
      /\ nl' = nl /\ from' = from
  BY DEF ScanNewline
<1>2. /\ pos \in Nat /\ put \in Nat /\ eod \in Nat
      /\ Taken \in 0..put /\ Taken = put - eod + pos
  BY NumberedFacts DEF IInv
<1>3. start \in Nat /\ n \in Nat /\ start + n = pos
  BY <1>1, <1>2 DEF IInv, Types
<1>4. data[pos] = Taken
  BY <1>1, <1>2 DEF IInv, Numbered
<1>5. Starts(First, from) /\ (First..Taken - 1) \cap nl = {}
  BY <1>1 DEF IInv, AtStart
<1>6. First = Taken - n /\ First \in Int
  BY <1>2, <1>3 DEF First
<1>7. \A i \in 1..n : data[start + i - 1] = First + i - 1
  <2>1. ASSUME NEW i \in 1..n PROVE data[start + i - 1] = First + i - 1
    <3>1. start + i - 1 \in 0..eod - 1
      BY <1>1, <1>2, <1>3
    <3>2. data[start + i - 1] = put - eod + (start + i - 1)
      BY <3>1 DEF IInv, Numbered
    <3> QED
      BY <1>2, <1>3, <3>2 DEF First
  <2> QED
    BY <2>1
<1>8. handed = [i \in 1..n |-> First + i - 1]
  BY <1>7
<1>9. Len(handed) = n
  <2>1. handed \in Seq(Int) /\ DOMAIN handed = 1..n
    <3>1. n \in Nat /\ \A i \in 1..n : First + i - 1 \in Int
      BY ONLY <1>3, <1>6
    <3> HIDE DEF handed
    <3> QED
      BY ONLY <1>8, <3>1
  <2> QED
    BY <1>3, <2>1
<1> HIDE DEF handed, n
<1>10. LET first == Taken - Len(handed)
       IN  /\ handed = [i \in 1..Len(handed) |-> first + i - 1]
           /\ (first..Taken - 1) \cap nl = {}
           /\ first = from \/ (first > from /\ first - 1 \in nl)
  BY <1>5, <1>6, <1>8, <1>9 DEF Starts
<1>11. \E last \in told \cup {data[pos]} :
         LET first == last - Len(handed)
         IN  /\ handed = [i \in 1..Len(handed) |-> first + i - 1]
             /\ (first..last - 1) \cap nl = {}
             /\ first = from \/ (first > from /\ first - 1 \in nl)
  BY <1>4, <1>10
<1>12. \E last \in told' :
         LET first == last - Len(line')
         IN  /\ line' = [i \in 1..Len(line') |-> first + i - 1]
             /\ (first..last - 1) \cap nl' = {}
             /\ first = from' \/ (first > from' /\ first - 1 \in nl')
  BY <1>1, <1>11, Zenon
<1> QED
  BY <1>12 DEF LineWhole, Starts

LEMMA ScanNewlineInv ==
  ASSUME IInv, NEW stop \in BOOLEAN, ScanNewline(stop)
  PROVE  IInv'
<1>1. /\ pc = "scan" /\ pos < eod /\ data[pos] \in nl
      /\ told' = told \cup {data[pos]}
      /\ nl' = nl /\ from' = from
  BY DEF ScanNewline
<1>2. /\ pos \in Nat /\ put \in Nat /\ eod \in Nat
      /\ Taken \in 0..put /\ Taken = put - eod + pos
  BY NumberedFacts DEF IInv
<1>3. data[pos] = Taken
  BY <1>1, <1>2 DEF IInv, Numbered
<1>4. LineWhole'
  BY NewlineHanded
<1>5. CASE stop
  <2>1. /\ data' = data /\ sz' = sz /\ eod' = eod /\ pos' = pos /\ put' = put /\ fault' = fault
        /\ pc' = "idle"
    BY <1>5 DEF ScanNewline, stream
  <2>2. Numbered'
    BY <2>1 DEF IInv, Numbered, S!TypeOK
  <2>3. Types'
    BY <1>1, <2>1 DEF IInv, Types
  <2>4. AtStart' /\ NoneMissed'
    BY <2>1 DEF AtStart, NoneMissed
  <2> QED
    BY <1>4, <2>2, <2>3, <2>4 DEF IInv
<1>6. CASE ~stop
  <2>1. S!AdvancePos(1) /\ start' = pos + 1 /\ pc' = pc
    BY <1>6 DEF ScanNewline
  <2>2. Numbered' /\ put' = put /\ eod' = eod /\ pos' = pos + 1 /\ Taken' = Taken + 1
    BY <1>1, <2>1, AdvanceNumbered DEF IInv
  <2>3. Types'
    <3>1. pos + 1 \in 0..pos + 1
      BY <1>2
    <3> QED
      BY <1>1, <2>1, <2>2, <3>1 DEF IInv, Types
  <2>4. First' = Taken + 1
    <3>1. First' = put - eod + (pos + 1)
      BY <2>1, <2>2, Zenon DEF First
    <3> QED
      BY <1>2, <3>1
  <2>5. AtStart'
    <3>1. First >= from /\ First =< Taken /\ from \in Int /\ First \in Int
      BY <1>1, <1>2 DEF IInv, AtStart, Types, Starts, First
    <3>2. Taken + 1 > from /\ (Taken + 1) - 1 \in nl /\ (Taken + 1..(Taken + 1) - 1) \cap nl = {}
      BY <1>1, <1>2, <1>3, <3>1
    <3>3. First' > from' /\ First' - 1 \in nl' /\ (First'..Taken' - 1) \cap nl' = {}
      BY <1>1, <2>2, <2>4, <3>2, Zenon
    <3> QED
      BY <3>3 DEF AtStart, Starts
  <2>6. NoneMissed'
    <3>1. nl \cap (from..Taken - 1) \subseteq told
      BY <1>1 DEF IInv, NoneMissed
    <3>2. nl \cap (from..(Taken + 1) - 1) \subseteq told \cup {data[pos]}
      BY <1>1, <1>2, <1>3, <3>1 DEF IInv, Types
    <3>3. nl' \cap (from'..Taken' - 1) \subseteq told'
      BY <1>1, <2>2, <3>2, Zenon
    <3> QED
      BY <3>3 DEF NoneMissed
  <2> QED
    BY <1>4, <2>2, <2>3, <2>5, <2>6 DEF IInv
<1> QED
  BY <1>5, <1>6

\* bytestream_recycle moves whole pages out from in front of the line, and
\* line.start along.
LEMMA RecycleLinesInv == IInv /\ RecycleLines => IInv'
<1> SUFFICES ASSUME IInv, RecycleLines PROVE IInv'
  OBVIOUS
<1> DEFINE off == RecyclePos - (RecyclePos % PageSz)
<1>1. /\ pc = "scan" /\ pos = eod /\ S!Recycle(2, RecyclePos)
      /\ start' = start - (pos - pos') /\ pc' = "fill"
      /\ nl' = nl /\ from' = from /\ line' = line /\ told' = told
  BY DEF RecycleLines
<1>2. /\ sz \in Nat /\ pos \in Nat /\ put \in Nat /\ eod \in Nat /\ eod =< put
      /\ Taken \in 0..put /\ Taken = put - eod + pos
  BY NumberedFacts DEF IInv, Numbered
<1>3. start \in 0..pos
  BY <1>1 DEF IInv, Types
<1>4. off \in 0..start
  <2>1. RecyclePos \in 0..start
    BY <1>2, <1>3, Division, LineReaderAssumption DEF RecyclePos
  <2>2. off \in 0..RecyclePos
    BY <1>3, <2>1, Division, LineReaderAssumption
  <2> QED
    BY <1>2, <1>3, <2>1, <2>2
<1>5. sz' = sz /\ put' = put /\ fault' = fault
  BY <1>1 DEF S!Recycle
<1>6. PICK o \in 0..start :
        /\ pos' = pos - o /\ eod' = eod - o
        /\ \/ data' = [i \in 0..(eod - o) - 1 |-> data[i + o]]
           \/ o = 0 /\ data' = data
  <2>1. CASE off > GrowSz * 2
    <3>1. /\ pos' = pos - off /\ eod' = eod - off
          /\ data' = [i \in 0..eod - off - 1 |-> data[i + off]]
      BY <1>1, <2>1 DEF S!Recycle
    <3> HIDE DEF off
    <3> QED
      BY <1>4, <3>1
  <2>2. CASE ~(off > GrowSz * 2)
    <3>1. pos' = pos /\ eod' = eod /\ data' = data
      BY <1>1, <2>2 DEF S!Recycle
    <3>2. 0 \in 0..start /\ pos - 0 = pos /\ eod - 0 = eod
      BY <1>2, <1>3
    <3> QED
      BY <3>1, <3>2
  <2> QED
    BY <2>1, <2>2
<1>7. start' = start - o
  <2>1. start' = start - (pos - (pos - o))
    BY <1>1, <1>6, Zenon
  <2> QED
    BY <1>2, <1>3, <1>6, <2>1
<1>8. Numbered'
  <2>1. /\ pos - o \in Nat /\ eod - o \in Nat /\ pos - o =< eod - o /\ eod - o =< put
    BY <1>1, <1>2, <1>3, <1>6
  <2>2. (S!TypeOK)'
    <3>1. DOMAIN data' = 0..(eod - o) - 1
      BY <1>2, <1>6, NumberedFacts DEF IInv
    <3>2. DOMAIN data' = 0..eod' - 1
      BY <1>6, <3>1, Zenon
    <3> QED
      BY <1>2, <1>5, <1>6, <2>1, <3>2 DEF IInv, Numbered, S!TypeOK
  <2>3. ASSUME NEW i \in 0..(eod - o) - 1
        PROVE  data'[i] = put - (eod - o) + i
    <3>1. i + o \in 0..eod - 1
      BY <1>2, <1>3, <2>3
    <3>2. data[i + o] = put - eod + (i + o)
      BY <3>1 DEF IInv, Numbered
    <3>3. put - eod + (i + o) = put - (eod - o) + i
      BY <1>2, <1>3, <2>3
    <3>4. data'[i] = data[i + o]
      <4>1. CASE data' = [j \in 0..(eod - o) - 1 |-> data[j + o]]
        BY <4>1, <2>3
      <4>2. CASE o = 0 /\ data' = data
        <5>1. i + o = i
          BY <2>3, <4>2
        <5> QED
          BY <4>2, <5>1, Zenon
      <4> QED
        BY <1>6, <4>1, <4>2
    <3> QED
      BY <3>2, <3>3, <3>4
  <2>4. \A i \in 0..eod' - 1 : data'[i] = put' - eod' + i
    BY <1>5, <1>6, <2>3, Zenon
  <2>5. fault' = "none" /\ 0 =< pos' /\ pos' =< eod' /\ eod' =< put'
    BY <1>5, <1>6, <2>1 DEF IInv, Numbered
  <2> QED
    BY <2>2, <2>4, <2>5 DEF Numbered
<1>9. First' = First
  <2>1. First' = put - (eod - o) + (start - o)
    BY <1>5, <1>6, <1>7, Zenon DEF First
  <2> QED
    BY <1>2, <1>3, <2>1 DEF First
<1>10. Taken' = Taken
  <2>1. Taken' = put - ((eod - o) - (pos - o))
    BY <1>5, <1>6, Zenon DEF Taken
  <2> QED
    BY <1>2, <1>3, <2>1 DEF Taken
<1>11. start' \in 0..pos'
  <2>1. start - o \in 0..pos - o
    BY <1>2, <1>3
  <2> QED
    BY <1>6, <1>7, <2>1, Zenon
<1>12. {} \in SUBSET (put..put - 1) /\ nl' = nl \cup {} /\ put =< put
  BY <1>1, <1>2
<1> QED
  BY <1>1, <1>2, <1>5, <1>8, <1>9, <1>10, <1>11, <1>12, Kept

\* bytestream_consume_data makes room and puts what read(2) gave behind eod.
LEMMA ConsumeNumbered ==
  ASSUME Numbered, NEW nread \in Int, S!ConsumeData(nread)
  PROVE  /\ Numbered' /\ pos' = pos
         /\ \E n \in Nat : eod' = eod + n /\ put' = put + n
<1>1. /\ sz \in Nat /\ put \in Nat /\ eod \in Nat /\ pos \in Nat
      /\ DOMAIN data = 0..eod - 1 /\ pos =< eod /\ eod =< put
  BY NumberedFacts DEF Numbered
<1>2. S!Wanted \in Nat
  BY <1>1, LineReaderAssumption DEF S!Wanted
<1>3. S!Grown(S!Wanted) \in Nat
  <2>1. ASSUME NEW w \in Nat PROVE S!Grown(w) \in Nat
    BY <1>1, <2>1, LineReaderAssumption DEF S!Grown, S!Larger
  <2> QED
    BY <1>2, <2>1
<1>4. sz' = S!Grown(S!Wanted) /\ pos' = pos /\ fault' = fault
  BY DEF S!ConsumeData, S!ReadMore
<1>5. PICK n \in Nat :
        /\ eod' = eod + n /\ put' = put + n
        /\ \/ data' = [i \in 0..eod + n - 1 |-> IF i < eod THEN data[i] ELSE put + i - eod]
           \/ n = 0 /\ data' = data
  <2>1. CASE nread >= 0
    <3>1. /\ eod' = eod + nread /\ put' = put + nread
          /\ data' = [i \in 0..eod + nread - 1 |-> IF i < eod THEN data[i] ELSE put + i - eod]
      BY <2>1 DEF S!ConsumeData, S!ReadMore, S!Put
    <3>2. nread \in Nat
      BY <2>1
    <3> QED
      BY <3>1, <3>2
  <2>2. CASE ~(nread >= 0)
    <3>1. eod' = eod /\ put' = put /\ data' = data
      BY <2>2 DEF S!ConsumeData, S!ReadMore
    <3>2. 0 \in Nat /\ eod + 0 = eod /\ put + 0 = put
      BY <1>1
    <3> QED
      BY <3>1, <3>2
  <2> QED
    BY <2>1, <2>2
<1>6. ASSUME NEW i \in 0..(eod + n) - 1
      PROVE  data'[i] = put - eod + i
  <2>1. i < eod => data[i] = put - eod + i
    BY <1>1, <1>5 DEF Numbered
  <2>2. CASE data' = [j \in 0..eod + n - 1 |-> IF j < eod THEN data[j] ELSE put + j - eod]
    <3>1. data'[i] = IF i < eod THEN data[i] ELSE put + i - eod
      <4>1. i \in 0..eod + n - 1
        BY <1>1, <1>5, <1>6
      <4> QED
        BY <2>2, <4>1
    <3> QED
      BY <1>1, <1>6, <2>1, <3>1
  <2>3. CASE n = 0 /\ data' = data
    <3>1. i < eod
      BY <1>1, <2>3
    <3> QED
      BY <2>1, <2>3, <3>1
  <2> QED
    BY <1>5, <2>2, <2>3
<1>7. \A i \in 0..eod' - 1 : data'[i] = put' - eod' + i
  <2>1. (put + n) - (eod + n) = put - eod
    BY <1>1, <1>5
  <2>2. \A i \in 0..(eod + n) - 1 : data'[i] = (put + n) - (eod + n) + i
    BY <1>6, <2>1, Zenon
  <2>3. eod' = eod + n /\ put' = put + n
    BY <1>5
  <2> QED
    BY <2>2, <2>3, Zenon
<1>8. (S!TypeOK)'
  <2>1. DOMAIN data' = 0..(eod + n) - 1
    BY <1>1, <1>5
  <2>2. DOMAIN data' = 0..eod' - 1
    BY <1>5, <2>1, Zenon
  <2>3. sz' \in Nat /\ put' \in Nat /\ eod' \in Int /\ pos' \in Int
    BY <1>1, <1>3, <1>4, <1>5
  <2> QED
    BY <1>4, <2>2, <2>3 DEF Numbered, S!TypeOK
<1>9. fault' = "none" /\ 0 =< pos' /\ pos' =< eod' /\ eod' =< put'
  BY <1>1, <1>4, <1>5 DEF Numbered
<1>10. Numbered'
  BY <1>7, <1>8, <1>9 DEF Numbered
<1> QED
  BY <1>4, <1>5, <1>10

LEMMA FillInv == IInv /\ Fill => IInv'
<1> SUFFICES ASSUME IInv, Fill PROVE IInv'
  OBVIOUS
<1>1. /\ pc = "fill"
      /\ start' = start /\ from' = from /\ line' = line /\ told' = told
  BY DEF Fill
<1>2. /\ sz \in Nat /\ pos \in Nat /\ put \in Nat /\ eod \in Nat
      /\ pos =< eod /\ eod =< put
  BY NumberedFacts DEF IInv, Numbered
<1>3. start \in 0..pos
  BY <1>1 DEF IInv, Types
<1>4. CASE pos < eod
  <2>1. /\ data' = data /\ sz' = sz /\ eod' = eod /\ pos' = pos /\ put' = put /\ fault' = fault
        /\ pc' = "scan" /\ nl' = nl
    BY <1>4 DEF Fill, stream
  <2>2. Numbered'
    BY <2>1 DEF IInv, Numbered, S!TypeOK
  <2>3. First' = First /\ Taken' = Taken
    BY <1>1, <2>1 DEF First, Taken
  <2>4. {} \in SUBSET (put..put - 1) /\ nl' = nl \cup {} /\ put =< put
    BY <1>2, <2>1
  <2> QED
    BY <1>1, <1>2, <1>3, <2>1, <2>2, <2>3, <2>4, Kept
<1>5. CASE ~(pos < eod)
  <2>1. PICK nread \in -1..Min({S!Wanted, Room}) :
          /\ S!ConsumeData(nread)
          /\ \E new \in SUBSET (put..put' - 1) : nl' = nl \cup new
          /\ pc' = IF nread > 0 THEN "scan" ELSE "idle"
    BY <1>5 DEF Fill
  <2>2. nread \in Int
    BY <2>1
  <2>3. Numbered' /\ pos' = pos /\ \E n \in Nat : eod' = eod + n /\ put' = put + n
    BY <2>1, <2>2, ConsumeNumbered DEF IInv
  <2>4. PICK n \in Nat : eod' = eod + n /\ put' = put + n
    BY <2>3
  <2>5. PICK new \in SUBSET (put..(put + n) - 1) : nl' = nl \cup new
    BY <2>1, <2>4, Zenon
  <2>6. put + n \in Nat /\ put =< put + n
    BY <1>2, <2>4
  <2>7. First' = First
    <3>1. First' = (put + n) - (eod + n) + start
      BY <1>1, <2>4, Zenon DEF First
    <3> QED
      BY <1>2, <1>3, <2>4, <3>1 DEF First
  <2>8. Taken' = Taken
    <3>1. Taken' = (put + n) - ((eod + n) - pos)
      BY <2>3, <2>4, Zenon DEF Taken
    <3> QED
      BY <1>2, <2>4, <3>1 DEF Taken
  <2>9. pc' \in {"idle", "fill", "scan"} /\ start' \in 0..pos'
    BY <1>1, <1>3, <2>1, <2>3
  <2> QED
    BY <1>1, <2>3, <2>4, <2>5, <2>6, <2>7, <2>8, <2>9, Kept
<1> QED
  BY <1>4, <1>5

LEMMA StepInv == IInv /\ [Next]_vars => IInv'
<1> SUFFICES ASSUME IInv, [Next]_vars PROVE IInv'
  OBVIOUS
<1>1. ASSUME UNCHANGED vars PROVE IInv'
  BY <1>1 DEF IInv, Numbered, S!TypeOK, Types, AtStart, Starts, First, Taken,
              LineWhole, NoneMissed, vars
<1>2. ASSUME NEW stop \in BOOLEAN, ScanNewline(stop) PROVE IInv'
  BY <1>2, ScanNewlineInv
<1> QED
  BY <1>1, <1>2, CallInv, StepOverInv, FillInv, ScanByteInv, RecycleLinesInv
     DEF Next, Reader

\* What linecb gets is one whole line, from behind the last '\n' or the first byte
\* of the call up to the next '\n', each byte of it in order, and every line that
\* the reader went past was handed out: through any growth and recycling of
\* the buffer, any short read, and callbacks that stop the call.
THEOREM LinesAreWhole == Spec => []LinesWhole
<1>1. Spec => []IInv
  BY InitInv, StepInv, PTL DEF Spec
<1>2. IInv => LinesWhole
  BY IInvSuffices
<1> QED
  BY <1>1, <1>2, PTL

\* Whatever the input and however it is cut into reads, there is no '\n' among the
\* bytes passed in a call whose line was kept from linecb.
THEOREM NoLineIsMissed == Spec => []NoneMissed
<1>1. Spec => []IInv
  BY InitInv, StepInv, PTL DEF Spec
<1>2. IInv => NoneMissed
  BY IInvSuffices
<1> QED
  BY <1>1, <1>2, PTL

-----------------------------------------------------------------------------
(* The memory of one call.  After a recycling less than three growsz and a *)
(* page lie in front of the line, growing adds less than two growsz to what *)
(* is in the buffer, and all of the line is without a '\n'.                *)

\* Bytes a to b are part of one line.
Runs == {ab \in (0..put - 1) \X (0..put - 1) : (ab[1]..ab[2]) \cap nl = {}}
Lengths == {0} \cup {ab[2] - ab[1] + 1 : ab \in Runs}

Recycled == (pc = "fill" /\ from = 0) => start =< 3 * GrowSz + PageSz - 2

MInv == IInv /\ eod =< sz /\ from =< Taken /\ Recycled /\ MemoryBounded

LEMMA MaxIs ==
  ASSUME NEW T \in SUBSET Int, NEW t \in T, NEW u \in Int, \A x \in T : x =< u
  PROVE  Max(T) \in T /\ \A x \in T : x =< Max(T)
<1> DEFINE R == {ss \in Nat \X Nat : ss[1] < ss[2]}
           D == {u - x : x \in T}
<1>1. IsWellFoundedOn(R, Nat)
  BY NatLessThanWellFounded DEF OpToRel
<1>2. \A x, y \in Nat : y < x => <<y, x>> \in R
  OBVIOUS
<1>3. D \subseteq Nat /\ D # {}
  OBVIOUS
<1>4. \A x \in T : u - x \in D
  OBVIOUS
<1>5. \A d \in D : u - d \in T /\ u - d \in Int
  OBVIOUS
<1> HIDE DEF R, D
<1>6. PICK d \in D : \A e \in D : <<e, d>> \notin R
  BY <1>1, <1>3, WFMin
<1>7. \A e \in D : ~(e < d)
  BY <1>2, <1>3, <1>6
<1>8. \A x \in T : u - d >= x
  BY <1>3, <1>4, <1>7
<1>9. \E m \in T : \A x \in T : m >= x
  BY <1>5, <1>8
<1>10. Max(T) \in T /\ \A x \in T : Max(T) >= x
  BY <1>9 DEF Max
<1> QED
  BY <1>10

\* Longest is a length, and no run is longer.
LEMMA LongestIs ==
  put \in Nat => /\ Longest \in Lengths /\ Longest \in Nat
                 /\ \A x \in Lengths : x \in Int /\ x =< Longest
<1> SUFFICES ASSUME put \in Nat
    PROVE  /\ Longest \in Lengths /\ Longest \in Nat
           /\ \A x \in Lengths : x \in Int /\ x =< Longest
  OBVIOUS
<1>1. Lengths \subseteq Int /\ \A x \in Lengths : x =< put
  BY DEF Lengths, Runs
<1>2. 0 \in Lengths
  BY DEF Lengths
<1>3. Longest = Max(Lengths)
  BY Zenon DEF Longest, Lengths, Runs
<1>4. Max(Lengths) \in Lengths /\ \A x \in Lengths : x =< Max(Lengths)
  BY <1>1, <1>2, MaxIs
<1>5. Longest \in Lengths /\ \A x \in Lengths : x =< Longest
  BY <1>3, <1>4, Zenon
<1>6. \A x \in Lengths : x \in Int
  BY <1>1
<1>7. Longest \in Int /\ 0 =< Longest
  BY <1>2, <1>5, <1>6
<1> QED
  BY <1>5, <1>6, <1>7

\* A run is at most as long as the longest line.
LEMMA RunFits ==
  ASSUME put \in Nat, NEW a \in Nat, NEW b \in Nat, a =< b, b =< put,
         (a..b - 1) \cap nl = {}
  PROVE  b - a =< Longest
<1>1. CASE a = b
  BY <1>1, LongestIs
<1>2. CASE a < b
  <2>1. <<a, b - 1>> \in Runs
    BY <1>2 DEF Runs
  <2>2. b - 1 - a + 1 \in Lengths
    BY <2>1 DEF Lengths
  <2> QED
    BY <2>2, LongestIs
<1> QED
  BY <1>1, <1>2

\* Lines only grow.
LEMMA LongestGrows ==
  ASSUME put \in Nat, NEW upto \in Nat, put' = upto, put =< upto,
         NEW new \in SUBSET (put..upto - 1), nl' = nl \cup new
  PROVE  Longest =< Longest' /\ Longest' \in Nat
<1>1. Longest' \in Nat /\ \A x \in Lengths' : x =< Longest'
  <2>1. (put \in Nat)' => (/\ Longest \in Lengths /\ Longest \in Nat
                           /\ \A x \in Lengths : x \in Int /\ x =< Longest)'
    BY LongestIs, PTL
  <2> QED
    BY <2>1
<1>2. Longest \in Lengths
  BY LongestIs
<1>3. Runs \subseteq Runs'
  <2>1. ASSUME NEW ab \in Runs
        PROVE ab \in (0..upto - 1) \X (0..upto - 1) /\ (ab[1]..ab[2]) \cap (nl \cup new) = {}
    BY DEF Runs
  <2> QED
    BY <2>1 DEF Runs
<1>4. Lengths \subseteq Lengths'
  BY <1>3 DEF Lengths
<1> QED
  BY <1>1, <1>2, <1>4

-----------------------------------------------------------------------------
(* The memory, step by step *)

\* Nothing is put and nothing grows.
LEMMA StillBounded ==
  ASSUME MInv, IInv', put' = put, nl' = nl, sz' = sz, eod' =< eod,
         from' = from, from' =< Taken', Recycled'
  PROVE  MInv'
<1>1. sz \in Nat /\ put \in Nat /\ eod \in Nat
  BY NumberedFacts DEF MInv, IInv
<1>2. eod' \in Nat
  <2>1. IInv' => (eod' \in Nat)
    BY DEF IInv, Numbered, S!TypeOK
  <2> QED  BY <2>1
<1>3. Longest' = Longest
  BY Zenon DEF Longest
<1>4. Longest \in Nat
  BY <1>1, LongestIs
<1>5. MemoryBounded'
  BY <1>1, <1>3, <1>4 DEF MInv, MemoryBounded
<1>6. eod' =< sz'
  BY <1>1, <1>2 DEF MInv
<1> QED
  BY <1>5, <1>6 DEF MInv

LEMMA CallBounded == MInv /\ Call => MInv'
<1> SUFFICES ASSUME MInv, Call PROVE MInv'
  OBVIOUS
<1>1. IInv'
  BY CallInv DEF MInv
<1>2. /\ put' = put /\ nl' = nl /\ sz' = sz /\ eod' = eod
      /\ from' = Taken /\ start' = pos
  BY DEF Call, stream
<1>3. /\ eod \in Nat /\ pos \in Nat /\ Taken = put - eod + pos /\ put \in Nat /\ eod =< put
  BY NumberedFacts DEF MInv, IInv, Numbered
<1>4. Recycled'
  <2>1. Taken = 0 => pos =< 3 * GrowSz + PageSz - 2
    BY <1>3, LineReaderAssumption
  <2> QED
    BY <1>2, <2>1 DEF Recycled
<1>5. Longest' = Longest /\ Longest \in Nat
  BY <1>2, <1>3, LongestIs, Zenon DEF Longest
<1>6. Taken' = Taken
  BY DEF Call, stream, Taken
<1>7. CASE from = 0
  <2>1. sz' =< Longest' + 5 * GrowSz + PageSz - 3
    BY <1>2, <1>5, <1>7 DEF MInv, MemoryBounded
  <2> QED
    BY <1>1, <1>2, <1>3, <1>4, <1>6, <2>1 DEF MInv, MemoryBounded
<1>8. CASE from # 0
  <2>1. from \in 0..put /\ from =< Taken
    BY DEF MInv, IInv, Types
  <2>2. Taken # 0
    BY <1>3, <1>8, <2>1
  <2> QED
    BY <1>1, <1>2, <1>3, <1>4, <1>6, <2>2 DEF MInv, MemoryBounded
<1> QED
  BY <1>7, <1>8

LEMMA StepOverBounded == MInv /\ StepOver => MInv'
<1> SUFFICES ASSUME MInv, StepOver PROVE MInv'
  OBVIOUS
<1>1. /\ pc = "idle" /\ pc' = pc /\ pos < eod /\ S!AdvancePos(1)
      /\ nl' = nl /\ from' = from
  BY DEF StepOver
<1>2. IInv' /\ put' = put /\ eod' = eod /\ Taken' = Taken + 1
  BY <1>1, StepOverInv, AdvanceNumbered DEF MInv, IInv
<1>3. sz' = sz
  BY <1>1 DEF S!AdvancePos
<1>4. from' =< Taken' /\ eod' =< eod
  <2>1. from \in Int /\ Taken \in Int /\ eod \in Int
    BY NumberedFacts DEF MInv, IInv, Types
  <2> QED
    BY <1>1, <1>2, <2>1 DEF MInv
<1>5. Recycled'
  BY <1>1 DEF Recycled
<1> QED
  BY <1>1, <1>2, <1>3, <1>4, <1>5, StillBounded

LEMMA ScanByteBounded == MInv /\ ScanByte => MInv'
<1> SUFFICES ASSUME MInv, ScanByte PROVE MInv'
  OBVIOUS
<1>1. /\ pc = "scan" /\ pc' = pc /\ pos < eod /\ S!AdvancePos(1)
      /\ nl' = nl /\ from' = from
  BY DEF ScanByte
<1>2. IInv' /\ put' = put /\ eod' = eod /\ Taken' = Taken + 1
  BY <1>1, ScanByteInv, AdvanceNumbered DEF MInv, IInv
<1>3. sz' = sz
  BY <1>1 DEF S!AdvancePos
<1>4. from' =< Taken' /\ eod' =< eod
  <2>1. from \in Int /\ Taken \in Int /\ eod \in Int
    BY NumberedFacts DEF MInv, IInv, Types
  <2> QED
    BY <1>1, <1>2, <2>1 DEF MInv
<1>5. Recycled'
  BY <1>1 DEF Recycled
<1> QED
  BY <1>1, <1>2, <1>3, <1>4, <1>5, StillBounded

LEMMA ScanNewlineBounded ==
  ASSUME MInv, NEW stop \in BOOLEAN, ScanNewline(stop)
  PROVE  MInv'
<1>1. /\ pc = "scan" /\ pc' # "fill" /\ pos < eod
      /\ nl' = nl /\ from' = from
  BY DEF ScanNewline
<1>2. IInv'
  BY ScanNewlineInv DEF MInv
<1>3. from \in Int /\ Taken \in Int /\ eod \in Int
  BY NumberedFacts DEF MInv, IInv, Types
<1>4. put' = put /\ eod' = eod /\ sz' = sz /\ (Taken' = Taken \/ Taken' = Taken + 1)
  <2>1. CASE stop
    BY <2>1 DEF ScanNewline, stream, Taken
  <2>2. CASE ~stop
    <3>1. S!AdvancePos(1)
      BY <2>2 DEF ScanNewline
    <3>2. sz' = sz
      BY <3>1 DEF S!AdvancePos
    <3> QED
      BY <1>1, <3>1, <3>2, AdvanceNumbered DEF MInv, IInv
  <2> QED
    BY <2>1, <2>2
<1>5. from' =< Taken' /\ eod' =< eod
  BY <1>1, <1>3, <1>4 DEF MInv
<1>6. Recycled'
  BY <1>1 DEF Recycled
<1> QED
  BY <1>1, <1>2, <1>4, <1>5, <1>6, StillBounded

\* What is left in front of the line.
LEMMA RecycleBounded == MInv /\ RecycleLines => MInv'
<1> SUFFICES ASSUME MInv, RecycleLines PROVE MInv'
  OBVIOUS
<1> DEFINE off == RecyclePos - (RecyclePos % PageSz)
<1>1. /\ pc = "scan" /\ pos = eod /\ S!Recycle(2, RecyclePos)
      /\ start' = start - (pos - pos') /\ pc' = "fill"
      /\ nl' = nl /\ from' = from
  BY DEF RecycleLines
<1>2. IInv'
  BY RecycleLinesInv DEF MInv
<1>3. pos \in Nat /\ put \in Nat /\ eod \in Nat /\ start \in 0..pos
  BY <1>1, NumberedFacts DEF MInv, IInv, Types
<1>4. RecyclePos \in 0..start /\ start - RecyclePos < GrowSz
  <2>1. start % GrowSz \in 0..GrowSz - 1
    BY <1>3, LineReaderAssumption
  <2> QED
    BY <1>3, <2>1, Division, LineReaderAssumption DEF RecyclePos
<1>5. off \in 0..RecyclePos /\ RecyclePos - off < PageSz
  <2>1. RecyclePos % PageSz \in 0..PageSz - 1
    BY <1>3, <1>4, LineReaderAssumption
  <2> QED
    BY <1>3, <1>4, <2>1, Division, LineReaderAssumption
<1>6. sz' = sz /\ put' = put
  BY <1>1 DEF S!Recycle
<1>7. \/ off > GrowSz * 2 /\ pos' = pos - off /\ eod' = eod - off
      \/ ~(off > GrowSz * 2) /\ pos' = pos /\ eod' = eod
  BY <1>1 DEF S!Recycle
<1> HIDE DEF off
<1>8. start' =< 3 * GrowSz + PageSz - 2
  <2>1. CASE off > GrowSz * 2
    <3>1. start' = start - (pos - (pos - off))
      BY <1>1, <1>7, <2>1
    <3> QED
      BY <1>3, <1>4, <1>5, <3>1, LineReaderAssumption
  <2>2. CASE ~(off > GrowSz * 2)
    <3>1. start' = start - (pos - pos)
      BY <1>1, <1>7, <2>2
    <3> QED
      BY <1>3, <1>4, <1>5, <2>2, <3>1, LineReaderAssumption
  <2> QED
    BY <2>1, <2>2
<1>9. eod' =< eod /\ Taken' = Taken
  <2>1. PICK o \in Int : o >= 0 /\ pos' = pos - o /\ eod' = eod - o
    <3>1. CASE off > GrowSz * 2
      BY <1>4, <1>5, <1>7, <3>1
    <3>2. CASE ~(off > GrowSz * 2)
      <4>1. 0 \in Int /\ pos' = pos - 0 /\ eod' = eod - 0
        BY <1>3, <1>7, <3>2
      <4> QED
        BY <4>1
    <3> QED
      BY <3>1, <3>2
  <2>2. Taken' = put - ((eod - o) - (pos - o))
    BY <1>6, <2>1, Zenon DEF Taken
  <2> QED
    BY <1>3, <2>1, <2>2 DEF Taken
<1>10. from' =< Taken'
  BY <1>1, <1>9 DEF MInv
<1>11. Recycled'
  BY <1>8 DEF Recycled
<1> QED
  BY <1>1, <1>2, <1>6, <1>9, <1>10, <1>11, StillBounded

\* Growing keeps to the bound, since all but what was left in front of it is the line.
LEMMA FillBounded == MInv /\ Fill => MInv'
<1> SUFFICES ASSUME MInv, Fill PROVE MInv'
  OBVIOUS
<1>1. pc = "fill" /\ start' = start /\ from' = from
  BY DEF Fill
<1>2. IInv'
  BY FillInv DEF MInv
<1>3. /\ sz \in Nat /\ pos \in Nat /\ put \in Nat /\ eod \in Nat /\ start \in 0..pos
      /\ pos =< eod /\ eod =< put /\ from \in 0..put /\ Taken = put - eod + pos
  BY <1>1, NumberedFacts DEF MInv, IInv, Numbered, Types
<1>4. CASE pos < eod
  <2>1. /\ sz' = sz /\ eod' = eod /\ pos' = pos /\ put' = put /\ nl' = nl /\ pc' = "scan"
    BY <1>4 DEF Fill, stream
  <2>2. Taken' = Taken
    BY <2>1 DEF Taken
  <2>3. from' =< Taken' /\ eod' =< eod
    BY <1>1, <1>3, <2>1, <2>2 DEF MInv
  <2>4. Recycled'
    BY <2>1 DEF Recycled
  <2> QED
    BY <1>1, <1>2, <2>1, <2>3, <2>4, StillBounded
<1>5. CASE ~(pos < eod)
  <2>1. PICK nread \in -1..Min({S!Wanted, Room}) :
          /\ S!ConsumeData(nread)
          /\ \E new \in SUBSET (put..put' - 1) : nl' = nl \cup new
    BY <1>5 DEF Fill
  <2>2. S!Wanted = GrowSz /\ pos = eod
    BY <1>3, <1>5, LineReaderAssumption DEF S!Wanted
  <2>3. nread \in Int /\ nread =< GrowSz
    <3>1. Room \in Int
      BY <1>3, LineReaderAssumption DEF Room
    <3>2. Min({GrowSz, Room}) =< GrowSz /\ Min({GrowSz, Room}) \in Int
      <4> DEFINE m == IF GrowSz =< Room THEN GrowSz ELSE Room
      <4>1. m \in {GrowSz, Room} /\ \A y \in {GrowSz, Room} : m =< y
        BY <3>1, LineReaderAssumption
      <4>2. \E x \in {GrowSz, Room} : \A y \in {GrowSz, Room} : x =< y
        BY <4>1
      <4>3. Min({GrowSz, Room}) \in {GrowSz, Room} /\ \A y \in {GrowSz, Room} : Min({GrowSz, Room}) =< y
        BY <4>2 DEF Min
      <4> QED
        BY <3>1, <4>3, LineReaderAssumption
    <3>3. nread \in -1..Min({GrowSz, Room})
      BY <2>1, <2>2, Zenon
    <3> HIDE <2>1
    <3> DEFINE m == Min({GrowSz, Room})
    <3>4. m =< GrowSz /\ m \in Int /\ nread \in -1..m
      BY <3>2, <3>3
    <3> HIDE DEF m
    <3> QED
      BY <3>4, LineReaderAssumption
  <2>4. PICK n \in Nat : n =< GrowSz /\ eod' = eod + n /\ put' = put + n
    <3>1. CASE nread >= 0
      BY <2>1, <2>3, <3>1 DEF S!ConsumeData, S!ReadMore, S!Put
    <3>2. CASE ~(nread >= 0)
      <4>1. eod' = eod + 0 /\ put' = put + 0
        BY <1>3, <2>1, <3>2 DEF S!ConsumeData, S!ReadMore
      <4> QED
        BY <4>1, LineReaderAssumption
    <3> QED
      BY <3>1, <3>2
  <2>5. PICK new \in SUBSET (put..(put + n) - 1) : nl' = nl \cup new
    BY <2>1, <2>4, Zenon
  <2>6. pos' = pos /\ sz' = S!Grown(GrowSz)
    BY <2>1, <2>2 DEF S!ConsumeData, S!ReadMore
  <2>7. Taken' = Taken
    <3>1. Taken' = (put + n) - ((eod + n) - pos)
      BY <2>4, <2>6, Zenon DEF Taken
    <3> QED
      BY <1>3, <2>4, <3>1 DEF Taken
  <2>8. /\ sz' \in Nat /\ eod + GrowSz =< sz'
        /\ sz' = sz \/ sz' =< eod + 2 * GrowSz - 1
    BY <1>3, <2>6, LineReaderAssumption DEF MInv, S!Grown, S!Larger
  <2>9. Longest \in Nat /\ Longest' \in Nat /\ Longest =< Longest'
    <3>1. put + n \in Nat /\ put =< put + n
      BY <1>3, <2>4
    <3> QED
      BY <1>3, <2>4, <2>5, <3>1, LongestGrows, LongestIs
  <2>10. from = 0 => eod - start =< Longest
    <3>1. Starts(First, from) /\ (First..Taken - 1) \cap nl = {}
      BY <1>1 DEF MInv, IInv, AtStart
    <3>2. First \in Nat /\ First =< Taken /\ Taken \in Nat /\ Taken =< put
          /\ Taken - First = eod - start
      BY <1>3, <2>2 DEF First
    <3> QED
      BY <1>3, <3>1, <3>2, RunFits
  <2>11. MemoryBounded'
    <3>1. ASSUME from = 0 PROVE sz' =< Longest' + 5 * GrowSz + PageSz - 3
      <4>1. start =< 3 * GrowSz + PageSz - 2
        BY <1>1, <3>1 DEF MInv, Recycled
      <4>2. sz =< Longest + 5 * GrowSz + PageSz - 3
        BY <3>1 DEF MInv, MemoryBounded
      <4>3. eod - start =< Longest
        BY <2>10, <3>1
      <4> DEFINE l == Longest
                 m == Longest'
      <4>6. /\ l \in Nat /\ m \in Nat /\ l =< m
            /\ eod - start =< l /\ sz =< l + 5 * GrowSz + PageSz - 3
        BY <2>9, <4>2, <4>3
      <4> HIDE DEF l, m
      <4>7. sz' =< m + 5 * GrowSz + PageSz - 3
        BY <1>3, <2>8, <4>1, <4>6, LineReaderAssumption
      <4> QED
        BY <4>7 DEF m
    <3> QED
      BY <1>1, <3>1 DEF MemoryBounded
  <2>12. eod' =< sz'
    BY <1>3, <2>4, <2>8, LineReaderAssumption
  <2>13. Recycled'
    BY <1>1 DEF MInv, Recycled
  <2>14. from' =< Taken'
    BY <1>1, <2>7 DEF MInv
  <2> QED
    BY <1>2, <2>11, <2>12, <2>13, <2>14 DEF MInv
<1> QED
  BY <1>4, <1>5

LEMMA StepBounded == MInv /\ [Next]_vars => MInv'
<1> SUFFICES ASSUME MInv, [Next]_vars PROVE MInv'
  OBVIOUS
<1>1. ASSUME UNCHANGED vars PROVE MInv'
  <2>1. IInv'
    BY StepInv DEF MInv
  <2>2. Longest' = Longest
    BY <1>1, Zenon DEF Longest, vars
  <2> QED
    BY <1>1, <2>1, <2>2 DEF MInv, Recycled, MemoryBounded, Taken, vars
<1>2. ASSUME NEW stop \in BOOLEAN, ScanNewline(stop) PROVE MInv'
  BY <1>2, ScanNewlineBounded
<1> QED
  BY <1>1, <1>2, CallBounded, StepOverBounded, FillBounded, ScanByteBounded,
     RecycleBounded DEF Next, Reader

\* In its first call the reader's buffer stays within the longest line and a few growsz,
\* however long the input is and however it is cut into reads: recycling, which
\* waits for more than two growsz of whole pages, keeps up with reading.
THEOREM MemoryKept == Spec => []MemoryBounded
<1>1. Init => MInv
  <2> SUFFICES ASSUME Init PROVE MInv
    OBVIOUS
  <2>1. sz = GrowSz /\ eod = 0 /\ pos = 0 /\ put = 0 /\ pc = "idle" /\ from = 0
    BY DEF Init, S!Init
  <2>2. Longest \in Nat
    BY <2>1, LongestIs
  <2>3. MemoryBounded
    BY <2>1, <2>2, LineReaderAssumption DEF MemoryBounded
  <2>4. eod =< sz /\ from =< Taken
    BY <2>1, LineReaderAssumption DEF Taken
  <2> QED
    BY <2>1, <2>3, <2>4, InitInv DEF MInv, Recycled
<1>2. Spec => []MInv
  BY <1>1, StepBounded, PTL DEF Spec
<1>3. MInv => MemoryBounded
  BY DEF MInv
<1> QED
  BY <1>2, <1>3, PTL
=============================================================================
