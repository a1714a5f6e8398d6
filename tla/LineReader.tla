----------------------------- MODULE LineReader -----------------------------
(***************************************************************************)
(* bytestream_consume_lines (bytestream_aux.c) over a stream of module     *)
(* ByteStream: it reads, hands every line to a callback and recycles the   *)
(* buffer behind itself.  Which bytes are '\n' is the sender's choice.     *)
(***************************************************************************)
EXTENDS Integers, Sequences, FiniteSetsExt

CONSTANTS GrowSz, PageSz, Chunk, MaxBytes   \* those of ByteStream

ASSUME LineReaderAssumption ==
    GrowSz \in Nat \ {0} /\ PageSz \in Nat \ {0} /\ MaxBytes \in Nat

VARIABLES data, sz, eod, pos, put, fault    \* those of ByteStream

VARIABLES
    nl,          \* the numbers of the bytes that are '\n'
    pc,          \* "idle" outside of the call, else "fill" or "scan"
    start,       \* line.start
    from,        \* history: the number of the byte at which the call began
    line,        \* history: the last line this call handed to linecb
    told         \* history: the '\n' whose lines this call handed to linecb

stream == <<data, sz, eod, pos, put, fault>>
vars == <<data, sz, eod, pos, put, fault, nl, pc, start, from, line, told>>

S == INSTANCE ByteStream

NoLine == <<-1>>                  \* is no line: bytes are numbered from 0

Taken == put - (eod - pos)        \* how many bytes the reader has passed
Room == MaxBytes - put            \* how many the sender has left

-----------------------------------------------------------------------------
\* The client calls, for the first time or again.
Call ==
    /\ pc = "idle"
    /\ pc' = "fill"
    /\ start' = pos
    /\ from' = Taken
    /\ line' = NoLine /\ told' = {}
    /\ UNCHANGED <<stream, nl>>

\* A callback that stopped the call left pos at the '\n': a client that knows
\* steps over it before it calls again.
StepOver ==
    /\ pc = "idle"
    /\ pos < eod
    /\ S!AdvancePos(1)
    /\ UNCHANGED <<nl, pc, start, from, line, told>>

\* SNEEDMORE and bytestream_consume_data: the end of the input, and any error,
\* end the call with 0.
Fill ==
    /\ pc = "fill"
    /\ IF pos < eod
       THEN pc' = "scan" /\ UNCHANGED <<stream, nl>>
       ELSE \E nread \in -1..Min({S!Wanted, Room}) :
              /\ S!ConsumeData(nread)
              /\ \E new \in SUBSET (put..put' - 1) : nl' = nl \cup new
              /\ pc' = IF nread > 0 THEN "scan" ELSE "idle"
    /\ UNCHANGED <<start, from, line, told>>

\* Mutant: the default case does not advance.
ScanByteStays ==
    /\ pc = "scan"
    /\ pos < eod /\ data[pos] \notin nl
    /\ UNCHANGED vars

\* The loop body on an ordinary byte.
ScanByte ==
    /\ pc = "scan"
    /\ pos < eod /\ data[pos] \notin nl
    /\ S!AdvancePos(1)
    /\ UNCHANGED <<nl, pc, start, from, line, told>>

\* Mutant: the next line starts at the '\n'.
ScanNewlineKeptIn(stop) ==
    /\ pc = "scan"
    /\ pos < eod /\ data[pos] \in nl
    /\ line' = [i \in 1..pos - start |-> data[start + i - 1]]
    /\ told' = told \cup {data[pos]}
    /\ IF stop
       THEN pc' = "idle" /\ UNCHANGED <<stream, start>>
       ELSE S!AdvancePos(1) /\ start' = pos /\ UNCHANGED pc
    /\ UNCHANGED <<nl, from>>

\* Mutant: an empty line is not worth a call.
ScanNewlineUnlessEmpty(stop) ==
    /\ pc = "scan"
    /\ pos < eod /\ data[pos] \in nl
    /\ IF start = pos
       THEN UNCHANGED <<line, told>>
       ELSE /\ line' = [i \in 1..pos - start |-> data[start + i - 1]]
            /\ told' = told \cup {data[pos]}
    /\ IF stop /\ start # pos
       THEN pc' = "idle" /\ UNCHANGED <<stream, start>>
       ELSE S!AdvancePos(1) /\ start' = pos + 1 /\ UNCHANGED pc
    /\ UNCHANGED <<nl, from>>

\* The loop body on a '\n': linecb gets the line and stops the call or not.
ScanNewline(stop) ==
    /\ pc = "scan"
    /\ pos < eod /\ data[pos] \in nl
    /\ line' = [i \in 1..pos - start |-> data[start + i - 1]]
    /\ told' = told \cup {data[pos]}
    /\ IF stop
       THEN pc' = "idle" /\ UNCHANGED <<stream, start>>
       ELSE S!AdvancePos(1) /\ start' = pos + 1 /\ UNCHANGED pc
    /\ UNCHANGED <<nl, from>>

RecyclePos == start - (start % GrowSz)

\* Mutant: nothing is ever recycled.
RecycleNever ==
    /\ pc = "scan"
    /\ pos = eod
    /\ pc' = "fill"
    /\ UNCHANGED <<stream, start, nl, from, line, told>>

\* All bytes are scanned: what lies before the current line is recycled.
RecycleLines ==
    /\ pc = "scan"
    /\ pos = eod
    /\ S!Recycle(2, RecyclePos)
    /\ start' = start - (pos - pos')        \* shiftback
    /\ pc' = "fill"
    /\ UNCHANGED <<nl, from, line, told>>

Init ==
    /\ S!Init
    /\ nl = {} /\ pc = "idle"
    /\ start = 0 /\ from = 0
    /\ line = NoLine /\ told = {}

Reader == Fill \/ ScanByte \/ (\E stop \in BOOLEAN : ScanNewline(stop)) \/ RecycleLines

Next == Call \/ StepOver \/ Reader

Spec == Init /\ [][Next]_vars

\* The loop runs on as long as read(2) returns; that the client calls again,
\* nobody promises.
FairSpec == Spec /\ WF_vars(Reader)

-----------------------------------------------------------------------------
(* Properties *)

\* The reader is in one of its three places, at a line that begins no later
\* than the byte it looks at.
TypeOK ==
    /\ S!TypeOK
    /\ nl \subseteq 0..put - 1 /\ told \subseteq nl
    /\ pc \in {"idle", "fill", "scan"}
    /\ from \in 0..put
    /\ pc # "idle" => start \in 0..pos

\* line.start stays at the first byte after the last '\n' (or at the first
\* byte of the call) through growths and recyclings of the buffer: the assert
\* of bytestream_consume_lines, and what it is there for.
AtLineStart ==
    pc # "idle" =>
      LET first == put - eod + start
      IN  /\ first = from \/ (first > from /\ first - 1 \in nl)
          /\ (first..Taken - 1) \cap nl = {}
          /\ RecyclePos \in 0..pos

\* Through growths and recyclings of the buffer line.start stays at the first
\* byte of the line, and what linecb reads there is one whole line: the bytes
\* of it in order, no '\n' among them, a '\n' or the call's first byte before
\* them and a '\n' behind.
LinesWhole ==
    /\ TypeOK /\ AtLineStart
    /\ line # NoLine =>
        \E last \in told : LET first == last - Len(line)
                           IN  /\ line = [i \in 1..Len(line) |-> first + i - 1]
                               /\ (first..last - 1) \cap nl = {}
                               /\ first = from \/ (first > from /\ first - 1 \in nl)

\* No line that the reader went past in this call was kept from linecb.
NoneMissed == pc # "idle" => nl \cap (from..Taken - 1) \subseteq told

\* The length of the longest line, ended or not.
Longest ==
    Max({0} \cup { ab[2] - ab[1] + 1 : ab \in
                   { ab \in (0..put - 1) \X (0..put - 1) : (ab[1]..ab[2]) \cap nl = {} } })

\* However long the input, in one call the buffer stays within the longest
\* line and a few growsz: recycling keeps up with reading.  (It does not for a
\* client whose callback stops every call: `goto end` passes the recycling.)
MemoryBounded == from = 0 => sz <= Longest + 5 * GrowSz + PageSz - 3

\* A line that is in the buffer is handed to linecb, unless the call ends.
LinesDelivered ==
    \A b \in 0..MaxBytes - 1 :
      (pc = "scan" /\ b \in nl /\ b >= Taken) ~> (b \in told \/ pc = "idle")
=============================================================================
