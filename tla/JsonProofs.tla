----------------------------- MODULE JsonProofs -----------------------------
(***************************************************************************)
(* The recursion of json_parse, its counter, the stack of the client and   *)
(* what the client was told agree, for any texts, nested to any depth, cut *)
(* short anywhere, and with any callbacks that fail.                       *)
(***************************************************************************)
EXTENDS Json, SequenceTheorems, WellFoundedInduction, TLAPS

Shapes == {"object", "array"}

\* There is text left.
Live == idx < Sz /\ Ch # "nul"

\* What texts and stacks are, and how deep the recursion can be at idx.
Shaped ==
    /\ in \in Seq(Symbols)
    /\ \A i \in 1..Sz - 1 : in[i] # "nul"
    /\ frames \in Seq(Shapes) /\ stack \in Seq(Shapes) /\ opened \in Seq(Shapes)
    /\ Len(frames) <= idx /\ idx + Len(frames) <= 2 * Sz + 1
    /\ phase = "ready" => in = << >>

\* The recursion, the counter and the two stacks agree.
Agree == nest = Len(frames) - 1 /\ stack = frames /\ opened = frames

\* Nothing has begun in the first state, which no step but a reset comes back to.
Fresh == st = "START" => frames = << >> /\ Agree

Running == phase = "parse" /\ frames # << >> /\ Live => Agree /\ Expected(Fn, st) # {}

IInv == TypeOK /\ Shaped /\ Fresh /\ Running /\ res # "state"

-----------------------------------------------------------------------------
(* The scanners *)

\* A set of numbers has a least one.
LEMMA LeastNatural ==
  ASSUME NEW T \in SUBSET Nat, T # {}
  PROVE  Min(T) \in T /\ \A y \in T : Min(T) =< y
<1> DEFINE R == {ss \in Nat \X Nat : ss[1] < ss[2]}
<1>1. IsWellFoundedOn(R, Nat)
  BY NatLessThanWellFounded DEF OpToRel
<1> HIDE DEF R
<1>2. PICK x \in T : \A y \in T : <<y, x>> \notin R
  BY <1>1, WFMin
<1>3. \A y \in T : y < x => <<y, x>> \in R
  BY DEF R
<1>4. ASSUME NEW y \in T PROVE x =< y
  <2>1. x \in Nat /\ y \in Nat
    OBVIOUS
  <2>2. ~ (y < x)
    BY <1>2, <1>3
  <2> QED
    BY <2>1, <2>2
<1> QED
  BY <1>4 DEF Min

\* A run ends at its beginning or behind it, behind it if it has a symbol.
LEMMA RunEnds ==
  ASSUME in \in Seq(Symbols), NEW i \in 0..Sz, NEW S
  PROVE  /\ AfterRun(i, S) \in i..Sz
         /\ i < Sz /\ in[i + 1] \in S => AfterRun(i, S) > i
<1> DEFINE T == {j \in i..Sz : j = Sz \/ in[j + 1] \notin S}
<1>1. Sz \in Nat
  BY DEF Sz
<1>2. T \in SUBSET Nat /\ Sz \in T
  BY <1>1
<1>3. AfterRun(i, S) \in T
  BY <1>2, LeastNatural DEF AfterRun
<1> QED
  BY <1>1, <1>3

\* What Scalar needs to know of a scanned text: its state, where it ends, the flag.
Scan(t) ==
    /\ t.st \in Out \cup {"STRIN", "STRESC", "STR", "NUM", "TOK"}
    /\ t.unescape \in BOOLEAN
    /\ t.st \in Out => (IF t.st = "STROUT" THEN t.stop ELSE t.stop - 1) \in idx..Sz - 1

LEMMA StringScan ==
  ASSUME in \in Seq(Symbols), idx \in Nat, idx < Sz
  PROVE  Scan(json_parse_str(idx + 1)) /\ json_parse_str(idx + 1).st \notin {"OSTOP", "ASTOP"}
<1> DEFINE i == idx + 1
           escaped(j) == (j - Max({k \in i..j : k = i \/ in[k] # "esc"})) % 2 = 1
           T == {j \in i..Sz : j = Sz \/ (in[j + 1] = "q" /\ ~escaped(j))}
           stop == Min(T)
<1>1. Sz \in Nat /\ i \in 0..Sz
  BY DEF Sz
<1> HIDE DEF escaped
<1>2. T \in SUBSET Nat /\ Sz \in T
  BY <1>1
<1>3. stop \in i..Sz
  BY <1>2, LeastNatural
<1> HIDE DEF stop
<1> DEFINE state == IF stop < Sz THEN "STROUT" ELSE IF i = Sz THEN "STRIN"
                    ELSE IF escaped(Sz) THEN "STRESC" ELSE "STR"
<1>4. json_parse_str(i) = Scanned(state, i, stop, "STRING", i < Sz /\ in[i + 1] = "esc")
  BY DEF json_parse_str, stop, escaped
<1>5. /\ state \in {"STROUT", "STRIN", "STRESC", "STR"}
      /\ state = "STROUT" => stop < Sz
  OBVIOUS
<1> HIDE DEF state
<1>6. /\ json_parse_str(i).st = state /\ json_parse_str(i).stop = stop
      /\ json_parse_str(i).unescape = (i < Sz /\ in[i + 1] = "esc")
  BY <1>4 DEF Scanned
<1>7. json_parse_str(i).unescape \in BOOLEAN
  BY <1>6
<1>8. json_parse_str(i).st \in {"STROUT", "STRIN", "STRESC", "STR"}
  BY <1>5, <1>6
<1>9. json_parse_str(i).st = "STROUT" => json_parse_str(i).stop \in idx..Sz - 1
  BY <1>1, <1>3, <1>5, <1>6
<1> HIDE DEF i
<1> QED
  BY <1>7, <1>8, <1>9 DEF Scan, Out, i

LEMMA NumberScan ==
  ASSUME in \in Seq(Symbols), idx \in Nat, idx < Sz, unescape \in BOOLEAN
  PROVE  Scan(json_parse_num(idx))
<1> DEFINE S == Digits \cup {".", "e", "-"}
           j == AfterRun(idx + 1, S)
<1>1. Sz \in Nat /\ idx + 1 \in 0..Sz
  BY DEF Sz
<1>2. j \in idx + 1..Sz
  BY <1>1, RunEnds
<1>3. /\ json_parse_num(idx).st = (IF j < Sz THEN "NUMOUT" ELSE "NUM")
      /\ json_parse_num(idx).stop = j
      /\ json_parse_num(idx).unescape = unescape
  BY DEF json_parse_num, Scanned
<1> HIDE DEF j
<1> QED
  BY <1>1, <1>2, <1>3 DEF Scan, Out

LEMMA WordScan ==
  ASSUME in \in Seq(Symbols), idx \in Nat, idx < Sz, unescape \in BOOLEAN, Ch \in Alpha
  PROVE  Scan(json_parse_tok(idx))
<1> DEFINE S == Alpha \cup Digits \cup {"."}
           j == AfterRun(idx, S)
<1>1. Sz \in Nat /\ idx \in 0..Sz
  BY DEF Sz
<1>2. j \in idx..Sz /\ j > idx
  BY <1>1, RunEnds DEF Ch
<1>3. /\ json_parse_tok(idx).st = (IF j < Sz THEN "TOKOUT" ELSE "TOK")
      /\ json_parse_tok(idx).stop = j
      /\ json_parse_tok(idx).unescape = unescape
  BY DEF json_parse_tok, Scanned
<1> HIDE DEF j
<1> QED
  BY <1>1, <1>2, <1>3 DEF Scan, Out

-----------------------------------------------------------------------------
(* The steps *)

\* States in which the function of a container goes on.
LEMMA GoesOn ==
  /\ \A s \in Out \cup {"OSTART", "KEYOUT", "EVALUE", "ENEXT"} : Expected("object", s) # {}
  /\ \A s \in Out \cup {"ASTART", "ENEXT"} : Expected("array", s) # {}
<1>1. \A s \in Out : "," \in Expected("object", s) /\ "," \in Expected("array", s)
  BY DEF Expected, Symbols
<1>2. /\ "q" \in Expected("object", "OSTART") /\ ":" \in Expected("object", "KEYOUT")
      /\ "q" \in Expected("object", "EVALUE") /\ "q" \in Expected("object", "ENEXT")
      /\ "q" \in Expected("array", "ASTART") /\ "q" \in Expected("array", "ENEXT")
  BY DEF Expected, Symbols, Starts
<1> QED
  BY <1>1, <1>2

\* Where a symbol is taken, all agrees; outside of a container only at the beginning.
LEMMA Taken ==
  ASSUME IInv, NEW S, Takes(S)
  PROVE  /\ Live /\ Agree
         /\ idx \in Nat /\ Sz \in Nat /\ idx < Sz
         /\ Len(frames) \in Nat /\ Len(frames) =< idx
         /\ frames = << >> => st = "START"
         /\ frames # << >> => frames[1] \in Shapes /\ Fn = frames[1]
<1>1. idx \in Nat /\ Sz \in Nat /\ idx < Sz /\ phase = "parse"
  BY DEF IInv, TypeOK, Shaped, Takes, Sz
<1>2. Live
  BY DEF Takes, Live, Expected, Starts, Digits, Alpha
<1>3. frames = << >> => st = "START"
  BY DEF Takes, Expected, Fn
<1>4. frames # << >> => frames[1] \in Shapes /\ Fn = frames[1]
  BY DEF IInv, Shaped, Fn
<1>5. Agree
  BY <1>1, <1>2, <1>3 DEF IInv, Running, Fresh
<1> QED
  BY <1>1, <1>2, <1>3, <1>4, <1>5 DEF IInv, Shaped

\* What is left to see of a step that goes on with the text.
LEMMA WentOn ==
  ASSUME IInv, phase = "parse", UNCHANGED in, Proceed,
         frames' \in Seq(Shapes), stack' \in Seq(Shapes), opened' \in Seq(Shapes),
         idx' \in Nat, Len(frames') =< idx', Len(frames') =< Sz,
         idx' + Len(frames') =< 2 * Sz + 1,
         nest' \in -1..Sz, unescape' \in BOOLEAN,
         st' \in {"OSTART", "ASTART", "KEYOUT", "EVALUE", "ENEXT"} \cup Out,
         Agree' /\ (frames' # << >> => Expected(Fn', st') # {})
  PROVE  IInv'
<1>1. Sz' = Sz /\ Sz \in Nat
  BY DEF Sz, IInv, Shaped
<1>2. TypeOK'
  BY <1>1 DEF IInv, TypeOK, Shaped, Proceed
<1>3. Shaped'
  BY <1>1 DEF IInv, Shaped, Proceed
<1>4. Fresh' /\ Running'
  BY DEF Fresh, Running, Out
<1> QED
  BY <1>2, <1>3, <1>4 DEF IInv, Proceed

\* And of one that ends the parse.
LEMMA GaveUp ==
  ASSUME IInv, UNCHANGED in, NEW r \in {"more", "syntax", "cb"}, Abort(r),
         stack' \in Seq(Shapes), opened' \in Seq(Shapes),
         idx' \in 0..2 * Sz + 1, nest' \in -1..Sz, unescape' \in BOOLEAN,
         st' \in {"OSTART", "ASTART", "KEYOUT", "EVALUE", "ENEXT", "STRIN", "STRESC", "STR",
                  "NUM", "TOK"} \cup Out
  PROVE  IInv'
<1>1. Sz' = Sz /\ Sz \in Nat
  BY DEF Sz, IInv, Shaped
<1>2. phase' = "done" /\ frames' = << >> /\ res' \in {"more", "syntax", "cb", "array"}
  BY DEF Abort
<1>3. TypeOK'
  BY <1>1, <1>2 DEF IInv, TypeOK
<1>4. Shaped'
  <2>1. frames' \in Seq(Shapes) /\ Len(frames') = 0 /\ phase' # "ready"
    BY <1>2
  <2>2. Len(frames') =< idx' /\ idx' + Len(frames') =< 2 * Sz' + 1
    <3>1. idx' \in Nat /\ idx' =< 2 * Sz + 1
      BY <1>1
    <3>2. Len(frames') =< idx' /\ idx' + Len(frames') =< 2 * Sz + 1
      BY <3>1, <2>1
    <3> QED
      BY <3>2, <1>1
  <2>3. in' \in Seq(Symbols) /\ \A i \in 1..Sz' - 1 : in'[i] # "nul"
    BY <1>1 DEF IInv, Shaped
  <2> QED
    BY <2>1, <2>2, <2>3 DEF Shaped
<1>5. Fresh' /\ Running'
  BY <1>2 DEF Fresh, Running, Out
<1> QED
  BY <1>2, <1>3, <1>4, <1>5 DEF IInv

LEMMA BeginStep ==
  ASSUME IInv, NEW shape \in Shapes, Begin(shape)
  PROVE  IInv'
<1> DEFINE S == {IF shape = "object" THEN "{" ELSE "["}
           state == IF shape = "object" THEN "OSTART" ELSE "ASTART"
           evs == <<Event("start", shape, nest + 1, key, << >>),
                    Event(Callback(Fn, shape), shape, nest + 1, key, << >>)>>
<1>1. Takes(S) /\ st' = state /\ nest' = nest + 1 /\ UNCHANGED <<in, unescape, key>>
  BY DEF Begin
<1>2. /\ Live /\ Agree
      /\ idx \in Nat /\ Sz \in Nat /\ idx < Sz
      /\ Len(frames) \in Nat /\ Len(frames) =< idx
  BY <1>1, Taken
<1>3. /\ phase = "parse" /\ unescape \in BOOLEAN
      /\ frames \in Seq(Shapes) /\ stack = frames /\ opened = frames
      /\ nest = Len(frames) - 1
  BY <1>1, <1>2 DEF Takes, IInv, TypeOK, Shaped, Agree
<1>4. evs[1].cb = "start" /\ evs[1].ty = shape
  BY DEF Event
<1>5. opened' = <<shape>> \o opened
  <2>1. \/ Told(evs, 2, TRUE) \/ Told(evs, 1, FALSE) \/ Told(evs, 2, FALSE)
    BY DEF Begin
  <2> HIDE DEF evs
  <2> QED
    BY <2>1, <1>4 DEF Told
<1>6. /\ opened' = <<shape>> \o frames /\ <<shape>> \o frames \in Seq(Shapes)
      /\ Len(<<shape>> \o frames) = Len(frames) + 1 /\ (<<shape>> \o frames)[1] = shape
  BY <1>3, <1>5
<1> HIDE DEF S, evs
<1>7. nest' = Len(frames) /\ nest' \in -1..Sz
  BY <1>1, <1>2, <1>3
<1>8. state \in {"OSTART", "ASTART"}
  OBVIOUS
<1>9. CASE /\ json_ctx_push(shape)
           /\ frames' = <<shape>> \o frames /\ idx' = idx + 1 /\ Proceed
  <2>1. /\ frames' \in Seq(Shapes) /\ Len(frames') = Len(frames) + 1 /\ frames'[1] = shape
        /\ stack' = frames' /\ opened' = frames'
    BY <1>3, <1>6, <1>9 DEF json_ctx_push
  <2>2. Agree'
    BY <1>2, <1>7, <2>1 DEF Agree
  <2>3. Expected(Fn', st') # {}
    <3>1. Fn' = shape
      BY <2>1 DEF Fn
    <3> QED
      BY <3>1, <1>1, GoesOn DEF Shapes
  <2>4. /\ idx' \in Nat /\ Len(frames') =< idx' /\ Len(frames') =< Sz
        /\ idx' + Len(frames') =< 2 * Sz + 1
    BY <1>2, <1>9, <2>1
  <2>5. /\ Proceed /\ UNCHANGED in /\ unescape' \in BOOLEAN
        /\ st' \in {"OSTART", "ASTART", "KEYOUT", "EVALUE", "ENEXT"} \cup Out
    BY <1>1, <1>3, <1>8, <1>9
  <2> QED
    BY <1>3, <1>7, <2>1, <2>2, <2>3, <2>4, <2>5, WentOn
<1>10. CASE UNCHANGED idx /\ (UNCHANGED stack \/ json_ctx_push(shape)) /\ Abort("cb")
  <2>1. stack' \in Seq(Shapes) /\ opened' \in Seq(Shapes)
    BY <1>3, <1>6, <1>10 DEF json_ctx_push
  <2>2. idx' \in 0..2 * Sz + 1
    BY <1>2, <1>10
  <2> QED
    BY <1>1, <1>3, <1>6, <1>7, <1>8, <1>10, <2>1, <2>2, GaveUp
<1> QED
  BY <1>9, <1>10 DEF Begin

LEMMA EndStep ==
  ASSUME IInv, NEW shape \in Shapes, End(shape)
  PROVE  IInv'
<1> DEFINE S == {IF shape = "object" THEN "}" ELSE "]"}
           evs == <<Event("stop", shape, nest, key, << >>)>>
<1>1. /\ Takes(S) /\ Fn = shape /\ st' \in {"OSTOP", "ASTOP"}
      /\ UNCHANGED <<in, unescape, key>>
  BY DEF End
<1>2. /\ Live /\ Agree
      /\ idx \in Nat /\ Sz \in Nat /\ idx < Sz
      /\ Len(frames) \in Nat /\ Len(frames) =< idx
  BY <1>1, Taken
<1>3. /\ phase = "parse" /\ unescape \in BOOLEAN
      /\ frames \in Seq(Shapes) /\ frames # << >>
      /\ stack = frames /\ opened = frames /\ nest = Len(frames) - 1
  BY <1>1, <1>2 DEF Takes, IInv, TypeOK, Shaped, Agree, Fn, Shapes
<1>4. /\ Tail(frames) \in Seq(Shapes) /\ Len(Tail(frames)) = Len(frames) - 1
      /\ SubSeq(frames, 2, Len(frames)) = Tail(frames)
  BY <1>3
<1>5. opened' = Tail(frames)
  <2>1. \E ok \in BOOLEAN : Told(evs, 1, ok)
    BY DEF End
  <2>2. evs[1].cb = "stop"
    BY DEF Event
  <2> HIDE DEF evs
  <2> QED
    BY <2>1, <2>2, <1>3, <1>4 DEF Told
<1>6. CASE nest' = nest - 1 /\ json_ctx_pop /\ frames' = Tail(frames) /\ idx' = idx + 1 /\ Proceed
  <2>1. Agree' /\ stack' = Tail(frames)
    BY <1>2, <1>3, <1>4, <1>5, <1>6 DEF Agree, json_ctx_pop
  <2>2. frames' # << >> => Expected(Fn', st') # {}
    <3>1. frames' # << >> => Fn' \in Shapes
      BY <1>4, <1>6 DEF Fn
    <3> QED
      BY <3>1, <1>1, GoesOn DEF Shapes, Out
  <2>3. /\ frames' \in Seq(Shapes) /\ Len(frames') = Len(frames) - 1 /\ Len(frames') \in Nat
        /\ nest' \in -1..Sz
    BY <1>2, <1>3, <1>4, <1>6
  <2>4. /\ idx' \in Nat /\ Len(frames') =< idx' /\ Len(frames') =< Sz
        /\ idx' + Len(frames') =< 2 * Sz + 1
    BY <1>2, <1>6, <2>3
  <2>5. /\ Proceed /\ UNCHANGED in /\ unescape' \in BOOLEAN
        /\ st' \in {"OSTART", "ASTART", "KEYOUT", "EVALUE", "ENEXT"} \cup Out
        /\ stack' \in Seq(Shapes) /\ opened' \in Seq(Shapes)
    BY <1>1, <1>3, <1>4, <1>5, <1>6, <2>1 DEF Out
  <2> QED
    BY <1>3, <2>1, <2>2, <2>3, <2>4, <2>5, WentOn
<1>7. CASE UNCHANGED <<nest, stack, idx>> /\ Abort("cb")
  <2>1. nest' \in -1..Sz /\ idx' \in 0..2 * Sz + 1
    BY <1>2, <1>3, <1>7
  <2> QED
    BY <1>1, <1>3, <1>4, <1>5, <1>7, <2>1, GaveUp DEF Out
<1> QED
  BY <1>6, <1>7 DEF End

\* The end of a string, number or word; after is the state then.
LEMMA ScalarStep ==
  ASSUME IInv, phase = "parse", Live, Agree, frames # << >>, UNCHANGED in,
         NEW t, Scan(t), NEW cb \in {"key", "value", "item"}, NEW after,
         t.st \in Out => /\ after \in {"KEYOUT"} \cup Out
                         /\ Expected(Fn, after) # {},
         Scalar(t, cb, after)
  PROVE  IInv'
<1> DEFINE last == IF t.st = "STROUT" THEN t.stop ELSE t.stop - 1
           evs == <<Event(cb, t.ty, nest + 1, key, t.v)>>
<1>1. /\ idx \in Nat /\ Sz \in Nat /\ idx < Sz
      /\ frames \in Seq(Shapes) /\ Len(frames) \in Nat /\ Len(frames) =< idx
      /\ nest = Len(frames) - 1 /\ stack = frames /\ opened = frames
      /\ UNCHANGED stack /\ unescape' \in BOOLEAN
  BY DEF IInv, TypeOK, Shaped, Agree, Live, Scalar, Scan, Sz
<1>2. CASE t.st \notin Out
  <2>1. /\ st' = t.st /\ idx' = Sz /\ Abort("more")
        /\ UNCHANGED <<nest, opened>>
    BY <1>2 DEF Scalar
  <2>2. st' \in {"STRIN", "STRESC", "STR", "NUM", "TOK"}
    BY <2>1, <1>2 DEF Scan
  <2>3. nest' \in -1..Sz /\ idx' \in 0..2 * Sz + 1
    BY <1>1, <2>1
  <2> QED
    BY <1>1, <2>1, <2>2, <2>3, GaveUp
<1>3. CASE t.st \in Out
  <2>1. PICK ok \in BOOLEAN :
          /\ Told(evs, 1, ok)
          /\ IF ok THEN idx' = last + 1 /\ Proceed /\ UNCHANGED <<nest, frames>>
             ELSE idx' = last /\ nest' = nest + 1 /\ Abort("cb")
    BY <1>3 DEF Scalar
  <2>2. st' = after /\ after \in {"KEYOUT"} \cup Out /\ Expected(Fn, after) # {}
    BY <1>3 DEF Scalar
  <2>3. last \in idx..Sz - 1
    BY <1>3 DEF Scan
  <2> HIDE DEF last
  <2>4. UNCHANGED opened
    <3>1. evs[1].cb = cb
      BY DEF Event
    <3> HIDE DEF evs
    <3> QED
      BY <2>1, <3>1 DEF Told
  <2>5. CASE idx' = last + 1 /\ Proceed /\ UNCHANGED <<nest, frames>>
    <3>1. Agree'
      BY <1>1, <2>4, <2>5 DEF Agree
    <3>2. Expected(Fn', st') # {}
      BY <2>2, <2>5 DEF Fn
    <3>3. /\ idx' \in Nat /\ Len(frames') =< idx' /\ Len(frames') =< Sz
          /\ idx' + Len(frames') =< 2 * Sz + 1 /\ nest' \in -1..Sz
      BY <1>1, <2>3, <2>5
    <3>4. /\ frames' \in Seq(Shapes) /\ stack' \in Seq(Shapes) /\ opened' \in Seq(Shapes)
      BY <1>1, <2>4, <2>5
    <3> QED
      BY <1>1, <2>2, <2>5, <3>1, <3>2, <3>3, <3>4, WentOn
  <2>6. CASE idx' = last /\ nest' = nest + 1 /\ Abort("cb")
    <3>1. nest' \in -1..Sz /\ idx' \in 0..2 * Sz + 1
      BY <1>1, <2>3, <2>6
    <3>2. stack' \in Seq(Shapes) /\ opened' \in Seq(Shapes)
      BY <1>1, <2>4
    <3> QED
      BY <1>1, <2>2, <2>6, <3>1, <3>2, GaveUp
  <2> QED
    BY <2>1, <2>5, <2>6
<1> QED
  BY <1>2, <1>3

LEMMA KeyStep ==
  ASSUME IInv, Key
  PROVE  IInv'
<1>1. /\ Fn = "object" /\ Takes({"q"}) /\ UNCHANGED in
      /\ Scalar(json_parse_str(idx + 1), "key", "KEYOUT")
  BY DEF Key, Scalar
<1>2. /\ Live /\ Agree /\ idx \in Nat /\ idx < Sz /\ phase = "parse" /\ frames # << >>
      /\ in \in Seq(Symbols)
  BY <1>1, Taken DEF Takes, Fn, IInv, Shaped
<1>3. Scan(json_parse_str(idx + 1))
  BY <1>2, StringScan
<1>4. Expected(Fn, "KEYOUT") # {}
  BY <1>1, GoesOn
<1> QED
  BY <1>1, <1>2, <1>3, <1>4, ScalarStep

LEMMA ValueStep ==
  ASSUME IInv, Value
  PROVE  IInv'
<1> DEFINE t == IF Ch = "q" THEN json_parse_str(idx + 1)
                ELSE IF Ch \in Alpha THEN json_parse_tok(idx) ELSE json_parse_num(idx)
<1>1. /\ Takes(Starts \ {"{", "["}) /\ UNCHANGED in
      /\ Scalar(t, Callback(Fn, "scalar"), t.st)
  <2>1. \E u \in {t} : Scalar(u, Callback(Fn, "scalar"), u.st)
    BY Zenon DEF Value
  <2>2. Takes(Starts \ {"{", "["})
    BY DEF Value
  <2> HIDE DEF t
  <2>3. Scalar(t, Callback(Fn, "scalar"), t.st)
    BY <2>1, Zenon
  <2> QED  BY <2>2, <2>3, Zenon DEF Scalar
<1>2. /\ Live /\ Agree /\ idx \in Nat /\ idx < Sz /\ phase = "parse" /\ unescape \in BOOLEAN
      /\ in \in Seq(Symbols)
  BY <1>1, Taken DEF Takes, IInv, TypeOK, Shaped
<1>3. frames # << >> /\ Fn \in Shapes
  <2>1. st = "START" /\ Fn = "text" => Expected(Fn, st) \subseteq {"{", "["}
    BY DEF Expected, Out
  <2>2. Ch \in Expected(Fn, st) /\ Ch \notin {"{", "["}
    BY <1>1 DEF Takes
  <2> QED
    BY <1>1, <2>1, <2>2, Taken DEF Fn
<1>4. Scan(t)
  BY <1>2, StringScan, NumberScan, WordScan
<1>5. Callback(Fn, "scalar") \in {"value", "item"}
  BY DEF Callback
<1>6. t.st \in Out => Expected(Fn, t.st) # {}
  BY <1>3, GoesOn DEF Shapes
<1> HIDE DEF t
<1> QED
  BY <1>1, <1>2, <1>3, <1>4, <1>5, <1>6, ScalarStep

LEMMA SeparatorStep ==
  ASSUME IInv, Separator
  PROVE  IInv'
<1>1. /\ Takes({":", ","}) /\ st' = (IF Ch = ":" THEN "EVALUE" ELSE "ENEXT")
      /\ idx' = idx + 1
      /\ UNCHANGED <<in, phase, nest, unescape, frames, stack, res, opened>>
  BY DEF Separator
<1>2. /\ Live /\ Agree /\ idx \in Nat /\ Sz \in Nat /\ idx < Sz
      /\ Len(frames) \in Nat /\ Len(frames) =< idx
  BY <1>1, Taken
<1>3. /\ phase = "parse" /\ unescape \in BOOLEAN /\ nest = Len(frames) - 1
      /\ frames \in Seq(Shapes) /\ stack = frames /\ opened = frames
  BY <1>1, <1>2 DEF Takes, IInv, TypeOK, Shaped, Agree
<1>4. frames # << >> /\ Fn \in Shapes
  <2>1. st = "START" /\ Fn = "text" => Expected(Fn, st) \subseteq {"{", "["}
    BY DEF Expected, Out
  <2>2. Ch \in Expected(Fn, st) /\ Ch \notin {"{", "["}
    BY <1>1 DEF Takes
  <2> QED
    BY <1>1, <2>1, <2>2, Taken DEF Fn
<1>5. Expected(Fn', st') # {}
  <2>1. Ch = ":" => Fn = "object"
    <3>1. ":" \in Expected(Fn, st) => Fn = "object"
      BY <1>4 DEF Expected, Starts, Digits, Alpha, Shapes
    <3> QED
      BY <1>1, <3>1 DEF Takes
  <2>2. Fn' = Fn
    BY <1>1 DEF Fn
  <2> QED
    BY <1>1, <1>4, <2>1, <2>2, GoesOn DEF Shapes
<1>6. Agree'
  BY <1>1, <1>3 DEF Agree
<1>7. /\ idx' \in Nat /\ Len(frames') =< idx' /\ Len(frames') =< Sz
      /\ idx' + Len(frames') =< 2 * Sz + 1 /\ nest' \in -1..Sz
  <2>1. Len(frames') = Len(frames) /\ idx' = idx + 1 /\ nest' = nest
    BY <1>1
  <2>2. nest = Len(frames) - 1
    BY <1>3
  <2> QED
    BY <1>2, <2>1, <2>2
<1>8. /\ Proceed /\ st' \in {"EVALUE", "ENEXT"} /\ unescape' \in BOOLEAN
      /\ frames' \in Seq(Shapes) /\ stack' \in Seq(Shapes) /\ opened' \in Seq(Shapes)
  BY <1>1, <1>3 DEF Proceed
<1> QED
  BY <1>1, <1>3, <1>5, <1>6, <1>7, <1>8, WentOn

LEMMA SkipStep ==
  ASSUME IInv, Skip
  PROVE  IInv'
<1>1. /\ phase = "parse" /\ idx < Sz /\ Ch # "nul" /\ idx' = idx + 1
      /\ UNCHANGED <<in, phase, st, nest, unescape, frames, stack, res, opened>>
  BY DEF Skip
<1>2. /\ idx \in Nat /\ Sz \in Nat /\ Sz' = Sz
      /\ Len(frames) \in Nat /\ Len(frames) =< idx /\ Live
  BY <1>1 DEF IInv, Shaped, TypeOK, Sz, Live
<1>3. TypeOK'
  BY <1>1, <1>2 DEF IInv, TypeOK
<1>4. Shaped'
  BY <1>1, <1>2 DEF IInv, Shaped
<1>5. Agree' = Agree /\ Fn' = Fn
  BY <1>1 DEF Agree, Fn
<1>6. Fresh' /\ Running'
  BY <1>1, <1>2, <1>5 DEF IInv, Fresh, Running
<1> QED
  BY <1>1, <1>3, <1>4, <1>6 DEF IInv

LEMMA RejectStep ==
  ASSUME IInv, Reject
  PROVE  IInv'
<1>1. /\ phase = "parse" /\ idx < Sz /\ Fn # "text" /\ Ch # "nul"
      /\ Abort(IF Expected(Fn, st) = {} THEN "state" ELSE "syntax")
      /\ UNCHANGED <<in, idx, st, nest, unescape, stack, opened>>
  BY DEF Reject
<1>2. frames # << >> /\ Live
  BY <1>1 DEF Fn, Live
<1>3. Expected(Fn, st) # {} /\ st # "START"
  BY <1>1, <1>2 DEF IInv, Running, Fresh
<1>4. Abort("syntax")
  BY <1>1, <1>3
<1>5. /\ idx \in 0..2 * Sz + 1 /\ nest \in -1..Sz /\ unescape \in BOOLEAN
      /\ stack \in Seq(Shapes) /\ opened \in Seq(Shapes)
      /\ st \in {"OSTART", "ASTART", "KEYOUT", "EVALUE", "ENEXT", "STRIN", "STRESC", "STR",
                 "NUM", "TOK"} \cup Out
  BY <1>3 DEF IInv, TypeOK, Shaped
<1> QED
  BY <1>1, <1>4, <1>5, GaveUp

LEMMA LeaveStep ==
  ASSUME IInv, Leave
  PROVE  IInv'
<1>1. /\ phase = "parse" /\ (idx < Sz => Ch = "nul")
      /\ UNCHANGED <<in, st, nest, unescape, stack, opened>>
  BY DEF Leave
<1>2. /\ idx \in Nat /\ Sz \in Nat /\ Sz' = Sz
      /\ frames \in Seq(Shapes) /\ Len(frames) \in Nat /\ Len(frames) =< idx
      /\ idx + Len(frames) =< 2 * Sz + 1 /\ Len(frames) =< Sz
  BY <1>1 DEF IInv, Shaped, TypeOK, Sz
<1>3. CASE frames = << >> /\ phase' = "done" /\ res' = "ok" /\ UNCHANGED <<frames, idx>>
  <2>1. TypeOK' /\ Shaped'
    BY <1>1, <1>2, <1>3 DEF IInv, TypeOK, Shaped
  <2>2. Fresh' /\ Running'
    BY <1>1, <1>3 DEF IInv, Fresh, Running, Agree
  <2> QED
    BY <1>3, <2>1, <2>2 DEF IInv
<1>4. CASE frames # << >> /\ frames' = Tail(frames) /\ idx' = idx + 1 /\ Proceed
  <2>1. idx + 1 >= Sz
    <3>1. idx < Sz => idx + 1 \in Nat \ {0} /\ in[idx + 1] = "nul"
      BY <1>1, <1>2 DEF Ch
    <3>2. \A i \in 1..Sz - 1 : in[i] # "nul"
      BY DEF IInv, Shaped
    <3> QED
      BY <1>2, <3>1, <3>2
  <2>2. frames' \in Seq(Shapes) /\ Len(frames') = Len(frames) - 1 /\ Len(frames') \in Nat
    BY <1>2, <1>4
  <2>3. /\ idx' \in Nat /\ Len(frames') =< idx' /\ Len(frames') =< Sz
        /\ idx' + Len(frames') =< 2 * Sz + 1 /\ idx' =< 2 * Sz + 1
    BY <1>2, <1>4, <2>2
  <2>4. TypeOK'
    BY <1>1, <1>2, <1>4, <2>3 DEF IInv, TypeOK, Proceed
  <2>5. Shaped'
    BY <1>1, <1>2, <1>4, <2>2, <2>3 DEF IInv, Shaped, Proceed
  <2>6. st # "START"
    BY <1>4 DEF IInv, Fresh
  <2>7. ~Live'
    BY <1>2, <1>4, <2>1 DEF Live
  <2>8. Fresh' /\ Running'
    BY <1>1, <2>6, <2>7 DEF Fresh, Running
  <2> QED
    BY <1>4, <2>4, <2>5, <2>8 DEF IInv, Proceed
<1> QED
  BY <1>3, <1>4 DEF Leave

\* A text is handed over, after another one perhaps of which it is the rest.
LEMMA ParseStep ==
  ASSUME IInv, NEW text \in Docs, json_parse(text)
  PROVE  IInv'
<1>1. /\ phase # "parse" /\ (phase = "done" => IsPrefix(in, text))
      /\ in' = text /\ phase' = "parse" /\ res' = "ok"
      /\ UNCHANGED <<idx, st, nest, unescape, frames, stack, opened>>
  BY DEF json_parse
<1>2. /\ text \in Seq(Symbols) /\ \A i \in 1..Len(text) - 1 : text[i] # "nul"
      /\ Len(text) \in Nat /\ Sz' = Len(text)
  BY <1>1, JsonAssumption DEF Sz
<1>3. Sz \in Nat /\ Sz =< Len(text)
  <2>1. CASE phase = "done"
    BY <1>1, <2>1 DEF IInv, Shaped, IsPrefix, Sz
  <2>2. CASE phase = "ready"
    BY <1>2, <2>2 DEF IInv, Shaped, Sz
  <2> QED
    BY <1>1, <2>1, <2>2 DEF IInv, TypeOK
<1>4. frames = << >> /\ Len(frames) = 0
  BY <1>1 DEF IInv, TypeOK
<1>5. idx' \in 0..2 * Sz' + 1 /\ nest' \in -1..Sz'
  <2>1. idx \in Nat /\ idx =< 2 * Sz + 1 /\ nest \in Int /\ -1 =< nest /\ nest =< Sz
    BY <1>3 DEF IInv, TypeOK
  <2> QED
    BY <1>1, <1>2, <1>3, <2>1
<1>6. TypeOK'
  BY <1>1, <1>2, <1>4, <1>5 DEF IInv, TypeOK
<1>7. Shaped'
  BY <1>1, <1>2, <1>4, <1>5 DEF IInv, Shaped
<1>8. Fresh' /\ Running'
  BY <1>1, <1>4 DEF IInv, Fresh, Running, Agree
<1> QED
  BY <1>1, <1>6, <1>7, <1>8 DEF IInv

LEMMA ResetStep ==
  ASSUME IInv, json_reset
  PROVE  IInv'
<1>1. /\ phase = "done" /\ in' = << >> /\ phase' = "ready" /\ idx' = 0 /\ st' = "START"
      /\ nest' = -1 /\ unescape' = FALSE /\ stack' = << >> /\ opened' = << >>
      /\ UNCHANGED <<frames, res>>
  BY DEF json_reset
<1>2. frames' = << >> /\ Sz' = 0
  BY <1>1 DEF IInv, TypeOK, Sz
<1>3. TypeOK'
  <2>1. idx' \in 0..2 * Sz' + 1 /\ nest' \in -1..Sz' /\ Len(frames') =< Sz'
    BY <1>1, <1>2
  <2> QED
    BY <1>1, <1>2, <2>1 DEF IInv, TypeOK
<1>4. Shaped'
  BY <1>1, <1>2 DEF Shaped
<1>5. Fresh' /\ Running'
  BY <1>1, <1>2 DEF Fresh, Running, Agree
<1> QED
  BY <1>1, <1>3, <1>4, <1>5 DEF IInv

LEMMA Start == JInit => IInv
<1> SUFFICES ASSUME JInit PROVE IInv
  OBVIOUS
<1>1. Sz = 0
  BY DEF JInit, Sz
<1>2. TypeOK
  <2>1. idx \in 0..2 * Sz + 1 /\ nest \in -1..Sz /\ Len(frames) =< Sz
    BY <1>1 DEF JInit
  <2> QED
    BY <2>1 DEF JInit, TypeOK
<1>3. Shaped
  BY <1>1 DEF JInit, Shaped
<1>4. Fresh /\ Running
  BY DEF JInit, Fresh, Running, Agree
<1> QED
  BY <1>2, <1>3, <1>4 DEF JInit, IInv

LEMMA Inductive == IInv /\ [JNext]_jvars => IInv'
<1> SUFFICES ASSUME IInv, [JNext]_jvars PROVE IInv'
  OBVIOUS
<1>1. CASE Turn
  <2>1. ASSUME NEW shape \in {"object", "array"}, Begin(shape) \/ End(shape) PROVE IInv'
    BY <2>1, BeginStep, EndStep DEF Shapes
  <2> QED
    BY <1>1, <2>1, KeyStep, ValueStep, SeparatorStep, SkipStep, RejectStep, LeaveStep DEF Turn
<1>2. CASE (\E text \in Docs : json_parse(text)) \/ json_reset
  BY <1>2, ParseStep, ResetStep
<1>3. CASE UNCHANGED jvars
  BY <1>3 DEF jvars, IInv, TypeOK, Shaped, Fresh, Running, Agree, Live, Sz, Ch, Fn
<1> QED
  BY <1>1, <1>2, <1>3 DEF JNext

LEMMA Invariance == JSpec => []IInv
  BY Start, Inductive, PTL DEF JSpec

\* json_parse, json_parse_obj and json_parse_array share one state, one index and one
\* counter, and the client keeps a stack by the callbacks: all of them agree where
\* there is text left to read, and no function meets a state it does not know.
THEOREM CallsMatch == JSpec => []CallsMatchCallbacks
<1>1. IInv => CallsMatchCallbacks
  BY DEF IInv, Shaped, Running, Agree, Live, CallsMatchCallbacks
<1> QED
  BY <1>1, Invariance, PTL

-----------------------------------------------------------------------------
(* What the client was told *)

\* The callbacks so far begin with the beginning of a container, and what ends before
\* the last of them is in another one.
Good(s) ==
    /\ s \in Seq(Range(s))
    /\ s # << >> => s[1].cb = "start"
    /\ \A i \in 1..Len(s) - 1 : s[i].cb = "stop" => s[i].nest > 0

\* The last of them does not end an outermost container.
GoesDeeper(s) == s # << >> /\ s[Len(s)].cb = "stop" => s[Len(s)].nest > 0

\* An outermost container has ended when the counter is back where it was.
Whole ==
    /\ Good(events)
    /\ st = "START" <=> events = << >>
    /\ frames # << >> => GoesDeeper(events)
    /\ nest < 0 /\ st # "START" =>
          frames = << >> /\ opened = << >> /\ events[Len(events)].cb = "stop"

WInv == IInv /\ Whole

LEMMA OneElement ==
  ASSUME NEW T, NEW r \in Seq(T), NEW e \in T, Len(r) = 1, r[1] = e
  PROVE  r = <<e>>
<1>1. <<e>> \in Seq(T) /\ Len(<<e>>) = 1 /\ \A i \in 1..Len(r) : r[i] = <<e>>[i]
  OBVIOUS
<1> QED
  BY <1>1, SeqEqual

LEMMA TwoElements ==
  ASSUME NEW T, NEW r \in Seq(T), NEW e \in T, NEW f \in T,
         Len(r) = 2, r[1] = e, r[2] = f
  PROVE  r = <<e, f>>
<1>1. /\ <<e, f>> \in Seq(T) /\ Len(<<e, f>>) = 2
      /\ \A i \in 1..Len(r) : r[i] = <<e, f>>[i]
  OBVIOUS
<1> QED
  BY <1>1, SeqEqual

\* One callback, or two, of those that are tried.
LEMMA FirstOnes ==
  ASSUME NEW e, NEW f
  PROVE  /\ SubSeq(<<e>>, 1, 1) = <<e>> /\ SubSeq(<<e, f>>, 1, 1) = <<e>>
         /\ SubSeq(<<e, f>>, 1, 2) = <<e, f>> /\ <<e>> \o <<f>> = <<e, f>>
<1> DEFINE T == {e, f}
<1>1. <<e>> \in Seq(T) /\ <<f>> \in Seq(T) /\ <<e, f>> \in Seq(T)
  OBVIOUS
<1>2. /\ SubSeq(<<e>>, 1, 1) \in Seq(T) /\ Len(SubSeq(<<e>>, 1, 1)) = 1
      /\ SubSeq(<<e>>, 1, 1)[1] = e
  BY <1>1
<1>3. /\ SubSeq(<<e, f>>, 1, 1) \in Seq(T) /\ Len(SubSeq(<<e, f>>, 1, 1)) = 1
      /\ SubSeq(<<e, f>>, 1, 1)[1] = e
  BY <1>1
<1>4. /\ SubSeq(<<e, f>>, 1, 2) \in Seq(T) /\ Len(SubSeq(<<e, f>>, 1, 2)) = 2
      /\ SubSeq(<<e, f>>, 1, 2)[1] = e /\ SubSeq(<<e, f>>, 1, 2)[2] = f
  BY <1>1
<1>5. /\ <<e>> \o <<f>> \in Seq(T) /\ Len(<<e>> \o <<f>>) = 2
      /\ (<<e>> \o <<f>>)[1] = e /\ (<<e>> \o <<f>>)[2] = f
  BY <1>1
<1>6. e \in T /\ f \in T
  OBVIOUS
<1> HIDE DEF T
<1>7. SubSeq(<<e>>, 1, 1) = <<e>>
  BY <1>2, <1>6, OneElement
<1>8. SubSeq(<<e, f>>, 1, 1) = <<e>>
  BY <1>3, <1>6, OneElement
<1>9. SubSeq(<<e, f>>, 1, 2) = <<e, f>>
  BY <1>4, <1>6, TwoElements
<1>10. <<e>> \o <<f>> = <<e, f>>
  BY <1>5, <1>6, TwoElements
<1> QED
  BY <1>7, <1>8, <1>9, <1>10

LEMMA OneMore ==
  ASSUME NEW s, Good(s), GoesDeeper(s), NEW e, s = << >> => e.cb = "start"
  PROVE  /\ Good(s \o <<e>>) /\ s \o <<e>> # << >>
         /\ (s \o <<e>>)[Len(s \o <<e>>)] = e
<1> DEFINE r == s \o <<e>>
           T == Range(s) \cup {e}
<1>1. s \in Seq(T) /\ <<e>> \in Seq(T) /\ Len(s) \in Nat
  BY DEF Good
<1>2. /\ r \in Seq(T) /\ Len(r) = Len(s) + 1 /\ r[Len(s) + 1] = e
      /\ \A i \in 1..Len(s) : r[i] = s[i]
  BY <1>1
<1> HIDE DEF r
<1>3. r \in Seq(Range(r))
  <2>1. DOMAIN r = 1..Len(r) /\ \A i \in 1..Len(r) : r[i] \in Range(r)
    BY <1>2 DEF Range
  <2> QED
    BY <1>2, <2>1
<1>4. r[1].cb = "start"
  <2>1. CASE s = << >>
    BY <1>2, <2>1
  <2>2. CASE s # << >>
    BY <1>1, <1>2, <2>2 DEF Good
  <2> QED
    BY <2>1, <2>2
<1>5. ASSUME NEW i \in 1..Len(r) - 1, r[i].cb = "stop" PROVE r[i].nest > 0
  <2>1. i \in 1..Len(s) /\ r[i] = s[i] /\ s # << >>
    BY <1>1, <1>2
  <2>2. CASE i = Len(s)
    BY <1>5, <2>1, <2>2 DEF GoesDeeper
  <2>3. CASE i # Len(s)
    BY <1>1, <1>5, <2>1, <2>3 DEF Good
  <2> QED
    BY <2>2, <2>3
<1>6. r # << >> /\ r[Len(r)] = e
  BY <1>1, <1>2
<1> QED
  BY <1>3, <1>4, <1>5, <1>6 DEF Good, r

LEMMA TwoMore ==
  ASSUME NEW s, Good(s), GoesDeeper(s), NEW e, NEW f, e.cb = "start", f.cb # "stop"
  PROVE  Good(s \o <<e, f>>) /\ GoesDeeper(s \o <<e, f>>) /\ s \o <<e, f>> # << >>
<1> DEFINE r == s \o <<e>>
<1>1. Good(r) /\ r # << >> /\ r[Len(r)] = e
  BY OneMore
<1>2. GoesDeeper(r)
  BY <1>1 DEF GoesDeeper
<1>3. s \o <<e, f>> = r \o <<f>>
  <2>1. s \in Seq(Range(s) \cup {e, f}) /\ <<e>> \in Seq(Range(s) \cup {e, f})
        /\ <<f>> \in Seq(Range(s) \cup {e, f})
    BY DEF Good
  <2>2. (s \o <<e>>) \o <<f>> = s \o (<<e>> \o <<f>>)
    BY <2>1, ConcatAssociative
  <2> QED
    BY <2>2, FirstOnes
<1> HIDE DEF r
<1>4. Good(r \o <<f>>) /\ r \o <<f>> # << >> /\ (r \o <<f>>)[Len(r \o <<f>>)] = f
  BY <1>1, <1>2, OneMore
<1> QED
  BY <1>3, <1>4 DEF GoesDeeper

LEMMA BeginWhole ==
  ASSUME WInv, NEW shape \in Shapes, Begin(shape)
  PROVE  Whole'
<1> DEFINE S == {IF shape = "object" THEN "{" ELSE "["}
           e == Event("start", shape, nest + 1, key, << >>)
           f == Event(Callback(Fn, shape), shape, nest + 1, key, << >>)
           evs == <<e, f>>
<1>1. Takes(S) /\ st' \in {"OSTART", "ASTART"} /\ nest' = nest + 1
  BY DEF Begin
<1>2. nest = Len(frames) - 1 /\ Len(frames) \in Nat /\ (frames = << >> => st = "START")
  BY <1>1, Taken DEF WInv, Agree
<1>3. Good(events) /\ GoesDeeper(events)
  BY <1>2 DEF WInv, Whole, GoesDeeper
<1>4. e.cb = "start" /\ f.cb # "stop"
  BY DEF Event, Callback
<1>5. events' = events \o <<e>> \/ events' = events \o <<e, f>>
  <2>1. events' = events \o SubSeq(evs, 1, 1) \/ events' = events \o SubSeq(evs, 1, 2)
    BY DEF Begin, Told
  <2> HIDE DEF e, f
  <2>2. SubSeq(evs, 1, 1) = <<e>> /\ SubSeq(evs, 1, 2) = <<e, f>>
    BY FirstOnes
  <2> QED
    BY <2>1, <2>2
<1> HIDE DEF e, f
<1>6. Good(events') /\ events' # << >> /\ GoesDeeper(events')
  <2>1. CASE events' = events \o <<e>>
    BY <1>3, <1>4, <2>1, OneMore DEF GoesDeeper
  <2>2. CASE events' = events \o <<e, f>>
    BY <1>3, <1>4, <2>2, TwoMore
  <2> QED
    BY <1>5, <2>1, <2>2
<1> HIDE DEF S
<1>7. ~(nest' < 0)
  <2>1. nest' = Len(frames)
    BY <1>1, <1>2
  <2> QED
    BY <1>2, <2>1
<1> QED
  BY <1>1, <1>6, <1>7 DEF Whole

LEMMA EndWhole ==
  ASSUME WInv, NEW shape \in Shapes, End(shape)
  PROVE  Whole'
<1> DEFINE S == {IF shape = "object" THEN "}" ELSE "]"}
           e == Event("stop", shape, nest, key, << >>)
           evs == <<e>>
<1>1. Takes(S) /\ Fn = shape /\ st' \in {"OSTOP", "ASTOP"}
  BY DEF End
<1>2. /\ nest = Len(frames) - 1 /\ Len(frames) \in Nat /\ frames \in Seq(Shapes)
      /\ frames # << >> /\ opened = frames
  BY <1>1, Taken DEF WInv, IInv, Shaped, Agree, Fn, Shapes
<1>3. Good(events) /\ GoesDeeper(events) /\ events # << >>
  BY <1>2 DEF WInv, Whole, IInv, Fresh
<1>4. e.cb = "stop" /\ e.nest = nest
  BY DEF Event
<1>5. events' = events \o <<e>> /\ opened' = Tail(frames)
  <2>1. \E ok \in BOOLEAN : Told(evs, 1, ok)
    BY DEF End
  <2> HIDE DEF e
  <2>2. SubSeq(evs, 1, 1) = <<e>> /\ evs[1] = e
    BY FirstOnes
  <2>3. SubSeq(frames, 2, Len(frames)) = Tail(frames)
    BY <1>2
  <2> HIDE DEF evs
  <2> QED
    BY <2>1, <2>2, <2>3, <1>2, <1>4 DEF Told
<1> HIDE DEF e
<1>6. Good(events') /\ events' # << >> /\ events'[Len(events')] = e
  BY <1>3, <1>5, OneMore
<1>7. CASE nest' = nest - 1 /\ frames' = Tail(frames)
  <2>1. frames' # << >> => nest > 0
    BY <1>2, <1>7
  <2>2. nest' < 0 => frames' = << >> /\ opened' = << >>
    BY <1>2, <1>5, <1>7
  <2>3. frames' # << >> => GoesDeeper(events')
    BY <1>4, <1>6, <2>1 DEF GoesDeeper
  <2> QED
    BY <1>1, <1>4, <1>6, <2>2, <2>3 DEF Whole
<1>8. CASE nest' = nest /\ Abort("cb")
  <2>1. frames' = << >> /\ ~(nest' < 0)
    BY <1>2, <1>8 DEF Abort
  <2> QED
    BY <1>1, <1>6, <2>1 DEF Whole
<1> QED
  BY <1>7, <1>8 DEF End

LEMMA ScalarWhole ==
  ASSUME WInv, frames # << >>, Agree, NEW t, NEW cb \in {"key", "value", "item"},
         NEW after, after # "START", t.st # "START", Scalar(t, cb, after)
  PROVE  Whole'
<1> DEFINE e == Event(cb, t.ty, nest + 1, key, t.v)
           evs == <<e>>
<1>1. nest = Len(frames) - 1 /\ Len(frames) \in Nat \ {0}
  BY DEF WInv, IInv, Shaped, Agree
<1>2. Good(events) /\ GoesDeeper(events) /\ events # << >>
  BY DEF WInv, Whole, IInv, Fresh
<1>3. CASE UNCHANGED <<nest, events>> /\ st' = t.st
  <2>1. ~(nest' < 0)
    BY <1>1, <1>3
  <2> QED
    BY <1>2, <1>3, <2>1 DEF Whole
<1>4. CASE /\ st' = after
           /\ \E ok \in BOOLEAN : Told(evs, 1, ok)
           /\ nest' = nest \/ nest' = nest + 1
  <2>1. ~(nest' < 0)
    BY <1>1, <1>4
  <2>2. events' = events \o <<e>>
    <3>1. events' = events \o SubSeq(evs, 1, 1)
      BY <1>4 DEF Told
    <3> QED
      BY <3>1, FirstOnes
  <2>3. e.cb \notin {"start", "stop"}
    BY DEF Event
  <2> HIDE DEF e
  <2>4. Good(events') /\ events' # << >> /\ events'[Len(events')] = e
    BY <1>2, <2>2, OneMore
  <2>5. GoesDeeper(events')
    BY <2>3, <2>4 DEF GoesDeeper
  <2> QED
    BY <1>4, <2>1, <2>4, <2>5 DEF Whole
<1> QED
  BY <1>3, <1>4 DEF Scalar

\* A symbol of a value, a key or a separator is only taken inside of a container.
LEMMA Inside ==
  ASSUME WInv, NEW S, Takes(S), S \cap {"{", "["} = {}
  PROVE  frames # << >> /\ Fn \in Shapes /\ Agree
<1>1. st = "START" /\ Fn = "text" => Expected(Fn, st) \subseteq {"{", "["}
  BY DEF Expected, Out
<1>2. Ch \in Expected(Fn, st) /\ Ch \notin {"{", "["}
  BY DEF Takes
<1> QED
  BY <1>1, <1>2, Taken DEF Fn, WInv

LEMMA KeyWhole ==
  ASSUME WInv, Key
  PROVE  Whole'
<1>1. Takes({"q"}) /\ Scalar(json_parse_str(idx + 1), "key", "KEYOUT")
  BY DEF Key
<1>2. frames # << >> /\ Agree /\ idx \in Nat /\ idx < Sz /\ in \in Seq(Symbols)
  BY <1>1, Inside, Taken DEF WInv, IInv, Shaped
<1>3. json_parse_str(idx + 1).st # "START"
  BY <1>2, StringScan DEF Scan, Out
<1> QED
  BY <1>1, <1>2, <1>3, ScalarWhole

LEMMA ValueWhole ==
  ASSUME WInv, Value
  PROVE  Whole'
<1> DEFINE t == IF Ch = "q" THEN json_parse_str(idx + 1)
                ELSE IF Ch \in Alpha THEN json_parse_tok(idx) ELSE json_parse_num(idx)
<1>1. Takes(Starts \ {"{", "["}) /\ Scalar(t, Callback(Fn, "scalar"), t.st)
  BY DEF Value
<1>2. frames # << >> /\ Agree /\ idx \in Nat /\ idx < Sz /\ in \in Seq(Symbols)
      /\ unescape \in BOOLEAN
  BY <1>1, Inside, Taken DEF WInv, IInv, Shaped, TypeOK
<1>3. t.st # "START"
  BY <1>2, StringScan, NumberScan, WordScan DEF Scan, Out
<1>4. Callback(Fn, "scalar") \in {"value", "item"}
  BY DEF Callback
<1> HIDE DEF t
<1> QED
  BY <1>1, <1>2, <1>3, <1>4, ScalarWhole

\* The other steps tell the client nothing.
LEMMA SilentWhole ==
  ASSUME WInv, Separator \/ Skip \/ Reject \/ Leave
  PROVE  Whole'
<1>1. CASE Separator
  <2>1. Takes({":", ","}) /\ st' \in {"EVALUE", "ENEXT"}
        /\ UNCHANGED <<nest, frames, events, opened>>
    BY <1>1 DEF Separator
  <2>2. frames # << >> /\ Agree
    BY <2>1, Inside
  <2>3. st # "START"
    BY <2>2 DEF WInv, IInv, Fresh
  <2> QED
    BY <2>1, <2>3 DEF WInv, Whole
<1>2. CASE Skip \/ Reject \/ Leave
  <2>1. /\ UNCHANGED <<st, nest, events, opened>>
        /\ frames' \in {frames, << >>, Tail(frames)}
        /\ frames = << >> => frames' = << >>
    BY <1>2 DEF Skip, Reject, Leave, Abort, Proceed, Fn
  <2> QED
    BY <2>1 DEF WInv, Whole
<1> QED
  BY <1>1, <1>2

LEMMA WholeInductive == WInv /\ [JNext]_jvars => WInv'
<1> SUFFICES ASSUME WInv, [JNext]_jvars PROVE Whole'
  BY Inductive DEF WInv
<1>1. CASE Turn
  <2>1. ASSUME NEW shape \in {"object", "array"}, Begin(shape) \/ End(shape) PROVE Whole'
    BY <2>1, BeginWhole, EndWhole DEF Shapes
  <2> QED
    BY <1>1, <2>1, KeyWhole, ValueWhole, SilentWhole DEF Turn
<1>2. CASE \E text \in Docs : json_parse(text)
  <2>1. UNCHANGED <<st, nest, frames, events, opened>>
    BY <1>2 DEF json_parse
  <2> QED
    BY <2>1 DEF WInv, Whole
<1>3. CASE json_reset
  <2>1. st' = "START" /\ nest' = -1 /\ events' = << >> /\ opened' = << >> /\ frames' = << >>
    BY <1>3 DEF json_reset, WInv, IInv, TypeOK
  <2>2. Good(events')
    BY <2>1 DEF Good
  <2> QED
    BY <2>1, <2>2 DEF Whole
<1>4. CASE UNCHANGED jvars
  BY <1>4 DEF jvars, WInv, Whole
<1> QED
  BY <1>1, <1>2, <1>3, <1>4 DEF JNext

LEMMA WholeStart == JInit => WInv
<1> SUFFICES ASSUME JInit PROVE Whole
  BY Start DEF WInv
<1>1. Good(events)
  BY DEF JInit, Good
<1> QED
  BY <1>1 DEF JInit, Whole

\* json_ctx_consistent is enough for the client to know, after json_parse has returned
\* 0, that it was told of one whole container and of nothing behind it.
THEOREM ConsistentMeansWhole == JSpec => []ConsistentIsWhole
<1>1. WInv => ConsistentIsWhole
  BY DEF WInv, Whole, Good, ConsistentIsWhole, json_ctx_consistent, Out
<1> QED
  BY <1>1, WholeStart, WholeInductive, PTL DEF JSpec
=============================================================================
