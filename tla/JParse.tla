------------------------------- MODULE JParse -------------------------------
(***************************************************************************)
(* The pull parser (jparse.c): a cursor over a JSON text, functions that   *)
(* expect one value, one item of an array or one member of an object at    *)
(* the cursor, and the callbacks through which the client walks into       *)
(* containers.  A text is a sequence of symbols, one for each class of     *)
(* byte the parser tells apart; the words null, true and false, and any    *)
(* other run of letters, are one symbol each.                              *)
(***************************************************************************)
EXTENDS Integers, Sequences, FiniteSetsExt, TLC

CONSTANTS
    Docs,        \* the texts the client parses
    Values,      \* JSON values and, for each, the number of its elements: what
                 \* the properties compare the parser with
    Keys         \* the keys (contents of strings) it asks for by name

VARIABLES
    doc,         \* the text of the running parse
    phase,       \* "new", "parse" or "done"
    pos,         \* jctx->bs.pos
    errorpos,    \* jctx->errorpos
    ret,         \* the last result: "ok" (0), "EOS" (JPARSE_EOS) or "bad"
    stack,       \* the containers the client's callbacks are in, innermost first
    blame        \* history: the client asked for what is not there

vars == <<doc, phase, pos, errorpos, ret, stack, blame>>

Blank == {"sp"}
Digits == {"0"}
Signs == {"-", "+"}
Letters == {"null", "true", "false", "a", "b", "e"}

Eod == Len(doc)
At(p) == doc[p + 1]
Slice(p, q) == SubSeq(doc, p + 1, q)

\* What a call leaves: its result and the cursor.
Result(res, p, err) == [res |-> res, pos |-> p, err |-> err]
Results == [res : {"ok", "EOS", "bad", "null"}, pos : Nat, err : Int]

\* F(v), written so that v is evaluated once wherever F uses it.  (The functions
\* below, too, are functions rather than operators for that reason.)
Given(v, F(_)) == CHOOSE y \in {F(x) : x \in {v}} : TRUE

\* `if (errorpos == -1) errorpos = SPOS`
Mark(err, p) == IF err = -1 THEN p ELSE err

\* Note the error, put the cursor back to p, return what c does.
Back(c, p) == Result(c.res, p, Mark(c.err, c.pos))

-----------------------------------------------------------------------------
(* The scanner.  At the end of the data bytestream_consume_data fails.     *)

\* The first position from p on, up to the end of the data, off the run of S.
AfterRun(p, S) ==
    Min({i \in p..Max({p, Eod}) : i >= Eod \/ At(i) \notin S})

reach_nonblank[p \in Nat] == AfterRun(p, Blank)

\* REACH_BODY
Reach[p \in Nat, err \in Int, delim \in STRING] ==
    Given(reach_nonblank[p], LAMBDA q :
        IF q >= Eod THEN Result("bad", q, err)
        ELSE IF At(q) = delim THEN Result("ok", q + 1, err)
        ELSE Result("bad", p, Mark(err, q)))

\* jparse_expect_tok: a word that ends with the data is not a word yet.
jparse_expect_tok[p \in Nat] ==
    Given(reach_nonblank[p], LAMBDA q :
    Given(AfterRun(q, Letters), LAMBDA e :
        [res |-> IF e < Eod THEN "ok" ELSE "bad", pos |-> e, tok |-> Slice(q, e)]))

Word(p, words) ==
    Given(jparse_expect_tok[p], LAMBDA t :
        IF t.res = "ok" /\ t.tok \in words THEN Result("ok", t.pos, -1)
        ELSE Result("bad", p, t.pos))

expect_maybe_null[p \in Nat] == Word(p, {<<"null">>})

jparse_expect_bool[p \in Nat] == Word(p, {<<"true">>, <<"false">>})

\* A sign or a digit, then digits; "-" alone is the number 0.
jparse_expect_int[p \in Nat] ==
    Given(reach_nonblank[p], LAMBDA q :
    Given(AfterRun(q + 1, Digits), LAMBDA e :
        IF q >= Eod THEN Result("bad", q, -1)
        ELSE IF At(q) \notin Digits \cup Signs THEN Result("bad", p, q)
        ELSE Result(IF e < Eod THEN "ok" ELSE "bad", e, -1)))

FloatMoves ==
    ({"IN"} \X (Digits \cup Signs) \X {"1"}) \cup {<<"IN", ".", "DOT">>}
    \cup ({"1"} \X Digits \X {"1"}) \cup {<<"1", ".", "DOT">>, <<"1", "e", "E">>}
    \cup ({"DOT", "2"} \X Digits \X {"2"}) \cup ({"DOT", "2"} \X {"e"} \X {"E"})
    \cup ({"E", "E1"} \X (Digits \cup Signs) \X {"E1"})

\* The states JPS_FLOAT*: any text is a number, that of no digit is 0.
jparse_expect_float[p \in Nat] ==
    LET run[st \in STRING, i \in Nat] ==
          Given({m \in FloatMoves : i < Eod /\ m[1] = st /\ m[2] = At(i)},
                LAMBDA moves : IF moves = {} THEN i
                               ELSE run[(CHOOSE m \in moves : TRUE)[3], i + 1]) IN
    Given(run["IN", reach_nonblank[p]], LAMBDA e :
        Result(IF e < Eod THEN "ok" ELSE "bad", e, -1))

\* bytes_json_unescape: a backslash goes, what it protects stays.
bytes_json_unescape(s) ==
    LET un[i \in Nat] ==
          IF i > Len(s) \/ (i = Len(s) /\ s[i] = "esc") THEN << >>
          ELSE IF s[i] = "esc" THEN <<s[i + 1]>> \o un[i + 2]
          ELSE <<s[i]>> \o un[i + 1] IN
    un[1]

\* The states JPS_STR*: where the string that began before i ends.
Close[i \in Nat] ==
    IF i >= Eod THEN Eod
    ELSE IF At(i) = "esc" THEN Close[i + 2]
    ELSE IF At(i) = "q" THEN i
    ELSE Close[i + 1]

\* jparse_expect_str, and its string: at the end of the data, too, the cursor
\* passes the closing quote.
jparse_expect_str[p \in Nat] ==
    Given(Reach[p, -1, "q"], LAMBDA r :
        IF r.res = "bad" THEN [c |-> Back(r, p), str |-> << >>]
        ELSE Given(Close[r.pos], LAMBDA stop :
                 [c |-> Result(IF stop < Eod THEN "ok" ELSE "bad", stop + 1, -1),
                  str |-> bytes_json_unescape(Slice(r.pos, stop))]))

-----------------------------------------------------------------------------
(* Around a value: an item of an array, a member of an object, or neither. *)

\* Mutant: what is not the comma is skipped like a blank.
CommaAnywhere(c) ==
    Given(AfterRun(c.pos, {At(i) : i \in 0..Eod - 1} \ {","}), LAMBDA q :
        IF q >= Eod THEN [c EXCEPT !.res = "EOS"] ELSE Result("ok", q + 1, c.err))

\* reach_comma after the value; whatever else stands there ends the iteration.
Comma(c) ==
    Given(Reach[c.pos, c.err, ","], LAMBDA r :
        IF r.res = "ok" THEN r ELSE [r EXCEPT !.res = "EOS"])

\* The key of a member, which must be one of `wanted` if there are any, and ':'.
Key(wanted, p) ==
    Given(jparse_expect_str[p], LAMBDA s :
        IF s.c.res = "ok" /\ (wanted = {} \/ s.str \in wanted)
        THEN Reach[s.c.pos, s.c.err, ":"]
        ELSE [s.c EXCEPT !.res = "bad"])

\* Up to the value: an item and a member may be null.
Before(place, wanted, p) ==
    Given(IF place = "member" THEN Key(wanted, p) ELSE Result("ok", p, -1), LAMBDA h :
    Given(expect_maybe_null[h.pos], LAMBDA n :
        IF place = "top" \/ h.res = "bad" THEN h
        ELSE IF n.res = "ok" THEN [n EXCEPT !.res = "null"]
        ELSE [h EXCEPT !.err = n.err]))

\* Mutant: an item that is no such value stays where its attempt ended.
AfterItemStays(place, p, v) ==
    IF v.res = "ok" /\ place # "top" THEN Comma(v) ELSE v

\* After the value v of an item, a member or neither that began at p.
After(place, p, v) ==
    IF v.res = "ok" /\ place # "top" THEN Comma(v)
    ELSE IF v.res # "ok" /\ place = "item" THEN Back(v, p)
    ELSE v

Around(place, wanted, p, Value(_)) ==
    Given(Before(place, wanted, p), LAMBDA h :
        CASE h.res = "bad"  -> h
          [] h.res = "null" -> Comma([h EXCEPT !.res = "ok"])
          [] h.res = "ok"   -> Given(Value(h.pos), LAMBDA v : After(place, p, v)))

Shapes == {"object", "array"}
Start(shape) == IF shape = "object" THEN "{" ELSE "["
Stop(shape)  == IF shape = "object" THEN "}" ELSE "]"

\* The end of jparse_expect_{object,array}: the callback has returned r.
Leave[shape \in Shapes, spos \in Nat, r \in Results] ==
    IF r.res # "ok" THEN Back(r, spos)
    ELSE Given(Reach[r.pos, r.err, Stop(shape)], LAMBDA stop :
             IF stop.res = "bad" THEN Back(stop, spos) ELSE stop)

\* Mutant: only JPARSE_EOS ends an iteration well.
LoopEndAtEos(spos, r) == IF r.res = "EOS" THEN [r EXCEPT !.res = "ok"] ELSE r

\* The loop over the callback is left with r, not 0: the end of the iteration,
\* or an error.  An error with the cursor unmoved means there was nothing.
LoopEnd(spos, r) ==
    IF r.res = "EOS" \/ r.pos = spos THEN [r EXCEPT !.res = "ok"] ELSE r

\* Mutant: the closing bracket is seen and not taken.
LeaveIterProbes(shape, spos, r) ==
    Given(Leave[shape, spos, LoopEnd(spos, r)], LAMBDA v :
        IF v.res = "ok" THEN [v EXCEPT !.pos = @ - 1] ELSE v)

\* The end of jparse_expect_{object,array}_iter.
LeaveIter(shape, spos, r) == Leave[shape, spos, LoopEnd(spos, r)]

\* JPARSE_{ARRAY,OBJECT}_ITERATOR_BODY: the same loop as a callback.
IteratorBody(spos, r) ==
    Given(LoopEnd(spos, r), LAMBDA e :
        IF e.res = "ok" THEN e ELSE [e EXCEPT !.pos = spos])

\* What jparse_expect_any and _ignore do with a value.
Select(p, Container(_, _)) ==
    Given(reach_nonblank[p], LAMBDA q :
    Given(<<expect_maybe_null[q], jparse_expect_bool[q]>>, LAMBDA w :
    Given(CASE q >= Eod -> Result("bad", q, -1)
            [] q < Eod /\ w[1].res = "ok" -> w[1]
            [] q < Eod /\ w[1].res # "ok" /\ w[2].res = "ok" -> w[2]
            [] OTHER ->
                 CASE At(q) = "q" -> jparse_expect_str[q].c
                   [] At(q) = "{" -> Container("object", q)
                   [] At(q) = "[" -> Container("array", q)
                   [] OTHER       -> jparse_expect_float[q], LAMBDA v :
        IF q >= Eod \/ v.res = "ok" THEN v
        ELSE [Back(v, q) EXCEPT !.res = "bad"])))

Kinds == Shapes \cup {"value"}

\* jparse_expect_ignore with the loops of its two callbacks: a value at p, or what
\* is left from p on of the members or items of a container.
ignoring[kind \in Kinds, p \in Nat] ==
    LET Value(x) == ignoring["value", x]
        Container(shape, x) == Given(ignoring[shape, x + 1], LAMBDA r :
                                   LeaveIter(shape, x + 1, r))
        place == IF kind = "object" THEN "member" ELSE "item" IN
    IF kind = "value" THEN Select(p, Container)
    ELSE Given(Around(place, {}, p, Value), LAMBDA r :
             IF r.res = "ok" THEN ignoring[kind, r.pos] ELSE r)

-----------------------------------------------------------------------------
(* The client.  A callback reads items or members one after the other and  *)
(* leaves at the first result that is not 0; it may have one failed item   *)
(* ignored instead.  A frame of the stack is one call of jparse_expect_    *)
(* {object,array}[_iter] whose callback runs.                              *)

\* A call: the key it wants if it is for a member, the type of value, and, if
\* that is a container, whether the callback is run once or for each element.
Fn(place, wanted, type, iter) ==
    [place |-> place, wanted |-> wanted, type |-> type, iter |-> iter]

jparse_expect_item_ignore == {Fn("item", {}, "ignore", FALSE)}

jparse_expect_item_any == {Fn("item", {}, "any", FALSE)}

jparse_expect_item_scalar ==
    {Fn("item", {}, type, FALSE) : type \in {"int", "float", "str", "bool"}}

jparse_expect_item_container ==
    {Fn("item", {}, type, iter) : type \in Shapes, iter \in BOOLEAN}

\* A key the client names (kvp, skvp) or any (anykvp).
Wanted == {{k} : k \in Keys} \cup {{}}

jparse_expect_kvp_any ==
    {Fn("member", wanted, "any", FALSE) : wanted \in Wanted}
    \cup {Fn("member", {}, "ignore", FALSE)}

jparse_expect_kvp_int == {Fn("member", wanted, "int", FALSE) : wanted \in Wanted}

jparse_expect_kvp_float == {Fn("member", wanted, "float", FALSE) : wanted \in Wanted}

jparse_expect_kvp_str == {Fn("member", wanted, "str", FALSE) : wanted \in Wanted}

jparse_expect_kvp_bool == {Fn("member", wanted, "bool", FALSE) : wanted \in Wanted}

jparse_expect_kvp_object ==
    {Fn("member", wanted, "object", iter) : wanted \in Wanted, iter \in BOOLEAN}

jparse_expect_kvp_array ==
    {Fn("member", wanted, "array", iter) : wanted \in Wanted, iter \in BOOLEAN}

\* The callback of a whole parse asks for one value.
TopCalls ==
    {Fn("top", {}, type, FALSE) : type \in {"ignore", "any"}}
    \cup {Fn("top", {}, type, iter) : type \in Shapes, iter \in BOOLEAN}

Calls ==
    jparse_expect_item_ignore \cup jparse_expect_item_any
    \cup jparse_expect_item_scalar \cup jparse_expect_item_container
    \cup jparse_expect_kvp_any \cup jparse_expect_kvp_int \cup jparse_expect_kvp_float
    \cup jparse_expect_kvp_str \cup jparse_expect_kvp_bool
    \cup jparse_expect_kvp_object \cup jparse_expect_kvp_array \cup TopCalls

\* The value of that type at p, unless it is a container with a callback.
ValueOf(type, p) ==
    LET NoContainer(shape, x) == Result("bad", x, -1) IN
    CASE type = "ignore" -> ignoring["value", p]
      [] type = "any"    -> Select(p, NoContainer)
      [] type = "int"    -> jparse_expect_int[p]
      [] type = "float"  -> jparse_expect_float[p]
      [] type = "str"    -> jparse_expect_str[p].c
      [] type = "bool"   -> jparse_expect_bool[p]
      [] type \in Shapes -> Back(Reach[p, -1, Start(type)], p)

Enters(type, q) ==
    q < Eod /\ \E shape \in Shapes : At(q) = Start(shape) /\ type \in {shape, "any"}

Top == stack[1]

\* Which functions the running callback may call.
Calling(place) ==
    /\ phase = "parse"
    /\ place = "top" => stack = << >>
    /\ place = "item" => stack # << >> /\ Top.shape = "array"
    /\ place = "member" => stack # << >> /\ Top.shape = "object"

Uncounted == -9999

\* The call returns r to the callback of the first frame of s, which counts it
\* (up to the length of the text).
Deliver(r, s) ==
    /\ pos' = r.pos /\ errorpos' = r.err /\ ret' = r.res
    /\ stack' = IF s = << >> \/ r.res = "bad" THEN s
                ELSE [s EXCEPT ![1].n = IF @ < Eod THEN @ + 1 ELSE @]
    /\ phase' = IF s = << >> THEN "done" ELSE phase
    /\ UNCHANGED doc

\* Whether a value of that type is at q.
Is(type, q) ==
    CASE type \in {"ignore", "any"} -> TRUE
      [] type = "int"    -> /\ At(q) \in Digits \cup Signs
                            /\ AfterRun(q + 1, Digits) < Eod
                            /\ At(AfterRun(q + 1, Digits)) \notin {".", "e"}
      [] type = "float"  -> At(q) \in Digits \cup Signs
      [] type = "str"    -> At(q) = "q"
      [] type = "bool"   -> At(q) \in {"true", "false"}
      [] type \in Shapes -> At(q) = Start(type)

\* Whether the call f asks for what is there, h being what comes before the value
\* and q where the value is.
Fits(f, h, q) ==
    \/ At(reach_nonblank[pos]) \in {"]", "}"}
    \/ h.res = "null"
    \/ h.res = "ok" /\ Is(f.type, q)

\* The callback calls f: it gets the result, or the callback of a container runs.
Call(f) ==
    /\ Calling(f.place) /\ ret = "ok"
    /\ \E h \in {Before(f.place, f.wanted, pos)} : \E q \in {reach_nonblank[h.pos]} :
          /\ IF h.res = "ok" /\ Enters(f.type, q)
             THEN /\ stack' = <<[shape |-> IF At(q) = "{" THEN "object" ELSE "array",
                                 iter |-> f.iter, any |-> f.type = "any",
                                 opos |-> IF f.type = "any" THEN q ELSE h.pos,
                                 spos |-> q + 1, place |-> f.place, ppos |-> pos,
                                 fell |-> FALSE, n |-> 0]>> \o stack
                  /\ pos' = q + 1 /\ errorpos' = -1
                  /\ UNCHANGED <<doc, phase, ret>>
             ELSE LET Value(p) == ValueOf(f.type, p) IN
                  \E r \in {Around(f.place, f.wanted, pos, Value)} : Deliver(r, stack)
          /\ blame' = (blame \/ (q < Eod /\ ~Fits(f, h, q)))

\* The callback has the item that failed ignored.  (A member that failed may
\* have left the cursor behind its key: nothing is to be had there again.)
FallBack ==
    LET Value(p) == ignoring["value", p] IN
    /\ Calling("item")
    /\ ret = "bad" /\ ~Top.fell
    /\ \E r \in {Around("item", {}, pos, Value)} :
          Deliver(r, [stack EXCEPT ![1].fell = TRUE])
    /\ UNCHANGED blame

\* The callback is jparse_ignore_nonscalar_iterator.
jparse_ignore_nonscalar_iterator ==
    /\ phase = "parse" /\ stack # << >>
    /\ ret = "ok" /\ Top.any /\ pos = Top.spos
    /\ \E r \in {ignoring[Top.shape, pos]} :
          Deliver(r, [stack EXCEPT ![1].n = Uncounted])
    /\ UNCHANGED blame

\* Mutant: the error of a container is lost.
OutcomeOk ==
    LET r == Result(ret, pos, errorpos)
        cb == IF ret = "ok" THEN r ELSE IteratorBody(Top.spos, r) IN
    Given(IF Top.iter THEN LeaveIter(Top.shape, Top.spos, r)
          ELSE Leave[Top.shape, Top.opos, cb], LAMBDA v :
        IF v.res = "ok" THEN After(Top.place, Top.ppos, v)
        ELSE [Back(v, Top.ppos) EXCEPT !.res = "ok"])

\* What the running callback's container is worth to the callback around it.
Outcome ==
    LET r == Result(ret, pos, errorpos)
        cb == IF ret = "ok" THEN r ELSE IteratorBody(Top.spos, r) IN
    Given(IF Top.iter THEN LeaveIter(Top.shape, Top.spos, r)
          ELSE Leave[Top.shape, Top.opos, cb], LAMBDA v :
        After(Top.place, Top.ppos,
              IF Top.any /\ v.res # "ok" THEN [Back(v, Top.opos) EXCEPT !.res = "bad"]
              ELSE v))

\* The callback returns what it got last; that of jparse_expect_{object,array}
\* through an iterator's loop, or at once.
Return ==
    /\ phase = "parse" /\ stack # << >>
    /\ ret = "ok" => ~Top.iter
    /\ \E r \in {Outcome} : Deliver(r, SubSeq(stack, 2, Len(stack)))
    /\ \E p \in {reach_nonblank[pos]} :
          blame' = (blame \/ (ret = "ok" /\ p < Eod /\ At(p) # Stop(Top.shape)))

\* jparse_ctx_parse_data and jparse_ctx_parse_fd
jparse_ctx_parse(d) ==
    /\ phase = "new"
    /\ doc' = d /\ phase' = "parse" /\ ret' = "ok" /\ blame' = FALSE
    /\ UNCHANGED <<pos, errorpos, stack>>

jparse_ctx_complete ==
    /\ phase = "done"
    /\ phase' = "new" /\ pos' = 0 /\ errorpos' = -1 /\ doc' = << >>
    /\ UNCHANGED <<ret, stack, blame>>

Init ==
    /\ doc = << >> /\ phase = "new"
    /\ pos = 0 /\ errorpos = -1 /\ ret = "ok"
    /\ stack = << >> /\ blame = FALSE

\* What the parser and its callbacks do once a parse is begun.
Run ==
    \/ \E f \in Calls : Call(f)
    \/ FallBack \/ jparse_ignore_nonscalar_iterator \/ Return

Next ==
    \/ Run
    \/ (\E d \in Docs : jparse_ctx_parse(d)) \/ jparse_ctx_complete

\* jparse_ctx_parse* runs on the thread that calls it: a parse does not stop half way.
Spec == Init /\ [][Next]_vars /\ WF_vars(Run)

-----------------------------------------------------------------------------
\* Type correctness: the cursor stays in the text or one past it (behind the
\* closing quote of a string the data ends in), errors are noted inside it.
TypeOK ==
    /\ doc \in Docs \cup {<< >>}
    /\ phase \in {"new", "parse", "done"}
    /\ pos \in 0..Eod + 1 /\ errorpos \in -1..Eod + 1
    /\ ret \in {"ok", "EOS", "bad"}
    /\ blame \in BOOLEAN
    /\ \A i \in 1..Len(stack) :
          stack[i].opos < stack[i].spos /\ stack[i].spos <= pos

Occurs(v, p) ==
    /\ p + Len(v) <= Eod /\ Slice(p, p + Len(v)) = v
    /\ \/ v[Len(v)] \in {"q", "]", "}"}
       \/ p + Len(v) < Eod /\ At(p + Len(v)) \in {"sp", ",", "]", "}"}

\* Wherever a JSON value stands in a text, jparse_expect_ignore takes it, to its
\* last byte and no further: recursion, loops and look-ahead agree on its end.
IgnoreTakesTheValue ==
    phase = "parse" /\ stack = << >> =>
        \A v \in DOMAIN Values : \A p \in 0..Eod - 1 :
            Occurs(v, p) => \E r \in {ignoring["value", p]} :
                                r.res = "ok" /\ r.pos = p + Len(v)

\* The brackets a text opens and does not close up to p, innermost first, and
\* whether p is in a string.
Open[p \in Nat] ==
    IF p = 0 THEN [stops |-> << >>, str |-> "out"]
    ELSE LET o == Open[p - 1]
             c == doc[p] IN
         CASE o.str = "esc" -> [o EXCEPT !.str = "in"]
           [] o.str = "in"  -> [o EXCEPT !.str = CASE c = "esc" -> "esc"
                                                   [] c = "q" -> "out"
                                                   [] OTHER -> "in"]
           [] o.str = "out" ->
                CASE c = "q" -> [o EXCEPT !.str = "in"]
                  [] c = "{" -> [o EXCEPT !.stops = <<"}">> \o @]
                  [] c = "[" -> [o EXCEPT !.stops = <<"]">> \o @]
                  [] c \in {"}", "]"} ->
                       [o EXCEPT !.stops = IF @ # << >> /\ @[1] = c
                                           THEN SubSeq(@, 2, Len(@)) ELSE <<"?">> \o @]
                  [] OTHER -> o

\* Whatever the text and whatever the client asks for, item by item, with items
\* given back and read again: what the cursor has passed opens exactly the
\* containers whose callbacks run; so a parse that succeeds took a whole value.
BracketsMatchCalls ==
    /\ TypeOK
    /\ phase # "new" /\ ret # "bad" =>
          /\ Open[pos].str = "out"
          /\ Open[pos].stops = [i \in 1..Len(stack) |-> Stop(stack[i].shape)]

\* A parse of a JSON object or array by a client that asks for nothing that is
\* not there succeeds and takes all of it.
NoFalseReject ==
    phase = "done" /\ doc \in DOMAIN Values /\ ~blame => ret = "ok" /\ pos = Eod

\* In it, when a callback's loop ends, the callback has been given each element
\* of its container once.  (An empty array read as numbers or as any value looks
\* like one number without a digit.)
EachElementOnce ==
    phase = "parse" /\ stack # << >> /\ ret # "ok" /\ doc \in DOMAIN Values /\ ~blame =>
        \A v \in DOMAIN Values :
            Occurs(v, Top.spos - 1) /\ v[1] \in {"{", "["} =>
                Top.n \in {Values[v], IF Values[v] = 0 THEN 1 ELSE Values[v]}
                \/ Top.n < 0

\* Every parse ends, whatever the text and the callbacks: no loop of a callback,
\* or over a callback, goes on for ever, though a number need not have a digit.
ParseEnds == phase = "parse" ~> phase = "done"

=============================================================================
