-------------------------------- MODULE Json --------------------------------
(***************************************************************************)
(* The push parser (json.c): three functions that call each other, one for *)
(* the text, one for an object and one for an array, over one state st and *)
(* one index, and the callbacks through which the client is told of what   *)
(* begins, ends or is found.  A step is one turn of the loop of the        *)
(* innermost function.  Texts are sequences of symbols as in JParse; "nul" *)
(* is the byte 0, which the tests hand over with the text.                 *)
(***************************************************************************)
EXTENDS Integers, Sequences, SequencesExt, FiniteSetsExt

CONSTANTS
    Docs         \* the texts the client has parsed

VARIABLES
    in,          \* ctx->in, and sz its length
    phase,       \* "ready", "parse" or "done"
    idx,         \* ctx->idx
    st,          \* ctx->st
    nest,        \* ctx->nest
    unescape,    \* ctx->flags & JPS_FNEEDUNESCAPE
    frames,      \* the calls of json_parse_{obj,array} that run, innermost first
    stack,       \* ctx->stack: the client pushes what it is in
    key,         \* ctx->current_key
    res,         \* what json_parse returned: "ok" (0), "more" (JSON_PARSE_NEEDMORE),
                 \* "syntax", "state" (an error of the parser's own) or "cb" (a
                 \* callback's)
    events,      \* history: the callbacks since json_init or json_reset
    opened,      \* history: the containers they have begun and not ended, innermost first
    failed       \* history: one of them failed

jvars == <<in, phase, idx, st, nest, unescape, frames, stack, key, res,
          events, opened, failed>>

\* The symbols of texts; a NUL is only put at the end of one.
Symbols == {"sp", "{", "}", "[", "]", ":", ",", "q", "esc", "0", ".", "-", "null", "true",
            "false", "flse", "a", "b", "e", "nul"}

ASSUME JsonAssumption ==
    \A d \in Docs : d \in Seq(Symbols) /\ \A i \in 1..Len(d) - 1 : d[i] # "nul"

Sz == Len(in)
Ch == in[idx + 1]

Blank  == {"sp"}
Digits == {"0"}
Alpha  == {"null", "true", "false", "flse", "a", "b", "e"}

\* JPS_OUT
Out == {"STROUT", "NUMOUT", "TOKOUT", "OSTOP", "ASTOP"}

\* A call of a callback, and what it sees; of the current key, a value's only.
Event(cb, ty, level, k, v) ==
    [cb |-> cb, ty |-> ty, nest |-> level, key |-> IF cb = "value" THEN k ELSE << >>,
     v |-> v]

-----------------------------------------------------------------------------
(* The scanners: where the string, number or word that starts at i ends.   *)

\* The first index from i on, up to the end, that is off the run of S.
AfterRun(i, S) == Min({j \in i..Sz : j = Sz \/ in[j + 1] \notin S})

Scanned(state, i, j, ty, flag) ==
    [st |-> state, stop |-> j, v |-> SubSeq(in, i + 1, j), ty |-> ty, unescape |-> flag]

\* json_parse_str: a quote ends it but for one behind an odd number of backslashes;
\* only an escape that comes first sets the flag.
json_parse_str(i) ==
    LET escaped(j) == (j - Max({k \in i..j : k = i \/ in[k] # "esc"})) % 2 = 1
        stop == Min({j \in i..Sz : j = Sz \/ (in[j + 1] = "q" /\ ~escaped(j))}) IN
    Scanned(IF stop < Sz THEN "STROUT" ELSE IF i = Sz THEN "STRIN"
            ELSE IF escaped(Sz) THEN "STRESC" ELSE "STR", i, stop, "STRING", i < Sz /\ in[i + 1] = "esc")

\* json_parse_num
json_parse_num(i) ==
    LET j == AfterRun(i + 1, Digits \cup {".", "e", "-"})
        float == \E k \in i + 1..j : in[k] \in {".", "e"} \/ (in[k] = "-" /\ k > i + 1) IN
    Scanned(IF j < Sz THEN "NUMOUT" ELSE "NUM", i, j, IF float THEN "FLOAT" ELSE "INT",
            unescape)

\* json_parse_tok, and what its callers make of the word: any other is null, too.
json_parse_tok(i) ==
    LET j == AfterRun(i, Alpha \cup Digits \cup {"."})
        bool == SubSeq(in, i + 1, j) \in {<<"true">>, <<"false">>} IN
    Scanned(IF j < Sz THEN "TOKOUT" ELSE "TOK", i, j, IF bool THEN "BOOLEAN" ELSE "NULL",
            unescape)

-----------------------------------------------------------------------------
(* The three functions and what they have in common.                       *)

Fn == IF frames = << >> THEN "text" ELSE frames[1]

Starts == {"{", "[", "q", "-"} \cup Digits \cup Alpha

\* The symbols, but for blanks, that function fn takes in state s; none if it does
\* not know the state.
Expected(fn, s) ==
    {c \in Symbols :
        \/ fn = "text"   /\ s = "START"               /\ c \in {"{", "["}
        \/ fn = "object" /\ s = "OSTART"              /\ c \in {"}", "q"}
        \/ fn = "object" /\ s = "KEYOUT"              /\ c = ":"
        \/ fn = "object" /\ s = "EVALUE"              /\ c \in Starts
        \/ fn = "object" /\ s \in Out                 /\ c \in {",", "}"}
        \/ fn = "object" /\ s = "ENEXT"               /\ c = "q"
        \/ fn = "array"  /\ s \in {"ASTART", "ENEXT"} /\ c \in Starts \cup {"]"}
        \/ fn = "array"  /\ s \in Out                 /\ c \in {",", "]"}}

\* The loop goes on with a symbol of S that is expected here.
Takes(S) ==
    /\ phase = "parse" /\ idx < Sz
    /\ Ch \in S /\ Ch \in Expected(Fn, st)

\* Every function returns r at once; an array in an array returns an error of its own
\* (JSON_PARSE_ARRAY + 4) for r, JSON_PARSE_NEEDMORE included.
Abort(r) ==
    /\ phase' = "done" /\ frames' = << >>
    /\ res' = IF \E i \in 1..Len(frames) - 1 : frames[i] = "array" /\ frames[i + 1] = "array"
              THEN "array" ELSE r

Proceed == UNCHANGED <<phase, res>>

\* The client is told of the first n of evs, of which only the first may begin or end
\* a container; its last callback returns 0 if ok.
Told(evs, n, ok) ==
    /\ events' = events \o SubSeq(evs, 1, n)
    /\ opened' = IF evs[1].cb = "start" THEN <<evs[1].ty>> \o opened
                 ELSE IF evs[1].cb = "stop" THEN SubSeq(opened, 2, Len(opened)) ELSE opened
    /\ failed' = (failed \/ ~ok)

\* The callback for a value: that of items in an array, else that of values.
Callback(fn, s) == IF fn = "array" \/ (fn = "text" /\ s = "array") THEN "item" ELSE "value"

\* What the callbacks do with the context.
json_ctx_push(o) == stack' = <<o>> \o stack
json_ctx_pop == stack' = SubSeq(stack, 2, Len(stack))
json_ctx_notice_key(cb, v) == key' = IF cb = "key" THEN v ELSE key

\* '{' and '[': two callbacks, of which the first pushes what begins.
Begin(shape) ==
    /\ Takes({IF shape = "object" THEN "{" ELSE "["})
    /\ st' = IF shape = "object" THEN "OSTART" ELSE "ASTART"
    /\ nest' = nest + 1
    /\ LET evs == <<Event("start", shape, nest + 1, key, << >>),
                    Event(Callback(Fn, shape), shape, nest + 1, key, << >>)>> IN
       \/ /\ Told(evs, 2, TRUE) /\ json_ctx_push(shape)
          /\ frames' = <<shape>> \o frames /\ idx' = idx + 1 /\ Proceed
       \/ /\ Told(evs, 1, FALSE) /\ UNCHANGED <<stack, idx>> /\ Abort("cb")
       \/ /\ Told(evs, 2, FALSE) /\ json_ctx_push(shape) /\ UNCHANGED idx /\ Abort("cb")
    /\ UNCHANGED <<in, unescape, key>>

\* '}' and ']': the callback, which pops, is called before nest goes down.
End(shape) ==
    /\ Fn = shape /\ Takes({IF shape = "object" THEN "}" ELSE "]"})
    /\ st' = IF shape = "object" THEN "OSTOP" ELSE "ASTOP"
    /\ \E ok \in BOOLEAN :
          /\ Told(<<Event("stop", shape, nest, key, << >>)>>, 1, ok)
          /\ IF ok THEN /\ nest' = nest - 1 /\ json_ctx_pop
                        /\ frames' = Tail(frames) /\ idx' = idx + 1 /\ Proceed
             ELSE UNCHANGED <<nest, stack, idx>> /\ Abort("cb")
    /\ UNCHANGED <<in, unescape, key>>

\* A string, number or word: the scanner needs more, or the callback is called.
Scalar(t, cb, after) ==
    /\ unescape' = t.unescape
    /\ IF t.st \notin Out
       THEN /\ st' = t.st /\ idx' = Sz /\ Abort("more")
            /\ UNCHANGED <<nest, key, events, opened, failed>>
       ELSE LET last == IF t.st = "STROUT" THEN t.stop ELSE t.stop - 1 IN
            /\ st' = after
            /\ json_ctx_notice_key(cb, t.v)
            /\ \E ok \in BOOLEAN :
                  /\ Told(<<Event(cb, t.ty, nest + 1, key, t.v)>>, 1, ok)
                  /\ IF ok THEN idx' = last + 1 /\ Proceed /\ UNCHANGED <<nest, frames>>
                     ELSE idx' = last /\ nest' = nest + 1 /\ Abort("cb")
    /\ UNCHANGED <<in, stack>>

Key ==
    /\ st # "EVALUE" /\ Fn = "object" /\ Takes({"q"})
    /\ Scalar(json_parse_str(idx + 1), "key", "KEYOUT")

\* A value of an object or an item of an array.
Value ==
    /\ Fn = "object" => st = "EVALUE"
    /\ Takes(Starts \ {"{", "["})
    /\ \E t \in {IF Ch = "q" THEN json_parse_str(idx + 1)
                 ELSE IF Ch \in Alpha THEN json_parse_tok(idx) ELSE json_parse_num(idx)} :
          Scalar(t, Callback(Fn, "scalar"), t.st)

\* ':' and ','
Separator ==
    /\ Takes({":", ","})
    /\ st' = IF Ch = ":" THEN "EVALUE" ELSE "ENEXT"
    /\ idx' = idx + 1
    /\ UNCHANGED <<in, phase, nest, unescape, frames, stack, key, res, events, opened,
                   failed>>

\* Mutant: the loop does not go on after a blank.
SkipStays ==
    /\ phase = "parse" /\ idx < Sz /\ Ch \in Blank
    /\ UNCHANGED jvars

\* Blanks; and, outside of the container, whatever there is.
Skip ==
    /\ phase = "parse" /\ idx < Sz /\ Ch # "nul"
    /\ IF Fn = "text" THEN Ch \notin Expected("text", st)
       ELSE Ch \in Blank /\ Expected(Fn, st) # {}
    /\ idx' = idx + 1
    /\ UNCHANGED <<in, phase, st, nest, unescape, frames, stack, key, res, events, opened,
                   failed>>

\* Anything else.
Reject ==
    /\ phase = "parse" /\ idx < Sz /\ Fn # "text"
    /\ Ch \notin (Expected(Fn, st) \cup {"nul"})
    /\ Expected(Fn, st) # {} => Ch \notin Blank
    /\ Abort(IF Expected(Fn, st) = {} THEN "state" ELSE "syntax")
    /\ UNCHANGED <<in, idx, st, nest, unescape, stack, key, events, opened, failed>>

\* The end of the text: each function returns 0, and its caller goes on one further.
Leave ==
    /\ phase = "parse" /\ (idx < Sz => Ch = "nul")
    /\ IF frames = << >> THEN phase' = "done" /\ res' = "ok" /\ UNCHANGED <<frames, idx>>
       ELSE frames' = Tail(frames) /\ idx' = idx + 1 /\ Proceed
    /\ UNCHANGED <<in, st, nest, unescape, stack, key, events, opened, failed>>

\* Mutant: whether a container is open is not looked at.
ConsistentByState == idx = Sz /\ st \in Out

\* json_ctx_consistent
json_ctx_consistent == idx = Sz /\ st \in Out /\ nest < 0 /\ stack = << >>

-----------------------------------------------------------------------------
(* The client.                                                             *)

\* json_parse; without a reset, too, with the same text or more of it.
json_parse(d) ==
    /\ phase # "parse"
    /\ phase = "done" => IsPrefix(in, d)
    /\ in' = d /\ phase' = "parse" /\ res' = "ok"
    /\ UNCHANGED <<idx, st, nest, unescape, frames, stack, key, events, opened, failed>>

\* Mutant: the level of a parse that failed stays.
ResetKeepsNest ==
    /\ phase = "done"
    /\ in' = << >> /\ phase' = "ready" /\ idx' = 0 /\ st' = "START"
    /\ unescape' = FALSE /\ stack' = << >> /\ key' = << >>
    /\ events' = << >> /\ opened' = << >> /\ failed' = FALSE
    /\ UNCHANGED <<frames, res, nest>>

json_reset ==
    /\ phase = "done"
    /\ in' = << >> /\ phase' = "ready" /\ idx' = 0 /\ st' = "START" /\ nest' = -1
    /\ unescape' = FALSE /\ stack' = << >> /\ key' = << >>
    /\ events' = << >> /\ opened' = << >> /\ failed' = FALSE
    /\ UNCHANGED <<frames, res>>

\* json_init
JInit ==
    /\ in = << >> /\ phase = "ready" /\ idx = 0 /\ st = "START" /\ nest = -1
    /\ unescape = FALSE /\ frames = << >> /\ stack = << >> /\ key = << >>
    /\ res = "ok" /\ events = << >> /\ opened = << >> /\ failed = FALSE

\* The loops of json_parse.
Turn ==
    \/ \E shape \in {"object", "array"} : Begin(shape) \/ End(shape)
    \/ Key \/ Value \/ Separator \/ Skip \/ Reject \/ Leave

JNext == Turn \/ (\E d \in Docs : json_parse(d)) \/ json_reset

JSpec == JInit /\ [][JNext]_jvars

-----------------------------------------------------------------------------
(* Properties *)

\* Type correctness; the index runs past the end by one for each function that the
\* end of the text ends, and no function runs between two parses.
TypeOK ==
    /\ phase \in {"ready", "parse", "done"} /\ idx \in 0..2 * Sz + 1
    /\ st \in {"START", "OSTART", "ASTART", "KEYOUT", "EVALUE", "ENEXT", "STRIN", "STRESC",
               "STR", "NUM", "TOK"} \cup Out
    /\ nest \in -1..Sz /\ unescape \in BOOLEAN
    /\ Len(frames) <= Sz /\ (phase # "parse" => frames = << >>)
    /\ res \in {"ok", "more", "syntax", "state", "cb", "array"}

\* As long as there is text, the recursion of the parser, its counter nest, what the
\* callbacks told the client and the stack it keeps by them agree, and the one state
\* that all functions share is one that the running function knows, whatever the
\* text, and also after a parse that failed.
CallsMatchCallbacks ==
    /\ TypeOK
    /\ res # "state"
    /\ phase = "parse" /\ frames # << >> /\ idx < Sz /\ Ch # "nul" =>
          /\ nest = Len(frames) - 1
          /\ stack = frames /\ opened = frames
          /\ Expected(Fn, st) # {}

\* json_parse returns 0 for a text that is cut short between two symbols;
\* json_ctx_consistent tells: with it, the client was told of one whole container,
\* however often it called json_parse since the last reset, and with or without a
\* NUL at the end.
ConsistentIsWhole ==
    phase = "done" /\ res = "ok" /\ json_ctx_consistent =>
        /\ events # << >> /\ opened = << >>
        /\ events[1].cb = "start" /\ events[Len(events)].cb = "stop"
        /\ \A i \in 1..Len(events) - 1 : events[i].cb = "stop" => events[i].nest > 0

\* Every parse ends, whatever the text and whatever the callbacks return.
ParseEnds == phase = "parse" ~> phase = "done"

=============================================================================
