------------------------------ MODULE JsonPack ------------------------------
(***************************************************************************)
(* The packing functions of json.c, which write JSON into a byte stream,   *)
(* composed with the push parser, which reads it back.  A client packs a   *)
(* document element by element, the containers in it through callbacks,    *)
(* and has the result parsed.                                              *)
(***************************************************************************)
EXTENDS Json

CONSTANTS
    Strings, Keys,   \* the strings and keys it packs
    BoolPairs,       \* the booleans it packs as members of objects: with any,
                     \* PackedIsRead fails (see PackBool)
    MaxCalls         \* how many elements

VARIABLES
    out,             \* the stream's data from 0 to eod
    open,            \* the containers it is in, innermost first: its shape, and
                     \* whether the function that packs it adds a comma
    packed           \* history: the callbacks that reading it should bring

vars == <<jvars, out, open, packed>>

\* How many bytes a symbol stands for.
Width(c) == CASE c \in {"true", "null", "flse"} -> 4 [] c = "false" -> 5 [] OTHER -> 1
Bytes(text) == FoldSeq(LAMBDA c, n : Width(c) + n, 0, text)

\* Mutant: only quotes are escaped.
EscapeQuotes(s) ==
    FlattenSeq([i \in DOMAIN s |-> IF s[i] = "q" THEN <<"esc", s[i]>> ELSE <<s[i]>>])

bytes_json_escape(s) ==
    FlattenSeq([i \in DOMAIN s |-> IF s[i] \in {"q", "esc"} THEN <<"esc", s[i]>> ELSE <<s[i]>>])

\* bytestream_nprintf with room for n bytes, the last for a NUL: what does not fit
\* is not packed.
Printed(n, text) == IF Bytes(text) < n THEN out \o text ELSE out

Comma(comma) == IF comma THEN <<",">> ELSE << >>
KeyText(k) == <<"q">> \o k \o <<"q", ":">>

\* mnjson_{bs,bytes}_{pair,item}*
PackString(k, s, comma) ==
    Printed((IF k = << >> THEN 4 ELSE Bytes(k) + 8) + Bytes(bytes_json_escape(s)),
            (IF k = << >> THEN << >> ELSE KeyText(k))
            \o <<"q">> \o bytes_json_escape(s) \o <<"q">> \o Comma(comma))

\* mnjson_int_*, mnjson_float_*
PackNumber(k, text, comma) ==
    Printed(Bytes(k) + (IF "." \in ToSet(text) THEN 1024 ELSE 64),
            (IF k = << >> THEN << >> ELSE KeyText(k)) \o text \o Comma(comma))

\* mnjson_bool_*: as a member, false is spelt "flse", and mnjson_bool_pair0 (with
\* a comma) has no room for it.
PackBool(k, b, comma) ==
    Printed(Bytes(k) + 8,
            (IF k = << >> THEN << >> ELSE KeyText(k))
            \o <<IF b THEN "true" ELSE IF k = << >> THEN "false" ELSE "flse">>
            \o Comma(comma))

\* mnjson_chop_comma
ChopComma(s) == IF Last(s) = "," THEN Front(s) ELSE s

Start(shape) == IF shape = "object" THEN "{" ELSE "["
Stop(shape)  == IF shape = "object" THEN "}" ELSE "]"

-----------------------------------------------------------------------------
(* The client.  It packs one element after the other, until one without a  *)
(* comma; what it begins it ends, after taking back a comma.               *)

Packing == phase = "ready" /\ in = << >> /\ open # << >>

\* The keys to use here: that of a member, or none.
KeysHere == IF open[1].shape = "object" THEN Keys ELSE {<< >>}

More ==
    /\ Packing /\ Last(out) \in {"{", "[", ","}
    /\ Len(packed) < MaxCalls

\* What the parser should tell of an element.
Told2(k, evs) ==
    packed' = packed
              \o (IF k = << >> THEN << >> ELSE <<Event("key", "STRING", Len(open), k, k)>>)
              \o evs

Begun(shape, k, level) ==
    <<Event("start", shape, level, k, << >>),
      Event(IF k = << >> /\ (open # << >> \/ shape = "array") THEN "item" ELSE "value",
            shape, level, k, << >>)>>

Scalar2(k, ty, v) ==
    Told2(k, <<Event(IF k = << >> THEN "item" ELSE "value", ty, Len(open), k, v)>>)

PackElement(comma) ==
    /\ More
    /\ \E k \in KeysHere :
          \/ \E s \in Strings :
                out' = PackString(k, s, comma) /\ Scalar2(k, "STRING", bytes_json_escape(s))
          \/ \E text \in {<<"0">>, <<"-", "0", ".", "0">>} :
                /\ out' = PackNumber(k, text, comma)
                /\ Scalar2(k, IF "." \in ToSet(text) THEN "FLOAT" ELSE "INT", text)
          \/ \E b \in (IF k = << >> THEN BOOLEAN ELSE BoolPairs) :
                /\ out' = PackBool(k, b, comma)
                /\ Scalar2(k, "BOOLEAN", <<IF b THEN "true" ELSE "false">>)
    /\ UNCHANGED <<jvars, open>>

\* mnjson_cb_{pair,item}*, up to the callback, which begins a container.
PackContainer(shape, comma) ==
    /\ More
    /\ \E k \in KeysHere :
          /\ out' = out \o (IF k = << >> THEN << >> ELSE KeyText(k)) \o <<Start(shape)>>
          /\ Told2(k, Begun(shape, k, Len(open)))
    /\ open' = <<[shape |-> shape, comma |-> comma]>> \o open
    /\ UNCHANGED jvars

PackTop(shape) ==
    /\ phase = "ready" /\ out = << >>
    /\ out' = <<Start(shape)>>
    /\ packed' = Begun(shape, << >>, 0)
    /\ open' = <<[shape |-> shape, comma |-> FALSE]>>
    /\ UNCHANGED jvars

\* The end of the container and, for one in another, of mnjson_cb_{pair,item}*.
PackEnd ==
    /\ Packing
    /\ out' = ChopComma(out) \o <<Stop(open[1].shape)>> \o Comma(open[1].comma)
    /\ packed' = Append(packed, Event("stop", open[1].shape, Len(open) - 1, << >>, << >>))
    /\ open' = Tail(open)
    /\ UNCHANGED jvars

Init == JInit /\ out = << >> /\ open = << >> /\ packed = << >>

\* One of the texts is parsed, or the one that has been packed.
Next ==
    \/ (Turn \/ json_reset) /\ UNCHANGED <<out, open, packed>>
    \/ \E d \in IF out = << >> THEN Docs ELSE {out} :
          open = << >> /\ json_parse(d) /\ UNCHANGED <<out, open, packed>>
    \/ \E comma \in BOOLEAN :
          PackElement(comma) \/ \E shape \in {"object", "array"} : PackContainer(shape, comma)
    \/ (\E shape \in {"object", "array"} : PackTop(shape)) \/ PackEnd

\* json_parse runs on the thread that calls it.
Spec == Init /\ [][Next]_vars /\ WF_vars(Turn /\ UNCHANGED <<out, open, packed>>)

-----------------------------------------------------------------------------
\* The pull parser on the same text.
Pull == INSTANCE JParse WITH
    Docs <- {}, Values <- << >>, Keys <- {}, doc <- in, pos <- idx, errorpos <- -1,
    ret <- res, blame <- failed

\* What has been packed is read: as it is parsed, the client is told of each element
\* that it packed, with its type, key, text and nesting, and of nothing else; and the
\* document is whole and consistent at its end.  jparse_expect_ignore takes the same
\* text whole.
PackedIsRead ==
    in = out /\ in # << >> /\ open = << >> =>
        /\ phase = "parse" /\ idx = 0 =>
              \E r \in {Pull!ignoring["value", 0]} : r.res = "ok" /\ r.pos = Sz
        /\ IsPrefix(events, packed)
        /\ phase = "done" /\ ~failed => res = "ok" /\ events = packed /\ json_ctx_consistent

=============================================================================
