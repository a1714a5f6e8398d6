------------------------------ MODULE MCJParse ------------------------------
(* Texts for JParse: JSON values, and the same cut short or with a symbol   *)
(* replaced.                                                                *)
EXTENDS JParse, SequencesExt

Array(items) ==
    LET sep(i) == IF i = 1 THEN << >> ELSE <<",">> IN
    <<"[">> \o FlattenSeq([i \in DOMAIN items |-> sep(i) \o items[i]]) \o <<"]">>
Member(k, v) == <<"q", k, "q", ":">> \o v
Object(members) == [Array(members) EXCEPT ![1] = "{", ![Len(Array(members))] = "}"]

Zero  == <<"0">>
Float == <<"-", "0", ".", "0", "e", "-", "0">>
Str  == <<"q", "]", "esc", "q", "q">>
Empty == <<"q", "q">>
Null == <<"null">>

A0 == Array(<< >>)
A1 == Array(<<Zero, Str>>)
A2 == Array(<<<<"sp">> \o A0, <<"true", "sp">>>>)
A3 == Array(<<Null, A1, Float>>)
O0 == Object(<< >>)
O1 == Object(<<Member("a", Zero), Member("b", Str)>>)
O2 == Object(<<Member("a", A0), Member("b", Null)>>)
O3 == Object(<<Member("a", O0)>>)
A4 == Array(<<O1, Empty>>)
A5 == Array(<<A0, A0, Array(<<<<"false">>>>)>>)

MCValues == [v \in {Zero, Float, Str, Empty, Null, A0, A1, A2, A3, A4, A5, O0, O1, O2, O3} |->
    CASE v \in {A1, A2, A4, O1, O2} -> 2
      [] v \in {A3, A5} -> 3
      [] v = O3 -> 1
      [] OTHER -> 0]

Whole == {A0, A1, A2, A3, A4, A5, O0, O1, O2, O3}
Base  == {A1, A2, O1, O2}

MCKeys == {<<"a">>}

Cut(v) == {SubSeq(v, 1, n) : n \in 0..Len(v) - 1}
Replaced(v) == {ReplaceAt(v, i, c) : i \in DOMAIN v, c \in {"]", "}", "[", "q", ","}}

MCDocs == Whole \cup UNION {Cut(v) : v \in Base} \cup UNION {Replaced(v) : v \in Base}

=============================================================================
