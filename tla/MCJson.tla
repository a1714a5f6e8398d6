------------------------------- MODULE MCJson -------------------------------
(* Texts for Json: JSON values, the same cut short, with a NUL at the end,  *)
(* or with a symbol replaced; and small keys and strings to pack.           *)
EXTENDS JsonPack

Member(k, v) == <<"q", k, "q", ":">> \o v

A1 == <<"[", "0", ",", "[", "q", "esc", "q", "q", "]", "]">>
A2 == <<"sp", "[", "{", "}", "sp", ",", "true", ",", "]">>
O1 == <<"{">> \o Member("a", <<"-", "0", ".", "0">>) \o <<",">> \o Member("b", <<"[", "]">>) \o <<"}">>
O2 == <<"{">> \o Member("a", <<"{">>) \o Member("b", <<"null", "sp">>) \o <<"}", "}">>

Base == {A1, A2, O1, O2}
Cut(v) == {SubSeq(v, 1, n) : n \in 0..Len(v)}
Ended(v) == {Append(c, "nul") : c \in Cut(v)}
Replaced(v) == {ReplaceAt(v, i, c) : i \in DOMAIN v, c \in {"]", "}", "[", "q", ","}}

MCDocs == UNION {Cut(v) \cup Ended(v) \cup Replaced(v) : v \in Base}

MCStrings == {<< >>, <<"q">>, <<"a", "esc">>}
MCKeys == {<<"a">>, <<"b">>}
=============================================================================
