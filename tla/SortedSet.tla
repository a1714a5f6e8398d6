----------------------------- MODULE SortedSet -----------------------------
(***************************************************************************)
(* What the red-black tree of rbt.c promises its clients: a set of nodes   *)
(* with different keys, kept in the order of the keys.                     *)
(***************************************************************************)
EXTENDS Naturals, Sequences, SequencesExt

CONSTANTS Nodes, Key

VARIABLE s          \* the nodes of the set, smallest key first

SInit == s = <<>>

\* A node whose key is there already is refused.
SInsert(n) ==
    \E i \in 0..Len(s) :
        /\ \A j \in 1..i : Key[s[j]] < Key[n]
        /\ \A j \in i + 1..Len(s) : Key[s[j]] > Key[n]
        /\ s' = SubSeq(s, 1, i) \o <<n>> \o SubSeq(s, i + 1, Len(s))

SRemove(n) ==
    \E i \in 1..Len(s) : s[i] = n /\ s' = SubSeq(s, 1, i - 1) \o SubSeq(s, i + 1, Len(s))

SClear == s' = <<>>

SNext == (\E n \in Nodes : SInsert(n) \/ SRemove(n)) \/ SClear

SSpec == SInit /\ [][SNext]_s
=============================================================================
