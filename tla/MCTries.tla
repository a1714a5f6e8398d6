------------------------------ MODULE MCTries ------------------------------
(***************************************************************************)
(* Both tries in one run.  They share nothing: a behaviour is one of the   *)
(* bit trie or one of the path-compressed trie, as trie says.              *)
(***************************************************************************)
EXTENDS BTrie

CONSTANTS Width, PKeys, Cells

VARIABLES trie, node, alive, held

Path == INSTANCE PBTrie WITH Keys <- PKeys

MCKeys == {1, 2, 3, 8, 9, 11, 12}

MCInit == Init /\ Path!Init /\ trie \in {"btrie", "pbtrie"}

MCNext ==
    \/ trie = "btrie" /\ Next /\ UNCHANGED <<trie, node, alive, held>>
    \/ trie = "pbtrie" /\ Path!Next /\ UNCHANGED <<trie, vars>>

MCSpec == MCInit /\ [][MCNext]_<<vars, trie, node, alive, held>>

\* NearestFound of the bit trie: btrie_find_exact and btrie_find_closest.
Nearest == trie = "btrie" => NearestFound

\* KeysKept and AddsSucceed of the path-compressed trie: pbtrie_find_exact, the
\* traversals and the assertions of pbtrie_add_node.
Kept == trie = "pbtrie" => Path!KeysKept /\ Path!AddsSucceed
=============================================================================
