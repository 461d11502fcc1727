---------------------------- MODULE MCTreeDraft ----------------------------
(***************************************************************************)
(* A root with two children for TreeDraft: the third scope is the first to *)
(* be added to a Map of Maps, and three atoms outgrow the two fields.      *)
(***************************************************************************)
EXTENDS TreeDraft

CONSTANTS r, m, c

CONSTANTS a1, a2, a3

Interchangeable ==
  Permutations({m, c}) \cup Permutations(Atoms \ Lazy) \cup Permutations(Kinds)

StarPath == [s \in {r, m, c} |-> {s, r}]
PairPath == [s \in {r, c} |-> {s, r}]
=============================================================================
