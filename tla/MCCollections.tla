---------------------------- MODULE MCCollections ----------------------------
(***************************************************************************)
(* A chain of three scopes for Collections: the scope in the middle can be *)
(* restored, follow or keep its order between two others.                  *)
(***************************************************************************)
EXTENDS Collections

CONSTANTS r, m, c

ChainParent == [s \in {m, c} |-> IF s = m THEN r ELSE m]
ChildParent == [s \in {m} |-> r]

Interchangeable == Permutations(Rows)
=============================================================================
