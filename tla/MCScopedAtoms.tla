--------------------------- MODULE MCScopedAtoms ---------------------------
(***************************************************************************)
(* Small trees for ScopedAtoms: a chain of three scopes, where a view can  *)
(* inherit through a scope in between, and a root with a child.            *)
(***************************************************************************)
EXTENDS ScopedAtoms

CONSTANTS r, m, c, a1, a2, v1, v2

ChainParent == [s \in {m, c} |-> IF s = m THEN r ELSE m]
ChildParent == [s \in {c} |-> r]

EagerV1 == [a \in Atoms \ Lazy |-> v1]

\* A comparator under which v2 replaces no baseline v1.
EqualV1V2 == {<<v1, v2>>}
=============================================================================
