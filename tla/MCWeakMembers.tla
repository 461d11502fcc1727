--------------------------- MODULE MCWeakMembers ---------------------------
(***************************************************************************)
(* Two tuples that share a prefix, that prefix itself, and a tuple apart.  *)
(***************************************************************************)
EXTENDS WeakMembers, TLC

CONSTANTS k1, k2, m1, m2, m3

Nested == {<<k1>>, <<k1, k1>>, <<k1, k2>>, <<k2>>}

MemberSymmetry == Permutations(Members)
=============================================================================
