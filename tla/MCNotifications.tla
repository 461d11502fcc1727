-------------------------- MODULE MCNotifications --------------------------
(* Instances of Notifications for TLC. *)
EXTENDS Notifications

CONSTANTS a, b, both, r1, r2

\* A selector that serves 1 when all its sources do, and so hides some changes.
MCCompute ==
  [d \in Derived |->
    [v \in [Sources -> Values] |-> IF \A c \in Sources : v[c] = 1 THEN 1 ELSE 0]]

MCDisposable == {{both}}
=============================================================================
