---------------------------- MODULE CommitQueue ----------------------------
(***************************************************************************)
(* What a committed `txn.onCommit(callback)` promises: callbacks run in    *)
(* the order in which their transactions were published, each at most      *)
(* once, and never for a scope that has been disposed.  Arrays, cursors,   *)
(* budgets, microtasks and timers do not appear here.                      *)
(***************************************************************************)
EXTENDS Naturals

CONSTANTS Scopes, MaxBatch  \* MaxBatch bounds the callbacks of one commit

VARIABLES
  live,       \* the scopes that have not been disposed
  published,  \* how many callbacks have been published so far
  waiting,    \* published callbacks that still have to run
  delivered   \* callbacks that have run

vars == <<live, published, waiting, delivered>>

\* A callback is known by its position in publication order and its scope.
Callback == [id : Nat \ {0}, scope : Scopes]

Init ==
  /\ live = Scopes
  /\ published = 0
  /\ waiting = {}
  /\ delivered = {}

\* One commit publishes the n callbacks its transaction registered.
Publish(n, scopeOf) ==
  /\ scopeOf \in [1..n -> live]
  /\ waiting' = waiting \cup {[id |-> published + i, scope |-> scopeOf[i]] : i \in 1..n}
  /\ published' = published + n
  /\ UNCHANGED <<live, delivered>>

\* Only the oldest waiting callback may run.
Deliver(e) ==
  /\ e \in waiting
  /\ \A f \in waiting : e.id <= f.id
  /\ waiting' = waiting \ {e}
  /\ delivered' = delivered \cup {e}
  /\ UNCHANGED <<live, published>>

\* A disposed scope takes its waiting callbacks with it.
Dispose(s) ==
  /\ s \in live
  /\ live' = live \ {s}
  /\ waiting' = {e \in waiting : e.scope # s}
  /\ UNCHANGED <<published, delivered>>

Next ==
  \/ \E n \in 1..MaxBatch : \E scopeOf \in [1..n -> Scopes] : Publish(n, scopeOf)
  \/ \E e \in waiting : Deliver(e)
  \/ \E s \in Scopes : Dispose(s)

Spec == Init /\ [][Next]_vars
=============================================================================
