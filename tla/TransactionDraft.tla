-------------------------- MODULE TransactionDraft --------------------------
(***************************************************************************)
(* What one transaction draft promises its StoreTree, whatever it is       *)
(* stored in: the intents in the order a commit applies them, one baseline *)
(* per coordinate, one outcome per lazy initializer, and an end after      *)
(* which nothing is held.                                                  *)
(***************************************************************************)
EXTENDS DraftIntents

CONSTANTS Scopes, Atoms, Kinds

VARIABLES
  intents,    \* the intents, as DraftIntents orders them
  inspected,  \* the coordinates whose committed baseline is kept
  memoized,   \* the atoms whose initializer has run
  held        \* FALSE once the draft has been released

vars == <<intents, inspected, memoized, held>>

Init ==
  /\ intents = <<>>
  /\ inspected = {}
  /\ memoized = {}
  /\ held = TRUE

\* A transaction inspects before it writes, and may inspect only.
Inspect ==
  /\ held
  /\ UNCHANGED <<intents, memoized, held>>
  /\ \E s \in Scopes, a \in Atoms : inspected' = inspected \cup {<<s, a>>}

Write(s, a, kind) ==
  /\ held
  /\ intents' = Stage(intents, [scope |-> s, atom |-> a, kind |-> kind])
  /\ inspected' = inspected \cup {<<s, a>>}
  /\ UNCHANGED <<memoized, held>>

Memoize(a) ==
  /\ held
  /\ memoized' = memoized \cup {a}
  /\ UNCHANGED <<intents, inspected, held>>

Release ==
  /\ intents' = <<>> /\ inspected' = {} /\ memoized' = {}
  /\ held' = FALSE

Next ==
  \/ Inspect
  \/ \E a \in Atoms : Memoize(a)
  \/ \E s \in Scopes, a \in Atoms, k \in Kinds : Write(s, a, k)
  \/ Release

Spec == Init /\ [][Next]_vars
=============================================================================
