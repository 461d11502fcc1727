---------------------------- MODULE Publication ----------------------------
(***************************************************************************)
(* What `store.sub` promises its subscribers: an update may write the      *)
(* store in several rounds, but subscribers hear of it once, after the     *)
(* last write, and all those whose State was changed by some round do      *)
(* hear of it.  Every call of a subscriber is an entry of `told`, so none  *)
(* goes unnoticed.  Targets, epochs, waves and snapshots do not appear     *)
(* here.                                                                   *)
(***************************************************************************)
EXTENDS Sequences

CONSTANTS
  Sources,   \* states that are written
  Derived,   \* states computed from them: selectors and inheriting views
  Regs,      \* subscriptions
  Values,
  Compute    \* Compute[d][value]: what the derived state d serves

States == Sources \cup Derived

Served(v, c) == IF c \in Sources THEN v[c] ELSE Compute[c][v]

\* The states whose served value differs between v and w.
Differing(v, w) == {c \in States : Served(v, c) # Served(w, c)}

VARIABLES
  value,   \* the committed values
  heard,   \* heard[c]: the subscriptions that observe the state c
  due,     \* the subscriptions the running update still has to notify
  told,    \* those it has notified, one entry for each call
  stage    \* "idle", "updating" or "publishing"

vars == <<value, heard, due, told, stage>>

Init ==
  /\ value \in [Sources -> Values]
  /\ heard = [c \in States |-> {}]
  /\ due = {}
  /\ told = <<>>
  /\ stage = "idle"

Listen(r, c) ==
  /\ stage = "idle"
  /\ heard' = [heard EXCEPT ![c] = @ \cup {r}]
  /\ UNCHANGED <<value, due, told, stage>>

\* Subscriptions end between updates, or by a subscriber that is being notified.
Leave(R) ==
  /\ stage = "idle"
  /\ heard' = [c \in States |-> heard[c] \ R]
  /\ UNCHANGED <<value, due, told, stage>>

\* A round of an update.
Write(after) ==
  /\ stage # "publishing"
  /\ value' = after
  /\ due' = due \cup UNION {heard[c] : c \in Differing(value, after)}
  /\ stage' = "updating"
  /\ UNCHANGED <<heard, told>>

Publish ==
  /\ stage = "updating"
  /\ stage' = "publishing"
  /\ UNCHANGED <<value, heard, due, told>>

\* A subscription that is due and was not told of this update is notified; what
\* it sees is final until all are.  It may end subscriptions, those that are due
\* among them, which are still notified.
Notify(r, R) ==
  /\ stage = "publishing"
  /\ r \in due /\ \A i \in DOMAIN told : told[i] # r
  /\ due' = due \ {r}
  /\ told' = Append(told, r)
  /\ heard' = [c \in States |-> heard[c] \ R]
  /\ UNCHANGED <<value, stage>>

Close ==
  /\ stage = "publishing"
  /\ due = {}
  /\ stage' = "idle"
  /\ told' = <<>>
  /\ UNCHANGED <<value, heard, due>>

Next ==
  \/ \E r \in Regs, c \in States : Listen(r, c)
  \/ \E R \in SUBSET Regs : Leave(R)
  \/ \E after \in [Sources -> Values] : Write(after)
  \/ Publish
  \/ \E r \in Regs, R \in SUBSET Regs : Notify(r, R)
  \/ Close

Spec == Init /\ [][Next]_vars
=============================================================================
