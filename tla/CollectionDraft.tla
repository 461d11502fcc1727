--------------------------- MODULE CollectionDraft ---------------------------
(***************************************************************************)
(* What one transaction stages for one collection, and what it reads of it *)
(* (collection-kernel.ts).  A row is present in a scope when the first     *)
(* scope up the tree that says anything about it has a value for it; an    *)
(* "absent" local hides the rows of the scopes above.                      *)
(*                                                                         *)
(* A collection is also ordered.  The draft keeps a coordinate for every   *)
(* row and scope it looked at, with the event that made the row present    *)
(* there, and a history of all events.  A scope's order is its committed   *)
(* order without the rows that left, and then the rows that came, in the   *)
(* order of those events.  resetAll gives a scope the order of an          *)
(* untouched child instead, and scopes below may follow it.                *)
(***************************************************************************)
EXTENDS Naturals, FiniteSets, SequencesExt, FiniteSetsExt

CONSTANTS
  Scopes,
  Root,
  Parent,     \* the parent of every other scope
  Rows,       \* the rows of the collection
  Values,
  None        \* `undefined`

ASSUME TreeAssumption == Root \in Scopes /\ Parent \in [Scopes \ {Root} -> Scopes]
ASSUME ValuesAssumption == Values \cap {"none", "absent"} = {}

VARIABLES
  local,       \* by row and scope: what the scope owns, a value or "absent", or "none"
  membership,  \* the MembershipRecord of each scope, or None
  draft        \* the DraftLane of the open transaction, or None

Locals == Values \cup {"none", "absent"}

\* The scopes from s up to the root, and the scopes from t down.
Route ==
  LET route[s \in Scopes] == IF s = Root THEN <<s>> ELSE <<s>> \o route[Parent[s]]
  IN  route
Above == [s \in Scopes |-> ToSet(Route[s])]
Below == [t \in Scopes |-> {s \in Scopes : t \in Above[s]}]
Upward(s) == Above[s]
Downward(t) == Below[t]

\* committedOutcome, draftOutcome: what s sees of a row, given what every scope owns.
Effective(owns, s) ==
  LET owners == SelectSeq(Route[s], LAMBDA t : owns[t] # "none")
  IN  IF owners = <<>> THEN "absent" ELSE owns[Head(owners)]

Present(owns, s) == Effective(owns, s) # "absent"

-----------------------------------------------------------------------------
(* Memberships *)

\* The order each scope serves, were its record materialized.
CommittedRows ==
  LET rows[s \in Scopes] ==
        IF membership[s] # None THEN membership[s].rows
        ELSE IF s = Root THEN <<>> ELSE rows[Parent[s]]
  IN  rows

\* materializeMembership: a record for s and for every scope above it.
Materialized(s) ==
  [t \in Scopes |->
    IF t \in Upward(s) /\ membership[t] = None
      THEN [rows |-> CommittedRows[t], localHistory |-> FALSE]
      ELSE membership[t]]

-----------------------------------------------------------------------------
(* Coordinates and events.  Sequence numbers start at 1; the birth 0 stands  *)
(* for BASELINE_BIRTH, a row present throughout.                             *)

NewDraft ==
  [generation |-> 1,
   coordinates |-> [x \in Rows |-> [s \in Scopes |-> None]],
   history |-> <<>>,
   cleared |-> [s \in Scopes |-> None],   \* the RebaseMarkers
   memo |-> [s \in Scopes |-> None]]      \* membership reads of the current revision

\* currentLocal of every scope: what the draft staged last, else what is committed.
DraftLocals(d, x) ==
  [s \in Scopes |->
    IF d.coordinates[x][s] = None \/ d.coordinates[x][s].final = None
      THEN local[x][s] ELSE d.coordinates[x][s].final]

DraftOutcome(d, s, x) == Effective(DraftLocals(d, x), s)

\* The birth of a row after the n-th event, which made it as it is `now`.
NextBirth(birth, was, now, n) ==
  IF ~now THEN None ELSE IF ~was THEN n ELSE birth

\* A scope whose order resetAll restores in this draft.
Rebased(d, s) == d.cleared[s] # None /\ d.cleared[s].restores

\* replayRouteBirth: the birth of x in s from the history of the draft, with the
\* restored scopes as if they had owned nothing before their reset.
ReplayedBirth(d, s, x, restored) ==
  LET start == [t \in Scopes |-> IF t \in restored THEN "none" ELSE local[x][t]]
      counts(e) == /\ e.row = x
                   /\ e.scope \in Upward(s)
                   /\ e.scope \in restored => e.sequence >= d.cleared[e.scope].start
      events == SelectSeq(d.history, counts)
      owns[n \in 0..Len(events)] ==
        IF n = 0 THEN start ELSE [owns[n - 1] EXCEPT ![events[n].scope] = events[n].local]
      birth[n \in 0..Len(events)] ==
        IF n = 0 THEN IF Present(start, s) THEN 0 ELSE None
        ELSE NextBirth(birth[n - 1], Present(owns[n - 1], s), Present(owns[n], s), events[n].sequence)
  IN  birth[Len(events)]

\* coordinateFor
Coordinated(d, s, x) ==
  IF d.coordinates[x][s] # None THEN d
  ELSE [d EXCEPT !.coordinates[x][s] =
          [final |-> None, birth |-> ReplayedBirth(d, s, x, {})]]

Staged(d, s) == \E i \in DOMAIN d.history : d.history[i].scope = s

\* What the event of s adds to the draft, `before` being what the scopes owned.
WithEvent(d, s, x, final, before) ==
  LET after == [before EXCEPT ![s] = final]
      below == {t \in Downward(s) : d.coordinates[x][t] # None}
      birth == [t \in below |-> NextBirth(d.coordinates[x][t].birth,
                                          Present(before, t), Present(after, t), d.generation)]
      placed(owns, t, b) == IF Present(owns, t) THEN b ELSE None
      moved == \E t \in below :
        placed(before, t, d.coordinates[x][t].birth) # placed(after, t, birth[t])
      endsMirroring == /\ ~Staged(d, s) /\ ~Rebased(d, s)
                       /\ \E t \in Scopes : Rebased(d, t)
  IN [d EXCEPT
       !.generation = @ + 1,
       !.history = Append(@, [scope |-> s, row |-> x, local |-> final, sequence |-> d.generation]),
       !.coordinates[x] = [t \in Scopes |->
          IF t \notin below THEN @[t]
          ELSE [final |-> IF t = s THEN final ELSE @[t].final, birth |-> birth[t]]],
       !.memo = IF moved \/ endsMirroring THEN NewDraft.memo ELSE @]

\* installEvent: s owns `final` of row x from now on.  The birth of the row moves
\* in every coordinate from s down, and reads are forgotten if one did.
Installed(d, s, x, final) ==
  IF DraftLocals(d, x)[s] = final THEN Coordinated(d, s, x)
  ELSE WithEvent(Coordinated(d, s, x), s, x, final, DraftLocals(d, x))

-----------------------------------------------------------------------------
(* The order of a scope in the draft *)

Touched(d, s) == {e.row : e \in {h \in ToSet(d.history) : h.scope \in Upward(s)}}

\* `base` without the touched rows that left, then those that were born.
Placed(base, touched, birth) ==
  SelectSeq(base, LAMBDA x : x \notin touched \/ birth[x] = 0)
    \o SetToSortSeq({x \in touched : birth[x] \notin {None, 0}}, LAMBDA x, y : birth[x] < birth[y])

\* rebasedRows: the order of an untouched child, from the committed order of `top`.
RebasedRows(d, s, top) ==
  LET restored == {t \in Upward(s) \cap Downward(top) : t # top /\ Rebased(d, t)}
  IN  Placed(CommittedRows[top], Touched(d, s),
             [x \in Rows |-> ReplayedBirth(d, s, x, restored)])

\* mirrorsParent, given the order the parent gets.
MirrorsParent(d, s, parentAfter) ==
  /\ ~Staged(d, s)
  /\ CommittedRows[s] = CommittedRows[Parent[s]]
  /\ \A x \in Rows : local[x][s] # "none" =>
       (local[x][s] # "absent" <=> Contains(parentAfter, x))

\* The order of s, given its parent's.  A restored scope is rebased, or follows one
\* that is restored; `top` is the first scope from there up that is neither.  Any
\* other scope has the `ordinary` order.
Ordered(d, s, up, ordinary) ==
  LET follows == /\ s # Root /\ ~Rebased(d, s)
                 /\ up.restored /\ MirrorsParent(d, s, up.rows)
      restored == Rebased(d, s) \/ follows
  IN [restored |-> restored,
      top |-> IF restored THEN up.top ELSE s,
      rows |-> CASE d.memo[s] # None -> d.memo[s]
                 [] d.memo[s] = None /\ follows -> up.rows
                 [] d.memo[s] = None /\ Rebased(d, s) -> RebasedRows(d, s, up.top)
                 [] OTHER -> ordinary]

\* readDraftCollection: what the transaction reads in each scope.
DraftOrders(d) ==
  LET birth(s, x) == IF d.coordinates[x][s] # None THEN d.coordinates[x][s].birth
                     ELSE ReplayedBirth(d, s, x, {})
      order[s \in Scopes] ==
        Ordered(d, s, IF s = Root THEN None ELSE order[Parent[s]],
                Placed(CommittedRows[s], Touched(d, s), [x \in Rows |-> birth(s, x)]))
  IN  order

\* What a read leaves behind in the draft: its coordinates and its memo.
Remembered(d, s) ==
  LET looked == FoldSet(LAMBDA x, acc : Coordinated(acc, s, x), d, Touched(d, s))
      left(read) == [(IF read.restored THEN d ELSE looked) EXCEPT !.memo[s] = read.rows]
  IN  IF d.memo[s] # None THEN d ELSE left(DraftOrders(d)[s])

\* Whether s is compared with the order its parent gets.
Compared(d, s) ==
  /\ s # Root /\ ~Rebased(d, s)
  /\ DraftOrders(d)[Parent[s]].restored
  /\ ~Staged(d, s)
  /\ CommittedRows[s] = CommittedRows[Parent[s]]

\* The draft after a read in s, which reads the parents it compares with.
AfterRead(d, s) ==
  LET consulted(t) == \A u \in (Upward(s) \cap Downward(t)) \ {t} : Compared(d, u)
  IN  IF d.memo[s] # None THEN d
      ELSE FoldLeft(Remembered, d, Reverse(SelectSeq(Route[s], consulted)))

-----------------------------------------------------------------------------
(* resetAllRows *)

Owned(d, s) == {x \in Rows : DraftLocals(d, x)[s] # "none"}

\* With children, several rows are reset in the order the parent has; the order
\* of the others is that in which they were acquired, which is not modelled.
ReadsParent(d, s) == Cardinality(Owned(d, s)) > 1 /\ Downward(s) # {s}

ResetSequences(d, s) ==
  LET first == IF ReadsParent(d, s)
                 THEN SelectSeq(DraftOrders(d)[Parent[s]].rows, LAMBDA x : x \in Owned(d, s))
                 ELSE <<>>
  IN  {first \o rest : rest \in SetToSeqs(Owned(d, s) \ ToSet(first))}

\* Mutant of Restores: an order of its own from earlier commits is forgotten.
RestoresOwned(d, s) ==
  \/ \E x \in Rows : local[x][s] # "none"
  \/ Staged(d, s)
  \/ \E t \in Upward(s) \ {s} : Rebased(d, t)
  \/ Rebased(d, s)

\* Whether s owns rows, staged some, diverged before, or is below a rebased scope.
Restores(d, s) ==
  \/ \E x \in Rows : local[x][s] # "none"
  \/ Staged(d, s)
  \/ (membership[s] # None /\ membership[s].localHistory)
  \/ \E t \in Upward(s) \ {s} : Rebased(d, t)
  \/ Rebased(d, s)

\* The markers after the resets: scopes below that were reset before restore the
\* collection too.
Marked(d, s, start, restores) ==
  LET marked == [d.cleared EXCEPT ![s] = [start |-> start, end |-> d.generation, restores |-> restores]]
  IN IF ~restores THEN [d EXCEPT !.cleared = marked]
     ELSE [d EXCEPT
       !.cleared = [t \in Scopes |->
          IF t \in Downward(s) /\ marked[t] # None THEN [marked[t] EXCEPT !.restores = TRUE]
          ELSE marked[t]],
       !.memo = NewDraft.memo,
       !.generation = @ + 1]

\* The reset of every owned row, in the order given.
Cleared(d, s, sequence) ==
  LET read == IF ReadsParent(d, s) THEN AfterRead(d, Parent[s]) ELSE d
      reset == FoldLeft(LAMBDA acc, x : Installed(acc, s, x, "none"), read, sequence)
  IN  Marked(reset, s, d.generation, Restores(d, s))
=============================================================================
