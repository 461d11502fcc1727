----------------------------- MODULE Collections -----------------------------
(***************************************************************************)
(* The committed side of one collection (collection-kernel.ts): row views, *)
(* memberships, and the plan of a commit with its three phases: owners are *)
(* applied and memberships installed, routes are rewired, what changed is  *)
(* served.  The phases run without a callback in between, so a commit is   *)
(* one step.                                                               *)
(*                                                                         *)
(* The code gives a row its place in a commit in another way than in a     *)
(* draft read: it walks down from the root and merges the events of each   *)
(* scope into the presence its parent had after each event.                *)
(***************************************************************************)
EXTENDS CollectionDraft

CONSTANTS
  Viewers,     \* the scopes in which the program reads single rows
  MaxSteps     \* bound: events of all transactions, other steps of the open one, views

ASSUME ViewersAssumption == Viewers \subseteq Scopes
ASSUME BoundsAssumption == MaxSteps \in Nat

VARIABLES
  view,     \* by row and scope: the RowViewRecord, or None
  spent     \* of MaxSteps, by what is committed

committed == <<local, membership, view, spent>>
vars == <<local, membership, draft, view, spent>>

\* Commits may be behind that set some rows at the root, and then deleted and reset
\* the first of them in a scope below, which has an order of its own since.
Init ==
  \E rows \in {q \in SeqOf(Rows, Cardinality(Rows)) : IsInjective(q)}, v \in Values,
     s \in Scopes :
    /\ rows = <<>> => s = Root
    /\ local = [x \in Rows |-> [t \in Scopes |-> IF t = Root /\ Contains(rows, x) THEN v ELSE "none"]]
    /\ membership = [t \in Scopes |->
         CASE t = s /\ s # Root -> [rows |-> Append(Tail(rows), Head(rows)), localHistory |-> TRUE]
           [] t \in Upward(s) \ {s} \/ (t = Root /\ rows # <<>>) -> [rows |-> rows, localHistory |-> FALSE]
           [] OTHER -> None]
    /\ view = [x \in Rows |-> [t \in Scopes |-> None]]
    /\ draft = None
    /\ spent = 0

-----------------------------------------------------------------------------
(* Row views *)

\* The scope from s up that has a view of the row, owns it, or is the root.
Source(owns, views, s) ==
  Head(SelectSeq(Route[s], LAMBDA t : views[t] # None \/ owns[t] # "none" \/ t = Root))

\* materializeRowView: the scopes below the source inherit what it serves.
RowViewed(owns, views, s) ==
  LET source == Source(owns, views, s)
      outcome == IF views[source] # None THEN views[source].outcome ELSE Effective(owns, source)
  IN [t \in Scopes |->
       IF t \in Upward(s) \cap Downward(source) /\ views[t] = None
         THEN [outcome |-> outcome, inherits |-> t # source]
         ELSE views[t]]

-----------------------------------------------------------------------------
(* planCommit *)

\* The rows whose coordinate in s has an intent.
Planned(d, s) == {x \in Rows : d.coordinates[x][s] # None /\ d.coordinates[x][s].final # None}

\* Mutant of FinalLocal: the root keeps it.
FinalLocalAnywhere(d, s, x) == d.coordinates[x][s].final

\* The root keeps no "absent": there is nothing above to hide.
FinalLocal(d, s, x) ==
  LET final == d.coordinates[x][s].final
  IN  IF final = "absent" /\ s = Root THEN "none" ELSE final

FinalLocals(d) ==
  [x \in Rows |-> [s \in Scopes |-> IF x \in Planned(d, s) THEN FinalLocal(d, s, x) ELSE local[x][s]]]

Kind(l) == IF l \in Values THEN "present" ELSE l

KindChanges(d, s, x) == Kind(local[x][s]) # Kind(FinalLocal(d, s, x))

\* The row is not where the committed order has it.
Moves(d, s, x) ==
  (IF Present(local[x], s) THEN 0 ELSE None) # d.coordinates[x][s].birth

\* Below a restored scope, those with events of their own keep their order.
KeepsOrder(d, s) ==
  /\ Staged(d, s)
  /\ ~Rebased(d, s)
  /\ \E t \in Upward(s) \ {s} : Rebased(d, t)

\* Mutant of Affected: writes that cancel out below a restored scope are not planned.
AffectedByMoves(d) ==
  {s \in Scopes : Rebased(d, s) \/ \E x \in Planned(d, s) : Moves(d, s, x)}

\* markAffected: the memberships that are computed anew, with all below them.
Affected(d) ==
  {s \in Scopes : Rebased(d, s) \/ KeepsOrder(d, s) \/ \E x \in Planned(d, s) : Moves(d, s, x)}

\* ensureMembershipPath: the scopes that get a record.
Installs(d) ==
  LET owners == {s \in Scopes : \E x \in Planned(d, s) : KindChanges(d, s, x)}
  IN  UNION {Upward(s) : s \in Affected(d) \cup owners}

\* Whether x is present in s after the first n events, as the merge of the
\* scope's own events into its parent's timeline has it.
Timeline(d, x) ==
  LET owns(s, n) ==
        LET own == {i \in 1..n : d.history[i].scope = s /\ d.history[i].row = x}
        IN  IF own = {} THEN local[x][s] ELSE d.history[Max(own)].local
      present[s \in Scopes] ==
        LET above == present[Parent[s]]
        IN  [n \in 0..Len(d.history) |->
              \/ owns(s, n) \in Values
              \/ /\ owns(s, n) = "none" /\ s # Root
                 /\ IF x \in Touched(d, Parent[s]) THEN above[n]
                    ELSE Contains(CommittedRows[Parent[s]], x)]
  IN  present

\* The last event after which the row is present without a gap.
TimelineBirth(d, s, x) ==
  LET present == Timeline(d, x)[s]
      gaps == {n \in DOMAIN present : ~present[n]}
  IN  CASE gaps = {} -> 0
        [] Len(d.history) \in gaps -> None
        [] OTHER -> d.history[Max(gaps) + 1].sequence

\* finalRowsFor, which knows no memo.
FinalOrders(d) ==
  LET births == [s \in Scopes |-> [x \in Touched(d, s) |-> TimelineBirth(d, s, x)]]
      order[s \in Scopes] ==
        Ordered([d EXCEPT !.memo = NewDraft.memo], s, IF s = Root THEN None ELSE order[Parent[s]],
                Placed(CommittedRows[s], Touched(d, s), births[s]))
  IN  order

FinalRows(d) ==
  LET affected == Affected(d)
      orders == FinalOrders(d)
  IN  [s \in Scopes |-> IF Upward(s) \cap affected = {} THEN CommittedRows[s] ELSE orders[s].rows]

\* Mutant of KeepsHistory: a row that left and returned marks nothing.
KeepsHistoryOfOwners(d, s) ==
  IF Rebased(d, s)
    THEN \E e \in ToSet(d.history) : e.scope = s /\ e.sequence >= d.cleared[s].end
    ELSE \/ KeepsOrder(d, s)
         \/ (s # Root /\ \E x \in Planned(d, s) : KindChanges(d, s, x))
         \/ (membership[s] # None /\ membership[s].localHistory)

\* The history marks: whether the order of the scope is its own from now on.
\* A restored scope is aligned unless it has events after the reset.
KeepsHistory(d, s) ==
  IF Rebased(d, s)
    THEN \E e \in ToSet(d.history) : e.scope = s /\ e.sequence >= d.cleared[s].end
    ELSE \/ KeepsOrder(d, s)
         \/ (s # Root /\ \E x \in Planned(d, s) : KindChanges(d, s, x) \/ Moves(d, s, x))
         \/ (membership[s] # None /\ membership[s].localHistory)

CommittedMembership(d) ==
  LET installs == Installs(d)
      rows == FinalRows(d)
  IN [s \in Scopes |->
       IF membership[s] = None /\ s \notin installs THEN None
       ELSE [rows |-> rows[s], localHistory |-> KeepsHistory(d, s)]]

\* The row settlements: the views of planned rows that change, and the views that
\* inherit from one that changes.
ChangedViews(d, x) ==
  LET changed[s \in Scopes] ==
        /\ view[x][s] # None
        /\ view[x][s].outcome # DraftOutcome(d, s, x)
        /\ x \in Planned(d, s) \/ (view[x][s].inherits /\ changed[Parent[s]])
  IN  {s \in Scopes : changed[s]}

\* rewireCommit: views of rows that got an owner stand alone, and those of rows
\* that lost it inherit from a view of the parent, created if there is none.
Rewired(d, x) ==
  LET owns == FinalLocals(d)[x]
      lost == {s \in Scopes \ {Root} : /\ x \in Planned(d, s) /\ view[x][s] # None
                                       /\ local[x][s] # "none" /\ owns[s] = "none"}
      above == FoldSet(LAMBDA s, acc : RowViewed(owns, acc, Parent[s]), view[x], lost)
  IN [s \in Scopes |->
       IF above[s] = None \/ x \notin Planned(d, s) \/ local[x][s] = owns[s] THEN above[s]
       ELSE [above[s] EXCEPT !.inherits = owns[s] = "none" /\ s # Root]]

\* settleCommit, for the views.
Settled(d, x) ==
  LET changed == ChangedViews(d, x)
      rewired == Rewired(d, x)
  IN  [s \in Scopes |-> IF s \in changed
                          THEN [rewired[s] EXCEPT !.outcome = DraftOutcome(d, s, x)]
                          ELSE rewired[s]]

-----------------------------------------------------------------------------
(* Reads and the life of scopes, between transactions *)

\* get of the collection.
ReadCollection(s) ==
  /\ draft = None
  /\ membership' = Materialized(s)
  /\ UNCHANGED <<local, draft, view, spent>>

\* get of a row.
ReadRow(s, x) ==
  /\ draft = None
  /\ s \in Viewers
  /\ view' = [view EXCEPT ![x] = RowViewed(local[x], @, s)]
  /\ spent' = IF view[x][s] = None THEN spent + 1 ELSE spent
  /\ spent' <= MaxSteps
  /\ UNCHANGED <<local, membership, draft>>

\* disposeScope of s and the scopes below; new scopes take their places.
Dispose(s) ==
  /\ draft = None
  /\ s # Root
  /\ local' = [x \in Rows |-> [t \in Scopes |-> IF t \in Downward(s) THEN "none" ELSE local[x][t]]]
  /\ membership' = [t \in Scopes |-> IF t \in Downward(s) THEN None ELSE membership[t]]
  /\ view' = [x \in Rows |-> [t \in Scopes |-> IF t \in Downward(s) THEN None ELSE view[x][t]]]
  /\ UNCHANGED <<draft, spent>>

-----------------------------------------------------------------------------
(* Transactions *)

Begin ==
  /\ draft = None
  /\ spent < MaxSteps
  /\ draft' = NewDraft
  /\ UNCHANGED committed

InDraft == draft # None

\* What reads, and writes that change nothing, left behind in the draft.
Looks ==
  {s \in Scopes : draft.memo[s] # None}
    \cup {p \in Scopes \X Rows : /\ draft.coordinates[p[2]][p[1]] # None
                               /\ draft.coordinates[p[2]][p[1]].final = None}

\* The bound on what is still to come in the open draft.
MayStep(n) == InDraft /\ spent + draft.generation + Cardinality(Looks) + n <= MaxSteps + 1

\* stageSet, stageDelete, stageReset: the row gets `final` in s.
Stage(s, x, final) ==
  /\ InDraft
  /\ draft' = Installed(draft, s, x, final)
  /\ UNCHANGED committed

\* readDraftRow
ReadDraftRow(s, x) ==
  /\ InDraft
  /\ draft' = Coordinated(draft, s, x)
  /\ UNCHANGED committed

\* stageUpdate of a row that is there sets it; of one that is not, it throws.
Update(s, x, v) ==
  IF DraftOutcome(draft, s, x) # "absent" THEN Stage(s, x, v)
  ELSE ReadDraftRow(s, x)

\* readDraftCollection, which materializes the committed records.
ReadDraftCollection(s) ==
  /\ InDraft
  /\ draft' = AfterRead(draft, s)
  /\ membership' = Materialized(s)
  /\ UNCHANGED <<local, view, spent>>

\* resetAll on the cursor of a child scope.
ResetAll(s) ==
  /\ InDraft
  /\ s # Root
  /\ MayStep(Cardinality(Owned(draft, s)) + 1)
  /\ \E sequence \in ResetSequences(draft, s) : draft' = Cleared(draft, s, sequence)
  /\ membership' = IF ReadsParent(draft, s) THEN Materialized(Parent[s]) ELSE membership
  /\ UNCHANGED <<local, view, spent>>

\* The callback throws.
Abandon ==
  /\ InDraft
  /\ draft' = None
  /\ UNCHANGED committed

Commit ==
  /\ InDraft
  /\ draft' = None
  /\ local' = FinalLocals(draft)
  /\ membership' = CommittedMembership(draft)
  /\ view' = [x \in Rows |-> Settled(draft, x)]
  /\ spent' = spent + draft.generation - 1

UseDraft ==
  \/ \E s \in Scopes : ReadDraftCollection(s)
  \/ \E s \in Scopes, x \in Rows :
       \/ ReadDraftRow(s, x)
       \/ \E final \in Locals : Stage(s, x, final)
       \/ \E v \in Values : Update(s, x, v)

Next ==
  \/ \E s \in Scopes : ReadCollection(s) \/ Dispose(s)
  \/ \E s \in Scopes, x \in Rows : ReadRow(s, x)
  \/ Begin \/ Abandon \/ Commit
  \/ MayStep(1) /\ UseDraft
  \/ \E s \in Scopes : ResetAll(s)

Spec == Init /\ [][Next]_vars

-----------------------------------------------------------------------------
(* Properties *)

\* Every variable keeps its shape, and the root hides nothing.
TypeOK ==
  /\ local \in [Rows -> [Scopes -> Locals]]
  /\ \A x \in Rows : local[x][Root] # "absent"
  /\ \A s \in Scopes : membership[s] # None =>
       /\ membership[s].rows \in Seq(Rows) /\ IsInjective(membership[s].rows)
       /\ membership[s].localHistory \in BOOLEAN
  /\ \A x \in Rows, s \in Scopes : view[x][s] # None =>
       view[x][s] \in [outcome : Values \cup {"absent"}, inherits : BOOLEAN]
  /\ draft # None => /\ draft.generation \in Nat
                     /\ Len(draft.history) < draft.generation
  /\ spent \in 0..MaxSteps

\* Whether, when and where memberships were read does not show: a scope whose
\* order never became its own has that of its parent, and one without a record,
\* which would be given that order, owns nothing.
AlignedWithParent ==
  \A s \in Scopes \ {Root} :
    IF membership[s] = None THEN \A x \in Rows : local[x][s] = "none"
    ELSE membership[s].localHistory \/ membership[s].rows = CommittedRows[Parent[s]]

\* A commit that changed something.
Published == draft # None /\ draft' = None /\ spent' # spent

\* Every scope serves after a commit what the transaction read in it: the same
\* rows, in the same order and with the same values, also through its views.
CommitPublishesReads ==
  [][Published =>
       LET orders == DraftOrders(draft) IN
       \A s \in Scopes :
         LET read == orders[s].rows IN
         /\ CommittedRows'[s] = read
         /\ \A x \in Rows :
              LET outcome == DraftOutcome(draft, s, x) IN
              /\ Contains(read, x) <=> outcome # "absent"
              /\ Effective(local[x], s)' = outcome
              /\ view[x][s]' # None => view[x][s]'.outcome = outcome]_vars

\* A scope that was reset and not written since reads as an untouched child of its
\* parent, in the parent's order.
ResetAllRestores ==
  [][Published => \A s \in Scopes \ {Root} :
       draft.cleared[s] # None
         /\ ~(\E e \in ToSet(draft.history) : e.scope = s /\ e.sequence >= draft.cleared[s].end)
       => /\ CommittedRows'[s] = CommittedRows'[Parent[s]]
          /\ \A x \in Rows : local[x][s]' = "none"]_vars
=============================================================================
