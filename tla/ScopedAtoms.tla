---------------------------- MODULE ScopedAtoms ----------------------------
(***************************************************************************)
(* Atoms of one Store tree: overrides per scope, lazy fallbacks, the       *)
(* AtomViews that cache what a scope serves, and the transactions that     *)
(* change them (committed-store-tree.ts, scope-node.ts).                   *)
(*                                                                         *)
(* A scope serves the nearest override on its path to the root, or else    *)
(* the atom's fallback.  The code does not walk that path on every read:   *)
(* it keeps an AtomView per scope and atom that was read, linked to the    *)
(* parent's view it inherits from, and a commit must find and refresh      *)
(* every view whose outcome its intents change.                            *)
(*                                                                         *)
(* Store operations are synchronous and rejected while a transaction       *)
(* callback runs, so each is one action here, and so is the commit.        *)
(***************************************************************************)
EXTENDS DraftIntents

CONSTANTS
  Scopes, Root,
  Parent,         \* the parent of each scope but Root
  Atoms,
  Values,         \* the values atoms are set to
  Failed,         \* the outcome of an initializer that threw
  Lazy,           \* atoms whose fallback is a lazy initializer
  EagerFallback,  \* the fallback of the other atoms
  Equal,          \* pairs (baseline, candidate) the atoms' comparator equates
  Together,       \* bound: the sets of scopes one draft may write
  None

Outcomes == Values \cup {Failed}

ASSUME TreeAssumption ==
  Root \in Scopes /\ Parent \in [Scopes \ {Root} -> Scopes]
\* A scope is created below one that exists, and all of them below the root.
ASSUME RootedAssumption ==
  \A some \in SUBSET (Scopes \ {Root}) :
    some # {} => \E s \in some : Parent[s] \notin some
ASSUME AtomsAssumption ==
  Lazy \subseteq Atoms /\ EagerFallback \in [Atoms \ Lazy -> Values]
ASSUME ComparatorAssumption == Equal \subseteq Values \X Values
ASSUME DistinctAssumption ==
  Failed \notin Values /\ None \notin Outcomes \cup Scopes \cup Atoms
ASSUME TogetherAssumption == Together \subseteq SUBSET Scopes

VARIABLES
  status,      \* "absent", "live" or "disposed"
  override,    \* atomOverrides: a value, or None
  fallback,    \* the fallback this tree has settled on, or None
  views,       \* the AtomView of a scope and atom, or None
  owned,       \* ownedAtoms: the index resetAll enumerates, child scopes only
  open,        \* a transaction callback is running
  intents,     \* the draft's intents
  memo,        \* the draft's fallback memo
  reached,     \* the scopes whose AtomView the last operation refreshed, per atom
  fault        \* a commit met a fallback nobody had resolved

committed == <<status, override, fallback, views, owned>>
draft == <<open, intents, memo>>
vars == <<status, override, fallback, views, owned, open, intents, memo, reached, fault>>

NoneReached == [a \in Atoms |-> {}]

View == [outcome : Outcomes, from : Scopes \cup {None}]
Intent == [scope : Scopes, atom : Atoms, kind : {"set", "reset"},
           value : Values \cup {None}, publishes : BOOLEAN]

ASSUME ViewAssumption == None \notin View

-----------------------------------------------------------------------------
(* The scope tree. *)

\* A scope and its ancestors; the nearest of some scopes on one such path.
Path[s \in Scopes] == {s} \cup (IF s = Root THEN {} ELSE Path[Parent[s]])
Nearest(some) == CHOOSE s \in some : some \subseteq Path[s]

LiveScopes == {s \in Scopes : status[s] = "live"}

\* Committed resolution of an atom; None while a lazy fallback is unresolved.
Owners(s, a) == {x \in Path[s] : override[x][a] # None}
Resolved(s, a) ==
  IF Owners(s, a) = {} THEN fallback[a] ELSE override[Nearest(Owners(s, a))][a]

\* Draft resolution: a staged reset hides the override and keeps walking.
DraftOwners(s, a) ==
  {x \in Path[s] : IF HasIntent(intents, x, a)
                     THEN IntentOf(intents, x, a).kind = "set"
                     ELSE override[x][a] # None}
DraftFallback(a, m) == IF fallback[a] # None THEN fallback[a] ELSE m[a]
DraftResolved(s, a, m) ==
  IF DraftOwners(s, a) = {} THEN DraftFallback(a, m)
    ELSE LET x == Nearest(DraftOwners(s, a)) IN
         IF HasIntent(intents, x, a) THEN IntentOf(intents, x, a).value ELSE override[x][a]

-----------------------------------------------------------------------------
(* AtomViews. *)

\* Creating the view of scope s and the missing ones it inherits through, from
\* the nearest ancestor that has a view or an override, or from the root.
Materialize(vs, s, a, overrides, default) ==
  LET stops  == {x \in Path[s] : vs[x][a] # None \/ overrides[x][a] # None \/ x = Root}
      anchor == Nearest(stops)
      served == IF vs[anchor][a] # None THEN vs[anchor][a].outcome
                  ELSE IF overrides[anchor][a] # None THEN overrides[anchor][a]
                  ELSE default
      missing == {x \in Path[s] : anchor \in Path[x] /\ vs[x][a] = None}
  IN  [x \in Scopes |->
        IF x \in missing
          THEN [vs[x] EXCEPT ![a] = [outcome |-> served,
                                     from |-> IF x = anchor THEN None ELSE Parent[x]]]
          ELSE vs[x]]

\* A committed read: store.get(atom), or a selector's dependency on it.  The
\* first one to reach an unresolved lazy fallback runs its initializer.
Get(s, a) ==
  /\ ~open
  /\ s \in LiveScopes
  /\ \E default \in Outcomes :
       /\ fallback[a] # None => default = fallback[a]
       /\ views' = Materialize(views, s, a, override, default)
       /\ fallback' = IF \E x \in Path[s] : views[x][a] # None \/ override[x][a] # None
                        THEN fallback ELSE [fallback EXCEPT ![a] = default]
  /\ reached' = NoneReached
  /\ UNCHANGED <<status, override, owned, draft, fault>>

\* readHydrationSnapshot: a draft read that writes nothing, creates no view and
\* publishes the fallback it may have resolved.
ReadHydration(s, a) ==
  /\ ~open
  /\ s \in LiveScopes
  /\ IF Owners(s, a) = {} /\ fallback[a] = None
       THEN \E o \in Outcomes : fallback' = [fallback EXCEPT ![a] = o]
       ELSE UNCHANGED fallback
  /\ reached' = NoneReached
  /\ UNCHANGED <<status, override, views, owned, draft, fault>>

-----------------------------------------------------------------------------
(* Scopes. *)

\* parent.scope(name) or parent.scope(): a new child, nothing owned or read.
CreateScope(s) ==
  /\ ~open
  /\ s # Root /\ status[s] = "absent" /\ Parent[s] \in LiveScopes
  /\ status' = [status EXCEPT ![s] = "live"]
  /\ reached' = NoneReached
  /\ UNCHANGED <<override, fallback, views, owned, draft, fault>>

\* dispose: the scope and its live descendants drop everything they hold.
Dispose(s) ==
  /\ ~open
  /\ s \in LiveScopes
  /\ LET gone == {x \in LiveScopes : s \in Path[x]} IN
     /\ status' = [x \in Scopes |-> IF x \in gone THEN "disposed" ELSE status[x]]
     /\ override' = [x \in Scopes |-> IF x \in gone THEN [a \in Atoms |-> None] ELSE override[x]]
     /\ views' = [x \in Scopes |-> IF x \in gone THEN [a \in Atoms |-> None] ELSE views[x]]
     /\ owned' = [x \in Scopes |-> IF x \in gone THEN <<>> ELSE owned[x]]
  /\ fallback' = IF s = Root THEN [a \in Atoms |-> IF a \in Lazy THEN None ELSE EagerFallback[a]]
                   ELSE fallback
  /\ reached' = NoneReached
  /\ UNCHANGED <<draft, fault>>

-----------------------------------------------------------------------------
(* Staging.  The draft runs an unresolved initializer once and remembers it. *)

\* The memo after a read that may fall through to the fallback of a.
Memos(a, falls) ==
  IF falls /\ fallback[a] = None /\ memo[a] = None
    THEN {[memo EXCEPT ![a] = o] : o \in Outcomes}
    ELSE {memo}

\* getDraftAtomBaseline: the committed outcome, whatever the draft holds.
BaselineFalls(s, a) == Owners(s, a) = {}
Baseline(s, a, m) == IF BaselineFalls(s, a) THEN DraftFallback(a, m) ELSE Resolved(s, a)

\* A candidate equal to the baseline is replaced by the baseline itself.
Canonical(base, v) == IF <<base, v>> \in Equal THEN base ELSE v

SetIntent(s, a, v, m) ==
  [scope |-> s, atom |-> a, kind |-> "set", value |-> Canonical(Baseline(s, a, m), v),
   publishes |-> BaselineFalls(s, a) /\ m[a] # None]

Writable(s) ==
  /\ open
  /\ s \in LiveScopes
  /\ {intents[i].scope : i \in DOMAIN intents} \cup {s} \in Together

Begin ==
  /\ ~open
  /\ Root \in LiveScopes
  /\ open' = TRUE
  /\ intents' = <<>>
  /\ memo' = [a \in Atoms |-> None]
  /\ reached' = NoneReached
  /\ UNCHANGED <<committed, fault>>

TxGet(s, a) ==
  /\ open
  /\ s \in LiveScopes
  /\ memo' \in Memos(a, DraftOwners(s, a) = {})
  /\ UNCHANGED <<committed, open, intents, reached, fault>>

TxSet(s, a, v) ==
  /\ Writable(s)
  /\ \E m \in Memos(a, BaselineFalls(s, a)) :
       /\ memo' = m
       /\ intents' = Stage(intents, SetIntent(s, a, v, m))
  /\ UNCHANGED <<committed, open, reached, fault>>

\* The updater sees the draft's outcome; a failed one is rethrown.
TxUpdate(s, a, v) ==
  /\ Writable(s)
  /\ \E m \in Memos(a, BaselineFalls(s, a) \/ DraftOwners(s, a) = {}) :
       /\ memo' = m
       /\ intents' = IF DraftResolved(s, a, m) \in Values
                       THEN Stage(intents, SetIntent(s, a, v, m))
                       ELSE intents
  /\ UNCHANGED <<committed, open, reached, fault>>

\* resolveAtomReset: what the scope will inherit, in the draft.
ResetFalls(s, a) == s = Root \/ DraftOwners(Parent[s], a) = {}
ResetOutcome(s, a, m) ==
  IF s = Root THEN DraftFallback(a, m) ELSE DraftResolved(Parent[s], a, m)
ResetIntent(s, a, m) ==
  [scope |-> s, atom |-> a, kind |-> "reset", value |-> None,
   publishes |-> ResetFalls(s, a) /\ m[a] # None]

TxReset(s, a) ==
  /\ Writable(s)
  /\ \E m \in Memos(a, BaselineFalls(s, a) \/ ResetFalls(s, a)) :
       /\ memo' = m
       /\ intents' = IF ResetOutcome(s, a, m) \in Values
                       THEN Stage(intents, ResetIntent(s, a, m))
                       ELSE intents
  /\ UNCHANGED <<committed, open, reached, fault>>

\* The elements of a sequence at some positions, in their order.
Keeping(seq, positions) ==
  LET Kept[i \in 0..Len(seq)] ==
        IF i = 0 THEN <<>>
        ELSE IF i \in positions THEN Append(Kept[i - 1], seq[i]) ELSE Kept[i - 1]
  IN  Kept[Len(seq)]

\* Mutant of Candidates: atoms this draft is the first to write are forgotten.
CandidatesCommitted(s) ==
  SelectSeq(owned[s], LAMBDA a : override[s][a] # None
                                   /\ ~(HasIntent(intents, s, a)
                                          /\ IntentOf(intents, s, a).kind = "reset"))

\* resetAll's candidates: the scope's index, then atoms this draft wrote there.
Candidates(s) ==
  LET atoms == owned[s] \o [i \in 1..Len(intents) |->
                             IF intents[i].scope = s THEN intents[i].atom ELSE None]
      first == {i \in DOMAIN atoms : atoms[i] # None /\ \A j \in 1..(i - 1) : atoms[j] # atoms[i]}
      wanted == {i \in first :
                   IF HasIntent(intents, s, atoms[i])
                     THEN IntentOf(intents, s, atoms[i]).kind = "set"
                     ELSE override[s][atoms[i]] # None}
  IN  Keeping(atoms, wanted)

\* Staging the resets of some atoms one after the other.
StageResets(s, atoms, m) ==
  LET Staged[i \in 0..Len(atoms)] ==
        IF i = 0 THEN intents ELSE Stage(Staged[i - 1], ResetIntent(s, atoms[i], m))
  IN  Staged[Len(atoms)]

\* Every reset is resolved before any is staged; the first failure stops it.
TxResetAll(s) ==
  /\ Writable(s)
  /\ s # Root
  /\ LET atoms == Candidates(s)
         run(i) == /\ ResetFalls(s, atoms[i]) \/ BaselineFalls(s, atoms[i])
                   /\ fallback[atoms[i]] = None /\ memo[atoms[i]] = None
         fresh == {i \in DOMAIN atoms : run(i)}
     IN \E results \in [fresh -> Outcomes] :
          LET all == [a \in Atoms |->
                       IF \E i \in fresh : atoms[i] = a
                         THEN results[CHOOSE i \in fresh : atoms[i] = a] ELSE memo[a]]
              failing == {i \in DOMAIN atoms : ResetOutcome(s, atoms[i], all) \notin Values}
              visited == {i \in DOMAIN atoms : \A f \in failing : i <= f}
          IN /\ memo' = [a \in Atoms |->
                          IF \E i \in visited : atoms[i] = a THEN all[a] ELSE memo[a]]
             /\ intents' = IF failing = {} THEN StageResets(s, atoms, all) ELSE intents
  /\ UNCHANGED <<committed, open, reached, fault>>

\* The callback throws, or its result is rejected.
Abort ==
  /\ open
  /\ open' = FALSE
  /\ intents' = <<>>
  /\ memo' = [a \in Atoms |-> None]
  /\ UNCHANGED <<committed, reached, fault>>

-----------------------------------------------------------------------------
(* Commit. *)

\* What a scope will serve: readFinalAtomOutcome.
Final(s, a) == DraftResolved(s, a, memo)

\* The views each view inherits through, itself included.
Inherits(vs, a) ==
  LET Route[s \in Scopes] ==
        {s} \cup (IF vs[s][a] = None \/ vs[s][a].from = None THEN {} ELSE Route[vs[s][a].from])
  IN  Route
\* Mutant of Changes: every materialized view below an intent counts as changed.
ChangesAlways(s, a) == views[s][a] # None

Changes(s, a) == views[s][a] # None /\ views[s][a].outcome # Final(s, a)
\* Mutant of Affected: the views that inherit from an intent's are not visited.
AffectedDirectly(a) == {s \in Scopes : HasIntent(intents, s, a) /\ Changes(s, a)}

\* Views to refresh: reached from an intent's view along inheritance routes,
\* every view on the way changing its outcome.
Affected(a) ==
  LET Route == Inherits(views, a) IN
  {s \in Scopes :
    \E i \in Route[s] : /\ HasIntent(intents, i, a)
                        /\ \A x \in Route[s] : i \in Route[x] => Changes(x, a)}

\* Mutants of PublishFallbacks: nothing, or only the first plan, is published.
PublishNothing == fallback
PublishFirstFallback ==
  IF fallback[intents[1].atom] = None /\ intents[1].publishes
    THEN [fallback EXCEPT ![intents[1].atom] = memo[intents[1].atom]]
    ELSE fallback

PublishFallbacks ==
  [a \in Atoms |->
    IF fallback[a] = None /\ \E i \in DOMAIN intents : intents[i].atom = a /\ intents[i].publishes
      THEN memo[a] ELSE fallback[a]]

\* Mutant of ApplyOverrides: a reset leaves the override in place.
ApplySetsOnly ==
  [s \in Scopes |-> [a \in Atoms |->
    IF HasIntent(intents, s, a) /\ IntentOf(intents, s, a).kind = "set"
      THEN IntentOf(intents, s, a).value
      ELSE override[s][a]]]

ApplyOverrides ==
  [s \in Scopes |-> [a \in Atoms |->
    IF HasIntent(intents, s, a)
      THEN IF IntentOf(intents, s, a).kind = "set" THEN IntentOf(intents, s, a).value ELSE None
      ELSE override[s][a]]]

\* Mutant of IndexOwned: the sweep looks at ownership from before the commit.
IndexOwnedStale(s, sweeps) ==
  LET Index[k \in 0..Len(intents)] ==
        IF k = 0 THEN owned[s]
        ELSE LET before == Index[k - 1]
                 a == intents[k].atom
             IN  IF \/ intents[k].scope # s \/ intents[k].kind = "reset"
                    \/ \E i \in DOMAIN before : before[i] = a
                   THEN before
                   ELSE IF k \in sweeps
                     THEN SelectSeq(Append(before, a), LAMBDA b : override[s][b] # None)
                     ELSE Append(before, a)
  IN  Index[Len(intents)]

\* WeakOwnedAtoms.add after the k-th intent has been applied; an addition that
\* finds the index full sweeps out what is no longer owned.
IndexOwned(s, sweeps) ==
  LET applied(k, a) == IF \E i \in 1..k : i \in At(intents, s, a)
                         THEN IntentOf(intents, s, a).kind = "set"
                         ELSE override[s][a] # None
      Index[k \in 0..Len(intents)] ==
        IF k = 0 THEN owned[s]
        ELSE LET before == Index[k - 1]
                 a == intents[k].atom
             IN  IF \/ intents[k].scope # s \/ intents[k].kind = "reset"
                    \/ \E i \in DOMAIN before : before[i] = a
                   THEN before
                   ELSE LET all == Append(before, a)
                        IN  IF k \in sweeps
                              THEN Keeping(all, {i \in DOMAIN all : applied(k, all[i])})
                              ELSE all
  IN  Index[Len(intents)]

\* rewirePlanAtomView for each intent in order: a set, and a reset of the root,
\* detaches the scope's view; another reset attaches it to the parent's.
Rewire(overrides, fallbacks) ==
  LET Rewired[k \in 0..Len(intents)] ==
        IF k = 0 THEN views
        ELSE LET vs == Rewired[k - 1]
                 s == intents[k].scope
                 a == intents[k].atom
             IN  IF vs[s][a] = None THEN vs
                 ELSE IF intents[k].kind = "set" \/ s = Root
                   THEN [vs EXCEPT ![s][a].from = None]
                   ELSE [Materialize(vs, Parent[s], a, overrides, fallbacks[a])
                          EXCEPT ![s][a].from = Parent[s]]
  IN  Rewired[Len(intents)]

\* A lone reset of an atom its scope does not own, with nothing to publish.
NothingToDo ==
  \/ intents = <<>>
  \/ /\ Len(intents) = 1
     /\ intents[1].kind = "reset" /\ ~intents[1].publishes
     /\ override[intents[1].scope][intents[1].atom] = None

\* Every outcome the inert phases read has been resolved while staging.
FallbacksResolved(vs) ==
  /\ \A i \in DOMAIN intents : Final(intents[i].scope, intents[i].atom) # None
  /\ \A s \in Scopes, a \in Atoms : vs[s][a] # None => vs[s][a].outcome # None

CommitNothing ==
  /\ open /\ NothingToDo
  /\ open' = FALSE /\ intents' = <<>> /\ memo' = [a \in Atoms |-> None]
  /\ UNCHANGED <<committed, reached, fault>>

\* Publish fallbacks, apply every owner, rewire every route, refresh what is
\* affected; user code runs only after that.
Commit ==
  /\ open /\ ~NothingToDo
  /\ override' = ApplyOverrides
  /\ fallback' = PublishFallbacks
  /\ \E sweeps \in SUBSET DOMAIN intents :
       owned' = [s \in Scopes |-> IF s = Root THEN <<>> ELSE IndexOwned(s, sweeps)]
  /\ LET rewired == Rewire(override', fallback')
         stale == [a \in Atoms |-> Affected(a)]
     IN /\ views' = [s \in Scopes |-> [a \in Atoms |->
                      IF s \in stale[a] THEN [rewired[s][a] EXCEPT !.outcome = Final(s, a)]
                        ELSE rewired[s][a]]]
        /\ reached' = stale
        /\ fault' = (fault \/ ~FallbacksResolved(rewired))
  /\ open' = FALSE /\ intents' = <<>> /\ memo' = [a \in Atoms |-> None]
  /\ UNCHANGED status

-----------------------------------------------------------------------------
Init ==
  /\ status = [s \in Scopes |-> IF s = Root THEN "live" ELSE "absent"]
  /\ override = [s \in Scopes |-> [a \in Atoms |-> None]]
  /\ fallback = [a \in Atoms |-> IF a \in Lazy THEN None ELSE EagerFallback[a]]
  /\ views = [s \in Scopes |-> [a \in Atoms |-> None]]
  /\ owned = [s \in Scopes |-> <<>>]
  /\ open = FALSE
  /\ intents = <<>>
  /\ memo = [a \in Atoms |-> None]
  /\ reached = NoneReached
  /\ fault = FALSE

Next ==
  \/ \E s \in Scopes : CreateScope(s) \/ Dispose(s) \/ TxResetAll(s)
  \/ \E s \in Scopes, a \in Atoms :
       Get(s, a) \/ ReadHydration(s, a) \/ TxGet(s, a) \/ TxReset(s, a)
  \/ \E s \in Scopes, a \in Atoms, v \in Values : TxSet(s, a, v) \/ TxUpdate(s, a, v)
  \/ Begin
  \/ Abort
  \/ CommitNothing
  \/ Commit

Spec == Init /\ [][Next]_vars

-----------------------------------------------------------------------------
(* Properties *)

\* Every variable keeps the shape the module declares for it.
TypeOK ==
  /\ status \in [Scopes -> {"absent", "live", "disposed"}]
  /\ override \in [Scopes -> [Atoms -> Values \cup {None}]]
  /\ fallback \in [Atoms -> Outcomes \cup {None}]
  /\ views \in [Scopes -> [Atoms -> View \cup {None}]]
  /\ owned \in [Scopes -> Seq(Atoms)]
  /\ open \in BOOLEAN
  /\ intents \in Seq(Intent)
  /\ memo \in [Atoms -> Outcomes \cup {None}]
  /\ reached \in [Atoms -> SUBSET Scopes]
  /\ fault \in BOOLEAN

\* What a scope serves from its cached view is what walking up the tree would
\* find, after any mix of reads, shadowing, resets and multi-scope commits:
\* "atoms that the scope hasn't shadowed continue to flow through".
ViewsServeResolution ==
  \A s \in LiveScopes, a \in Atoms :
    views[s][a] # None => views[s][a].outcome = Resolved(s, a)

\* A commit never meets a lazy fallback that staging left unresolved: it would
\* throw after its sources have been applied.
FallbacksSettledBeforeCommit == ~fault

\* The index behind resetAll, swept lazily, never misses an owned atom.
IndexCoversOwned ==
  \A s \in LiveScopes \ {Root}, a \in Atoms :
    override[s][a] # None => \E i \in DOMAIN owned[s] : owned[s][i] = a

\* What a transaction could read when it committed is what every scope resolves
\* afterwards; only a fallback that it read without writing the atom is forgotten.
CommitPublishesDraft ==
  [][Commit =>
      \A s \in LiveScopes, a \in Atoms :
        \/ Resolved(s, a)' = Final(s, a)
        \/ /\ fallback'[a] = None
           /\ \A i \in DOMAIN intents : intents[i].atom # a]_vars

\* A commit refreshes a view, and so notifies, exactly when its outcome changes:
\* pruning the walk at unchanged views loses none of those below.
RefreshesExactlyChanged ==
  [][Commit =>
      reached' = [a \in Atoms |->
        {s \in Scopes : views[s][a] # None /\ views[s][a].outcome # Resolved(s, a)'}]]_vars

\* resetAll leaves the scope owning nothing in the draft, or stages nothing at
\* all because what it would inherit failed.
ResetAllIsAllOrNothing ==
  [][\A s \in Scopes \ {Root} : TxResetAll(s) =>
      \/ \A a \in Atoms : (s \notin DraftOwners(s, a))'
      \/ /\ intents' = intents
         /\ \E a \in Atoms : DraftResolved(Parent[s], a, memo') = Failed]_vars

=============================================================================
