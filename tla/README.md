# Verification of valdres' v1 store

TLA+ models, TLC runs and TLAPS proofs for the state-management core in
`packages/valdres/src/v1-internal/`. Everything here is translated from that
source; `PROJECT.json` maps each definition to the lines it stands for.

## 1. Inventory

A *Store* is a tree of scopes. All of it is synchronous JavaScript: no two store
operations overlap, and what makes the code hard is re-entrance (user callbacks
that call back into the store), caching (what a scope serves is cached per scope
and atom and must be invalidated exactly), and ordering inside one commit.

| part | state | operations | hard behaviour | what makes it correct |
| --- | --- | --- | --- | --- |
| Scope tree and atoms (`committed-store-tree.ts`, `scope-node.ts`) | overrides per scope, lazy fallbacks per tree, AtomViews linked to their parent's, weak index of owned atoms, scope status | `scope`, `dispose`, `get`, `set`/`update`/`reset`, `txn`, `resetAll`, hydration reads | views created at any time, multi-scope commits, initializers that throw | a view serves what walking up the tree finds; a commit refreshes exactly what changes; the commit phase cannot fail |
| Transaction draft (`tree-transaction.ts`, `scratch-selector-host.ts`) | intents, baselines, fallback memo in tiered storage; scratch hosts | `stage`, `setAtomBaseline`, `setFallback`, selector reads, `close`, `release` | promotions between storage tiers, cached reads invalidated per intent | all tiers store the same ordered collection; no stale scratch read |
| Commit hooks (`commit-hooks.ts`) | FIFO, cursor, wake, budget, refill generation | publish, wake, refill timer, drain, discard of disposed scopes | re-entrant publication and disposal, dropped or replayed host tasks, budget exhaustion | publication order, at most once, never for a disposed scope, never stranded, yields to other tasks |
| Selector evaluation and settlement (`selector-evaluator/`, `committed-store-tree.ts` 2595-3182, `scope-node.ts` 690-1150) | selector records, reverse edges, dirty set, propagation queue | `get` of a selector, propagation of changed sources | glitches, cycles, errors that escape, dependencies that change | a served selector is current; equality cuts propagation off |
| Subscriptions, notifications, reactions (`committed-store-tree.ts` 989-1203, 2725-2960) | registrations per target, reached targets, pending reactions | `sub`, unsubscribe, settle and deliver | callbacks that write, unsubscribe or subscribe during delivery; waves of reactions | each live subscriber of a changed target is called once per boundary |
| External atoms (`external-projection.ts`, `external-atom.ts`) | connections, captured outcomes, leases | connect, emit, disconnect, read | late emissions, failing setup | connected while observed, released afterwards |
| Collections (`collection-kernel.ts`, `collection-query.ts`, `ordered-membership.ts`) | row locals (a value or "absent") and row views per scope, ordered memberships with a mark for an order of their own, draft coordinates and event histories, indexes | `set`, `update`, `delete`, `reset`, `resetAll`, reads of rows and membership, queries | hiding of inherited rows, positions that depend on a history, orders restored or followed, memberships planned or inherited later | a commit serves what the transaction read, in the same order, whatever was read before; a reset scope is its parent's untouched child |
| Families (`family.ts`, `weak-member-cache.ts`) | weak references per key | lookup, finalization | collection between lookup and use | one live member per key |
| Callback guards (`runtime-domain.ts`) | activity stack | every entry point | operations from inside initializers, comparators, transactions | forbidden ones throw before they change state |
| Inspection (`inspection.ts`), equality, framework bindings, plugins, legacy `src/lib` | - | - | read-only, stateless, framework-owned, I/O, or unreachable from the exports | - |

How they interact: a store operation creates a draft, stages into it through
cursors, and hands it to `#commitDraft`, which reads the draft's lanes, updates
the scope tree, hands the draft's callbacks to the commit hooks
(`publishCommit`), and then propagates from the refreshed views to selectors and
subscribers. Disposal drops records and sweeps the commit hooks.

The hazards this exposes are in `PROJECT.json`, each at its line, with the
properties that watch it.

## 2. Modules

### Commit hooks: `CommitQueue`, `CommitHooks`, `CommitHooksProofs`

`CommitHooks` has the module-level variables of `commit-hooks.ts` under their own
names, plus the host's queues (`microtasks`, `timers`). A wake, a timer and a
refill generation are compared by identity in the code, so they are numbers
from `nextId`. `pending = <<>>` is `pending === undefined`. The loop of `drain()`
is three actions (`DrainNext`, `CallbackEnds`, `DrainEnd`) because user code runs
in between: while `running` is a callback, it may publish, dispose, or make a
host with mocked timers run queued tasks. `HostDiscards` drops a task, as
restoring real timers does. What a callback returns and how its error is reported
does not influence the queue and is left out.

`CommitQueue` is the promise: callbacks run in publication order, at most once,
never for a disposed scope. `ImplementsQueue` is the refinement, with the
entries still in `pending` as the abstract `waiting`.

### Transaction draft: `DraftIntents`, `TransactionDraft`, `TreeDraft`, `MCTreeDraft`, `TreeDraftProofs`

`DraftIntents` defines the intents of a draft as one value (scopes in order of
first write, atoms in order of first write within a scope, last write wins). It is
the draft `ScopedAtoms` uses. `TreeDraft` models how the class stores it: `Lanes` is
the pair of fields, the Map of one scope, and the Map of Maps, used once for
intents and once for baselines (the code spells both out). `Put` is `stage` and
`setAtomBaseline`; the latter keeps an existing entry, and since its one caller
looks first (`WithBaseline`), the two agree. A baseline carries the coordinate it was made for, so that a crossed lane
shows. A scratch host caches, per atom, the intents on the scope's path that a
read looked at: the outcome is a function of those, since committed state does not
change while a draft is open. `TransactionDraft` is the promise and
`ImplementsDraft` the refinement.

### Scope tree: `ScopedAtoms`, `MCScopedAtoms`, `ScopedAtomsProofs`

Store operations are synchronous and rejected while a transaction callback or
another user callback runs (`runtime-domain.ts` 606-679), so each is one action;
a transaction is `Begin`, any cursor operations, and `Commit`, `CommitNothing` or
`Abort`. A direct `store.set` is the transaction with that one operation: `mutate`
stages into a draft of its own and commits it. `Commit` is `#commitDraft` for atoms,
in the code's order: publish fallbacks, apply owners (and the weak index, whose
sweep threshold of 64 is a nondeterministic choice of when it sweeps), rewire
routes, refresh affected views. Each step is an operator with the code's name, and
`Affected` is the walk with its pruning.

Abstractions: a value is a model value, an initializer's outcome is chosen when it
runs (`Failed` for one that throws), and the comparator is the constant relation
`Equal`. Object identity of outcomes and tokens is value equality. The garbage
collection of abandoned anonymous scopes and of atoms is left out: nothing can
read them any more. Family members, collections and external atoms take other
branches of the same functions and are left out. Disposing a scope is final; a
named scope created again is another node.

### Subscriptions: `Publication`, `Notifications`, `MCNotifications`, `NotificationsProofs`

A commit outside a reaction opens a boundary: `Commit`, `Reach` for every state whose
served value changed, `Settled`; then `#drainReactions` runs the reached `settle`
handlers in waves (`NextWave`, `RunReaction`, `LimitReached`); then
`#deliverSubscriptionSnapshot` captures the callbacks of the reached targets
(`Deliver`) and runs them (`RunCallback`), and `Return` ends the call. The commit of a
reaction takes the same path with `nested` set: it reaches more targets in the open
boundary and returns to the drain. A reaction may use nothing but its own transaction
and a callback may only read and unsubscribe (`runtime-domain.ts` 606-679 rejects the
rest), so each is one action and a queued reaction is never unlinked before its turn.

The linked list of a target is the set of registrations whose `target` it is, ordered by
`earlier`. `reachedEpoch` compares a target with the open boundary and is membership in
`reached`. The order in which one commit reaches its targets is arbitrary. What a
selector or an inheriting view serves is `Compute`, a function of the written values: how
the store settles them is the matter of `Settlement`. `errors` keeps the
kinds of failure that a boundary collects and reports; a failing reaction applies or does
not, which `RunReaction` allows since it may leave `value` as it was. A captured callback
runs even if it was unsubscribed meanwhile, as in the code. Left out: collection events (several attempts per
registration), boundaries of external atoms, and internal faults that end a boundary
early.

`Publication` is the promise: an update has rounds of writes, after which everybody who
observes a state that some round changed is called once. It keeps the log `told` of the
calls of an update: every call is a step that extends the log, and no step may enter
somebody twice, so a second call is as much a violation as a missing one. A subscription
ends only between updates or from a callback. `Due` maps the changed states still to be
reached, the reached targets and the snapshot to the abstract `due`. `Notifications` has
two history variables: `told`, the callbacks this boundary has run, and `stale`, the
reactions whose state changed after they last started.

### Selectors: `SelectorRecords`, `SelectorEvaluator`, `Settlement`, `MCSettlement`, `SettlementProofs`, `GlitchFreeProofs`

Three modules after the three places in the code. `SelectorRecords` has the committed
records of a scope with their graph, the dirty marks, the latches of reported cycles and
the queue (`scope-node.ts`). `SelectorEvaluator` is one evaluation: a frame on `stack`,
reading, proving that a read closes no cycle, ending in `Install`. `Settlement` is
`propagateFromSources` with `#settleSelector`: a settle is a frame too, and since a getter
can read a selector and a walk can settle one, frames of both kinds nest. What the
JavaScript call stack holds in local variables, the frames hold.

A getter is a decision tree over the values it has read (`body`), chosen in `Init` and
never changed, so that one run covers programs whose dependencies come and go with the
value of an atom. The searches for a cycle are the existence of a path: which
of the two searches runs, its budget and its memo of closed sets do not change the
answer. The proofs that the version counters make unnecessary are modelled one by one
(`NeedsNoProof`, `OnlyAttributed`, `OwnPrefix`), because skipping one too many is the
hazard. The order in which dependents are queued is arbitrary. A reported cycle is a
shortest path; the code reports one of the shortest as well, for a latch any will do.
Versions and tokens are compared only within one operation and are numbered anew
when the store is idle, which keeps the state space finite.

Left out: several scopes (a selector record belongs to one scope, and scopes meet only in
`AtomView`s, which `ScopedAtoms` has), getters that catch a failed read, thenables, control faults and
escaped failures with their retry, records with external sources in their closure, and
the revalidation after the getter has returned, which can only find what the last read
found because nothing runs in between. All failures are one outcome `Error`, with a new token each time, as
two error objects are never the same. Two branches of the code are modelled and were
not reached by any instance tried: cutting an accepted prefix (`Truncated`) and a
superseded install (`Superseded`); of these only the theorems speak (section 4), for
every instance.

### Families: `WeakMembers`, `MCWeakMembers`, `WeakMembersProofs`

`weak-member-cache.ts` whole. A route object is its prefix: one that was pruned has no
entry and no children and nothing in flight refers to it, so it need not be told
apart from the route made in its place. The collector takes any member the program
does not hold, at any time, even in the middle of a job: the guarantee that `deref` keeps its
target for the rest of the job is not used. A finalizer runs between jobs, when no
factory is in flight; unregistering a finalizer that is queued already may come too late,
and both outcomes are allowed. A factory may return an object the program has already.

### External atoms: `ExternalProjection`, `MCExternalProjection`, `ExternalProjectionProofs`

The plane of one tree. A projection is reduced to how its outcome relates to its
resource: `current`, `stale` since the resource changed, the non-convergence `error`, or
`none` before the first sample. `reported` is history: the projections out of date (stale, in error
or never sampled) whose report the plane took. An operation walks through stages as the code does: admission, a
propagation wave with attachments, subscriber callbacks, flush of releases, drain rounds,
the verdict on an admission. Resources can report wherever the plane listens: while idle,
in subscriber callbacks, and in their own `subscribe` callback. Elsewhere the report is
rejected by a guard or, by a revoked generation, ignored, and changes nothing.

A reader is a subscribed selector straight over sources; `Branches` are the sets its getter
may come to read, and each evaluation chooses one, so branches are exchanged and
shared at any time. Whether its token changes is free. Counts are per source since there
is one scope. Left out: several trees, and with them the delivery depth and work limits,
which bound the nesting of trees; scopes and their disposal; selectors over selectors and
cyclic closures (`#cycleSources`); thenables and control faults; captured reads of
transactions and of hydration; `get` of a source nobody subscribes to; inspection events.

### Collections: `CollectionDraft`, `Collections`, `MCCollections`

One collection of `collection-kernel.ts`. `CollectionDraft` is the lane of a transaction:
coordinates with the event that made a row present (`birth`; 0 is `BASELINE_BIRTH`), the
history of events, the `RebaseMarker`s of `resetAll`, and how a draft read orders a scope
from them. Coordinates and memoized reads are kept because a birth is kept up
to date in a coordinate that exists and replayed from the history for one that does not:
whether the two agree is part of what is checked. `Collections` is the committed side and
the plan of a commit, which finds births in a third way, by merging the events of each scope
into its parent's timeline (`Timeline`). `Commit` is `planCommit`, `applyCommit`,
`rewireCommit` and `settleCommit`, which run with no callback in between.

`local` has what each scope owns of each row, `membership` the records that were
materialized. One without a record is served, and recorded on the first read, as its parent
(`CommittedRows`, `Materialized`). A commit depends on which records exist, so reads are
actions of their own, in and out of transactions. `Init` has rows and one
scope whose order is its own after an earlier transaction; this saves the
events that would lead there.

Left out: several collections and their shared draft; event channels, subscriptions and
deliveries; keyed indexes and queries, which are functions of the membership; the
ordered form of a large membership, which the code keeps equal to the array;
deferred tokens; instrumentation. Rows that `resetAll` resets without consulting the
parent's order are reset in any order: the code takes that in which they were acquired.

## 3. Runs

| run | bounds | states | shows |
| --- | --- | --- | --- |
| `hooks` | 2 scopes, budget 2, 3 callbacks in batches of 2, 2 dropped tasks | 80 k | safety of delivery, the refinement to `CommitQueue`, and every callback runs or its scope is disposed, unless the host drops a task |
| `atoms_chain` | root, child, grandchild, one lazy atom, 2 values, a draft writes one scope or two adjacent ones | 45 k | views and refreshes, also when a scope and its parent change together |
| `atoms_chain_shared` | the same, any scopes in a draft | violated | a commit that resets below a scope without a view leaves that scope stale (section 5) |
| `atoms_pair` | root and child, a lazy and an eager atom, a comparator that equates two values, one scope per draft | 93 k | resetAll, its index, and fallbacks |
| `draft` | 3 scopes, 3 atoms, 2 kinds, 4 intents, 1 coordinate inspected only; symmetric in atoms, children, kinds | 133 k | the lanes implement one ordered collection |
| `draft_reads` | 2 scopes, 2 lazy atoms, 4 intents, 2 cached sources | 382 k | scratch hosts are never stale |
| `notifications` | 2 atoms and a selector of both, 2 registrations, 2 waves, every kind of failure | 0.3 M | flags, reactions settle first, the refinement to `Publication` (each subscriber concerned is called exactly once), and every boundary ends |
| `settlement` | 1 atom, 3 selectors, 2 values, getters of at most 2 reads: every way in which three of them can come to read one another, and four programs with particular latches, diamonds and failures | 0.2 M | served values, glitches, cycles, repeated evaluations, reached subscribers |
| `weak_members` | keys `<k1>`, `<k1,k1>`, `<k1,k2>`, `<k2>`, 3 members (symmetric), 3 factories in flight | 0.8 M | one live member per key, no useless route |
| `external` | 2 sources, 2 readers, 2 registrations each, 2 rounds, 2 samples | 0.6 M | reports, attachments, refused subscriptions, and that every operation ends |
| `collections` | root, child, grandchild, 2 rows (symmetric), 1 value, 3 events, reads or views, an earlier order of its own in one scope, row views in the child | 0.4 M | commits serve what was read, orders do not depend on what was read, resets restore |
| `collections_held` | root and child, the same with 4 events | violated | a membership that was never read takes the parent's new order (section 5) |

Why these are enough: a budget of 2 with batches of 2 lets a drain end because
the FIFO, the budget, or both are exhausted, with callbacks published before,
during and after it. Three scopes in a chain are the fewest with a view that
inherits through another; two values distinguish old from new. Three atoms
outgrow the two fields of a lane and the third scope is the first to be added to an
existing Map of Maps; four intents reach every promotion.
Two registrations give a target with a list, a reaction that changes what another
one observes, and a callback that unsubscribes another that is captured; two waves (64 in the code) let a
reaction run again and then meet the limit. Larger lists are left to the proofs of section 4.
Two rows are the fewest with an order. Three events move a row in a scope and reset it in another, or reset a
scope and write it again; together with the order of an earlier commit, scopes are restored, follow a
restored one, or keep their order below one. Row views are read in the child only: in the grandchild
they meet the problem of `atoms_chain_shared` again, because `rewireCommit` creates the parent's view, too,
before the changed views are served, and the commit would not publish what was read. One value is enough because the positions of rows depend on presence;
that a new value is served at all is the matter of views, which `ScopedAtoms` has with two.
Three selectors are the fewest with a cycle that closes through a third one and a
diamond; with two reads a getter can be switched by its first. Three members and factories let
a build be nested in another while a third member's finalizer is due. Two sources and readers are
the fewest that share one branch and exchange another, and a bound of 2 is reached both
with one source dirty twice and with two at once. `CHECK_DEADLOCK` is off where the
system really stops: nothing published and every scope disposed, the root
disposed, or the draft released.

**Fairness**: in `hooks` the host runs the microtasks and timers that stay queued,
callbacks return, and `drain()` is synchronous code that runs to its end. Nobody has to
publish or dispose. A host that drops a task has no such obligation, so the
property excuses deliveries until the next commit puts a new wake in its place. In
`notifications` a boundary is one synchronous call whose user code returns; nobody
has to commit, subscribe or unsubscribe. In `external` an operation is one synchronous call too:
its steps follow one another and its callbacks return, while reports and
unsubscriptions from those callbacks may or may not come. `EvaluatesOnce` stands in for the
termination of a settlement: no getter runs more than twice in one operation.

## 4. Proofs

`CommitHooksProofs` proves, for every set of scopes, budget and bound:
`TypeCorrect`, `NeverStranded`, `NothingRetained`, `Yields`, and `Refinement`
(`Spec => ImplementsQueue`). They rest on `Invariance`, whose inductive invariant adds to
the checked invariants

- `QuietBetweenDrains`: between drains no callback is on the stack and the cursor is 0,
- `InPublicationOrder`: the identities in `pending` increase and are at most `published`,
  which the refinement needs to know that the first entry is the oldest,
- `SpentFromBudget`: the slots consumed since the last timer task and the budget left
  add up to the budget of a task, which is why no path refills early.

`NotificationsProofs` proves, for every finite set of registrations, every set of states,
every `Compute`, wave limit and choice of failures: `TypeCorrect`, `NoStrayFlag`
(`PendingMeansQueued`), `PublishedSettled` (`SettledBeforePublication`) and `Refinement`
(`Spec => ImplementsPublication`). The inductive invariant of `Invariance` adds

- `OrderIsStrict`: no registration precedes itself, so a listing by `earlier` never
  repeats one,
- `PhaseOrder`: what each phase has used up: no wave runs while idle or publishing,
  nothing is reached or captured early,
- `NotifiedOnce`: neither a target in `reached` nor a callback in `snapshot` repeats, and
  nobody in `snapshot` was told already, which the refinement needs because `Notify` takes
  only those who are due and were not told,
- `StaleWaits`: a stale reaction has a state still to be reached or is pending, unless
  the limit was reported; with empty queues it gives `SettledBeforePublication`.

`WeakMembersProofs` proves, for any keys, tuples, members and depth of recursion:
`TypeCorrect`, `MembersCanonical` (`Canonical`), `NoRouteLeaks` (`EveryRouteIsOfUse`) and
`RecursionFindsBuild`. The inductive invariant adds

- `EntriesAttached`: a route with an entry can be reached from the root, so that a lookup
  that finds no route may build,
- `BuildsAttached` and `BuildsInFlight`: builds in flight and building entries correspond
  one to one, so that a prune never takes the route of a build and a failed build
  clears its own entry only.

`Canonical` and `EveryRouteIsOfUse` are parts of it: a member is found because its route
was kept, and a route is kept because its entry is there.

`ExternalProjectionProofs` proves, for any finite set of sources, any readers, branches,
numbers of rounds and samples: `TypeCorrect`, `NoAcceptedReportIsLost` (`NoReportLost`),
`AttachedIffRead` (`AttachmentsFollowReaders`) and `RegistrationsHaveHandles`
(`HandlesOwnRegistrations`). All three properties speak of the idle tree only, so the
inductive invariant says what holds in the middle of an operation:

- `PlaneOK`: the count of a source is the number of its edges, a source without edges that is not dormant is
  queued for release, one with edges that is not active is kept to be attached,
- `OneAttaching`: a source is attaching only while its own `subscribe` callback runs,
- `Course`: which stage an operation may go on to,
- `ReportsDirty`: a reported source is dirty, and an operation ends only without dirty sources,
- `Flushed`: no release is queued once the flush is over,
- `Registered` and `Admissible`: every registration has a handle but the one being admitted,
- `EdgesFollow`: a reader's edges are the sources it read last, and none once it is unsubscribed.

It was checked with TLC on the 0.6 M states of `external` before it was proved.

`SharedStaysAttached` proves the action property `DetachesUnread` from it, which speaks of
the middle of an operation: a source is detached only when no reader waits for its
evaluation any more and none that is subscribed reads the source. So a source shared by an
old and a new branch does not detach to attach again. It needs `WavesOver` in addition: outside a wave no reader is
marked. `DetachesUnread` is defined beside its proof and is not a property of the run.

`TreeDraftProofs` proves, for any scopes, paths, atoms, kinds and bounds: `TypeCorrect`,
`ShortcutsComplete` (`ShortcutsSeeEverything`), `ScratchServes` (`ScratchServesDraft`) and
`DraftImplemented` (`Spec => ImplementsDraft`). The refinement is where the storage matters. `StorageWF`, its
invariant, lists the four forms of the lanes: nothing, one or two fields, the Map of one
scope, a Map of Maps with distinct keys and no empty Map. `Norm` maps each form to the Map of Maps it stands
for, and three lemmas make the forms indistinguishable: `PutNorm` (a put into any form is a put into its `Norm`,
through every promotion), `LookupNorm`, and `ForEachNorm`. What remains is about Maps of Maps
only: `StageHere` and `StageExtends` show that setting an entry in the Map of a scope is `Stage` on
the flat sequence, in the middle of it as well as at its end, and `FlatStage` and `ForEachPut` carry that over all groups.
`HostsServe`, the invariant of the scratch hosts, is `ScratchServesDraft` with the shape of a host: a host
that exists has the generation of the draft, and each read it cached is what the draft would resolve now.

`ScopedAtomsProofs` proves, for any tree, atoms, values, comparator and lazy or eager fallbacks, and for
drafts of any size: `TypeCorrect`, `FallbacksSettled` (`FallbacksSettledBeforeCommit`), `IndexComplete`
(`IndexCoversOwned`), `CommitPublishes` (`CommitPublishesDraft`), `ResetAllAllOrNothing`
(`ResetAllIsAllOrNothing`), `ViewsServe` (`ViewsServeResolution`) and `RefreshExact`
(`RefreshesExactlyChanged`). The first five rest on the invariant of ownership:

- `ParentsLive` and `Vacant`: live scopes form a tree, and the others hold nothing,
- `OwnersSettled`: an atom with an override anywhere has a settled fallback,
- `DraftOK`: one intent per scope and atom (`OneEach`), and of the intents for an atom whose fallback is
  unresolved one publishes the outcome the memo remembers (`Staged`), also when a later write
  replaces the one that ran the initializer. This is why no commit can fail, and why what `Final` reads is what
  is resolved afterwards (`FinalResolves`).

The last two add `VInv`, checked with TLC on the states of `atoms_chain` before it was proved:

- `Routed`: a view inherits from the parent's, which exists, unless its scope owns the atom or is the root,
- `Serves`: every view serves what its scope resolves,
- `DraftTogether`: a draft writes scopes the bound `Together` allows.

`RouteOK` shows by induction over the tree that a route of views is the part of the path up to the nearest owner.
So a view that a commit changes has a nearest intent on its route, nothing in between owns the atom before or
after, and every view in between changes in the same way: the pruned walk gets there (`AffectedFound`). The
other half is an induction over the intents that `Rewire` goes through. `ProperAfter`
says that views inherit from where the new owners are, but for those an intent still has to rewire; `NewServe`, that a
view created on the way serves what resolves after the commit, although old views keep their
outcome until the refresh. The latter holds because the view it is copied from is not below anything the draft writes,
and this is where the one hypothesis of the two theorems is used: `Adjacent`, that no draft writes a
scope together with one further above it than its parent. It holds of `atoms_chain` and `atoms_pair`.
Without it `ViewsServeResolution` is false: `atoms_chain_shared` is the counterexample (section 5).

`SettlementProofs` proves, for any selectors, any getters and any number of reads: `TypeCorrect`, `ChangesReached`
(`ReachesChanged`), `GraphAcyclic` (`RecordedAcyclic`), `NoReentrance` and `SessionsClosed`. A settlement is a stack of calls that read, write and
mark the same records, so the inductive invariant is mostly about the stack:

- `FrameWF`: what the locals of each kind of call are in each phase; a getter that still runs has got values only,
- `Numbered` and `SessionsCounted`: the sessions are those opened by the read and by the settles on the stack,
  in their order (`Level` counts them), and a call uses one opened below it,
- `Apart` and `Serveable`: no selector is evaluated twice in a session, nor about to be. This is why a session
  can be reused, why a read of an active selector is the only reentrance a getter sees, and why a cycle that is
  reported does not come to its own end,
- `Awaits`: what a read was served has a record, or the call above is about to make one, so an accepted read never
  finds nothing,
- `Baselines`: evaluations in flight that hold the same token of one selector hold the same outcome, and so does the
  record with that token. Hence an outcome that changes gets a new token (`ChangedToken`), which is `ReachesChanged`,
- `RecordsOK` and `RoutesOK`: what `Install` writes, and latches with a path back that is not empty.

It was checked with TLC on the 0.2 M states of `settlement`. `ReachableWalk`, `ShortestWalk` and `ShortestInjective`
take the search for a path apart: what is reachable has a walk, there is a shortest one, and it comes to no
selector twice. `MovedOK`, `QuietOK`, `PushOK` and `PopOK` say what moving a frame on, pushing and popping one leave of
the invariant, and each action is a combination of them.

`GraphAcyclic` has an invariant of its own, `GraphInv`, beside `IInv`. That no cycle is recorded is far from
inductive: most reads are accepted without a search, on the strength of two counters (the version of the graph
and the publications of a session), and what a call has read is recorded only when it is installed, so at any time the
graph is a mixture of records and of reads in flight. `GraphInv` says what an evaluation answers for:

- `Placed` and `Nested`: an evaluation is in the session of its level, sessions are opened one inside the other, so the
  chain of outer sessions that a search looks at is all of them (`ChainOK`) and the graph it runs on is that of
  the topmost evaluation of each selector (`EffectiveIs`),
- `Prepared`: an evaluation that runs or fails is the innermost call and has no suspect edges left, since every return
  to it goes through `Revalidated`,
- `VersionsOK`: versions and publications only grow, and no session publishes more often than the graph changes. So if
  both counters moved equally since a proof, nobody else published (`Alone`),
- `KnownOK`: edges lead to selectors that have a record. A selector without one is at the end of no edge, which
  is why its reads need no search,
- `ProvenOK`: no cycle leads through the lowest evaluation of a selector in the graph it answers for (`Seen`),
  without the edges that other sessions have published since its last proof (`Trusted`). `Seen` leaves out what is in
  evaluation below it, and takes the reads of its own session as far as they have come, the records of the others as they are,
- `RestingOK`: no cycle leads through the records of the selectors that are not in evaluation. With an empty stack that
  is `RecordedAcyclic`.

That no cycle goes through a selector is stated as a set that has all it leads to, that no edge leaves and that it is not in
(`OffCycle`). So the proofs need paths only where a search is made (`ReachableClosed`, `ReachableLeast`); the
rest moves sets. `PushGraph`, `AcceptGraph`, `ProveGraph`, `TouchGraph` and `PopGraph` say what starting
an evaluation, accepting a read, cutting or proving a prefix and installing leave of this, `RevalidatedGraph` and
`AfterServeGraph` bring the model's operators to them, and there is one lemma per action again. The parts
of `GraphInv` were checked with TLC on the states of `settlement` before they were proved.

`GlitchFreeProofs` builds on `IInv` (the graph invariant is not needed: without such getters no search finds anything, `NoSearchFinds`) and proves what the records say: `GlitchFreedom` (`GlitchFree`) and, where no
getter can come to read itself (`CannotCycle`), `ServesRecomputed` (`ServedWithoutCycles`) and that nothing is
evaluated twice in one operation (`OnceWithoutCycles`). `CannotCycle` is a hypothesis about the
getters only, the one `GlitchFree` itself has, and the instances have programs with and without it. A getter is a function
of the answers it gets, so the first part is about functions: `Gets` says that
a sequence of answers is what a getter gets when its nodes answer so, and a ranking of the selectors along
`MayRead` (`Rank`, the number of selectors a getter can come to read) shows that the depth of the recursion in
`Recomputed` is enough. `ExplainedRecomputed` is
the induction that both need: of records that are what their getters make of the records they read,
and that read only one another, each is what recomputing gives. The invariant, `CalmInv` (`CannotCycle => Calm`), says
that the selectors that are up to date (`Current`) are such records at any time:

- `RecordsCalm`: a record that is not marked is what its getter makes of what its dependencies answer now; the step
  that changes an outcome marks its dependents, so nothing can come between,
- `MarksCalm`: an up to date selector is not marked and reads only such,
- `StackCalm`: an evaluation has got only what up to date nodes answer, in the order its getter asks, and its own
  selector is not up to date (`EvaluationCalm`); a walk that found its dependencies settled has
  settled all of them but those to do and the one the call above works for (`WalkCalm`); every call works
  for something the calls below it may come to read (`Descends`), so no read meets a selector that is active
  and none of the cycle paths is taken,
- `TopCalm`: what the innermost call has waited for is up to date when it goes on,
- `PendingCalm` and `InProgress`: what is marked is queued or being settled, so that nothing is left when the queue is empty,
- `HistoryCalm`: a selector is evaluated at most once, until then its outcome is that before the
  write, and it is reached only if the evaluation changed it,
- `LatchesCalm`: nothing is provisional and no cycle is latched.

`CurrentRecomputed` then gives all three. With cycles none of this holds as it stands: a
read can meet an active selector, what it then got is provisional, and the selector is evaluated again.

`Flat` in `TreeDraft` is a recursion over the groups. The library's induction theorems cannot be
instantiated here, so the proof modules that need it begin with, from the existence of a least element in every nonempty set
of naturals, induction over an interval (`IntervalInduction`) and that a step function has a run
(`Recursion`), both stated over sets and functions instead of operators; `Equations` and `Stays` read
the values of such a function off its definition. `ScopedAtomsProofs` uses them for the loops of a commit,
`Keeping`, `StageResets`, `IndexOwned` and `Rewire`, and proves the same for a pointer that is followed until it ends
(`FollowExists`), for `Path` and `Inherits`; `TreeInduction` is induction from the root down. With the run, `VisitExists` and `FlatVisit` justify the
recursive definition, and the lemmas above are inductions over the number of groups visited.

The assumptions are the named ones of each module about its constants. Some of them deserve a word:
`NoneAssumption`, `UndefinedAssumption`, `DistinctAssumption` and `ViewAssumption` say that `undefined` is none of the values it is compared with,
`FinitenessAssumption` that an external plane knows finitely many sources and readers, and
`RootedAssumption` that every scope was created below another one and all of them below the
root: no set of scopes is closed under taking parents without having the root. The tree need not be finite.

What stays with TLC: liveness under fairness (`EventuallyDelivered`, `BoundariesEnd`, `OperationsEnd`), as the prover has no
ENABLED; `ServesRecomputed` and `EvaluatesOnce` for getters that can come to read themselves, where a record may stand for a
cycle that was latched, rerouted or resolved again, and the bound of two evaluations is what the instances show; and the
properties of `Collections`, whose orders are merges of merges.

## 5. Findings

`atoms_chain_shared`: for scopes R, M, C in a chain where R's view of an atom exists, C
owns and has read the atom and M has never read it, a transaction that sets the
atom in R and resets it in C creates M's view while rewiring C's route. It copies
R's view, which is refreshed only afterwards, and M's new view is not among the
affected ones. M then serves the old value until R changes again, and a change that
restores R's old value is pruned at M, so C goes stale too. The guide
(`docs/content/guides/scoped-stores.mdx` 53 and 163-177) promises the opposite. The
passing run on a chain lets a draft write two scopes only if one is the other's parent,
where it cannot happen.

`collections_held`: the child M sets a row the root has, too; the root deletes the row
and sets it again; M resets it; all in one transaction. The row never left M, so nothing in M
is planned, and it moved to the end of the root. The transaction reads the old
order in M, and an M that was read before serves the old order for good. An M that was
not read before serves the root's new order. `collection.mdx` 137-138 says that a row
keeps its position while it stays present, and the harness of the `resetAll`
differential test (110-112) that results must not depend on what was read. It takes four events; the
passing run has three, and there no commit shows what was read.

## 6. Plan

1. Proofs: `TypeOK` of `Collections`; `ServesRecomputed` of `Settlement` with cycles that are reported.
2. Collections: the event deliveries of a commit (net events per subscribed scope, in staging order,
   then a reorder), two collections in one draft, the ordered form refining the array.
3. A composition of `Settlement` with `Notifications`, in which `Served` is what the
   settlement leaves instead of `Compute`.
4. Several trees in `ExternalProjection`, with the delivery depth and work limits.

Not modelled: inspection (read-only), equality (stateless recursion over data), the
framework bindings and plugins (their interleavings belong to the framework or the
browser), query evaluation and indexes of collections (data plumbing over the membership), the
callback guards (the models take the rejections as guards of their actions), and the previous
implementation in `src/lib`, which the exports no longer reach.
