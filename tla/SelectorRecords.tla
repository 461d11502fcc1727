-------------------------- MODULE SelectorRecords --------------------------
(***************************************************************************)
(* The committed selectors of one scope: their records, the dirty marks,   *)
(* the graph their dependencies form, the latches of reported cycles, and  *)
(* the propagation queue they are put into.  `scope-node.ts`.              *)
(*                                                                         *)
(* A getter is a decision tree: after the values it got so far it reads    *)
(* the node `next` names, or returns or throws what `gives` makes of the   *)
(* last value.  It does not catch what a read throws.  All failures are    *)
(* the outcome Error.                                                      *)
(***************************************************************************)
EXTENDS Naturals, FiniteSets, SequencesExt

CONSTANTS
  Atoms,      \* sources
  Selectors,
  Values,
  Error,      \* the outcome of a selector that failed
  None,       \* `undefined`
  MaxReads,   \* bound: reads of one evaluation
  Programs    \* bound: the assignments of getters to selectors

Nodes == Atoms \cup Selectors

\* What a getter may have read when it decides whether to read on.
Decisions == BoundedSeq(Values, MaxReads - 1)

Bodies ==
  {b \in [next : [Decisions -> Nodes \cup {None}], gives : [Values -> Values \cup {Error}]] :
     b.next[<<>>] # None}

Records ==
  [out : Values \cup {Error}, token : Nat, deps : Seq(Nodes), success : Values \cup {None}]

ASSUME NodesAssumption == Atoms \cap Selectors = {} /\ IsFiniteSet(Selectors)
ASSUME NoneAssumption == None \notin Nodes \cup Values \cup Records /\ Error \notin Values \cup {None}
ASSUME UndefinedAssumption ==
  /\ None \notin Seq(Nodes) /\ None \notin Nat /\ None \notin [value : Values, token : Nat \cup {None}]
  /\ \A E \in SUBSET (Selectors \X Selectors) : E # None
ASSUME MaxReadsAssumption == MaxReads \in Nat \ {0}
ASSUME ProgramsAssumption == Programs \subseteq [Selectors -> Bodies]

VARIABLES
  body,         \* the getters
  value,        \* committed atom values
  record,       \* #selectorRecords
  dirty,        \* #dirtySelectors
  routes,       \* #cycleRoutes: the watched paths of latched selectors
  mode,         \* "idle", "reading", or "propagating" (#postSourceApply)
  queue,        \* #propagationQueue from its cursor on
  status,       \* #propagationStatuses
  graphVersion, \* #selectorGraphVersion, from the start of the operation
  provisional,  \* provisionalServes, from the start of the operation
  nextToken,    \* outcome tokens handed out in this operation, plus one
  sessions,     \* the evaluation sessions in flight, each inside its `outer`
  stack,        \* the calls in flight, the innermost last
  reached       \* selectors whose subscription target was reached

graphVars == <<record, dirty, routes, queue, status, graphVersion, provisional, reached>>
vars == <<body, value, graphVars, mode, nextToken, sessions, stack>>

\* The committed dependencies of a selector; a selector never evaluated has none.
Deps(recs, s) == IF recs[s] = None THEN <<>> ELSE recs[s].deps

\* The edges of the committed selector graph.
Edges(recs) == {e \in Selectors \X Selectors : Contains(Deps(recs, e[1]), e[2])}

Dependents(recs, n) == {s \in Selectors : Contains(Deps(recs, s), n)}

\* The paths from a to b along `edges`, as long as one that repeats no selector.
Paths(edges, a, b) ==
  {p \in SeqOf(Selectors, Cardinality(Selectors)) :
     /\ p # <<>> /\ Head(p) = a /\ Last(p) = b
     /\ \A i \in 1..Len(p) - 1 : <<p[i], p[i + 1]>> \in edges}

\* A path the searches report: a shortest one.
PathOf(edges, a, b) ==
  CHOOSE p \in Paths(edges, a, b) : \A q \in Paths(edges, a, b) : Len(p) <= Len(q)

\* The selectors that a path from a reaches, a included.
ReachableFrom(edges, a) ==
  LET within[n \in 0..Cardinality(Selectors)] ==
        IF n = 0 THEN {a}
        ELSE LET near == within[n - 1]
             IN near \cup {b \in Selectors : \E c \in near : <<c, b>> \in edges}
  IN within[Cardinality(Selectors)]

-----------------------------------------------------------------------------
(* enqueueSelector *)

\* Those of E that are put into the queue: what is queued already is not, but one
\* that was settled is settled again.
Enqueueable(E) == {s \in E : "queued" \notin status[s] \/ "settled" \in status[s]}

-----------------------------------------------------------------------------
(* Latched cycles *)

Watched(route) == IF route = None THEN {} ELSE Range(route.reported) \cup Range(route.path)

\* Whether `path`, which leads back to `latch`, needs a read of `member` that is
\* not among `reads`.
Lost(path, latch, member, reads) ==
  \E i \in DOMAIN path :
    /\ path[i] = member
    /\ ~Contains(reads, IF i = Len(path) THEN latch ELSE path[i + 1])

\* A member failed earlier along the same reads: the others are not gone, only
\* unobserved.
Unobserved(prev, new) ==
  /\ new.out = Error
  /\ prev # None
  /\ IsStrictPrefix(new.deps, prev.deps)

\* Mutant of Shaken: every install of a watched selector reopens the latch.
ShakenByAnyInstall(member, new, rts) == {l \in Selectors : member \in Watched(rts[l])}

\* The latches that the new record of `member` concerns.
Shaken(member, new, rts) ==
  {l \in Selectors :
     /\ member \in Watched(rts[l])
     /\ \/ Lost(rts[l].path, l, member, new.deps)
        \/ Lost(rts[l].reported, l, member, new.deps) /\ ~Unobserved(record[member], new)}

\* Those that find another committed route from the closing read back.
Rerouted(member, new, rts) ==
  {l \in Shaken(member, new, rts) :
     /\ Unobserved(record[member], new)
     /\ l \in ReachableFrom(Edges([record EXCEPT ![member] = new]), rts[l].path[1])}

\* #reopenBrokenCycles: the routes, and the latches to settle again.
Routes(member, new, rts) ==
  [l \in Selectors |->
     IF l \in Rerouted(member, new, rts)
       THEN [rts[l] EXCEPT !.path =
               Front(PathOf(Edges([record EXCEPT ![member] = new]), rts[l].path[1], l))]
       ELSE rts[l]]

\* Mutant of Reopened: latched cycles stay latched.
NoneReopened(member, new, rts) == {}

Reopened(member, new, rts) == Shaken(member, new, rts) \ Rerouted(member, new, rts)
=============================================================================
