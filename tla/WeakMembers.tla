---------------------------- MODULE WeakMembers ----------------------------
(***************************************************************************)
(* The cache of family members: WeakTupleMemberCache of                    *)
(* weak-member-cache.ts.  A trie of routes, one per prefix of a key, whose *)
(* entries refer weakly to the members.  The garbage collector takes       *)
(* members nobody holds whenever it likes; their finalizers run later, in  *)
(* tasks of their own, perhaps although they were unregistered in between. *)
(* Factories may look up the same cache, recursively.                      *)
(*                                                                         *)
(* A route object is its prefix.  One that was pruned has no entry and no  *)
(* children, and nothing in flight refers to it (BuildsAttached), so it    *)
(* need not be told apart from its replacement.  The WeakRef of an entry   *)
(* is the member with the set `alive`.                                     *)
(***************************************************************************)
EXTENDS Naturals, FiniteSets, SequencesExt

CONSTANTS
  Keys,      \* the primitives a tuple is made of
  Tuples,    \* bound: the tuples that are looked up
  Members,
  None,      \* `undefined`
  MaxDepth   \* bound: factories in flight

ASSUME TuplesAssumption == Tuples \subseteq Seq(Keys) \ {<<>>}
ASSUME MaxDepthAssumption == MaxDepth \in Nat

VARIABLES
  routes,  \* the routes reachable from the root, the root <<>> included
  entry,   \* the entry of each route
  stack,   \* the calls of the factory in flight, the innermost last
  cells,   \* ready entries whose finalizer may still run
  alive,   \* members the collector has not taken
  held,    \* members the program holds
  given    \* history: the member last handed out for each tuple, while alive

vars == <<routes, entry, stack, cells, alive, held, given>>

Routes == {<<>>} \cup UNION {Prefixes(t) : t \in Tuples}

Building(frame) == [kind |-> "building", of |-> frame]
Ready(m) == [kind |-> "ready", of |-> m]
Entries == [kind : {"building"}, of : 1..MaxDepth] \cup [kind : {"ready"}, of : Members]

ASSUME NoneAssumption == None \notin Members \cup Entries

Dead(e) == e # None /\ e.kind = "ready" /\ e.of \notin alive

\* A member that exists no more may be created anew once nothing mentions it.
Fresh(m) ==
  /\ m \notin alive
  /\ \A r \in Routes : entry[r] # Ready(m)
  /\ \A c \in cells : c.member # m

Init ==
  /\ routes = {<<>>}
  /\ entry = [r \in Routes |-> None]
  /\ stack = <<>>
  /\ cells = {}
  /\ alive = {}
  /\ held = {}
  /\ given = [t \in Tuples |-> None]

-----------------------------------------------------------------------------
(* #prune *)

\* Mutant of Pruned: the parents stay.
PrunedAlone(start, ent) ==
  {q \in {start} : \A r \in routes : IsPrefix(q, r) => r = start /\ ent[r] = None}

\* The routes that go when `start` has lost its entry: it and its parents, up
\* to the first that has an entry or another child.
Pruned(start, ent) ==
  {q \in Prefixes(start) \ {<<>>} :
     \A r \in routes : IsPrefix(q, r) => IsPrefix(r, start) /\ ent[r] = None}

\* What is still reachable from the root then.
Remaining(start, ent) == {r \in routes : \A q \in Pruned(start, ent) : ~IsPrefix(q, r)}

-----------------------------------------------------------------------------
(* getOrCreateTuple *)

\* Mutant of Found: the reference is not asked.
FoundUnasked(t) == t \in routes /\ entry[t] # None /\ entry[t].kind = "ready"

\* The member is in the cache, and alive.
Found(t) == t \in routes /\ \E m \in alive : entry[t] = Ready(m)

Hit(t) ==
  LET m == entry[t].of IN
  /\ Found(t)
  /\ held' = held \cup {m}
  /\ given' = [given EXCEPT ![t] = m]
  /\ UNCHANGED <<routes, entry, stack, cells, alive>>

\* Its factory is in flight: the call fails, and so will the factory's.  Until
\* then the factory may catch the error.
Recurse(t) ==
  /\ t \in routes
  /\ entry[t] # None /\ entry[t].kind = "building"
  /\ stack' = [stack EXCEPT ![entry[t].of].fault = TRUE]
  /\ UNCHANGED <<routes, entry, cells, alive, held, given>>

\* There is no entry, or the member of the entry is gone.
Vacant(t) == t \in routes => entry[t] = None \/ Dead(entry[t])

\* The route is made and the factory called.  The dead entry is unregistered,
\* which is too late if its finalizer is queued already.
Build(t) ==
  /\ Len(stack) < MaxDepth
  /\ Vacant(t)
  /\ routes' = routes \cup Prefixes(t)
  /\ cells' \in {cells, {c \in cells : Ready(c.member) # entry[t] \/ c.route # t}}
  /\ entry' = [entry EXCEPT ![t] = Building(Len(stack) + 1)]
  /\ stack' = Append(stack, [route |-> t, fault |-> FALSE])
  /\ UNCHANGED <<alive, held, given>>

\* The factory returns a new member, or one that the program has already.
Return(m) ==
  LET t == Last(stack).route IN
  /\ stack # <<>>
  /\ ~Last(stack).fault
  /\ m \in held \/ Fresh(m)
  /\ entry' = [entry EXCEPT ![t] = Ready(m)]
  /\ cells' = cells \cup {[route |-> t, member |-> m]}
  /\ alive' = alive \cup {m}
  /\ held' = held \cup {m}
  /\ given' = [given EXCEPT ![t] = m]
  /\ stack' = Front(stack)
  /\ UNCHANGED routes

\* The factory or onReady throws, or the factory returns after a recursive call.
Fail ==
  LET t == Last(stack).route
      ent == [entry EXCEPT ![t] = IF @ = Building(Len(stack)) THEN None ELSE @]
  IN
  /\ stack # <<>>
  /\ entry' = ent
  /\ routes' = Remaining(t, ent)
  /\ stack' = Front(stack)
  /\ UNCHANGED <<cells, alive, held, given>>

-----------------------------------------------------------------------------
(* The program and its garbage collector *)

Drop(m) ==
  /\ m \in held
  /\ held' = held \ {m}
  /\ UNCHANGED <<routes, entry, stack, cells, alive, given>>

Collect(m) ==
  /\ m \in alive \ held
  /\ alive' = alive \ {m}
  /\ given' = [t \in Tuples |-> IF given[t] = m THEN None ELSE given[t]]
  /\ UNCHANGED <<routes, entry, stack, cells, held>>

\* Mutant of Finalized: the entry goes, whichever it is.
FinalizedAny(c) == entry[c.route] # None

\* A finalizer removes the entry it was registered for and no other.
Finalized(c) == entry[c.route] = Ready(c.member)

Finalize(c) ==
  LET ent == [entry EXCEPT ![c.route] = None] IN
  /\ stack = <<>>
  /\ c.member \notin alive
  /\ cells' = cells \ {c}
  /\ IF Finalized(c)
       THEN entry' = ent /\ routes' = Remaining(c.route, ent)
       ELSE UNCHANGED <<entry, routes>>
  /\ UNCHANGED <<stack, alive, held, given>>

Next ==
  \/ \E t \in Tuples : Hit(t) \/ Recurse(t) \/ Build(t)
  \/ \E m \in Members : Return(m) \/ Drop(m) \/ Collect(m)
  \/ Fail
  \/ \E c \in cells : Finalize(c)

Spec == Init /\ [][Next]_vars

-----------------------------------------------------------------------------
(* Properties *)

\* Routes lead to entries whose builds are in flight or whose members were made.
TypeOK ==
  /\ routes \subseteq Routes /\ <<>> \in routes
  /\ entry \in [Routes -> Entries \cup {None}]
  /\ stack \in Seq([route : Tuples, fault : BOOLEAN]) /\ Len(stack) <= MaxDepth
  /\ cells \subseteq [route : Tuples, member : Members]
  /\ held \subseteq alive /\ alive \subseteq Members
  /\ given \in [Tuples -> alive \cup {None}]

\* A build in flight keeps its route in the trie, where recursive calls find it
\* (weak-member-cache.ts:182).
BuildsAttached ==
  \A i \in DOMAIN stack : stack[i].route \in routes /\ entry[stack[i].route] = Building(i)

\* As long as a member handed out for a tuple is alive, lookups of the tuple
\* find it, whatever was built, failed, collected, finalized or pruned since:
\* a tuple never has two live members (weak-member-cache.ts:63).
Canonical ==
  \A t \in Tuples : given[t] # None => t \in routes /\ entry[t] = Ready(given[t])

\* The trie does not leak: each route leads to an entry, and what is ready will
\* be taken out by its finalizer (weak-member-cache.ts:66).
EveryRouteIsOfUse ==
  /\ \A r \in routes \ {<<>>} : \E t \in routes : IsPrefix(r, t) /\ entry[t] # None
  /\ \A r \in Routes, m \in Members :
       entry[r] = Ready(m) => [route |-> r, member |-> m] \in cells
=============================================================================
