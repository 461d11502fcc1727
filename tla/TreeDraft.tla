----------------------------- MODULE TreeDraft -----------------------------
(***************************************************************************)
(* The storage of one transaction draft: class TreeDraft in                *)
(* committed-store-tree/tree-transaction.ts, and the scratch hosts that    *)
(* cache what selectors read inside the transaction                        *)
(* (scratch-selector-host.ts).                                             *)
(*                                                                         *)
(* To allocate nothing for small transactions the code keeps up to two     *)
(* entries of one scope in fields, then one Map for that scope, then a Map *)
(* of Maps.  Intents and committed baselines each live in such Lanes; lazy *)
(* fallbacks have a field and a Map.                                       *)
(*                                                                         *)
(* A JavaScript Map is a sequence of entries in insertion order, and an    *)
(* entry here is a record with the field `atom`.                           *)
(***************************************************************************)
EXTENDS Naturals, Sequences, FiniteSets, TLC

CONSTANTS
  Scopes,
  Path,       \* the scopes from each scope up to the root
  Atoms,
  Lazy,       \* the atoms whose fallback is a lazy initializer
  Kinds,      \* what an intent does; the storage does not look at it
  MaxWrites,  \* bound: intents staged
  MaxUnwritten, \* bound: coordinates inspected without being written
  MaxCached,  \* bound: sources the scratch hosts hold at a time
  None        \* `undefined`

ASSUME PathAssumption == Path \in [Scopes -> SUBSET Scopes]
ASSUME LazyAssumption == Lazy \subseteq Atoms
ASSUME BoundsAssumption ==
  MaxWrites \in Nat /\ MaxUnwritten \in Nat /\ MaxCached \in Nat

\* What the lanes hold: an intent, or the baseline of the coordinate it is `of`;
\* the entries of one scope in a Map of Maps.
Intent == [atom : Atoms, kind : Kinds]
Baseline == [atom : Atoms, of : Scopes \X Atoms]
Group(entry) == [scope : Scopes, entries : Seq(entry)]

\* `undefined` is none of the things it is compared with.
ASSUME NoneAssumption ==
  /\ None \notin Scopes /\ None \notin Atoms /\ (\A xs \in SUBSET Atoms : xs # None)
  /\ \A entry \in {Intent, Baseline} :
       /\ None \notin entry /\ None \notin Seq(entry)
       /\ None \notin Group(entry) /\ None \notin Seq(Group(entry))

VARIABLES
  intents,     \* Lanes of intents
  baselines,   \* Lanes of committed baselines
  fallbacks,   \* the fallback field and Map
  generation,
  hosts,       \* the scratch host of each scope, or None
  active,      \* the transaction callback runs
  released,
  fault        \* a scratch host found its generation not contiguous

lanesVars == <<intents, baselines, fallbacks>>
vars == <<intents, baselines, fallbacks, generation, hosts, active, released, fault>>

NoLanes == [scope |-> None, first |-> None, second |-> None,
            bucket |-> None, groups |-> None]

Init ==
  /\ intents = NoLanes
  /\ baselines = NoLanes
  /\ fallbacks = [single |-> None, memo |-> None]
  /\ generation = 0
  /\ hosts = [s \in Scopes |-> None]
  /\ active = TRUE
  /\ released = FALSE
  /\ fault = FALSE

-----------------------------------------------------------------------------
(* Maps and Lanes. *)

Found(map, field, x) == {i \in DOMAIN map : map[i][field] = x}
MapGet(map, field, x) ==
  IF Found(map, field, x) = {} THEN None ELSE map[CHOOSE i \in Found(map, field, x) : TRUE]

\* Mutant of MapSet: an entry that is written again moves to the end.
MapSetMoving(map, field, e) ==
  Append(SelectSeq(map, LAMBDA x : x[field] # e[field]), e)

\* Map.set keeps the position of a key that is present.
MapSet(map, field, e) ==
  IF Found(map, field, e[field]) = {} THEN Append(map, e)
    ELSE [map EXCEPT ![CHOOSE i \in Found(map, field, e[field]) : TRUE] = e]

\* getIntent, getAtomBaseline.
Lookup(lanes, s, a) ==
  CASE lanes.first # None /\ lanes.scope = s /\ lanes.first.atom = a -> lanes.first
    [] lanes.second # None /\ lanes.scope = s /\ lanes.second.atom = a -> lanes.second
    [] OTHER ->
         IF lanes.scope = s
           THEN IF lanes.bucket = None THEN None ELSE MapGet(lanes.bucket, "atom", a)
           ELSE IF lanes.groups = None \/ MapGet(lanes.groups, "scope", s) = None THEN None
             ELSE MapGet(MapGet(lanes.groups, "scope", s).entries, "atom", a)

\* forEachIntent: the entries with their scopes, in the order they are visited.
Tagged(s, entries) ==
  [i \in DOMAIN entries |-> [scope |-> s, atom |-> entries[i].atom, kind |-> entries[i].kind]]

Inline(lanes) ==
  <<lanes.first>> \o (IF lanes.second = None THEN <<>> ELSE <<lanes.second>>)

Flat(groups) ==
  LET Visited[i \in 0..Len(groups)] ==
        IF i = 0 THEN <<>> ELSE Visited[i - 1] \o Tagged(groups[i].scope, groups[i].entries)
  IN  Visited[Len(groups)]

ForEach(lanes) ==
  IF lanes.first # None THEN Tagged(lanes.scope, Inline(lanes))
  ELSE IF lanes.bucket # None THEN Tagged(lanes.scope, lanes.bucket)
  ELSE IF lanes.groups # None THEN Flat(lanes.groups)
  ELSE <<>>

\* Mutant of Groups: the scope field survives the promotion.
GroupsKeepingScope(s, entries, t, e) ==
  [NoLanes EXCEPT !.scope = s,
                  !.groups = <<[scope |-> s, entries |-> entries],
                               [scope |-> t, entries |-> <<e>>]>>]

\* The lanes of two scopes: a Map of Maps, and nothing in the other lanes.
Groups(s, entries, t, e) ==
  [NoLanes EXCEPT !.groups = <<[scope |-> s, entries |-> entries],
                               [scope |-> t, entries |-> <<e>>]>>]

\* stage, setAtomBaseline: the lane an entry goes to, and the promotions.
Put(lanes, s, e) ==
  LET same(x) == lanes.scope = s /\ x.atom = e.atom IN
  CASE lanes.groups # None ->
         LET group == MapGet(lanes.groups, "scope", s)
             entries == IF group = None THEN <<e>> ELSE MapSet(group.entries, "atom", e)
         IN  [lanes EXCEPT !.groups = MapSet(@, "scope", [scope |-> s, entries |-> entries])]
    [] lanes.groups = None /\ lanes.bucket # None ->
         IF lanes.scope = s THEN [lanes EXCEPT !.bucket = MapSet(@, "atom", e)]
           ELSE Groups(lanes.scope, lanes.bucket, s, e)
    [] lanes.groups = None /\ lanes.bucket = None /\ lanes.first = None ->
         [lanes EXCEPT !.scope = s, !.first = e]
    [] OTHER ->
         IF same(lanes.first) THEN [lanes EXCEPT !.first = e]
         ELSE IF lanes.scope # s THEN Groups(lanes.scope, Inline(lanes), s, e)
         ELSE IF lanes.second = None \/ same(lanes.second)
           THEN [lanes EXCEPT !.second = e]
           ELSE [lanes EXCEPT !.first = None, !.second = None,
                              !.bucket = Append(Inline(lanes), e)]

\* Mutant of SingleIntent: a second field is not looked at.
SingleIntentAlways == intents.first

\* singleIntent, and hasIntents.
SingleIntent == IF intents.second = None THEN intents.first ELSE None
HasIntents ==
  \E lane \in {"first", "second", "bucket", "groups"} : intents[lane] # None

-----------------------------------------------------------------------------
(* The draft of a running callback. *)

\* Every source a read of atom a in scope s looks at: the intents on its path.
\* Committed values and settled fallbacks do not change while the draft is open.
Seen(s, a) == [x \in Path[s] |-> Lookup(intents, x, a)]

NoSources == [a \in Atoms |-> None]

\* Mutant of AdvanceGeneration: hosts learn the number but keep what they read.
AdvanceGenerationOnly ==
  /\ generation' = generation + 1
  /\ hosts' = [s \in Scopes |->
                IF hosts[s] = None THEN None
                  ELSE [generation |-> generation + 1, sources |-> hosts[s].sources]]
  /\ fault' = (fault \/ \E s \in Scopes :
                 hosts[s] # None /\ generation + 1 # hosts[s].generation + 1)

\* Every staged intent invalidates what the scratch hosts have cached.
AdvanceGeneration ==
  /\ generation' = generation + 1
  /\ hosts' = [s \in Scopes |->
                IF hosts[s] = None THEN None
                  ELSE [generation |-> generation + 1, sources |-> NoSources]]
  /\ fault' = (fault \/ \E s \in Scopes :
                 hosts[s] # None /\ generation + 1 # hosts[s].generation + 1)

\* A baseline is computed once per coordinate; `of` is the coordinate it is for.
WithBaseline(s, a) ==
  IF Lookup(baselines, s, a) # None THEN baselines
    ELSE Put(baselines, s, [atom |-> a, of |-> <<s, a>>])

\* A write that fails after its baseline has been read.
Inspect(s, a) ==
  /\ active
  /\ Cardinality({c \in Scopes \X Atoms : /\ Lookup(intents, c[1], c[2]) = None
                                         /\ Lookup(baselines, c[1], c[2]) # None}) < MaxUnwritten
  /\ baselines' = WithBaseline(s, a)
  /\ UNCHANGED <<intents, fallbacks, generation, hosts, active, released, fault>>

\* set, update or reset of an atom through a transaction cursor.
Write(s, a, kind) ==
  /\ active
  /\ generation < MaxWrites
  /\ baselines' = WithBaseline(s, a)
  /\ intents' = Put(intents, s, [atom |-> a, kind |-> kind])
  /\ AdvanceGeneration
  /\ UNCHANGED <<fallbacks, active, released>>

\* getFallback, for an atom whose initializer has run in this draft.
HasFallback(a) ==
  \/ fallbacks.single # None /\ fallbacks.single = a
  \/ fallbacks.memo # None /\ a \in fallbacks.memo

\* setFallback, called when there is none: a field, then a Map.
Memoize(a) ==
  /\ active
  /\ ~HasFallback(a)
  /\ fallbacks' =
       IF fallbacks.memo # None THEN [fallbacks EXCEPT !.memo = @ \cup {a}]
       ELSE IF fallbacks.single = None THEN [fallbacks EXCEPT !.single = a]
       ELSE [single |-> None, memo |-> {fallbacks.single, a}]
  /\ UNCHANGED <<intents, baselines, generation, hosts, active, released, fault>>

\* A selector read through a cursor reads atom a; the scope's host caches it.
ReadSource(s, a) ==
  /\ active
  /\ Cardinality({c \in Scopes \X Atoms :
                    hosts[c[1]] # None /\ hosts[c[1]].sources[c[2]] # None}) < MaxCached
  /\ LET host == IF hosts[s] = None THEN [generation |-> generation, sources |-> NoSources]
                   ELSE hosts[s]
     IN hosts' = [hosts EXCEPT ![s] =
                   IF host.sources[a] # None THEN host
                     ELSE [host EXCEPT !.sources[a] = Seen(s, a)]]
  /\ UNCHANGED <<lanesVars, generation, active, released, fault>>

\* The callback is over; the commit still reads the lanes.
Close ==
  /\ active
  /\ active' = FALSE
  /\ hosts' = [s \in Scopes |-> None]
  /\ UNCHANGED <<lanesVars, generation, released, fault>>

\* The `finally` of the transaction, committed or not.
Release ==
  /\ ~active /\ ~released
  /\ released' = TRUE
  /\ intents' = NoLanes
  /\ baselines' = NoLanes
  /\ fallbacks' = [single |-> None, memo |-> None]
  /\ UNCHANGED <<generation, hosts, active, fault>>

Next ==
  \/ \E s \in Scopes, a \in Atoms : Inspect(s, a) \/ ReadSource(s, a)
  \/ \E s \in Scopes, a \in Atoms, k \in Kinds : Write(s, a, k)
  \/ \E a \in Lazy : Memoize(a)
  \/ Close
  \/ Release

Spec == Init /\ [][Next]_vars

-----------------------------------------------------------------------------
(* Properties *)

\* Every variable keeps its shape, and one lane is in use at a time: fields or a
\* Map for the one scope they belong to, or a Map of Maps.
LanesOK(lanes) ==
  /\ lanes.scope \in Scopes \cup {None}
  /\ lanes.second # None => lanes.first # None
  /\ (lanes.first # None \/ lanes.bucket # None) <=> lanes.scope # None
  /\ Cardinality({lane \in {"first", "bucket", "groups"} : lanes[lane] # None}) <= 1
  /\ \A x \in {lanes.first, lanes.second} : x # None => x.atom \in Atoms

TypeOK ==
  /\ LanesOK(intents) /\ LanesOK(baselines)
  /\ fallbacks.single \in Atoms \cup {None}
  /\ fallbacks.memo # None => fallbacks.memo \subseteq Atoms
  /\ generation \in 0..MaxWrites
  /\ DOMAIN hosts = Scopes
  /\ active \in BOOLEAN /\ released \in BOOLEAN /\ fault \in BOOLEAN

\* The commit's shortcut for one intent is taken only when it is the only one,
\* and the shortcut for none only when there is none.
ShortcutsSeeEverything ==
  /\ SingleIntent # None => Len(ForEach(intents)) = 1
  /\ HasIntents <=> ForEach(intents) # <<>>

\* What a scratch host serves a selector again is what the draft would resolve
\* now, in the scope itself and in every scope above it, and no host ever misses
\* a generation.
ScratchServesDraft ==
  /\ ~fault
  /\ \A s \in Scopes : hosts[s] # None =>
       /\ active
       /\ hosts[s].generation = generation
       /\ \A a \in Atoms : hosts[s].sources[a] # None => hosts[s].sources[a] = Seen(s, a)

\* Fields, Maps and Maps of Maps store one ordered collection of intents, a set
\* of baselines and a memo, and a released draft stores nothing.
Draft == INSTANCE TransactionDraft WITH
  intents <- ForEach(intents),
  inspected <- {c \in Scopes \X Atoms : Lookup(baselines, c[1], c[2]) # None},
  memoized <- {a \in Atoms : HasFallback(a)},
  held <- ~released
ImplementsDraft == Draft!Spec
=============================================================================
