-------------------------- MODULE TreeDraftProofs --------------------------
(***************************************************************************)
(* Proofs about TreeDraft.                                                 *)
(*                                                                         *)
(* The five forms of the lanes are read as one list of groups (Norm), so   *)
(* that looking up, storing and visiting need one argument each instead of *)
(* one per form and promotion.                                             *)
(***************************************************************************)
EXTENDS TreeDraft, WellFoundedInduction, FiniteSetTheorems, SequenceTheorems, TLAPS

-----------------------------------------------------------------------------
(* Induction and recursion over an initial segment of the naturals, as facts *)
(* about sets and functions: the library's induction theorems take the       *)
(* hypothesis as an operator, which the provers cannot instantiate; here it  *)
(* is the set of the numbers it holds of, and a recursive definition is the  *)
(* function that satisfies its equations.                                    *)

\* Every nonempty set of naturals has a least element.
LEMMA LeastNatural ==
  ASSUME NEW S, S \subseteq Nat, S # {}
  PROVE  \E n \in S : \A m \in S : n <= m
<1> DEFINE R == OpToRel(<, Nat)
<1>1. IsWellFoundedOn(R, Nat)
  BY NatLessThanWellFounded
<1>2. PICK n \in S : \A m \in S : <<m, n>> \notin R
  <2> HIDE DEF R
  <2> QED BY <1>1, WFMin
<1>3. R = {ss \in Nat \X Nat : ss[1] < ss[2]}
  BY DEF OpToRel
<1>4. \A m \in S : ~(m < n)
  <2> HIDE DEF R
  <2> QED BY <1>2, <1>3
<1> QED BY <1>4

\* A set that holds 0 and, with a number, the next one up to n, holds 0..n.
LEMMA IntervalInduction ==
  ASSUME NEW S, NEW n \in Nat, 0 \in S, \A i \in 1..n : i - 1 \in S => i \in S
  PROVE  \A i \in 0..n : i \in S
<1> DEFINE T == (0..n) \ S
<1> SUFFICES ASSUME T # {} PROVE FALSE
  OBVIOUS
<1>1. PICK i \in T : \A j \in T : i <= j
  <2>1. T \subseteq Nat
    OBVIOUS
  <2> HIDE DEF T
  <2> QED BY <2>1, LeastNatural
<1>2. i \in 1..n /\ i - 1 \in 0..n /\ i - 1 \notin T
  BY <1>1
<1> QED BY <1>2

\* F[i] takes the value before step i to the one after it, and g is the run.
StepFunction(F, n, T) == F \in [1..n -> [T -> T]]
Run(g, F, x, n, T) ==
  g \in [0..n -> T] /\ g[0] = x /\ \A i \in 1..n : g[i] = F[i][g[i - 1]]

\* A step function and a first value have a run of any length.
LEMMA Recursion ==
  ASSUME NEW T, NEW x \in T, NEW n \in Nat, NEW F, StepFunction(F, n, T)
  PROVE  \E g : Run(g, F, x, n, T)
<1> DEFINE Runs(m) == {g \in [0..m -> T] : g[0] = x /\ \A i \in 1..m : g[i] = F[i][g[i - 1]]}
           S == {m \in 0..n : Runs(m) # {}}
<1>0. F \in [1..n -> [T -> T]]
  BY DEF StepFunction
<1>1. 0 \in S
  <2>1. [i \in 0..0 |-> x] \in Runs(0)
    OBVIOUS
  <2> QED BY <2>1
<1>2. ASSUME NEW m \in 1..n, m - 1 \in S
      PROVE  m \in S
  <2>1. PICK g \in [0..(m - 1) -> T] :
           g[0] = x /\ \A i \in 1..(m - 1) : g[i] = F[i][g[i - 1]]
    BY <1>2
  <2> DEFINE y == F[m][g[m - 1]]
             h == [i \in 0..m |-> IF i = m THEN y ELSE g[i]]
  <2>2. y \in T
    BY <1>0, <2>1
  <2>3. h \in [0..m -> T]
    <3> HIDE DEF y
    <3> QED BY <2>1, <2>2
  <2>4. h[0] = x
    BY <2>1
  <2>5. \A i \in 1..m : h[i] = F[i][h[i - 1]]
    <3>1. ASSUME NEW i \in 1..m, i # m PROVE h[i] = F[i][h[i - 1]]
      <4>1. i \in 1..(m - 1) /\ i \in 0..m /\ i - 1 \in 0..m /\ i - 1 # m
        BY <3>1
      <4>2. h[i] = g[i] /\ h[i - 1] = g[i - 1]
        BY <3>1, <4>1
      <4> QED BY <2>1, <4>1, <4>2
    <3>2. h[m] = F[m][h[m - 1]]
      <4>1. h[m] = y /\ h[m - 1] = g[m - 1]
        OBVIOUS
      <4> QED BY <4>1
    <3> QED BY <3>1, <3>2
  <2>6. h \in Runs(m)
    <3> HIDE DEF h
    <3> QED BY <2>3, <2>4, <2>5
  <2>7. m \in 0..n
    OBVIOUS
  <2> HIDE DEF Runs
  <2> QED BY <2>6, <2>7
<1>3. \A i \in 0..n : i \in S
  <2> HIDE DEF S
  <2> QED BY <1>1, <1>2, IntervalInduction
<1>4. n \in S
  <2> HIDE DEF S
  <2> QED BY <1>3
<1>5. PICK g \in Runs(n) : TRUE
  <2> HIDE DEF Runs
  <2> QED BY <1>4
<1> QED BY <1>5 DEF Run

-----------------------------------------------------------------------------
(* Forms of the lanes *)

\* No two entries of a Map have the same key.
Distinct(map, field) == \A i, j \in DOMAIN map : map[i][field] = map[j][field] => i = j

\* Maps as the lanes keep them: never empty.
Entries(entry) == {map \in Seq(entry) : map # <<>> /\ Distinct(map, "atom")}
GroupsOf(entry) ==
  {gs \in Seq([scope : Scopes, entries : Entries(entry)]) : Distinct(gs, "scope")}

LanesWF(lanes, entry) ==
  /\ lanes \in [scope : Scopes \cup {None}, first : entry \cup {None}, second : entry \cup {None},
                bucket : Entries(entry) \cup {None}, groups : GroupsOf(entry) \cup {None}]
  /\ lanes.groups # None =>
       /\ lanes.groups # <<>>
       /\ lanes.scope = None /\ lanes.first = None /\ lanes.second = None /\ lanes.bucket = None
  /\ lanes.bucket # None => lanes.scope # None /\ lanes.first = None /\ lanes.second = None
  /\ lanes.first # None => lanes.scope # None
  /\ lanes.second # None => lanes.first # None /\ lanes.second.atom # lanes.first.atom
  /\ lanes.scope # None => lanes.first # None \/ lanes.bucket # None

\* The lanes as a list of groups, whatever form they have.
Norm(lanes) ==
  IF lanes.groups # None THEN lanes.groups
  ELSE IF lanes.first # None THEN <<[scope |-> lanes.scope, entries |-> Inline(lanes)]>>
  ELSE IF lanes.bucket # None THEN <<[scope |-> lanes.scope, entries |-> lanes.bucket]>>
  ELSE <<>>

\* Looking up and storing in a list of groups.
GroupEntries(gs, s) ==
  IF MapGet(gs, "scope", s) = None THEN <<>> ELSE MapGet(gs, "scope", s).entries
NormLookup(gs, s, a) == MapGet(GroupEntries(gs, s), "atom", a)
PutGroup(gs, s, e) ==
  MapSet(gs, "scope", [scope |-> s, entries |-> MapSet(GroupEntries(gs, s), "atom", e)])

-----------------------------------------------------------------------------
(* Maps *)

\* MapGet and MapSet by the position of the key, when no key occurs twice.
LEMMA MapGetAt ==
  ASSUME NEW map, NEW field, Distinct(map, field), NEW i \in DOMAIN map
  PROVE  MapGet(map, field, map[i][field]) = map[i]
<1> DEFINE F == Found(map, field, map[i][field])
<1>1. i \in F /\ F = {i}
  BY DEF Found, Distinct
<1>2. (CHOOSE j \in F : TRUE) = i
  BY <1>1
<1> QED BY <1>1, <1>2 DEF MapGet

\* A key that no entry has is not found.
LEMMA MapGetAbsent ==
  ASSUME NEW map, NEW field, NEW x, \A i \in DOMAIN map : map[i][field] # x
  PROVE  MapGet(map, field, x) = None
BY DEF MapGet, Found

\* Map.set appends an entry or replaces the one with its key.
LEMMA MapSetCases ==
  ASSUME NEW map, NEW field, NEW e
  PROVE  \/ /\ \A i \in DOMAIN map : map[i][field] # e[field]
            /\ MapSet(map, field, e) = Append(map, e)
         \/ \E k \in DOMAIN map : /\ map[k][field] = e[field]
                                  /\ MapSet(map, field, e) = [map EXCEPT ![k] = e]
<1> DEFINE F == Found(map, field, e[field])
<1>1. CASE F = {}
  BY <1>1 DEF MapSet, Found
<1>2. CASE F # {}
  <2> DEFINE k == CHOOSE i \in F : TRUE
  <2>1. k \in F
    <3> HIDE DEF F
    <3> QED BY <1>2
  <2>2. k \in DOMAIN map /\ map[k][field] = e[field]
    BY <2>1 DEF Found
  <2>3. MapSet(map, field, e) = [map EXCEPT ![k] = e]
    BY <1>2 DEF MapSet
  <2> QED BY <2>2, <2>3
<1> QED BY <1>1, <1>2

\* MapSet returns a Map, and reading it back finds the entry and every other one.
LEMMA MapSetOK ==
  ASSUME NEW E, NEW field, NEW map \in Seq(E), Distinct(map, field), NEW e \in E
  PROVE  /\ MapSet(map, field, e) \in Seq(E)
         /\ MapSet(map, field, e) # <<>>
         /\ Distinct(MapSet(map, field, e), field)
         /\ MapGet(MapSet(map, field, e), field, e[field]) = e
         /\ \A x : x # e[field] =>
              MapGet(MapSet(map, field, e), field, x) = MapGet(map, field, x)
<1> DEFINE next == MapSet(map, field, e)
<1>1. ASSUME \A i \in DOMAIN map : map[i][field] # e[field], next = Append(map, e)
      PROVE  /\ next \in Seq(E) /\ next # <<>> /\ Distinct(next, field)
             /\ MapGet(next, field, e[field]) = e
             /\ \A x : x # e[field] => MapGet(next, field, x) = MapGet(map, field, x)
  <2>1. /\ next \in Seq(E) /\ next # <<>> /\ Len(next) = Len(map) + 1
        /\ next[Len(map) + 1] = e
        /\ DOMAIN next = 1..(Len(map) + 1) /\ DOMAIN map = 1..Len(map) /\ Len(map) \in Nat
        /\ \A i \in DOMAIN map : next[i] = map[i]
    BY <1>1
  <2> HIDE DEF next
  <2>2. Distinct(next, field)
    BY <1>1, <2>1 DEF Distinct
  <2>3. MapGet(next, field, e[field]) = e
    BY <2>1, <2>2, MapGetAt
  <2>4. ASSUME NEW x, x # e[field]
        PROVE  MapGet(next, field, x) = MapGet(map, field, x)
    <3>1. Found(next, field, x) = Found(map, field, x)
      BY <2>1, <2>4 DEF Found
    <3>2. CASE \E i \in DOMAIN map : map[i][field] = x
      <4>1. PICK i \in DOMAIN map : map[i][field] = x
        BY <3>2
      <4>2. i \in DOMAIN next /\ next[i] = map[i]
        BY <2>1
      <4>3. MapGet(map, field, x) = map[i]
        BY <4>1, MapGetAt
      <4>4. MapGet(next, field, x) = next[i]
        BY <2>2, <4>1, <4>2, MapGetAt
      <4> QED BY <4>2, <4>3, <4>4
    <3>3. CASE \A i \in DOMAIN map : map[i][field] # x
      <4>1. \A i \in DOMAIN next : next[i][field] # x
        BY <2>1, <2>4, <3>3
      <4> QED BY <3>3, <4>1, MapGetAbsent
    <3> QED BY <3>2, <3>3
  <2> QED BY <2>1, <2>2, <2>3, <2>4
<1>2. ASSUME NEW k \in DOMAIN map, map[k][field] = e[field], next = [map EXCEPT ![k] = e]
      PROVE  /\ next \in Seq(E) /\ next # <<>> /\ Distinct(next, field)
             /\ MapGet(next, field, e[field]) = e
             /\ \A x : x # e[field] => MapGet(next, field, x) = MapGet(map, field, x)
  <2>1. /\ next \in Seq(E) /\ next # <<>> /\ DOMAIN next = DOMAIN map
        /\ next[k] = e
        /\ \A i \in DOMAIN map : i # k => next[i] = map[i]
    BY <1>2
  <2> HIDE DEF next
  <2>2. \A i \in DOMAIN map : next[i][field] = map[i][field]
    BY <1>2, <2>1
  <2>3. Distinct(next, field)
    BY <2>1, <2>2 DEF Distinct
  <2>4. MapGet(next, field, e[field]) = e
    BY <2>1, <2>3, MapGetAt
  <2>5. ASSUME NEW x, x # e[field]
        PROVE  MapGet(next, field, x) = MapGet(map, field, x)
    <3>1. CASE \E i \in DOMAIN map : map[i][field] = x
      <4>1. PICK i \in DOMAIN map : map[i][field] = x
        BY <3>1
      <4>2. i \in DOMAIN next /\ next[i] = map[i]
        BY <1>2, <2>1, <2>5, <4>1
      <4>3. MapGet(map, field, x) = map[i]
        BY <4>1, MapGetAt
      <4>4. MapGet(next, field, x) = next[i]
        BY <2>3, <4>1, <4>2, MapGetAt
      <4> QED BY <4>2, <4>3, <4>4
    <3>2. CASE \A i \in DOMAIN map : map[i][field] # x
      <4>1. \A i \in DOMAIN next : next[i][field] # x
        BY <2>1, <2>2, <3>2
      <4> QED BY <3>2, <4>1, MapGetAbsent
    <3> QED BY <3>1, <3>2
  <2> QED BY <2>1, <2>3, <2>4, <2>5
<1> HIDE DEF next
<1>3. \/ (\A i \in DOMAIN map : map[i][field] # e[field]) /\ next = Append(map, e)
      \/ \E k \in DOMAIN map : map[k][field] = e[field] /\ next = [map EXCEPT ![k] = e]
  BY MapSetCases DEF next
<1>4. /\ next \in Seq(E) /\ next # <<>> /\ Distinct(next, field)
      /\ MapGet(next, field, e[field]) = e
      /\ \A x : x # e[field] => MapGet(next, field, x) = MapGet(map, field, x)
  BY <1>1, <1>2, <1>3
<1> QED BY <1>4 DEF next

-----------------------------------------------------------------------------
(* Groups *)

\* An entry of the lanes is keyed by its atom, and is not `undefined`.
LEMMA EntryFacts ==
  ASSUME NEW E \in {Intent, Baseline}
  PROVE  /\ None \notin E /\ None \notin Scopes /\ None \notin Entries(E)
         /\ None \notin GroupsOf(E) /\ None \notin [scope : Scopes, entries : Entries(E)]
         /\ \A e \in E : e.atom \in Atoms /\ e["atom"] = e.atom
<1>1. \A e \in E : e.atom \in Atoms
  <2>1. CASE E = Intent
    BY <2>1 DEF Intent
  <2>2. CASE E = Baseline
    BY <2>2 DEF Baseline
  <2> QED BY <2>1, <2>2
<1>2. [scope : Scopes, entries : Entries(E)] \subseteq Group(E)
  BY DEF Entries, Group
<1>3. Seq([scope : Scopes, entries : Entries(E)]) \subseteq Seq(Group(E))
  <2> DEFINE A == [scope : Scopes, entries : Entries(E)]
             B == Group(E)
  <2>1. A \subseteq B
    BY <1>2
  <2> HIDE DEF A, B
  <2>2. ASSUME NEW q \in Seq(A) PROVE q \in Seq(B)
    BY <2>1, SeqMonotonic
  <2>3. Seq(A) \subseteq Seq(B)
    BY <2>2
  <2> QED BY <2>3 DEF A, B
<1>4. Entries(E) \subseteq Seq(E) /\ GroupsOf(E) \subseteq Seq(Group(E))
  BY <1>3 DEF Entries, GroupsOf
<1> QED BY <1>1, <1>2, <1>4, NoneAssumption

\* What GroupEntries returns: the Map of the group of a scope, or an empty one.
LEMMA GroupEntriesOK ==
  ASSUME NEW E \in {Intent, Baseline}, NEW gs \in GroupsOf(E), NEW s \in Scopes
  PROVE  /\ GroupEntries(gs, s) \in Seq(E) /\ Distinct(GroupEntries(gs, s), "atom")
         /\ \A i \in DOMAIN gs : gs[i].scope = s => /\ GroupEntries(gs, s) = gs[i].entries
                                                    /\ MapGet(gs, "scope", s) = gs[i]
         /\ (\A i \in DOMAIN gs : gs[i].scope # s) => GroupEntries(gs, s) = <<>>
         /\ \A i \in DOMAIN gs : gs[i] \in [scope : Scopes, entries : Entries(E)]
<1>1. \A i \in DOMAIN gs : gs[i] \in [scope : Scopes, entries : Entries(E)] /\ gs[i]["scope"] = gs[i].scope
  <2> DEFINE G == [scope : Scopes, entries : Entries(E)]
  <2>1. gs \in Seq(G)
    BY DEF GroupsOf
  <2> HIDE DEF G
  <2>2. \A i \in DOMAIN gs : gs[i] \in G
    BY <2>1
  <2> QED BY <2>2 DEF G
<1>2. ASSUME NEW i \in DOMAIN gs, gs[i].scope = s
      PROVE  GroupEntries(gs, s) = gs[i].entries /\ MapGet(gs, "scope", s) = gs[i]
  <2>1. MapGet(gs, "scope", gs[i]["scope"]) = gs[i]
    <3>1. Distinct(gs, "scope")
      BY DEF GroupsOf
    <3> QED BY <3>1, MapGetAt
  <2>2. gs[i] # None
    BY <1>1, EntryFacts
  <2> QED BY <1>1, <1>2, <2>1, <2>2 DEF GroupEntries
<1>3. ASSUME \A i \in DOMAIN gs : gs[i].scope # s
      PROVE  GroupEntries(gs, s) = <<>>
  <2>1. MapGet(gs, "scope", s) = None
    BY <1>1, <1>3, MapGetAbsent
  <2> QED BY <2>1 DEF GroupEntries
<1>4. GroupEntries(gs, s) \in Seq(E) /\ Distinct(GroupEntries(gs, s), "atom")
  <2>1. CASE \E i \in DOMAIN gs : gs[i].scope = s
    <3>1. PICK i \in DOMAIN gs : gs[i].scope = s
      BY <2>1
    <3>2. gs[i].entries \in Entries(E)
      BY <1>1
    <3> QED BY <1>2, <3>1, <3>2 DEF Entries
  <2>2. CASE \A i \in DOMAIN gs : gs[i].scope # s
    <3>1. GroupEntries(gs, s) = <<>>
      BY <1>3, <2>2
    <3> QED BY <3>1 DEF Distinct
  <2> QED BY <2>1, <2>2
<1> QED BY <1>1, <1>2, <1>3, <1>4

\* Storing in a list of groups keeps it one, and is found again by a lookup.
LEMMA PutGroupOK ==
  ASSUME NEW E \in {Intent, Baseline}, NEW gs \in GroupsOf(E), NEW s \in Scopes, NEW e \in E
  PROVE  /\ PutGroup(gs, s, e) \in GroupsOf(E)
         /\ PutGroup(gs, s, e) # <<>>
         /\ NormLookup(PutGroup(gs, s, e), s, e.atom) = e
         /\ \A t \in Scopes, a \in Atoms : t # s \/ a # e.atom =>
              NormLookup(PutGroup(gs, s, e), t, a) = NormLookup(gs, t, a)
<1> DEFINE old == GroupEntries(gs, s)
           entries == MapSet(old, "atom", e)
           G == [scope : Scopes, entries : Entries(E)]
           g == [scope |-> s, entries |-> entries]
           next == MapSet(gs, "scope", g)
<1>1. e["atom"] = e.atom /\ e.atom \in Atoms
  BY EntryFacts
<1>2. old \in Seq(E) /\ Distinct(old, "atom")
  BY GroupEntriesOK
<1> HIDE DEF old
<1>3. /\ entries \in Seq(E) /\ entries # <<>> /\ Distinct(entries, "atom")
      /\ MapGet(entries, "atom", e.atom) = e
      /\ \A x : x # e.atom => MapGet(entries, "atom", x) = MapGet(old, "atom", x)
  BY <1>1, <1>2, MapSetOK
<1> HIDE DEF entries
<1>4. g \in G /\ g["scope"] = s /\ g.entries = entries
  BY <1>3 DEF Entries
<1> HIDE DEF g
<1>5. gs \in Seq(G) /\ Distinct(gs, "scope")
  BY DEF GroupsOf
<1>6. /\ next \in Seq(G) /\ next # <<>> /\ Distinct(next, "scope")
      /\ MapGet(next, "scope", s) = g
      /\ \A x : x # s => MapGet(next, "scope", x) = MapGet(gs, "scope", x)
  <2> HIDE DEF G
  <2>1. /\ next \in Seq(G) /\ next # <<>> /\ Distinct(next, "scope")
        /\ MapGet(next, "scope", g["scope"]) = g
        /\ \A x : x # g["scope"] => MapGet(next, "scope", x) = MapGet(gs, "scope", x)
    <3> DEFINE field == "scope"
    <3>1. g \in G
      BY <1>4
    <3>2. gs \in Seq(G)
      BY <1>5
    <3>3. Distinct(gs, field)
      BY <1>5
    <3> HIDE DEF field
    <3>4. MapSet(gs, field, g) \in Seq(G)
      BY <3>1, <3>2, <3>3, MapSetOK
    <3> QED BY <3>1, <3>2, <3>3, MapSetOK DEF field
  <2> HIDE DEF next
  <2> QED BY <1>4, <2>1
<1> HIDE DEF next
<1>7. next \in GroupsOf(E)
  BY <1>6 DEF GroupsOf
<1>8. None \notin G
  BY EntryFacts
<1>9. /\ GroupEntries(next, s) = entries
      /\ \A t \in Scopes : t # s => GroupEntries(next, t) = GroupEntries(gs, t)
  <2> HIDE DEF G
  <2> QED BY <1>4, <1>6, <1>8 DEF GroupEntries
<1>10. /\ NormLookup(next, s, e.atom) = e
       /\ \A t \in Scopes, a \in Atoms : t # s \/ a # e.atom =>
            NormLookup(next, t, a) = NormLookup(gs, t, a)
  BY <1>3, <1>9 DEF NormLookup, old
<1> QED BY <1>6, <1>7, <1>10 DEF next, PutGroup, g, entries, old

-----------------------------------------------------------------------------
(* The lanes as groups *)

\* Storing in a Map of at most two entries.
LEMMA MapSetSmall ==
  ASSUME NEW E \in {Intent, Baseline}, NEW e \in E, NEW f \in E
  PROVE  /\ MapSet(<<>>, "atom", e) = <<e>>
         /\ f.atom = e.atom => MapSet(<<f>>, "atom", e) = <<e>>
         /\ f.atom # e.atom => MapSet(<<f>>, "atom", e) = <<f, e>>
<1>1. \A x \in E : x["atom"] = x.atom
  BY EntryFacts
<1>2. MapSet(<<>>, "atom", e) = <<e>>
  <2> DEFINE empty == <<>>
  <2>1. Found(empty, "atom", e["atom"]) = {}
    BY DEF Found
  <2> QED BY <2>1 DEF MapSet
<1>3. MapSet(<<f>>, "atom", e) = IF f.atom = e.atom THEN <<e>> ELSE <<f, e>>
  <2> DEFINE map == <<f>>
             next == MapSet(map, "atom", e)
  <2>1. map \in Seq(E) /\ Len(map) = 1 /\ map[1] = f /\ DOMAIN map = {1}
    OBVIOUS
  <2> HIDE DEF map
  <2>2. CASE f.atom # e.atom
    <3>1. \A k \in DOMAIN map : map[k]["atom"] # e["atom"]
      BY <1>1, <2>1, <2>2
    <3>2. next = Append(map, e)
      BY <3>1, MapSetCases
    <3> QED BY <2>2, <3>2 DEF map
  <2>3. CASE f.atom = e.atom
    <3>1. ~\A k \in DOMAIN map : map[k]["atom"] # e["atom"]
      BY <1>1, <2>1, <2>3
    <3>2. PICK k \in DOMAIN map : next = [map EXCEPT ![k] = e]
      BY <3>1, MapSetCases
    <3>3. next = [map EXCEPT ![1] = e]
      BY <2>1, <3>2
    <3> QED BY <2>3, <3>3 DEF map
  <2> QED BY <2>2, <2>3 DEF map
<1> QED BY <1>2, <1>3

\* Setting an atom in a map of two: over either, or behind both.
LEMMA MapSetPair ==
  ASSUME NEW E \in {Intent, Baseline}, NEW e \in E, NEW f \in E, NEW g \in E, f.atom # g.atom
  PROVE  /\ f.atom = e.atom => MapSet(<<f, g>>, "atom", e) = <<e, g>>
         /\ g.atom = e.atom => MapSet(<<f, g>>, "atom", e) = <<f, e>>
         /\ f.atom # e.atom /\ g.atom # e.atom => MapSet(<<f, g>>, "atom", e) = <<f, g, e>>
<1> DEFINE map == <<f, g>>
           next == MapSet(map, "atom", e)
<1>1. \A x \in E : x["atom"] = x.atom
  BY EntryFacts
<1>2. map \in Seq(E) /\ Len(map) = 2 /\ map[1] = f /\ map[2] = g /\ DOMAIN map = {1, 2}
  OBVIOUS
<1> HIDE DEF map
<1>3. ASSUME NEW j \in DOMAIN map, map[j].atom = e.atom
      PROVE  next = [map EXCEPT ![j] = e]
  <2>1. ~\A k \in DOMAIN map : map[k]["atom"] # e["atom"]
    BY <1>1, <1>2, <1>3
  <2>2. PICK k \in DOMAIN map : map[k]["atom"] = e["atom"] /\ next = [map EXCEPT ![k] = e]
    BY <2>1, MapSetCases
  <2>3. k = j
    BY <1>1, <1>2, <1>3, <2>2
  <2> QED BY <2>2, <2>3
<1>4. CASE f.atom = e.atom
  <2>1. next = [map EXCEPT ![1] = e]
    BY <1>2, <1>3, <1>4
  <2> QED BY <1>4, <2>1 DEF map
<1>5. CASE f.atom # e.atom /\ g.atom = e.atom
  <2>1. next = [map EXCEPT ![2] = e]
    BY <1>2, <1>3, <1>5
  <2> QED BY <1>5, <2>1 DEF map
<1>6. CASE f.atom # e.atom /\ g.atom # e.atom
  <2>1. \A k \in DOMAIN map : map[k]["atom"] # e["atom"]
    BY <1>1, <1>2, <1>6
  <2>2. next = Append(map, e)
    BY <2>1, MapSetCases
  <2> QED BY <1>6, <2>2 DEF map
<1> QED BY <1>4, <1>5, <1>6 DEF map

\* Behind a pair.
LEMMA AppendTwo ==
  ASSUME NEW E, NEW e \in E, NEW f \in E, NEW g \in E
  PROVE  Append(<<f, g>>, e) = <<f, g, e>>
<1> DEFINE p == <<f, g>>
           q == <<f, g, e>>
           r == Append(p, e)
<1>1. p \in Seq(E) /\ Len(p) = 2 /\ p[1] = f /\ p[2] = g
  OBVIOUS
<1>2. q \in Seq(E) /\ Len(q) = 3 /\ q[1] = f /\ q[2] = g /\ q[3] = e
  OBVIOUS
<1> HIDE DEF p, q
<1>3. r \in Seq(E) /\ Len(r) = Len(p) + 1 /\ r[Len(p) + 1] = e /\ \A i \in 1..Len(p) : r[i] = p[i]
  <2>1. p \in Seq(E)
    BY <1>1
  <2>2. r \in Seq(E)
    BY <2>1, AppendProperties
  <2>3. Len(r) = Len(p) + 1
    BY <2>1, AppendProperties
  <2>4. r[Len(p) + 1] = e
    BY <2>1, AppendProperties
  <2>5. \A i \in 1..Len(p) : r[i] = p[i]
    BY <2>1, AppendProperties
  <2> QED BY <2>2, <2>3, <2>4, <2>5
<1> HIDE DEF r
<1>4. r = q
  BY <1>1, <1>2, <1>3, SeqEqual
<1> QED BY <1>4 DEF p, q, r

\* The fields of the lanes, as a Map.
LEMMA InlineOK ==
  ASSUME NEW E \in {Intent, Baseline}, NEW lanes, LanesWF(lanes, E), lanes.first # None
  PROVE  /\ Inline(lanes) \in Entries(E)
         /\ lanes.second = None => Inline(lanes) = <<lanes.first>>
         /\ lanes.second # None => Inline(lanes) = <<lanes.first, lanes.second>>
<1>1. /\ lanes.first \in E /\ lanes.second \in E \cup {None}
      /\ lanes.second # None => lanes.second.atom # lanes.first.atom
  BY DEF LanesWF
<1>2. \A x \in E : x["atom"] = x.atom
  BY EntryFacts
<1>3. CASE lanes.second = None
  <2>1. Inline(lanes) = <<lanes.first>>
    BY <1>1, <1>3 DEF Inline
  <2> QED BY <1>1, <1>3, <2>1 DEF Entries, Distinct
<1>4. CASE lanes.second # None
  <2>1. Inline(lanes) = <<lanes.first, lanes.second>>
    <3> DEFINE f == lanes.first
               g == lanes.second
    <3>1. f \in E /\ g \in E /\ Inline(lanes) = <<f>> \o <<g>>
      BY <1>1, <1>4 DEF Inline
    <3> HIDE DEF f, g
    <3> DEFINE p == <<f>>
               q == <<g>>
               both == <<f, g>>
    <3>2. /\ p \in Seq(E) /\ q \in Seq(E) /\ both \in Seq(E)
          /\ Len(p) = 1 /\ Len(q) = 1 /\ Len(both) = 2
          /\ p[1] = f /\ q[1] = g /\ both[1] = f /\ both[2] = g
      BY <3>1
    <3> HIDE DEF p, q, both
    <3>3. /\ p \o q \in Seq(E) /\ Len(p \o q) = 2
          /\ (p \o q)[1] = f /\ (p \o q)[2] = g
      BY <3>2, ConcatProperties
    <3>4. p \o q = both
      BY <3>2, <3>3, SeqEqual
    <3>5. <<f>> \o <<g>> = <<f, g>>
      BY <3>4 DEF p, q, both
    <3> QED BY <3>1, <3>5 DEF f, g
  <2> QED BY <1>1, <1>2, <1>4, <2>1 DEF Entries, Distinct
<1> QED BY <1>3, <1>4

\* A list of one group.
LEMMA SingletonGroup ==
  ASSUME NEW E \in {Intent, Baseline}, NEW x \in Scopes, NEW map \in Entries(E)
  PROVE  /\ <<[scope |-> x, entries |-> map]>> \in GroupsOf(E)
         /\ GroupEntries(<<[scope |-> x, entries |-> map]>>, x) = map
         /\ \A s \in Scopes : s # x => GroupEntries(<<[scope |-> x, entries |-> map]>>, s) = <<>>
<1> DEFINE G == [scope : Scopes, entries : Entries(E)]
           g == [scope |-> x, entries |-> map]
           gs == <<g>>
<1>1. g \in G /\ g.scope = x /\ g.entries = map
  OBVIOUS
<1> HIDE DEF G, g
<1>2. gs \in Seq(G) /\ DOMAIN gs = {1} /\ gs[1] = g
  BY <1>1
<1>3. gs \in GroupsOf(E)
  BY <1>2 DEF GroupsOf, Distinct, G
<1> HIDE DEF gs
<1>4. GroupEntries(gs, x) = map
  BY <1>1, <1>2, <1>3, GroupEntriesOK
<1>5. ASSUME NEW s \in Scopes, s # x
      PROVE  GroupEntries(gs, s) = <<>>
  <2>1. \A i \in DOMAIN gs : gs[i].scope # s
    BY <1>1, <1>2, <1>5
  <2> QED BY <1>3, <2>1, GroupEntriesOK
<1> QED BY <1>3, <1>4, <1>5 DEF gs, g

\* Storing in a list of one group.
LEMMA PutGroupSingle ==
  ASSUME NEW E \in {Intent, Baseline}, NEW x \in Scopes, NEW map \in Entries(E),
         NEW s \in Scopes, NEW e \in E,
         NEW gs, gs = <<[scope |-> x, entries |-> map]>>
  PROVE  /\ s = x => PutGroup(gs, s, e) = <<[scope |-> x, entries |-> MapSet(map, "atom", e)]>>
         /\ s # x => PutGroup(gs, s, e)
                       = <<[scope |-> x, entries |-> map], [scope |-> s, entries |-> <<e>>]>>
<1> DEFINE g == [scope |-> x, entries |-> map]
           one == <<g>>
<1>1. one \in GroupsOf(E) /\ GroupEntries(one, x) = map
      /\ (s # x => GroupEntries(one, s) = <<>>)
  BY SingletonGroup
<1>2. DOMAIN one = {1} /\ one[1] = g /\ g["scope"] = x
  OBVIOUS
<1>3. CASE s = x
  <2> DEFINE h == [scope |-> s, entries |-> MapSet(map, "atom", e)]
  <2>1. PutGroup(one, s, e) = MapSet(one, "scope", h)
    BY <1>1, <1>3 DEF PutGroup
  <2>2. h["scope"] = x
    BY <1>3
  <2> HIDE DEF h, g, one
  <2>3. ~\A k \in DOMAIN one : one[k]["scope"] # h["scope"]
    BY <1>2, <2>2
  <2>4. PICK k \in DOMAIN one : MapSet(one, "scope", h) = [one EXCEPT ![k] = h]
    BY <2>3, MapSetCases
  <2>5. [one EXCEPT ![k] = h] = <<h>>
    <3>1. one = <<g>>
      BY DEF one
    <3> QED BY <1>2, <2>4, <3>1
  <2>6. PutGroup(one, s, e) = <<h>>
    BY <2>1, <2>4, <2>5
  <2> QED BY <1>3, <2>6 DEF h, g, one
<1>4. CASE s # x
  <2> DEFINE h == [scope |-> s, entries |-> <<e>>]
  <2>1. PutGroup(one, s, e) = MapSet(one, "scope", h)
    <3>1. MapSet(<<>>, "atom", e) = <<e>>
      BY MapSetSmall
    <3> HIDE DEF g, one
    <3> QED BY <1>1, <1>4, <3>1 DEF PutGroup
  <2>2. h["scope"] = s
    OBVIOUS
  <2> HIDE DEF h, g, one
  <2>3. \A k \in DOMAIN one : one[k]["scope"] # h["scope"]
    BY <1>2, <1>4, <2>2
  <2>4. MapSet(one, "scope", h) = Append(one, h)
    <3>1. \/ MapSet(one, "scope", h) = Append(one, h)
          \/ \E k \in DOMAIN one : one[k]["scope"] = h["scope"]
      <4> DEFINE field == "scope"
      <4>1. \/ MapSet(one, field, h) = Append(one, h)
            \/ \E k \in DOMAIN one : one[k][field] = h[field]
        <5> HIDE DEF field
        <5> QED BY MapSetCases
      <4> QED BY <4>1
    <3> QED BY <2>3, <3>1
  <2>5. PutGroup(one, s, e) = <<g, h>>
    <3>1. one = <<g>>
      BY DEF one
    <3> QED BY <2>1, <2>4, <3>1
  <2> QED BY <1>4, <2>5 DEF h, g, one
<1> QED BY <1>3, <1>4

\* What a well-formed Lanes is, form by form.
LEMMA Forms ==
  ASSUME NEW E \in {Intent, Baseline}, NEW lanes, LanesWF(lanes, E)
  PROVE  \/ /\ lanes.groups # None /\ lanes.groups \in GroupsOf(E) /\ lanes.groups # <<>>
            /\ lanes.scope = None /\ lanes.first = None /\ lanes.second = None /\ lanes.bucket = None
            /\ Norm(lanes) = lanes.groups
         \/ /\ lanes.groups = None /\ lanes.scope \in Scopes /\ lanes.first \in E /\ lanes.bucket = None
            /\ Inline(lanes) \in Entries(E)
            /\ Norm(lanes) = <<[scope |-> lanes.scope, entries |-> Inline(lanes)]>>
         \/ /\ lanes.groups = None /\ lanes.scope \in Scopes /\ lanes.first = None /\ lanes.second = None
            /\ lanes.bucket \in Entries(E)
            /\ Norm(lanes) = <<[scope |-> lanes.scope, entries |-> lanes.bucket]>>
         \/ /\ lanes.groups = None /\ lanes.scope = None /\ lanes.first = None /\ lanes.second = None
            /\ lanes.bucket = None /\ Norm(lanes) = <<>>
<1>1. /\ lanes.groups \in GroupsOf(E) \cup {None} /\ lanes.scope \in Scopes \cup {None}
      /\ lanes.first \in E \cup {None} /\ lanes.bucket \in Entries(E) \cup {None}
  BY DEF LanesWF
<1>2. /\ lanes.groups # None =>
           /\ lanes.groups # <<>>
           /\ lanes.scope = None /\ lanes.first = None /\ lanes.second = None /\ lanes.bucket = None
      /\ lanes.bucket # None => lanes.scope # None /\ lanes.first = None /\ lanes.second = None
      /\ lanes.first # None => lanes.scope # None
      /\ lanes.second # None => lanes.first # None
      /\ lanes.scope # None => lanes.first # None \/ lanes.bucket # None
  BY DEF LanesWF
<1>3. None \notin E /\ None \notin Entries(E)
  BY EntryFacts
<1>4. lanes.first # None => Inline(lanes) \in Entries(E)
  BY InlineOK
<1>5. CASE lanes.groups # None
  BY <1>1, <1>2, <1>5 DEF Norm
<1>6. CASE lanes.groups = None /\ lanes.first # None
  BY <1>1, <1>2, <1>4, <1>6 DEF Norm
<1>7. CASE lanes.groups = None /\ lanes.first = None /\ lanes.bucket # None
  BY <1>1, <1>2, <1>7 DEF Norm
<1>8. CASE lanes.groups = None /\ lanes.first = None /\ lanes.bucket = None
  BY <1>1, <1>2, <1>8 DEF Norm
<1> QED BY <1>5, <1>6, <1>7, <1>8

\* Norm gives a list of groups, and a lookup in the lanes is a lookup in it.
LEMMA NormOK ==
  ASSUME NEW E \in {Intent, Baseline}, NEW lanes, LanesWF(lanes, E)
  PROVE  Norm(lanes) \in GroupsOf(E)
<1>1. <<>> \in GroupsOf(E)
  BY DEF GroupsOf, Distinct
<1> QED BY <1>1, Forms, SingletonGroup

\* A lookup in any form of the lanes is the lookup in the groups they stand for.
LEMMA LookupNorm ==
  ASSUME NEW E \in {Intent, Baseline}, NEW lanes, LanesWF(lanes, E), NEW s \in Scopes, NEW a \in Atoms
  PROVE  Lookup(lanes, s, a) = NormLookup(Norm(lanes), s, a)
<1>1. None \notin Scopes /\ None \notin Entries(E) /\ None \notin GroupsOf(E) /\ None \notin E
  BY EntryFacts
<1>2. MapGet(<<>>, "atom", a) = None
  BY MapGetAbsent
<1>3. CASE lanes.groups # None
  <2>1. /\ lanes.scope = None /\ lanes.first = None /\ lanes.second = None
        /\ Norm(lanes) = lanes.groups
    BY <1>3, Forms
  <2>2. s # None
    BY <1>1
  <2>3. Lookup(lanes, s, a) = IF MapGet(lanes.groups, "scope", s) = None THEN None
                              ELSE MapGet(MapGet(lanes.groups, "scope", s).entries, "atom", a)
    BY <1>3, <2>1, <2>2 DEF Lookup
  <2> QED BY <1>2, <2>1, <2>3 DEF NormLookup, GroupEntries
<1>4. CASE lanes.first # None
  <2>1. /\ lanes.groups = None /\ lanes.scope \in Scopes /\ lanes.bucket = None
        /\ lanes.first \in E
        /\ Inline(lanes) \in Entries(E)
        /\ Norm(lanes) = <<[scope |-> lanes.scope, entries |-> Inline(lanes)]>>
    BY <1>1, <1>4, Forms
  <2>2. /\ GroupEntries(Norm(lanes), lanes.scope) = Inline(lanes)
        /\ s # lanes.scope => GroupEntries(Norm(lanes), s) = <<>>
    BY <2>1, SingletonGroup
  <2>3. CASE s # lanes.scope
    BY <1>2, <2>1, <2>2, <2>3 DEF Lookup, NormLookup
  <2>4. CASE s = lanes.scope
    <3> DEFINE map == Inline(lanes)
    <3>1. NormLookup(Norm(lanes), s, a) = MapGet(map, "atom", a)
      BY <2>2, <2>4 DEF NormLookup
    <3>2. Distinct(map, "atom") /\ \A i \in DOMAIN map : map[i]["atom"] = map[i].atom
      BY <2>1, EntryFacts DEF Entries
    <3>3. /\ DOMAIN map = IF lanes.second = None THEN {1} ELSE {1, 2}
          /\ map[1] = lanes.first
          /\ lanes.second # None => map[2] = lanes.second
      BY <1>4, InlineOK
    <3> HIDE DEF map
    <3>4. CASE lanes.first.atom = a
      <4>1. MapGet(map, "atom", map[1]["atom"]) = map[1]
        BY <3>2, <3>3, MapGetAt
      <4>2. map[1]["atom"] = a
        BY <3>2, <3>3, <3>4
      <4>3. Lookup(lanes, s, a) = lanes.first
        <5>1. lanes.second # None => lanes.second.atom # lanes.first.atom
          BY DEF LanesWF
        <5> QED BY <1>4, <2>4, <3>4, <5>1 DEF Lookup
      <4> QED BY <3>1, <3>3, <4>1, <4>2, <4>3
    <3>5. CASE lanes.first.atom # a /\ lanes.second # None /\ lanes.second.atom = a
      <4>1. MapGet(map, "atom", map[2]["atom"]) = map[2]
        BY <3>2, <3>3, <3>5, MapGetAt
      <4>2. map[2]["atom"] = a
        BY <3>2, <3>3, <3>5
      <4> QED BY <2>4, <3>1, <3>3, <3>5, <4>1, <4>2 DEF Lookup
    <3>6. CASE lanes.first.atom # a /\ (lanes.second = None \/ lanes.second.atom # a)
      <4>1. \A i \in DOMAIN map : map[i]["atom"] # a
        BY <3>2, <3>3, <3>6
      <4>2. MapGet(map, "atom", a) = None
        BY <4>1, MapGetAbsent
      <4>3. Lookup(lanes, s, a) = None
        BY <2>1, <2>4, <3>6 DEF Lookup
      <4> QED BY <3>1, <4>2, <4>3
    <3> QED BY <3>4, <3>5, <3>6
  <2> QED BY <2>3, <2>4
<1>5. CASE lanes.bucket # None
  <2>1. /\ lanes.groups = None /\ lanes.scope \in Scopes /\ lanes.bucket \in Entries(E)
        /\ lanes.first = None /\ lanes.second = None
        /\ Norm(lanes) = <<[scope |-> lanes.scope, entries |-> lanes.bucket]>>
    BY <1>1, <1>5, Forms
  <2>2. /\ GroupEntries(Norm(lanes), lanes.scope) = lanes.bucket
        /\ s # lanes.scope => GroupEntries(Norm(lanes), s) = <<>>
    BY <2>1, SingletonGroup
  <2> QED BY <1>2, <1>5, <2>1, <2>2 DEF Lookup, NormLookup
<1>6. CASE lanes.groups = None /\ lanes.first = None /\ lanes.bucket = None
  <2>1. lanes.scope = None /\ lanes.second = None /\ Norm(lanes) = <<>>
    BY <1>1, <1>6, Forms
  <2>2. Lookup(lanes, s, a) = None
    BY <1>1, <1>6, <2>1 DEF Lookup
  <2>3. MapGet(<<>>, "scope", s) = None
    BY MapGetAbsent
  <2> QED BY <1>2, <2>1, <2>2, <2>3 DEF NormLookup, GroupEntries
<1> QED BY <1>3, <1>4, <1>5, <1>6

\* Storing keeps the lanes well formed, and is storing in their groups: each
\* form takes the entry, or is promoted to the next one without losing any.
LEMMA PutNorm ==
  ASSUME NEW E \in {Intent, Baseline}, NEW lanes, LanesWF(lanes, E), NEW s \in Scopes, NEW e \in E
  PROVE  /\ LanesWF(Put(lanes, s, e), E)
         /\ Norm(Put(lanes, s, e)) = PutGroup(Norm(lanes), s, e)
<1> DEFINE next == Put(lanes, s, e)
<1>1. /\ None \notin Scopes /\ None \notin Entries(E) /\ None \notin GroupsOf(E) /\ None \notin E
      /\ None \notin [scope : Scopes, entries : Entries(E)]
  BY EntryFacts
<1>2. Norm(lanes) \in GroupsOf(E)
  BY NormOK
<1>3. PutGroup(Norm(lanes), s, e) \in GroupsOf(E) /\ PutGroup(Norm(lanes), s, e) # <<>>
  BY <1>2, PutGroupOK
<1>4. <<e>> \in Entries(E) /\ MapSet(<<>>, "atom", e) = <<e>>
  BY MapSetSmall DEF Entries, Distinct
<1>5. /\ lanes = [scope |-> lanes.scope, first |-> lanes.first, second |-> lanes.second,
                  bucket |-> lanes.bucket, groups |-> lanes.groups]
      /\ lanes.second \in E \cup {None}
      /\ lanes.second # None => lanes.second.atom # lanes.first.atom
  BY DEF LanesWF
<1>6. ASSUME next = [scope |-> None, first |-> None, second |-> None, bucket |-> None,
                     groups |-> PutGroup(Norm(lanes), s, e)]
      PROVE  LanesWF(next, E) /\ Norm(next) = PutGroup(Norm(lanes), s, e)
  <2> DEFINE gs == PutGroup(Norm(lanes), s, e)
  <2>1. gs \in GroupsOf(E) /\ gs # <<>> /\ gs # None
    BY <1>1, <1>3
  <2> HIDE DEF gs
  <2>2. next = [scope |-> None, first |-> None, second |-> None, bucket |-> None, groups |-> gs]
    BY <1>6 DEF gs
  <2> HIDE DEF next
  <2>3. LanesWF(next, E)
    BY <2>1, <2>2 DEF LanesWF
  <2>4. Norm(next) = gs
    BY <2>1, <2>2 DEF Norm
  <2> QED BY <2>3, <2>4 DEF gs
<1>7. ASSUME NEW map \in Entries(E), PutGroup(Norm(lanes), s, e) = <<[scope |-> s, entries |-> map]>>,
             \/ next = [scope |-> s, first |-> None, second |-> None, bucket |-> map, groups |-> None]
             \/ \E f \in E : /\ map = <<f>>
                             /\ next = [scope |-> s, first |-> f, second |-> None, bucket |-> None,
                                        groups |-> None]
             \/ \E f, g \in E : /\ map = <<f, g>> /\ f.atom # g.atom
                                /\ next = [scope |-> s, first |-> f, second |-> g, bucket |-> None,
                                           groups |-> None]
      PROVE  LanesWF(next, E) /\ Norm(next) = PutGroup(Norm(lanes), s, e)
  <2> HIDE DEF next
  <2>1. map # None /\ s # None
    BY <1>1
  <2>2. CASE next = [scope |-> s, first |-> None, second |-> None, bucket |-> map, groups |-> None]
    <3>1. LanesWF(next, E)
      BY <2>1, <2>2 DEF LanesWF
    <3>2. Norm(next) = <<[scope |-> s, entries |-> map]>>
      BY <2>1, <2>2 DEF Norm
    <3> QED BY <1>7, <3>1, <3>2
  <2>3. ASSUME NEW f \in E, map = <<f>>,
               next = [scope |-> s, first |-> f, second |-> None, bucket |-> None, groups |-> None]
        PROVE  LanesWF(next, E) /\ Norm(next) = PutGroup(Norm(lanes), s, e)
    <3>1. f # None
      BY <1>1
    <3>2. LanesWF(next, E)
      BY <2>1, <2>3, <3>1 DEF LanesWF
    <3>3. next.scope = s /\ next.first = f /\ next.second = None /\ next.groups = None
      BY <2>3
    <3>4. Inline(next) = map
      BY <2>3, <3>1, <3>2, <3>3, InlineOK
    <3>5. Norm(next) = <<[scope |-> s, entries |-> map]>>
      BY <3>1, <3>3, <3>4 DEF Norm
    <3> QED BY <1>7, <3>2, <3>5
  <2>4. ASSUME NEW f \in E, NEW g \in E, map = <<f, g>>, f.atom # g.atom,
               next = [scope |-> s, first |-> f, second |-> g, bucket |-> None, groups |-> None]
        PROVE  LanesWF(next, E) /\ Norm(next) = PutGroup(Norm(lanes), s, e)
    <3>1. f # None /\ g # None
      BY <1>1
    <3>2. LanesWF(next, E)
      BY <2>1, <2>4, <3>1 DEF LanesWF
    <3>3. next.scope = s /\ next.first = f /\ next.second = g /\ next.groups = None
      BY <2>4
    <3>4. Inline(next) = map
      BY <2>4, <3>1, <3>2, <3>3, InlineOK
    <3>5. Norm(next) = <<[scope |-> s, entries |-> map]>>
      BY <3>1, <3>3, <3>4 DEF Norm
    <3> QED BY <1>7, <3>2, <3>5
  <2> QED BY <1>7, <2>2, <2>3, <2>4
<1>8. CASE lanes.groups # None
  <2> DEFINE group == MapGet(lanes.groups, "scope", s)
             entries == IF group = None THEN <<e>> ELSE MapSet(group.entries, "atom", e)
             gs == MapSet(lanes.groups, "scope", [scope |-> s, entries |-> entries])
  <2>1. /\ lanes.scope = None /\ lanes.first = None /\ lanes.second = None /\ lanes.bucket = None
        /\ Norm(lanes) = lanes.groups
    BY <1>8, Forms
  <2>2. next = [lanes EXCEPT !.groups = gs]
    BY <1>8 DEF Put
  <2>3. gs = PutGroup(Norm(lanes), s, e)
    BY <1>4, <2>1 DEF PutGroup, GroupEntries
  <2> HIDE DEF gs, next
  <2>4. next = [scope |-> None, first |-> None, second |-> None, bucket |-> None, groups |-> gs]
    BY <1>5, <2>1, <2>2
  <2> QED BY <1>6, <2>3, <2>4 DEF next
<1>9. CASE lanes.bucket # None
  <2>1. /\ lanes.groups = None /\ lanes.scope \in Scopes /\ lanes.bucket \in Entries(E)
        /\ lanes.first = None /\ lanes.second = None
        /\ Norm(lanes) = <<[scope |-> lanes.scope, entries |-> lanes.bucket]>>
    BY <1>1, <1>9, Forms
  <2>2. CASE lanes.scope = s
    <3> DEFINE map == MapSet(lanes.bucket, "atom", e)
    <3>1. map \in Entries(E)
      <4>1. lanes.bucket \in Seq(E) /\ Distinct(lanes.bucket, "atom")
        BY <2>1 DEF Entries
      <4> QED BY <4>1, MapSetOK DEF Entries
    <3>2. next = [lanes EXCEPT !.bucket = map]
      BY <1>9, <2>1, <2>2 DEF Put
    <3>3. PutGroup(Norm(lanes), s, e) = <<[scope |-> s, entries |-> map]>>
      BY <2>1, <2>2, PutGroupSingle
    <3> HIDE DEF map, next
    <3>4. next = [scope |-> s, first |-> None, second |-> None, bucket |-> map, groups |-> None]
      BY <1>5, <2>1, <2>2, <3>2
    <3> QED BY <1>7, <3>1, <3>3, <3>4 DEF next
  <2>3. CASE lanes.scope # s
    <3> DEFINE gs == <<[scope |-> lanes.scope, entries |-> lanes.bucket], [scope |-> s, entries |-> <<e>>]>>
    <3>1. next = [NoLanes EXCEPT !.groups = gs]
      BY <1>9, <2>1, <2>3 DEF Put, Groups
    <3>2. PutGroup(Norm(lanes), s, e) = gs
      BY <2>1, <2>3, PutGroupSingle
    <3> HIDE DEF gs, next
    <3>3. next = [scope |-> None, first |-> None, second |-> None, bucket |-> None, groups |-> gs]
      BY <3>1 DEF NoLanes
    <3> QED BY <1>6, <3>2, <3>3 DEF next
  <2> QED BY <2>2, <2>3
<1>10. CASE lanes.groups = None /\ lanes.first = None /\ lanes.bucket = None
  <2>1. lanes.scope = None /\ lanes.second = None /\ Norm(lanes) = <<>>
    BY <1>1, <1>10, Forms
  <2>2. next = [lanes EXCEPT !.scope = s, !.first = e]
    BY <1>10 DEF Put
  <2> HIDE DEF next
  <2>3. next = [scope |-> s, first |-> e, second |-> None, bucket |-> None, groups |-> None]
    BY <1>5, <1>10, <2>1, <2>2
  <2>4. PutGroup(Norm(lanes), s, e) = <<[scope |-> s, entries |-> <<e>>]>>
    <3> DEFINE g == [scope |-> s, entries |-> <<e>>]
               empty == <<>>
    <3>1. MapGet(empty, "scope", s) = None
      BY MapGetAbsent
    <3>2. PutGroup(empty, s, e) = MapSet(empty, "scope", g)
      BY <1>4, <3>1 DEF PutGroup, GroupEntries
    <3> HIDE DEF g
    <3>3. MapSet(empty, "scope", g) = Append(empty, g)
      <4>1. DOMAIN empty = {}
        OBVIOUS
      <4> HIDE DEF empty
      <4> QED BY <4>1, MapSetCases
    <3>4. Append(empty, g) = <<g>>
      OBVIOUS
    <3> QED BY <2>1, <3>2, <3>3, <3>4 DEF g
  <2> QED BY <1>4, <1>7, <2>3, <2>4 DEF next
<1>11. CASE lanes.first # None
  <2> DEFINE f == lanes.first
             g == lanes.second
  <2>1. /\ lanes.groups = None /\ lanes.scope \in Scopes /\ lanes.bucket = None
        /\ f \in E /\ Inline(lanes) \in Entries(E)
        /\ Norm(lanes) = <<[scope |-> lanes.scope, entries |-> Inline(lanes)]>>
    BY <1>1, <1>11, Forms
  <2>2. /\ g = None => Inline(lanes) = <<f>>
        /\ g # None => Inline(lanes) = <<f, g>>
    BY <1>11, InlineOK
  <2>3. CASE lanes.scope # s
    <3> DEFINE gs == <<[scope |-> lanes.scope, entries |-> Inline(lanes)], [scope |-> s, entries |-> <<e>>]>>
    <3>1. next = [NoLanes EXCEPT !.groups = gs]
      BY <1>11, <2>1, <2>3 DEF Put, Groups
    <3>2. PutGroup(Norm(lanes), s, e) = gs
      BY <2>1, <2>3, PutGroupSingle
    <3> HIDE DEF gs, next
    <3>3. next = [scope |-> None, first |-> None, second |-> None, bucket |-> None, groups |-> gs]
      BY <3>1 DEF NoLanes
    <3> QED BY <1>6, <3>2, <3>3 DEF next
  <2>4. CASE lanes.scope = s
    <3> DEFINE map == MapSet(Inline(lanes), "atom", e)
    <3>1. map \in Entries(E)
      <4>1. Inline(lanes) \in Seq(E) /\ Distinct(Inline(lanes), "atom")
        BY <2>1 DEF Entries
      <4> QED BY <4>1, MapSetOK DEF Entries
    <3>2. PutGroup(Norm(lanes), s, e) = <<[scope |-> s, entries |-> map]>>
      BY <2>1, <2>4, PutGroupSingle
    <3>3. CASE f.atom = e.atom
      <4>1. next = [lanes EXCEPT !.first = e]
        BY <1>11, <2>1, <2>4, <3>3 DEF Put
      <4>2. /\ g = None => map = <<e>>
            /\ g # None => map = <<e, g>> /\ e.atom # g.atom /\ g \in E
        <5>1. g # None => g \in E /\ g.atom # f.atom
          BY <1>5
        <5> HIDE DEF f, g
        <5>2. MapSet(<<f>>, "atom", e) = <<e>>
          BY <2>1, <3>3, MapSetSmall
        <5>3. ASSUME g # None PROVE MapSet(<<f, g>>, "atom", e) = <<e, g>>
          BY <2>1, <3>3, <5>1, <5>3, MapSetPair
        <5> QED BY <2>2, <3>3, <5>1, <5>2, <5>3
      <4> HIDE DEF next, map
      <4>3. next = [scope |-> s, first |-> e, second |-> g, bucket |-> None, groups |-> None]
        BY <1>5, <2>1, <2>4, <4>1
      <4> QED BY <1>7, <3>1, <3>2, <4>2, <4>3 DEF next
    <3>4. CASE f.atom # e.atom /\ (g = None \/ g.atom = e.atom)
      <4>1. next = [lanes EXCEPT !.second = e]
        BY <1>11, <2>1, <2>4, <3>4 DEF Put
      <4>2. map = <<f, e>>
        <5>1. g # None => g \in E /\ g.atom # f.atom
          BY <1>5
        <5> HIDE DEF f, g
        <5>2. g = None => MapSet(<<f>>, "atom", e) = <<f, e>>
          BY <2>1, <3>4, MapSetSmall
        <5>3. ASSUME g # None PROVE MapSet(<<f, g>>, "atom", e) = <<f, e>>
          BY <2>1, <3>4, <5>1, <5>3, MapSetPair
        <5> QED BY <2>2, <3>4, <5>2, <5>3
      <4> HIDE DEF next, map
      <4>3. next = [scope |-> s, first |-> f, second |-> e, bucket |-> None, groups |-> None]
        BY <1>5, <2>1, <2>4, <4>1
      <4> QED BY <1>7, <2>1, <3>1, <3>2, <3>4, <4>2, <4>3 DEF next
    <3>5. CASE f.atom # e.atom /\ g # None /\ g.atom # e.atom
      <4>1. next = [lanes EXCEPT !.first = None, !.second = None, !.bucket = Append(Inline(lanes), e)]
        BY <1>11, <2>1, <2>4, <3>5 DEF Put
      <4>2. map = <<f, g, e>> /\ Append(Inline(lanes), e) = <<f, g, e>>
        <5>1. g \in E /\ g.atom # f.atom
          BY <1>5, <3>5
        <5> HIDE DEF f, g
        <5>2. MapSet(<<f, g>>, "atom", e) = <<f, g, e>>
          BY <2>1, <3>5, <5>1, MapSetPair
        <5>3. Append(<<f, g>>, e) = <<f, g, e>>
          BY <2>1, <5>1, AppendTwo
        <5> QED BY <2>2, <3>5, <5>2, <5>3
      <4>3. next = [lanes EXCEPT !.first = None, !.second = None, !.bucket = map]
        BY <4>1, <4>2
      <4> HIDE DEF next, map
      <4>4. next = [scope |-> s, first |-> None, second |-> None, bucket |-> map, groups |-> None]
        BY <1>5, <2>1, <2>4, <4>3
      <4> QED BY <1>7, <3>1, <3>2, <4>4 DEF next
    <3> QED BY <3>3, <3>4, <3>5
  <2> QED BY <2>3, <2>4
<1> QED BY <1>8, <1>9, <1>10, <1>11

-----------------------------------------------------------------------------
(* Visiting the groups *)

Entry == [scope : Scopes, atom : Atoms, kind : Kinds]

\* Tagged gives the entries of one scope their scope.
LEMMA TaggedOK ==
  ASSUME NEW s \in Scopes, NEW map \in Seq(Intent)
  PROVE  /\ Tagged(s, map) \in Seq(Entry)
         /\ Len(Tagged(s, map)) = Len(map)
         /\ DOMAIN Tagged(s, map) = 1..Len(map)
         /\ \A i \in 1..Len(map) :
              Tagged(s, map)[i] = [scope |-> s, atom |-> map[i].atom, kind |-> map[i].kind]
<1>1. \A i \in 1..Len(map) :
        [scope |-> s, atom |-> map[i].atom, kind |-> map[i].kind] \in Entry
  <2>1. \A i \in 1..Len(map) : map[i] \in Intent
    OBVIOUS
  <2> QED BY <2>1 DEF Intent, Entry
<1>2. Tagged(s, map)
        = [i \in 1..Len(map) |-> [scope |-> s, atom |-> map[i].atom, kind |-> map[i].kind]]
  BY DEF Tagged
<1>3. Tagged(s, map) \in [1..Len(map) -> Entry]
  BY <1>1, <1>2
<1>4. Len(map) \in Nat
  OBVIOUS
<1>5. Tagged(s, map) \in Seq(Entry) /\ Len(Tagged(s, map)) = Len(map)
  <2> DEFINE n == Len(map)
             t == Tagged(s, map)
  <2>1. n \in Nat /\ t \in [1..n -> Entry]
    BY <1>3, <1>4
  <2> HIDE DEF n, t
  <2>2. t \in Seq(Entry) /\ Len(t) = n
    BY <2>1
  <2> QED BY <2>2 DEF n, t
<1> QED BY <1>2, <1>5

\* The visit of a list of groups, group by group.
Visit(gs, v) ==
  /\ v \in [0..Len(gs) -> Seq(Entry)]
  /\ v[0] = <<>>
  /\ \A i \in 1..Len(gs) : v[i] = v[i - 1] \o Tagged(gs[i].scope, gs[i].entries)

\* The visit of the groups, forEachIntent's recursion, is defined for every Map of Maps.
LEMMA VisitExists ==
  ASSUME NEW gs \in GroupsOf(Intent)
  PROVE  /\ \E v : Visit(gs, v)
         /\ \A i \in 1..Len(gs) : Tagged(gs[i].scope, gs[i].entries) \in Seq(Entry)
<1> DEFINE Out == Seq(Entry)
           n == Len(gs)
           tagged == [i \in 1..n |-> Tagged(gs[i].scope, gs[i].entries)]
           Step == [i \in 1..n |-> [q \in Out |-> q \o tagged[i]]]
<1>1. n \in Nat /\ <<>> \in Out
  BY DEF GroupsOf
<1>2. \A i \in 1..n : tagged[i] \in Out
  <2>1. ASSUME NEW i \in 1..n
        PROVE  gs[i].scope \in Scopes /\ gs[i].entries \in Seq(Intent)
    <3> DEFINE G == [scope : Scopes, entries : Entries(Intent)]
    <3>1. gs \in Seq(G)
      BY DEF GroupsOf
    <3> HIDE DEF G
    <3>2. gs[i] \in G
      BY <3>1
    <3> QED BY <3>2 DEF G, Entries
  <2> QED BY <2>1, TaggedOK
<1> HIDE DEF n, tagged
<1>3. Step \in [1..n -> [Out -> Out]]
  <2>1. \A q \in Out, r \in Out : q \o r \in Out
    BY ConcatProperties
  <2> HIDE DEF Out
  <2> QED BY <1>2, <2>1
<1>4. PICK v \in [0..n -> Out] : v[0] = <<>> /\ \A i \in 1..n : v[i] = Step[i][v[i - 1]]
  <2> DEFINE none == <<>>
  <2>1. none \in Out
    BY <1>1
  <2>2. n \in Nat
    BY <1>1
  <2> HIDE DEF Step, Out, none
  <2>3. StepFunction(Step, n, Out)
    BY <1>3 DEF StepFunction
  <2>4. PICK v : Run(v, Step, none, n, Out)
    BY <2>1, <2>2, <2>3, Recursion
  <2> QED BY <2>4 DEF Run, none
<1>5. ASSUME NEW i \in 1..n
      PROVE  v[i] = v[i - 1] \o tagged[i]
  <2>1. v[i - 1] \in Out
    BY <1>1, <1>4
  <2> HIDE DEF Out
  <2> QED BY <1>4, <2>1
<1> QED BY <1>2, <1>4, <1>5 DEF Visit, n, tagged

\* Flat is the last step of a visit.
LEMMA FlatVisit ==
  ASSUME NEW gs \in GroupsOf(Intent)
  PROVE  \E v : Visit(gs, v) /\ Flat(gs) = v[Len(gs)]
<1>1. PICK h : Visit(gs, h)
  BY VisitExists
<1>2. h = [i \in 0..Len(gs) |->
            IF i = 0 THEN <<>> ELSE h[i - 1] \o Tagged(gs[i].scope, gs[i].entries)]
  BY <1>1 DEF Visit, GroupsOf
<1>3. \E v : /\ v = [i \in 0..Len(gs) |->
                      IF i = 0 THEN <<>> ELSE v[i - 1] \o Tagged(gs[i].scope, gs[i].entries)]
             /\ Flat(gs) = v[Len(gs)]
  BY <1>2, Zenon DEF Flat
<1>4. PICK v : /\ v = [i \in 0..Len(gs) |->
                        IF i = 0 THEN <<>> ELSE v[i - 1] \o Tagged(gs[i].scope, gs[i].entries)]
               /\ Flat(gs) = v[Len(gs)]
  BY <1>3, Zenon
<1>5. Len(gs) \in Nat
  BY DEF GroupsOf
<1>6. v[0] = <<>> /\ \A i \in 1..Len(gs) : v[i] = v[i - 1] \o Tagged(gs[i].scope, gs[i].entries)
  <2> DEFINE n == Len(gs)
             T(i) == Tagged(gs[i].scope, gs[i].entries)
  <2>1. v = [i \in 0..n |-> IF i = 0 THEN <<>> ELSE v[i - 1] \o T(i)]
    BY <1>4
  <2> HIDE DEF n, T
  <2>2. v[0] = <<>> /\ \A i \in 1..n : v[i] = v[i - 1] \o T(i)
    <3>1. n \in Nat
      BY <1>5 DEF n
    <3>2. ASSUME NEW i \in 0..n
          PROVE  v[i] = IF i = 0 THEN <<>> ELSE v[i - 1] \o T(i)
      BY <2>1, Zenon
    <3>3. v[0] = <<>>
      BY <3>1, <3>2
    <3>4. ASSUME NEW i \in 1..n
          PROVE  v[i] = v[i - 1] \o T(i)
      <4>1. i \in 0..n /\ i # 0
        BY <3>1
      <4> QED BY <3>2, <4>1
    <3> QED BY <3>3, <3>4
  <2> QED BY <2>2 DEF n, T
<1>7. v \in [0..Len(gs) -> Seq(Entry)]
  <2> DEFINE S == {i \in 0..Len(gs) : v[i] \in Seq(Entry)}
  <2>1. 0 \in S
    <3>1. 0 \in 0..Len(gs) /\ <<>> \in Seq(Entry)
      BY <1>5
    <3> QED BY <1>6, <3>1
  <2>2. ASSUME NEW i \in 1..Len(gs), i - 1 \in S
        PROVE  i \in S
    <3>1. Tagged(gs[i].scope, gs[i].entries) \in Seq(Entry)
      BY VisitExists
    <3>2. v[i] = v[i - 1] \o Tagged(gs[i].scope, gs[i].entries) /\ v[i - 1] \in Seq(Entry)
      BY <1>6, <2>2
    <3>3. v[i] \in Seq(Entry)
      BY <3>1, <3>2, ConcatProperties
    <3> QED BY <1>5, <3>3
  <2>3. \A i \in 0..Len(gs) : i \in S
    <3> HIDE DEF S
    <3> QED BY <1>5, <2>1, <2>2, IntervalInduction
  <2>4. DOMAIN v = 0..Len(gs) /\ v = [i \in 0..Len(gs) |-> v[i]]
    <3>1. \E f : v = [i \in 0..Len(gs) |-> f[i]]
      <4> DEFINE f == [i \in 0..Len(gs) |->
                        IF i = 0 THEN <<>> ELSE v[i - 1] \o Tagged(gs[i].scope, gs[i].entries)]
      <4>1. v = f /\ f = [i \in 0..Len(gs) |-> f[i]]
        BY <1>4, Zenon
      <4> HIDE DEF f
      <4> QED BY <4>1
    <3> QED BY <3>1
  <2> QED BY <2>3, <2>4
<1> QED BY <1>4, <1>6, <1>7 DEF Visit

\* One group is visited as its entries, and no list of groups but the empty one
\* visits nothing.
LEMMA FlatOne ==
  ASSUME NEW s \in Scopes, NEW map \in Entries(Intent),
         NEW gs, gs = <<[scope |-> s, entries |-> map]>>
  PROVE  Flat(gs) = Tagged(s, map)
<1>1. gs \in GroupsOf(Intent)
  BY SingletonGroup
<1>2. PICK v : Visit(gs, v) /\ Flat(gs) = v[Len(gs)]
  BY <1>1, FlatVisit
<1>3. Len(gs) = 1 /\ gs[1].scope = s /\ gs[1].entries = map
  OBVIOUS
<1>4. v[1] = v[0] \o Tagged(s, map) /\ v[0] = <<>>
  <2>1. 1 \in 1..Len(gs)
    BY <1>3
  <2>2. v[1] = v[1 - 1] \o Tagged(gs[1].scope, gs[1].entries) /\ v[0] = <<>>
    BY <1>2, <2>1 DEF Visit
  <2>3. 1 - 1 = 0
    OBVIOUS
  <2> QED BY <1>3, <2>2, <2>3, Zenon
<1>5. Tagged(s, map) \in Seq(Entry)
  BY TaggedOK DEF Entries
<1>6. v[1] = Tagged(s, map)
  BY <1>4, <1>5, ConcatEmptySeq
<1> QED BY <1>2, <1>3, <1>6

\* Some group means some entry.
LEMMA FlatNonempty ==
  ASSUME NEW gs \in GroupsOf(Intent), gs # <<>>
  PROVE  Flat(gs) # <<>>
<1>1. PICK v : Visit(gs, v) /\ Flat(gs) = v[Len(gs)]
  BY FlatVisit
<1> DEFINE n == Len(gs)
           q == Tagged(gs[n].scope, gs[n].entries)
<1>2. n \in 1..n
  BY DEF GroupsOf
<1>3. gs[n].scope \in Scopes /\ gs[n].entries \in Entries(Intent)
  <2>1. gs[n] \in [scope : Scopes, entries : Entries(Intent)]
    <3> DEFINE G == [scope : Scopes, entries : Entries(Intent)]
    <3>1. gs \in Seq(G)
      BY DEF GroupsOf
    <3> HIDE DEF G
    <3>2. \A i \in 1..Len(gs) : gs[i] \in G
      BY <3>1
    <3>3. gs[n] \in G
      BY <1>2, <3>2
    <3> QED BY <3>3 DEF G
  <2> QED BY <2>1
<1>4. q \in Seq(Entry) /\ Len(q) # 0
  <2>1. gs[n].entries \in Seq(Intent) /\ Len(gs[n].entries) # 0
    BY <1>3 DEF Entries
  <2> QED BY <1>3, <2>1, TaggedOK
<1>5. v[n] = v[n - 1] \o q /\ v[n - 1] \in Seq(Entry)
  <2>1. v[n] = v[n - 1] \o q
    BY <1>1, <1>2 DEF Visit
  <2>2. n - 1 \in 0..n
    <3> HIDE DEF n
    <3> QED BY <1>2
  <2>3. \A i \in 0..n : v[i] \in Seq(Entry)
    BY <1>1 DEF Visit
  <2> QED BY <2>1, <2>2, <2>3
<1> HIDE DEF q, n
<1>6. v[n] # <<>>
  BY <1>4, <1>5, ConcatEqualIffEmpty
<1> QED BY <1>1, <1>6 DEF n

\* forEachIntent visits the groups, whatever form the lanes have.
LEMMA ForEachNorm ==
  ASSUME NEW lanes, LanesWF(lanes, Intent)
  PROVE  ForEach(lanes) = Flat(Norm(lanes))
<1> DEFINE gs == Norm(lanes)
<1>1. None \notin Intent /\ None \notin Entries(Intent) /\ None \notin Scopes
  BY EntryFacts
<1>2. CASE lanes.groups # None
  <2>1. lanes.first = None /\ lanes.bucket = None /\ gs = lanes.groups
    BY <1>2, Forms
  <2> QED BY <1>2, <2>1 DEF ForEach
<1>3. CASE lanes.first # None
  <2>1. /\ lanes.scope \in Scopes /\ Inline(lanes) \in Entries(Intent)
        /\ gs = <<[scope |-> lanes.scope, entries |-> Inline(lanes)]>>
    BY <1>1, <1>3, Forms
  <2>2. Flat(gs) = Tagged(lanes.scope, Inline(lanes))
    BY <2>1, FlatOne
  <2> QED BY <1>3, <2>2 DEF ForEach
<1>4. CASE lanes.bucket # None
  <2>1. /\ lanes.scope \in Scopes /\ lanes.bucket \in Entries(Intent) /\ lanes.first = None
        /\ gs = <<[scope |-> lanes.scope, entries |-> lanes.bucket]>>
    BY <1>1, <1>4, Forms
  <2>2. Flat(gs) = Tagged(lanes.scope, lanes.bucket)
    BY <2>1, FlatOne
  <2> QED BY <1>4, <2>1, <2>2 DEF ForEach
<1>5. CASE lanes.groups = None /\ lanes.first = None /\ lanes.bucket = None
  <2>1. gs = <<>> /\ ForEach(lanes) = <<>>
    BY <1>5 DEF Norm, ForEach
  <2>2. gs \in GroupsOf(Intent)
    BY NormOK
  <2>3. PICK v : Visit(gs, v) /\ Flat(gs) = v[Len(gs)]
    BY <2>2, FlatVisit
  <2>4. Len(gs) = 0 /\ v[0] = <<>>
    BY <2>1, <2>3 DEF Visit
  <2> QED BY <2>1, <2>3, <2>4
<1> QED BY <1>2, <1>3, <1>4, <1>5

-----------------------------------------------------------------------------
(* Well-formed lanes *)

StorageWF ==
  /\ LanesWF(intents, Intent) /\ LanesWF(baselines, Baseline)
  /\ fallbacks \in [single : Atoms \cup {None}, memo : (SUBSET Atoms) \cup {None}]
  /\ generation \in 0..MaxWrites
  /\ active \in BOOLEAN /\ released \in BOOLEAN /\ fault \in BOOLEAN
  /\ active => ~released

\* The initial lanes.
LEMMA NoLanesWF ==
  ASSUME NEW E \in {Intent, Baseline}
  PROVE  LanesWF(NoLanes, E)
BY DEF LanesWF, NoLanes

\* Making sure of a baseline keeps the form of the lanes.
LEMMA WithBaselineWF ==
  ASSUME StorageWF, NEW s \in Scopes, NEW a \in Atoms
  PROVE  LanesWF(WithBaseline(s, a), Baseline)
<1>1. [atom |-> a, of |-> <<s, a>>] \in Baseline
  BY DEF Baseline
<1>2. LanesWF(Put(baselines, s, [atom |-> a, of |-> <<s, a>>]), Baseline)
  <2> DEFINE e == [atom |-> a, of |-> <<s, a>>]
  <2>1. e \in Baseline
    BY <1>1
  <2> HIDE DEF e
  <2>2. LanesWF(Put(baselines, s, e), Baseline)
    BY <2>1, PutNorm DEF StorageWF
  <2> QED BY <2>2 DEF e
<1> QED BY <1>2 DEF WithBaseline, StorageWF

\* Staging an intent keeps the form of the lanes.
LEMMA IntentsWF ==
  ASSUME StorageWF, NEW s \in Scopes, NEW a \in Atoms, NEW kind \in Kinds
  PROVE  LanesWF(Put(intents, s, [atom |-> a, kind |-> kind]), Intent)
<1> DEFINE e == [atom |-> a, kind |-> kind]
<1>1. e \in Intent
  BY DEF Intent
<1> HIDE DEF e
<1>2. LanesWF(Put(intents, s, e), Intent)
  BY <1>1, PutNorm DEF StorageWF
<1> QED BY <1>2 DEF e

\* StorageWF is inductive.
LEMMA StorageInductive ==
  /\ Init => StorageWF
  /\ StorageWF /\ [Next]_vars => StorageWF'
<1>1. ASSUME Init PROVE StorageWF
  <2>1. fallbacks \in [single : Atoms \cup {None}, memo : (SUBSET Atoms) \cup {None}]
    BY <1>1 DEF Init
  <2>2. LanesWF(intents, Intent) /\ LanesWF(baselines, Baseline)
    BY <1>1, NoLanesWF DEF Init
  <2>3. generation \in 0..MaxWrites
    BY <1>1, BoundsAssumption DEF Init
  <2>4. active \in BOOLEAN /\ released \in BOOLEAN /\ fault \in BOOLEAN
    BY <1>1 DEF Init
  <2>5. active => ~released
    BY <1>1, Zenon DEF Init
  <2> QED BY <2>1, <2>2, <2>3, <2>4, <2>5, Zenon DEF StorageWF
<1>2. ASSUME StorageWF, NEW s \in Scopes, NEW a \in Atoms, Inspect(s, a)
      PROVE  StorageWF'
  BY <1>2, WithBaselineWF DEF Inspect, StorageWF
<1>3. ASSUME StorageWF, NEW s \in Scopes, NEW a \in Atoms, NEW kind \in Kinds, Write(s, a, kind)
      PROVE  StorageWF'
  <2>1. LanesWF(intents', Intent) /\ LanesWF(baselines', Baseline)
    BY <1>3, IntentsWF, WithBaselineWF DEF Write
  <2>2. UNCHANGED <<fallbacks, active, released>>
    BY <1>3 DEF Write
  <2>3. generation' \in 0..MaxWrites
    BY <1>3, BoundsAssumption DEF Write, AdvanceGeneration, StorageWF
  <2>4. fault' \in BOOLEAN
    BY <1>3 DEF Write, AdvanceGeneration
  <2> QED BY <1>3, <2>1, <2>2, <2>3, <2>4 DEF StorageWF
<1>4. ASSUME StorageWF, NEW a \in Atoms, Memoize(a)
      PROVE  StorageWF'
  <2>1. fallbacks' \in [single : Atoms \cup {None}, memo : (SUBSET Atoms) \cup {None}]
    <3> DEFINE F == [single : Atoms \cup {None}, memo : (SUBSET Atoms) \cup {None}]
    <3>1. fallbacks \in F
      BY <1>4 DEF StorageWF
    <3>2. CASE fallbacks.memo # None
      <4>1. fallbacks' = [fallbacks EXCEPT !.memo = @ \cup {a}]
        BY <1>4, <3>2 DEF Memoize
      <4> QED BY <3>1, <3>2, <4>1
    <3>3. CASE fallbacks.memo = None /\ fallbacks.single = None
      <4>1. fallbacks' = [fallbacks EXCEPT !.single = a]
        BY <1>4, <3>3 DEF Memoize
      <4> QED BY <3>1, <3>3, <4>1
    <3>4. CASE fallbacks.memo = None /\ fallbacks.single # None
      <4>1. fallbacks' = [single |-> None, memo |-> {fallbacks.single, a}]
        BY <1>4, <3>4 DEF Memoize
      <4> QED BY <3>1, <3>4, <4>1
    <3> QED BY <3>2, <3>3, <3>4
  <2> QED BY <1>4, <2>1 DEF Memoize, StorageWF
<1>5. ASSUME StorageWF, NEW s \in Scopes, NEW a \in Atoms, ReadSource(s, a)
      PROVE  StorageWF'
  BY <1>5 DEF ReadSource, lanesVars, StorageWF
<1>6. ASSUME StorageWF, Close
      PROVE  StorageWF'
  BY <1>6 DEF Close, lanesVars, StorageWF
<1>7. ASSUME StorageWF, Release
      PROVE  StorageWF'
  BY <1>7, NoLanesWF DEF Release, StorageWF
<1>8. ASSUME StorageWF, UNCHANGED vars
      PROVE  StorageWF'
  BY <1>8 DEF vars, StorageWF
<1>9. ASSUME StorageWF, [Next]_vars
      PROVE  StorageWF'
  BY <1>2, <1>3, <1>4, <1>5, <1>6, <1>7, <1>8, <1>9, LazyAssumption DEF Next
<1> QED BY <1>1, <1>9

-----------------------------------------------------------------------------
(* Cached reads *)

\* What the scratch hosts hold: only while the callback runs, of the current
\* generation, and nothing that the draft would not resolve now.
HostsServe ==
  /\ DOMAIN hosts = Scopes
  /\ ~fault
  /\ \A s \in Scopes : hosts[s] # None =>
       /\ active
       /\ \E sources : hosts[s] = [generation |-> generation, sources |-> sources]
       /\ DOMAIN hosts[s].sources = Atoms
       /\ \A a \in Atoms : hosts[s].sources[a] # None => hosts[s].sources[a] = Seen(s, a)

\* HostsServe is inductive: a write gives every host the new generation and
\* nothing read before it, and a read caches what it resolves.
LEMMA HostsServeInductive ==
  /\ Init => HostsServe
  /\ HostsServe /\ [Next]_vars => HostsServe'
<1>1. Init => HostsServe
  BY DEF Init, HostsServe
<1>2. ASSUME HostsServe, NEW s \in Scopes, NEW a \in Atoms, ReadSource(s, a)
      PROVE  HostsServe'
  <2> DEFINE host == IF hosts[s] = None THEN [generation |-> generation, sources |-> NoSources]
                       ELSE hosts[s]
             sources == IF host.sources[a] # None THEN host.sources
                          ELSE [host.sources EXCEPT ![a] = Seen(s, a)]
             next == [generation |-> generation, sources |-> sources]
  <2>1. /\ host = [generation |-> generation, sources |-> host.sources]
        /\ DOMAIN host.sources = Atoms
        /\ \A b \in Atoms : host.sources[b] # None => host.sources[b] = Seen(s, b)
    BY <1>2 DEF HostsServe, NoSources
  <2>2. hosts' = [hosts EXCEPT ![s] = next]
    <3>1. next = IF host.sources[a] # None THEN host ELSE [host EXCEPT !.sources[a] = Seen(s, a)]
      <4> HIDE DEF host
      <4> QED BY <2>1
    <3>2. hosts' = [hosts EXCEPT ![s] =
                     IF host.sources[a] # None THEN host ELSE [host EXCEPT !.sources[a] = Seen(s, a)]]
      BY <1>2, Zenon DEF ReadSource
    <3> QED BY <3>1, <3>2
  <2>3. /\ DOMAIN sources = Atoms
        /\ \A b \in Atoms : sources[b] # None => sources[b] = Seen(s, b)
    <3> HIDE DEF host
    <3> QED BY <2>1
  <2>4. UNCHANGED <<intents, generation, active, fault>> /\ active
    BY <1>2 DEF ReadSource, lanesVars
  <2>5. \A x \in Scopes, b \in Atoms : Seen(x, b)' = Seen(x, b)
    BY <2>4 DEF Seen
  <2> HIDE DEF sources, host
  <2>6. ASSUME NEW x \in Scopes, hosts'[x] # None
        PROVE  /\ \E srcs : hosts'[x] = [generation |-> generation, sources |-> srcs]
               /\ DOMAIN hosts'[x].sources = Atoms
               /\ \A b \in Atoms : hosts'[x].sources[b] # None => hosts'[x].sources[b] = Seen(x, b)
    <3>1. CASE x = s
      <4>1. hosts'[x] = next /\ hosts'[x].sources = sources
        BY <1>2, <2>2, <3>1 DEF HostsServe
      <4> HIDE DEF next
      <4>2. hosts'[x] = [generation |-> generation, sources |-> sources]
        BY <4>1 DEF next
      <4> QED BY <2>3, <3>1, <4>1, <4>2
    <3>2. CASE x # s
      <4>1. hosts'[x] = hosts[x]
        BY <1>2, <2>2, <3>2 DEF HostsServe
      <4> QED BY <1>2, <2>6, <4>1 DEF HostsServe
    <3> QED BY <3>1, <3>2
  <2>7. DOMAIN hosts' = Scopes /\ ~fault' /\ active' /\ generation' = generation
    BY <1>2, <2>2, <2>4 DEF HostsServe
  <2> QED BY <2>5, <2>6, <2>7 DEF HostsServe
<1>3. ASSUME HostsServe, AdvanceGeneration, active' = active
      PROVE  HostsServe'
  <2>1. DOMAIN hosts' = Scopes
    BY <1>3 DEF AdvanceGeneration
  <2>2. ~fault'
    <3>1. ~\E s \in Scopes : hosts[s] # None /\ generation + 1 # hosts[s].generation + 1
      BY <1>3 DEF HostsServe
    <3> QED BY <1>3, <3>1, Zenon DEF AdvanceGeneration, HostsServe
  <2>3. ASSUME NEW s \in Scopes, hosts'[s] # None
        PROVE  hosts'[s] = [generation |-> generation', sources |-> NoSources] /\ active'
    BY <1>3, <2>3 DEF AdvanceGeneration, HostsServe
  <2>4. DOMAIN NoSources = Atoms /\ \A a \in Atoms : NoSources[a] = None
    BY DEF NoSources
  <2>5. \A s \in Scopes : hosts'[s] # None => hosts'[s].sources = NoSources
    BY <2>3
  <2> QED BY <2>1, <2>2, <2>3, <2>4, <2>5 DEF HostsServe
<1>4. ASSUME HostsServe, Close
      PROVE  HostsServe'
  BY <1>4 DEF HostsServe, Close
<1>5. ASSUME HostsServe, Release
      PROVE  HostsServe'
  BY <1>5 DEF HostsServe, Release
<1>6. ASSUME HostsServe, UNCHANGED <<intents, generation, hosts, active, fault>>
      PROVE  HostsServe'
  BY <1>6 DEF HostsServe, Seen
<1>7. ASSUME HostsServe, [Next]_vars
      PROVE  HostsServe'
  BY <1>2, <1>3, <1>4, <1>5, <1>6, <1>7 DEF Next, Inspect, Write, Memoize, vars
<1> QED BY <1>1, <1>7

\* What a scratch host serves a selector again is what the draft would resolve
\* now, and no host ever misses a generation (scratch-selector-host.ts).
THEOREM ScratchServes == Spec => []ScratchServesDraft
<1>1. HostsServe => ScratchServesDraft
  BY DEF HostsServe, ScratchServesDraft
<1> QED BY <1>1, HostsServeInductive, PTL DEF Spec

-----------------------------------------------------------------------------
(* Types and shortcuts *)

\* Lanes in one of their forms have the type of lanes, and use one storage at a time.
LEMMA LanesWFOK ==
  ASSUME NEW E \in {Intent, Baseline}, NEW lanes, LanesWF(lanes, E)
  PROVE  LanesOK(lanes)
<1> DEFINE used == {lane \in {"first", "bucket", "groups"} : lanes[lane] # None}
<1>1. /\ lanes.scope \in Scopes \cup {None} /\ lanes.first \in E \cup {None}
      /\ lanes.second \in E \cup {None}
      /\ lanes.second # None => lanes.first # None
      /\ (lanes.first # None \/ lanes.bucket # None) <=> lanes.scope # None
  BY DEF LanesWF
<1>2. \A x \in {lanes.first, lanes.second} : x # None => x.atom \in Atoms
  BY <1>1, EntryFacts
<1>3. /\ lanes.groups # None => lanes.first = None /\ lanes.bucket = None
      /\ lanes.bucket # None => lanes.first = None
  BY DEF LanesWF
<1>4. Cardinality(used) <= 1
  <2>1. used = {} \/ used = {"first"} \/ used = {"bucket"} \/ used = {"groups"}
    BY <1>3
  <2> HIDE DEF used
  <2>2. \A x : Cardinality({x}) = 1
    BY FS_Singleton
  <2>3. Cardinality({}) = 0
    BY FS_EmptySet
  <2>4. Cardinality(used) = 0 \/ Cardinality(used) = 1
    BY <2>1, <2>2, <2>3, Zenon
  <2> QED BY <2>4
<1> QED BY <1>1, <1>2, <1>4 DEF LanesOK

\* Every variable keeps its shape, and one lane is in use at a time (class
\* TreeDraft in tree-transaction.ts).
THEOREM TypeCorrect == Spec => []TypeOK
<1>1. StorageWF /\ HostsServe => TypeOK
  <2> SUFFICES ASSUME StorageWF, HostsServe PROVE TypeOK
    OBVIOUS
  <2>1. LanesOK(intents) /\ LanesOK(baselines)
    BY LanesWFOK DEF StorageWF
  <2>2. fallbacks.single \in Atoms \cup {None} /\ (fallbacks.memo # None => fallbacks.memo \subseteq Atoms)
    BY DEF StorageWF
  <2> QED BY <2>1, <2>2 DEF TypeOK, StorageWF, HostsServe
<1> QED BY <1>1, StorageInductive, HostsServeInductive, PTL DEF Spec

\* Neither shortcut of the commit passes over an intent: the one for a single
\* intent is taken only when it is the only one, and the one for no intents only
\* when there is none (singleIntent and hasIntents in tree-transaction.ts).
THEOREM ShortcutsComplete == Spec => []ShortcutsSeeEverything
<1>1. StorageWF => ShortcutsSeeEverything
  <2> SUFFICES ASSUME StorageWF PROVE ShortcutsSeeEverything
    OBVIOUS
  <2>1. LanesWF(intents, Intent)
    BY DEF StorageWF
  <2>2. Norm(intents) \in GroupsOf(Intent) /\ ForEach(intents) = Flat(Norm(intents))
    BY <2>1, NormOK, ForEachNorm
  <2>3. ASSUME SingleIntent # None
        PROVE  Len(ForEach(intents)) = 1
    <3>1. intents.second = None /\ intents.first # None
      BY <2>3 DEF SingleIntent
    <3>2. Inline(intents) = <<intents.first>> /\ Inline(intents) \in Entries(Intent)
      BY <2>1, <3>1, InlineOK
    <3>3. intents.scope \in Scopes /\ Inline(intents) \in Seq(Intent)
      BY <2>1, <3>1, <3>2 DEF LanesWF, Entries
    <3>4. Len(Inline(intents)) = 1
      BY <3>2
    <3>5. Len(Tagged(intents.scope, Inline(intents))) = 1
      BY <3>3, <3>4, TaggedOK
    <3> QED BY <3>1, <3>5 DEF ForEach
  <2>4. HasIntents <=> Norm(intents) # <<>>
    <3>1. HasIntents <=> \/ intents.first # None \/ intents.second # None
                         \/ intents.bucket # None \/ intents.groups # None
      BY DEF HasIntents
    <3>2. None \notin Intent /\ None \notin Entries(Intent)
      BY EntryFacts
    <3> QED BY <2>1, <3>1, <3>2, Forms
  <2>5. Norm(intents) # <<>> => ForEach(intents) # <<>>
    BY <2>2, FlatNonempty
  <2>6. Norm(intents) = <<>> => ForEach(intents) = <<>>
    <3>1. Norm(intents) = <<>> => ~HasIntents
      BY <2>4
    <3>2. ~HasIntents => ForEach(intents) = <<>>
      BY DEF HasIntents, ForEach
    <3> QED BY <3>1, <3>2
  <2> QED BY <2>3, <2>4, <2>5, <2>6 DEF ShortcutsSeeEverything
<1> QED BY <1>1, StorageInductive, PTL DEF Spec

-----------------------------------------------------------------------------
(* Staging in a sequence of intents *)

\* Stage by the positions it looks for.
LEMMA StageNew ==
  ASSUME NEW q, NEW t, Draft!OfScope(q, t.scope) = {}
  PROVE  Draft!Stage(q, t) = Append(q, t)
<1>1. Draft!At(q, t.scope, t.atom) = {}
  BY DEF Draft!At
<1> QED BY <1>1 DEF Draft!Stage

\* A coordinate that was staged before: the last write wins in its place.
LEMMA StageOver ==
  ASSUME NEW q, NEW t, NEW k, Draft!At(q, t.scope, t.atom) = {k}
  PROVE  Draft!Stage(q, t) = [q EXCEPT ![k] = t]
<1>1. (CHOOSE i \in {k} : TRUE) = k
  OBVIOUS
<1> QED BY <1>1 DEF Draft!Stage

\* The last position of a scope.
LEMMA LastPosition ==
  ASSUME NEW n \in Nat, NEW S, S \subseteq 1..n, S # {}
  PROVE  \E i \in S : \A j \in S : j <= i
<1> DEFINE T == {n - i : i \in S}
<1>1. T \subseteq Nat /\ T # {}
  <2>1. ASSUME NEW i \in S PROVE n - i \in Nat
    BY <2>1
  <2> QED BY <2>1
<1>2. PICK d \in T : \A m \in T : d <= m
  <2> HIDE DEF T
  <2> QED BY <1>1, LeastNatural
<1>3. PICK i \in S : d = n - i
  BY <1>2
<1>4. ASSUME NEW j \in S PROVE j <= i
  <2>1. d <= n - j
    BY <1>2
  <2> QED BY <1>3, <2>1
<1> QED BY <1>4

\* A new atom of a scope staged before: behind the last of the scope.
LEMMA StageInScope ==
  ASSUME NEW q, NEW t, NEW k, Draft!At(q, t.scope, t.atom) = {},
         k \in Draft!OfScope(q, t.scope), \A j \in Draft!OfScope(q, t.scope) : j <= k,
         Draft!OfScope(q, t.scope) \subseteq Nat
  PROVE  Draft!Stage(q, t) = SubSeq(q, 1, k) \o <<t>> \o SubSeq(q, k + 1, Len(q))
<1> DEFINE S == Draft!OfScope(q, t.scope)
<1> HIDE DEF S
<1>1. k \in S /\ (\A j \in S : j <= k) /\ S \subseteq Nat
  BY DEF S
<1>2. (CHOOSE i \in S : \A j \in S : j <= i) = k
  <2> DEFINE c == CHOOSE i \in S : \A j \in S : j <= i
  <2>1. c \in S /\ \A j \in S : j <= c
    BY <1>1
  <2> HIDE DEF c
  <2>2. c = k
    BY <1>1, <2>1
  <2> QED BY <2>2 DEF c
<1> QED BY <1>1, <1>2, Zenon DEF Draft!Stage, S

\* The positions behind the first n.
Shifted(n, positions) == {n + i : i \in positions}

\* Concatenation of entries is associative.
LEMMA ConcatEntries ==
  ASSUME NEW x \in Seq(Entry), NEW y \in Seq(Entry), NEW z \in Seq(Entry)
  PROVE  x \o (y \o z) = (x \o y) \o z
OBVIOUS

\* What is where in a concatenation.
LEMMA ConcatAt ==
  ASSUME NEW q \in Seq(Entry), NEW r \in Seq(Entry), NEW p, p = q \o r, NEW n, n = Len(q)
  PROVE  /\ DOMAIN p = 1..(n + Len(r)) /\ DOMAIN q = 1..n /\ DOMAIN r = 1..Len(r)
         /\ n \in Nat /\ Len(r) \in Nat
         /\ \A i \in 1..n : p[i] = q[i]
         /\ \A i \in 1..Len(r) : p[n + i] = r[i]
<1>1. p \in Seq(Entry) /\ Len(p) = n + Len(r)
  BY ConcatProperties
<1>2. \A i \in 1..(n + Len(r)) : p[i] = IF i <= n THEN q[i] ELSE r[i - n]
  BY ConcatProperties
<1>3. n \in Nat /\ Len(r) \in Nat /\ DOMAIN p = 1..Len(p) /\ DOMAIN q = 1..n /\ DOMAIN r = 1..Len(r)
  BY <1>1, LenProperties
<1>4. ASSUME NEW i \in 1..n PROVE p[i] = q[i]
  BY <1>2, <1>3
<1>5. ASSUME NEW i \in 1..Len(r) PROVE p[n + i] = r[i]
  <2>1. n + i \in 1..(n + Len(r)) /\ ~(n + i <= n) /\ (n + i) - n = i
    BY <1>3
  <2> QED BY <1>2, <2>1
<1> QED BY <1>1, <1>3, <1>4, <1>5

\* The positions of a scope in a concatenation.
LEMMA OfScopeConcat ==
  ASSUME NEW q \in Seq(Entry), NEW r \in Seq(Entry), NEW s
  PROVE  Draft!OfScope(q \o r, s) = Draft!OfScope(q, s) \cup Shifted(Len(q), Draft!OfScope(r, s))
<1> DEFINE p == q \o r
           n == Len(q)
<1> HIDE DEF p, n
<1>1. /\ DOMAIN p = 1..(n + Len(r)) /\ DOMAIN q = 1..n /\ DOMAIN r = 1..Len(r)
      /\ n \in Nat /\ Len(r) \in Nat
      /\ \A i \in 1..n : p[i] = q[i]
      /\ \A i \in 1..Len(r) : p[n + i] = r[i]
  <2>1. p = q \o r /\ n = Len(q)
    BY DEF p, n
  <2> QED BY <2>1, ConcatAt
<1>2. ASSUME NEW i \in DOMAIN p, i \notin DOMAIN q
      PROVE  \E j \in DOMAIN r : i = n + j
  <2>1. i - n \in 1..Len(r) /\ i = n + (i - n)
    BY <1>1, <1>2
  <2> QED BY <1>1, <2>1
<1>3. Draft!OfScope(p, s) = Draft!OfScope(q, s) \cup Shifted(n, Draft!OfScope(r, s))
  <2>1. ASSUME NEW i \in Draft!OfScope(p, s)
        PROVE  i \in Draft!OfScope(q, s) \/ \E j \in Draft!OfScope(r, s) : i = n + j
    BY <1>1, <1>2 DEF Draft!OfScope
  <2>2. ASSUME NEW i \in Draft!OfScope(q, s) PROVE i \in Draft!OfScope(p, s)
    BY <1>1 DEF Draft!OfScope
  <2>3. ASSUME NEW j \in Draft!OfScope(r, s) PROVE n + j \in Draft!OfScope(p, s)
    BY <1>1 DEF Draft!OfScope
  <2> QED BY <2>1, <2>2, <2>3 DEF Shifted
<1> QED BY <1>3 DEF p, n

\* The positions of an atom of a scope in a concatenation.
LEMMA AtConcat ==
  ASSUME NEW q \in Seq(Entry), NEW r \in Seq(Entry), NEW s, NEW a
  PROVE  Draft!At(q \o r, s, a) = Draft!At(q, s, a) \cup Shifted(Len(q), Draft!At(r, s, a))
<1> DEFINE p == q \o r
           n == Len(q)
<1>1. Draft!OfScope(p, s) = Draft!OfScope(q, s) \cup Shifted(n, Draft!OfScope(r, s))
  BY OfScopeConcat
<1> HIDE DEF p, n
<1>2. /\ DOMAIN q = 1..n /\ DOMAIN r = 1..Len(r)
      /\ \A i \in 1..n : p[i] = q[i]
      /\ \A i \in 1..Len(r) : p[n + i] = r[i]
  <2>1. p = q \o r /\ n = Len(q)
    BY DEF p, n
  <2> QED BY <2>1, ConcatAt
<1>3. \A i \in Draft!OfScope(q, s) : p[i] = q[i]
  BY <1>2 DEF Draft!OfScope
<1>4. \A i \in Draft!OfScope(r, s) : p[n + i] = r[i]
  BY <1>2 DEF Draft!OfScope
<1>5. Draft!At(p, s, a) = Draft!At(q, s, a) \cup Shifted(n, Draft!At(r, s, a))
  BY <1>1, <1>3, <1>4 DEF Draft!At, Shifted
<1> QED BY <1>5 DEF p, n

\* The positions of a scope in the entries of one.
LEMMA OfScopeTagged ==
  ASSUME NEW s \in Scopes, NEW map \in Seq(Intent)
  PROVE  /\ Draft!OfScope(Tagged(s, map), s) = 1..Len(map)
         /\ \A x : x # s => Draft!OfScope(Tagged(s, map), x) = {}
         /\ \A a : Draft!At(Tagged(s, map), s, a) = {i \in 1..Len(map) : map[i].atom = a}
<1> DEFINE p == Tagged(s, map)
<1>1. /\ DOMAIN p = 1..Len(map)
      /\ \A i \in 1..Len(map) : p[i].scope = s /\ p[i].atom = map[i].atom
  <2>1. DOMAIN p = 1..Len(map)
    BY TaggedOK
  <2>2. \A i \in 1..Len(map) : p[i] = [scope |-> s, atom |-> map[i].atom, kind |-> map[i].kind]
    BY TaggedOK
  <2> HIDE DEF p
  <2> QED BY <2>1, <2>2
<1> HIDE DEF p
<1> QED BY <1>1 DEF p, Draft!OfScope, Draft!At

\* Staging among the entries of the scope, the last ones, is storing in its Map.
LEMMA StageHere ==
  ASSUME NEW q \in Seq(Entry), NEW s \in Scopes, NEW map \in Entries(Intent), NEW e \in Intent,
         Draft!OfScope(q, s) = {}, NEW t, t = [scope |-> s, atom |-> e.atom, kind |-> e.kind]
  PROVE  Draft!Stage(q \o Tagged(s, map), t) = q \o Tagged(s, MapSet(map, "atom", e))
<1> DEFINE next == MapSet(map, "atom", e)
           r == Tagged(s, map)
           w == Tagged(s, next)
           p == q \o r
           n == Len(q)
           m == Len(map)
<1>1. map \in Seq(Intent) /\ map # <<>> /\ Distinct(map, "atom")
  BY DEF Entries
<1>2. next \in Seq(Intent)
  BY <1>1, MapSetOK
<1>3. \A x \in Intent : x["atom"] = x.atom
  BY EntryFacts
<1>4. t \in Entry /\ t.scope = s /\ t.atom = e.atom
  BY DEF Entry, Intent
<1>5. m \in Nat \ {0} /\ n \in Nat
  BY <1>1
<1>6. /\ r \in Seq(Entry) /\ Len(r) = m /\ w \in Seq(Entry) /\ Len(w) = Len(next)
  BY <1>1, <1>2, TaggedOK
<1>7. p \in Seq(Entry) /\ Len(p) = n + m
  <2> HIDE DEF r, m
  <2>1. p \in Seq(Entry)
    BY <1>6, ConcatProperties
  <2>2. Len(p) = Len(q) + Len(r)
    BY <1>6, ConcatProperties
  <2> QED BY <1>6, <2>1, <2>2
<1>8. Draft!OfScope(p, s) = Shifted(n, 1..m)
  <2>1. Draft!OfScope(r, s) = 1..m
    BY <1>1, OfScopeTagged
  <2> HIDE DEF r, m
  <2>2. Draft!OfScope(p, s) = Draft!OfScope(q, s) \cup Shifted(n, Draft!OfScope(r, s))
    BY <1>6, OfScopeConcat
  <2> HIDE DEF p, n
  <2> QED BY <2>1, <2>2
<1>9. Draft!At(p, s, e.atom) = Shifted(n, {j \in 1..m : map[j].atom = e.atom})
  <2>1. Draft!At(r, s, e.atom) = {j \in 1..m : map[j].atom = e.atom}
    BY <1>1, OfScopeTagged
  <2>2. Draft!At(q, s, e.atom) = {}
    BY DEF Draft!At
  <2> HIDE DEF r, m
  <2>3. Draft!At(p, s, e.atom) = Draft!At(q, s, e.atom) \cup Shifted(n, Draft!At(r, s, e.atom))
    <3> DEFINE a == e.atom
    <3> HIDE DEF a
    <3>1. Draft!At(q \o r, s, a) = Draft!At(q, s, a) \cup Shifted(Len(q), Draft!At(r, s, a))
      BY <1>6, AtConcat
    <3> QED BY <3>1 DEF a
  <2> HIDE DEF p, n
  <2> QED BY <2>1, <2>2, <2>3
<1>10. ASSUME \A j \in DOMAIN map : map[j]["atom"] # e["atom"], next = Append(map, e)
       PROVE  Draft!Stage(p, t) = q \o w
  <2>1. \A j \in 1..m : map[j].atom # e.atom
    BY <1>1, <1>3, <1>10
  <2>2. Draft!At(p, s, e.atom) = {}
    <3> HIDE DEF p, n, m
    <3> QED BY <1>9, <2>1 DEF Shifted
  <2>3. Draft!Stage(p, t) = SubSeq(p, 1, n + m) \o <<t>> \o SubSeq(p, n + m + 1, Len(p))
    <3>1. /\ n + m \in Draft!OfScope(p, s)
          /\ \A j \in Draft!OfScope(p, s) : j <= n + m
          /\ Draft!OfScope(p, s) \subseteq Nat
      <4> HIDE DEF n, m, p
      <4> QED BY <1>5, <1>8 DEF Shifted
    <3> HIDE DEF p, n, m
    <3> QED BY <1>4, <2>2, <3>1, StageInScope
  <2>4. SubSeq(p, 1, n + m) = p /\ SubSeq(p, n + m + 1, Len(p)) = <<>>
    <3> HIDE DEF p, n, m
    <3> QED BY <1>5, <1>7, SubSeqFull, SubSeqEmpty
  <2>5. Draft!Stage(p, t) = p \o <<t>>
    <3>1. <<t>> \in Seq(Entry)
      BY <1>4
    <3>2. p \o <<t>> \in Seq(Entry)
      BY <1>7, <3>1, ConcatProperties
    <3>3. (p \o <<t>>) \o <<>> = p \o <<t>>
      BY <3>2, ConcatEmptySeq
    <3> HIDE DEF p, n, m
    <3> QED BY <2>3, <2>4, <3>3
  <2>6. w = r \o <<t>>
    <3>1. /\ Len(next) = m + 1 /\ next[m + 1] = e
          /\ \A i \in 1..m : next[i] = map[i]
      BY <1>1, <1>10
    <3>2. /\ \A i \in 1..m : r[i] = [scope |-> s, atom |-> map[i].atom, kind |-> map[i].kind]
          /\ \A i \in 1..Len(next) :
               w[i] = [scope |-> s, atom |-> next[i].atom, kind |-> next[i].kind]
      BY <1>1, <1>2, TaggedOK
    <3> DEFINE a == r \o <<t>>
    <3>3. /\ a \in Seq(Entry) /\ Len(a) = m + 1
          /\ \A i \in 1..m + 1 : a[i] = IF i <= m THEN r[i] ELSE <<t>>[i - m]
      <4> DEFINE u == <<t>>
      <4>1. u \in Seq(Entry) /\ Len(u) = 1
        BY <1>4
      <4> HIDE DEF u, r, m
      <4> QED BY <1>6, <4>1, ConcatProperties DEF u
    <3> HIDE DEF a, r, w, next, m
    <3>4. ASSUME NEW i \in 1..(m + 1)
          PROVE  w[i] = a[i]
      <4>1. CASE i \in 1..m
        <5>1. w[i] = [scope |-> s, atom |-> map[i].atom, kind |-> map[i].kind]
          BY <1>5, <3>1, <3>2, <4>1
        <5>2. a[i] = r[i]
          BY <1>5, <3>3, <4>1
        <5> QED BY <3>2, <4>1, <5>1, <5>2
      <4>2. CASE i = m + 1
        <5>1. w[i] = t
          BY <1>5, <3>1, <3>2, <4>2
        <5>2. a[i] = <<t>>[1]
          BY <1>5, <3>3, <4>2
        <5> QED BY <5>1, <5>2
      <4> QED BY <1>5, <4>1, <4>2
    <3>5. w = a
      BY <1>6, <3>1, <3>3, <3>4, SeqEqual
    <3> QED BY <3>5 DEF a
  <2>7. p \o <<t>> = q \o w
    <3>1. <<t>> \in Seq(Entry)
      BY <1>4
    <3> HIDE DEF r, w
    <3> QED BY <1>6, <2>6, <3>1, ConcatEntries
  <2> QED BY <2>5, <2>7
<1>11. ASSUME NEW k \in DOMAIN map, map[k]["atom"] = e["atom"], next = [map EXCEPT ![k] = e]
       PROVE  Draft!Stage(p, t) = q \o w
  <2>1. k \in 1..m /\ {j \in 1..m : map[j].atom = e.atom} = {k}
    BY <1>1, <1>3, <1>11 DEF Distinct
  <2>2. Draft!At(p, s, e.atom) = {n + k}
    <3> HIDE DEF p, n, m
    <3> QED BY <1>9, <2>1 DEF Shifted
  <2>3. Draft!Stage(p, t) = [p EXCEPT ![n + k] = t]
    <3> HIDE DEF p, n
    <3> QED BY <1>4, <2>2, StageOver
  <2>4. /\ Len(next) = m /\ next[k] = e
        /\ \A i \in 1..m : i # k => next[i] = map[i]
    BY <1>1, <1>11, <2>1
  <2>5. /\ \A i \in 1..m : r[i] = [scope |-> s, atom |-> map[i].atom, kind |-> map[i].kind]
        /\ \A i \in 1..m : w[i] = [scope |-> s, atom |-> next[i].atom, kind |-> next[i].kind]
    BY <1>1, <1>2, <2>4, TaggedOK
  <2> DEFINE a == q \o w
             b == [p EXCEPT ![n + k] = t]
  <2>6. /\ a \in Seq(Entry) /\ Len(a) = n + m
        /\ \A i \in 1..(n + m) : a[i] = IF i <= n THEN q[i] ELSE w[i - n]
    <3> HIDE DEF w, n, m
    <3> QED BY <1>6, <2>4, ConcatProperties DEF n
  <2>7. \A i \in 1..(n + m) : p[i] = IF i <= n THEN q[i] ELSE r[i - n]
    <3> HIDE DEF r, n, m
    <3> QED BY <1>6, ConcatProperties DEF n
  <2>8. /\ b \in Seq(Entry) /\ Len(b) = n + m
        /\ \A i \in 1..(n + m) : b[i] = IF i = n + k THEN t ELSE p[i]
    <3>1. n + k \in 1..Len(p)
      <4> HIDE DEF n, m, p
      <4> QED BY <1>5, <1>7, <2>1
    <3> HIDE DEF p, n, m
    <3> QED BY <1>4, <1>7, <3>1, ExceptSeq
  <2> HIDE DEF a, b, p, r, w, next, n, m
  <2>9. ASSUME NEW i \in 1..(n + m)
        PROVE  a[i] = b[i]
    <3>1. CASE i <= n
      BY <1>5, <2>1, <2>6, <2>7, <2>8, <3>1
    <3>2. CASE i > n /\ i # n + k
      <4>1. i - n \in 1..m /\ i - n # k
        BY <1>5, <2>1, <3>2
      <4>2. a[i] = w[i - n] /\ b[i] = r[i - n]
        BY <1>5, <2>6, <2>7, <2>8, <3>2
      <4> DEFINE j == i - n
      <4> HIDE DEF j
      <4>3. r[j] = [scope |-> s, atom |-> map[j].atom, kind |-> map[j].kind]
            /\ w[j] = [scope |-> s, atom |-> next[j].atom, kind |-> next[j].kind]
        BY <2>5, <4>1 DEF j
      <4>4. next[j] = map[j]
        BY <2>4, <4>1 DEF j
      <4> QED BY <4>2, <4>3, <4>4 DEF j
    <3>3. CASE i = n + k
      <4>1. a[i] = w[k] /\ b[i] = t
        BY <1>5, <2>1, <2>6, <2>8, <3>3
      <4>2. w[k] = [scope |-> s, atom |-> next[k].atom, kind |-> next[k].kind]
        BY <2>1, <2>5
      <4> QED BY <2>4, <4>1, <4>2
    <3> QED BY <1>5, <3>1, <3>2, <3>3
  <2>10. a = b
    BY <2>6, <2>8, <2>9, SeqEqual
  <2> QED BY <2>3, <2>10 DEF a, b
<1>12. Draft!Stage(p, t) = q \o w
  <2>1. \/ (\A j \in DOMAIN map : map[j]["atom"] # e["atom"]) /\ next = Append(map, e)
        \/ \E k \in DOMAIN map : map[k]["atom"] = e["atom"] /\ next = [map EXCEPT ![k] = e]
    BY MapSetCases
  <2> HIDE DEF next, p, w
  <2> QED BY <1>10, <1>11, <2>1
<1> QED BY <1>12

\* Entries of other scopes after the scope's do not take part in a stage.
LEMMA StageExtends ==
  ASSUME NEW q \in Seq(Entry), NEW r \in Seq(Entry), NEW t \in Entry,
         Draft!OfScope(q, t.scope) # {}, Draft!OfScope(r, t.scope) = {}
  PROVE  /\ Draft!Stage(q \o r, t) = Draft!Stage(q, t) \o r
         /\ Draft!Stage(q, t) \in Seq(Entry)
         /\ Draft!OfScope(q \o r, t.scope) # {}
<1> DEFINE s == t.scope
           p == q \o r
           n == Len(q)
           m == Len(r)
           here == Draft!At(q, s, t.atom)
           group == Draft!OfScope(q, s)
<1>1. n \in Nat /\ m \in Nat /\ DOMAIN q = 1..n
  BY LenProperties
<1>2. p \in Seq(Entry) /\ Len(p) = n + m /\ \A i \in 1..(n + m) : p[i] = IF i <= n THEN q[i] ELSE r[i - n]
  BY ConcatProperties
<1>3. Draft!OfScope(p, s) = group
  <2>1. Draft!OfScope(p, s) = Draft!OfScope(q, s) \cup Shifted(n, Draft!OfScope(r, s))
    BY OfScopeConcat
  <2> HIDE DEF p, n
  <2> QED BY <2>1 DEF Shifted
<1>4. Draft!At(p, s, t.atom) = here
  <2>1. \A a : Draft!At(p, s, a) = Draft!At(q, s, a) \cup Shifted(n, Draft!At(r, s, a))
    BY AtConcat
  <2>2. Draft!At(r, s, t.atom) = {}
    BY DEF Draft!At
  <2>3. Draft!At(p, s, t.atom) = Draft!At(q, s, t.atom) \cup Shifted(n, Draft!At(r, s, t.atom))
    BY <2>1, Zenon
  <2> HIDE DEF p, n
  <2> QED BY <2>2, <2>3 DEF Shifted
<1>5. group # {} /\ group \subseteq 1..n
  BY <1>1 DEF Draft!OfScope
<1>6. here \subseteq 1..n
  BY <1>5 DEF Draft!At
<1> HIDE DEF p, n, m, here, group, s
<1>7. CASE here # {}
  <2> DEFINE k == CHOOSE i \in here : TRUE
  <2>1. k \in 1..n
    BY <1>6, <1>7
  <2>2. Draft!Stage(q, t) = [q EXCEPT ![k] = t]
    BY <1>7, Zenon DEF Draft!Stage, here, s
  <2>3. Draft!Stage(p, t) = [p EXCEPT ![k] = t]
    <3>1. Draft!At(p, t.scope, t.atom) = here
      BY <1>4 DEF s
    <3> QED BY <1>7, <3>1, Zenon DEF Draft!Stage
  <2> HIDE DEF k
  <2> DEFINE a == [q EXCEPT ![k] = t]
             b == [p EXCEPT ![k] = t]
  <2>4. a \in Seq(Entry) /\ Len(a) = n /\ \A i \in 1..n : a[i] = IF i = k THEN t ELSE q[i]
    <3>1. k \in 1..Len(q)
      BY <2>1 DEF n
    <3> QED BY <3>1, ExceptSeq DEF n
  <2>5. b \in Seq(Entry) /\ Len(b) = n + m /\ \A i \in 1..(n + m) : b[i] = IF i = k THEN t ELSE p[i]
    <3>1. k \in 1..Len(p)
      BY <1>1, <1>2, <2>1
    <3> HIDE DEF b
    <3>2. b \in Seq(Entry)
      BY <1>2, <3>1, ExceptSeq DEF b
    <3>3. Len(b) = Len(p)
      BY <1>2, <3>1, ExceptSeq DEF b
    <3>4. \A i \in 1..Len(p) : b[i] = IF i = k THEN t ELSE p[i]
      BY <1>2, <3>1, ExceptSeq DEF b
    <3> QED BY <1>2, <3>2, <3>3, <3>4
  <2> HIDE DEF a, b
  <2>6. a \o r \in Seq(Entry) /\ Len(a \o r) = n + m
        /\ \A i \in 1..(n + m) : (a \o r)[i] = IF i <= n THEN a[i] ELSE r[i - n]
    <3>1. a \o r \in Seq(Entry)
      BY <2>4, ConcatProperties
    <3>2. Len(a \o r) = Len(a) + Len(r)
      BY <2>4, ConcatProperties
    <3>3. \A i \in 1..(Len(a) + Len(r)) : (a \o r)[i] = IF i <= Len(a) THEN a[i] ELSE r[i - Len(a)]
      BY <2>4, ConcatProperties
    <3> QED BY <2>4, <3>1, <3>2, <3>3 DEF m
  <2> DEFINE c == a \o r
  <2> HIDE DEF c
  <2>7. \A i \in 1..(n + m) : b[i] = c[i]
    <3>1. ASSUME NEW i \in 1..(n + m)
          PROVE  b[i] = c[i]
      <4>1. CASE i <= n
        <5>1. i \in 1..n
          BY <1>1, <4>1
        <5>2. c[i] = a[i]
          BY <2>6, <4>1 DEF c
        <5>3. a[i] = IF i = k THEN t ELSE q[i]
          BY <2>4, <5>1
        <5>4. p[i] = q[i]
          BY <1>2, <4>1
        <5> QED BY <2>5, <5>2, <5>3, <5>4
      <4>2. CASE ~(i <= n)
        <5>1. i # k
          BY <1>1, <2>1, <4>2
        <5>2. c[i] = r[i - n]
          BY <2>6, <4>2 DEF c
        <5>3. b[i] = p[i]
          BY <2>5, <5>1
        <5>4. p[i] = r[i - n]
          BY <1>2, <4>2
        <5> QED BY <5>2, <5>3, <5>4
      <4> QED BY <4>1, <4>2
    <3> QED BY <3>1
  <2>8. b = c
    BY <2>5, <2>6, <2>7, SeqEqual DEF c
  <2>9. Draft!Stage(p, t) = Draft!Stage(q, t) \o r
    BY <2>2, <2>3, <2>8 DEF a, b, c
  <2>10. Draft!Stage(q, t) \in Seq(Entry)
    BY <2>2, <2>4 DEF a
  <2> QED BY <1>3, <1>5, <2>9, <2>10 DEF p, s
<1>8. CASE here = {}
  <2>1. PICK k \in group : \A j \in group : j <= k
    BY <1>1, <1>5, LastPosition
  <2>2. k \in 1..n
    BY <1>5
  <2> DEFINE a == SubSeq(q, 1, k)
             b == SubSeq(q, k + 1, n)
             u == <<t>>
  <2>3. Draft!Stage(q, t) = (a \o u) \o b
    <3>1. /\ Draft!At(q, t.scope, t.atom) = {} /\ k \in Draft!OfScope(q, t.scope)
          /\ \A j \in Draft!OfScope(q, t.scope) : j <= k
          /\ Draft!OfScope(q, t.scope) \subseteq Nat
      BY <1>1, <1>5, <1>8, <2>1 DEF here, group, s
    <3> QED BY <3>1, StageInScope DEF n
  <2>4. Draft!Stage(p, t) = (SubSeq(p, 1, k) \o u) \o SubSeq(p, k + 1, Len(p))
    <3>1. /\ Draft!At(p, t.scope, t.atom) = {} /\ k \in Draft!OfScope(p, t.scope)
          /\ \A j \in Draft!OfScope(p, t.scope) : j <= k
          /\ Draft!OfScope(p, t.scope) \subseteq Nat
      <4>1. Draft!At(p, t.scope, t.atom) = {}
        BY <1>4, <1>8 DEF s
      <4>2. Draft!OfScope(p, t.scope) = group
        BY <1>3 DEF s
      <4>3. group \subseteq Nat
        BY <1>1, <1>5
      <4> QED BY <2>1, <4>1, <4>2, <4>3
    <3> QED BY <3>1, StageInScope
  <2>5. /\ a \in Seq(Entry) /\ Len(a) = k /\ \A i \in 1..k : a[i] = q[i]
    <3>1. \A i \in 1..k : q[i] \in Entry
      BY <1>1, <2>2
    <3>2. 1 \in Int /\ k \in Int /\ 1 <= k
      BY <1>1, <2>2
    <3> HIDE DEF a
    <3>3. a \in Seq(Entry)
      BY <3>1, <3>2, SubSeqProperties DEF a
    <3>4. Len(a) = IF 1 <= k THEN k - 1 + 1 ELSE 0
      BY <3>1, <3>2, SubSeqProperties DEF a
    <3>5. \A i \in 1..(k - 1 + 1) : a[i] = q[1 + i - 1]
      BY <3>1, <3>2, SubSeqProperties DEF a
    <3>6. k - 1 + 1 = k
      BY <3>2
    <3>7. \A i \in 1..k : 1 + i - 1 = i
      OBVIOUS
    <3> QED BY <3>2, <3>3, <3>4, <3>5, <3>6, <3>7
  <2>6. /\ b \in Seq(Entry) /\ Len(b) = n - k /\ \A i \in 1..(n - k) : b[i] = q[k + i]
    <3>1. \A i \in (k + 1)..n : q[i] \in Entry
      BY <1>1, <2>2
    <3>2. k + 1 \in Int /\ n \in Int /\ n - (k + 1) + 1 = n - k
      BY <1>1, <2>2
    <3> HIDE DEF b
    <3>3. b \in Seq(Entry)
      BY <3>1, <3>2, SubSeqProperties DEF b
    <3>4. Len(b) = IF k + 1 <= n THEN n - (k + 1) + 1 ELSE 0
      BY <3>1, <3>2, SubSeqProperties DEF b
    <3>5. \A i \in 1..(n - (k + 1) + 1) : b[i] = q[(k + 1) + i - 1]
      BY <3>1, <3>2, SubSeqProperties DEF b
    <3>6. Len(b) = n - k
      BY <1>1, <2>2, <3>4
    <3>7. \A i \in 1..(n - k) : (k + 1) + i - 1 = k + i
      BY <2>2
    <3> QED BY <3>2, <3>3, <3>5, <3>6, <3>7
  <2>7. SubSeq(p, 1, k) = a
    <3> DEFINE x == SubSeq(p, 1, k)
    <3>1. \A i \in 1..k : p[i] = q[i] /\ q[i] \in Entry
      BY <1>1, <1>2, <2>2
    <3>2. 1 \in Int /\ k \in Int /\ 1 <= k /\ k - 1 + 1 = k
      BY <1>1, <2>2
    <3>3. \A i \in 1..k : p[i] \in Entry
      BY <3>1
    <3> HIDE DEF x
    <3>4. x \in Seq(Entry)
      BY <3>2, <3>3, SubSeqProperties DEF x
    <3>5. Len(x) = IF 1 <= k THEN k - 1 + 1 ELSE 0
      BY <3>2, <3>3, SubSeqProperties DEF x
    <3>6. \A i \in 1..(k - 1 + 1) : x[i] = p[1 + i - 1]
      BY <3>2, <3>3, SubSeqProperties DEF x
    <3>7. \A i \in 1..k : 1 + i - 1 = i
      OBVIOUS
    <3>8. \A i \in 1..k : x[i] = a[i]
      BY <2>5, <3>1, <3>2, <3>6, <3>7
    <3>9. Len(x) = k
      BY <3>2, <3>5
    <3> HIDE DEF a
    <3>10. x = a
      BY <2>5, <3>4, <3>8, <3>9, SeqEqual
    <3> QED BY <3>10 DEF x
  <2>8. SubSeq(p, k + 1, Len(p)) = b \o r
    <3> DEFINE x == SubSeq(p, k + 1, n + m)
               y == b \o r
    <3>1. \A i \in (k + 1)..(n + m) : p[i] \in Entry
      BY <1>1, <1>2, <2>2
    <3>2. k + 1 \in Int /\ n + m \in Int /\ (n + m) - (k + 1) + 1 = (n + m) - k
      BY <1>1, <2>2
    <3> HIDE DEF x, b
    <3>3. x \in Seq(Entry)
      BY <3>1, <3>2, SubSeqProperties DEF x
    <3>4. Len(x) = IF k + 1 <= n + m THEN (n + m) - (k + 1) + 1 ELSE 0
      BY <3>1, <3>2, SubSeqProperties DEF x
    <3>5. \A i \in 1..((n + m) - (k + 1) + 1) : x[i] = p[(k + 1) + i - 1]
      BY <3>1, <3>2, SubSeqProperties DEF x
    <3>6. Len(x) = (n + m) - k
      BY <1>1, <2>2, <3>4
    <3>7. y \in Seq(Entry)
      BY <2>6, ConcatProperties
    <3>8. Len(y) = Len(b) + Len(r)
      BY <2>6, ConcatProperties
    <3>9. \A i \in 1..(Len(b) + Len(r)) : y[i] = IF i <= Len(b) THEN b[i] ELSE r[i - Len(b)]
      BY <2>6, ConcatProperties
    <3> HIDE DEF y
    <3>10. Len(y) = (n + m) - k
      BY <1>1, <2>2, <2>6, <3>8 DEF m
    <3>11. ASSUME NEW i \in 1..((n + m) - k)
           PROVE  x[i] = y[i]
      <4>1. x[i] = p[k + i]
        <5>1. (k + 1) + i - 1 = k + i
          BY <2>2
        <5> QED BY <3>2, <3>5, <5>1
      <4>2. k + i \in 1..(n + m)
        BY <1>1, <2>2
      <4>3. i \in 1..(Len(b) + Len(r))
        BY <3>8, <3>10
      <4>4. CASE i <= n - k
        <5>1. k + i <= n /\ i \in 1..(n - k)
          BY <1>1, <2>2, <4>4
        <5>2. p[k + i] = q[k + i]
          BY <1>2, <4>2, <5>1
        <5>3. y[i] = b[i]
          BY <2>6, <3>9, <4>3, <4>4
        <5> QED BY <2>6, <4>1, <5>1, <5>2, <5>3
      <4>5. CASE ~(i <= n - k)
        <5>1. ~(k + i <= n) /\ (k + i) - n = i - (n - k)
          BY <1>1, <2>2, <4>5
        <5>2. p[k + i] = r[(k + i) - n]
          BY <1>2, <4>2, <5>1
        <5>3. y[i] = r[i - (n - k)]
          BY <2>6, <3>9, <4>3, <4>5
        <5> QED BY <4>1, <5>1, <5>2, <5>3
      <4> QED BY <4>4, <4>5
    <3>12. x = y
      BY <3>3, <3>6, <3>7, <3>10, <3>11, SeqEqual
    <3> QED BY <1>2, <3>12 DEF x, y
  <2> HIDE DEF a, b, u
  <2>9. u \in Seq(Entry)
    BY DEF u
  <2>10. a \o u \in Seq(Entry)
    BY <2>5, <2>9, ConcatProperties
  <2>11. (a \o u) \o (b \o r) = ((a \o u) \o b) \o r
    <3>1. b \in Seq(Entry)
      BY <2>6
    <3> QED BY <2>10, <3>1, ConcatEntries, Zenon
  <2>12. (a \o u) \o b \in Seq(Entry)
    BY <2>6, <2>10, ConcatProperties
  <2>13. Draft!Stage(p, t) = Draft!Stage(q, t) \o r
    BY <2>3, <2>4, <2>7, <2>8, <2>11
  <2> QED BY <1>3, <1>5, <2>3, <2>12, <2>13 DEF p, s
<1> QED BY <1>7, <1>8

\* A group's entries have its scope and no other.
LEMMA GroupTagged ==
  ASSUME NEW gs \in GroupsOf(Intent), NEW i \in 1..Len(gs)
  PROVE  /\ gs[i].scope \in Scopes /\ gs[i].entries \in Entries(Intent)
         /\ Tagged(gs[i].scope, gs[i].entries) \in Seq(Entry)
         /\ \A s : s # gs[i].scope => Draft!OfScope(Tagged(gs[i].scope, gs[i].entries), s) = {}
         /\ Draft!OfScope(Tagged(gs[i].scope, gs[i].entries), gs[i].scope) # {}
<1>1. gs[i].scope \in Scopes /\ gs[i].entries \in Entries(Intent)
  <2> DEFINE G == [scope : Scopes, entries : Entries(Intent)]
  <2>1. gs \in Seq(G)
    BY DEF GroupsOf
  <2> HIDE DEF G
  <2>2. gs[i] \in G
    BY <2>1
  <2> QED BY <2>2 DEF G
<1> DEFINE s == gs[i].scope
           map == gs[i].entries
<1>2. s \in Scopes /\ map \in Seq(Intent) /\ map # <<>>
  BY <1>1 DEF Entries
<1> HIDE DEF s, map
<1>3. Tagged(s, map) \in Seq(Entry)
  BY <1>2, TaggedOK
<1>4. \A x : x # s => Draft!OfScope(Tagged(s, map), x) = {}
  BY <1>2, OfScopeTagged
<1>5. Draft!OfScope(Tagged(s, map), s) = 1..Len(map)
  BY <1>2, OfScopeTagged
<1>6. 1 \in 1..Len(map)
  BY <1>2
<1>7. Draft!OfScope(Tagged(s, map), s) # {}
  BY <1>5, <1>6
<1> QED BY <1>1, <1>3, <1>4, <1>7 DEF s, map

\* A visit that passes no group of a scope meets no entry of it.
LEMMA VisitOtherScopes ==
  ASSUME NEW gs \in GroupsOf(Intent), NEW v, Visit(gs, v), NEW s,
         NEW k \in 0..Len(gs), \A i \in 1..k : gs[i].scope # s
  PROVE  \A i \in 0..k : v[i] \in Seq(Entry) /\ Draft!OfScope(v[i], s) = {}
<1> DEFINE S == {i \in 0..k : Draft!OfScope(v[i], s) = {}}
<1>1. k \in Nat /\ Len(gs) \in Nat
  BY DEF GroupsOf
<1>2. \A i \in 0..k : v[i] \in Seq(Entry)
  BY <1>1 DEF Visit
<1>3. 0 \in S
  <2>1. Draft!OfScope(<<>>, s) = {}
    BY DEF Draft!OfScope
  <2> QED BY <1>1, <2>1 DEF Visit
<1>4. ASSUME NEW i \in 1..k, i - 1 \in S
      PROVE  i \in S
  <2> DEFINE r == Tagged(gs[i].scope, gs[i].entries)
  <2>1. i \in 1..Len(gs) /\ i - 1 \in 0..k /\ i \in 0..k
    BY <1>1
  <2>2. r \in Seq(Entry) /\ Draft!OfScope(r, s) = {}
    BY <2>1, GroupTagged
  <2>3. v[i] = v[i - 1] \o r /\ v[i - 1] \in Seq(Entry) /\ Draft!OfScope(v[i - 1], s) = {}
    BY <1>2, <1>4, <2>1 DEF Visit
  <2> HIDE DEF r
  <2> DEFINE q == v[i - 1]
  <2> HIDE DEF q
  <2>4. Draft!OfScope(q \o r, s) = Draft!OfScope(q, s) \cup Shifted(Len(q), Draft!OfScope(r, s))
    BY <2>2, <2>3, OfScopeConcat DEF q
  <2>5. Draft!OfScope(q \o r, s) = {}
    BY <2>2, <2>3, <2>4 DEF q, Shifted
  <2> QED BY <2>1, <2>3, <2>5 DEF q
<1>5. \A i \in 0..k : i \in S
  <2> HIDE DEF S
  <2> QED BY <1>1, <1>3, <1>4, IntervalInduction
<1> QED BY <1>2, <1>5

\* Two lists with the same first groups are visited alike up to there.
LEMMA VisitPrefix ==
  ASSUME NEW gs \in GroupsOf(Intent), NEW hs \in GroupsOf(Intent), NEW v, NEW w,
         Visit(gs, v), Visit(hs, w),
         NEW k \in Nat, k <= Len(gs), k <= Len(hs), \A i \in 1..k : gs[i] = hs[i]
  PROVE  \A i \in 0..k : v[i] = w[i]
<1> DEFINE S == {i \in 0..k : v[i] = w[i]}
<1>1. Len(gs) \in Nat /\ Len(hs) \in Nat
  BY DEF GroupsOf
<1>2. 0 \in S
  BY DEF Visit
<1>3. ASSUME NEW i \in 1..k, i - 1 \in S
      PROVE  i \in S
  <2>1. i \in 1..Len(gs) /\ i \in 1..Len(hs) /\ i \in 0..k
    BY <1>1
  <2>2. v[i] = v[i - 1] \o Tagged(gs[i].scope, gs[i].entries)
    BY <2>1 DEF Visit
  <2>3. w[i] = w[i - 1] \o Tagged(hs[i].scope, hs[i].entries)
    BY <2>1 DEF Visit
  <2>4. gs[i] = hs[i] /\ v[i - 1] = w[i - 1]
    BY <1>3
  <2>5. v[i] = w[i]
    BY <2>2, <2>3, <2>4
  <2> QED BY <2>1, <2>5
<1>4. \A i \in 0..k : i \in S
  <2> HIDE DEF S
  <2> QED BY <1>2, <1>3, IntervalInduction
<1> QED BY <1>4

\* Storing an intent in the groups stages it in the sequence they are visited in.
LEMMA FlatStage ==
  ASSUME NEW gs \in GroupsOf(Intent), NEW s \in Scopes, NEW e \in Intent,
         NEW t, t = [scope |-> s, atom |-> e.atom, kind |-> e.kind]
  PROVE  Flat(PutGroup(gs, s, e)) = Draft!Stage(Flat(gs), t)
<1> DEFINE hs == PutGroup(gs, s, e)
           n == Len(gs)
           entries == MapSet(GroupEntries(gs, s), "atom", e)
           g == [scope |-> s, entries |-> entries]
<1>1. hs \in GroupsOf(Intent) /\ n \in Nat
  <2>1. hs \in GroupsOf(Intent)
    BY PutGroupOK
  <2> QED BY <2>1 DEF GroupsOf
<1>2. PICK v : Visit(gs, v) /\ Flat(gs) = v[n]
  BY FlatVisit
<1>3. PICK w : Visit(hs, w) /\ Flat(hs) = w[Len(hs)]
  <2> HIDE DEF hs
  <2> QED BY <1>1, FlatVisit
<1>4. t \in Entry /\ t.scope = s
  BY DEF Entry, Intent
<1>5. \A i \in DOMAIN gs : gs[i]["scope"] = gs[i].scope
  OBVIOUS
<1>6. DOMAIN gs = 1..n /\ g["scope"] = s /\ g.scope = s /\ g.entries = entries
  BY DEF GroupsOf
<1>7. \A i \in 1..n : gs[i].scope \in Scopes /\ gs[i].entries \in Entries(Intent)
  BY GroupTagged
<1>8. hs = MapSet(gs, "scope", g)
  BY DEF PutGroup
<1> HIDE DEF hs, g, entries
<1>9. ASSUME \A i \in DOMAIN gs : gs[i].scope # s, hs = Append(gs, g)
      PROVE  Flat(hs) = Draft!Stage(Flat(gs), t)
  <2>1. Len(hs) = n + 1 /\ hs[n + 1] = g /\ \A i \in 1..n : gs[i] = hs[i]
    BY <1>9 DEF GroupsOf
  <2>2. v[n] = w[n]
    <3>1. \A i \in 0..n : v[i] = w[i]
      <4>1. n <= Len(gs) /\ n <= Len(hs)
        BY <1>1, <2>1
      <4> HIDE DEF n
      <4> QED BY <1>1, <1>2, <1>3, <2>1, <4>1, VisitPrefix
    <3> QED BY <1>1, <3>1
  <2>3. v[n] \in Seq(Entry) /\ Draft!OfScope(v[n], s) = {}
    <3>1. \A i \in 1..n : gs[i].scope # s
      BY <1>6, <1>9
    <3>2. n \in 0..Len(gs) /\ n \in 0..n
      BY <1>1
    <3> HIDE DEF n
    <3>3. \A i \in 0..n : v[i] \in Seq(Entry) /\ Draft!OfScope(v[i], s) = {}
      BY <1>2, <3>1, <3>2, VisitOtherScopes
    <3> QED BY <3>2, <3>3
  <2>4. w[n + 1] = w[n] \o Tagged(s, <<e>>)
    <3>1. n + 1 \in 1..Len(hs) /\ (n + 1) - 1 = n
      BY <1>1, <2>1
    <3>2. w[n + 1] = w[(n + 1) - 1] \o Tagged(hs[n + 1].scope, hs[n + 1].entries)
      BY <1>3, <3>1 DEF Visit
    <3>3. GroupEntries(gs, s) = <<>>
      BY <1>9, GroupEntriesOK
    <3>4. entries = <<e>>
      BY <3>3, MapSetSmall DEF entries
    <3> QED BY <1>6, <2>1, <3>1, <3>2, <3>4
  <2>5. Tagged(s, <<e>>) = <<t>>
    <3> DEFINE map == <<e>>
    <3>1. map \in Seq(Intent) /\ Len(map) = 1 /\ map[1] = e
      OBVIOUS
    <3> HIDE DEF map
    <3>2. /\ Tagged(s, map) \in Seq(Entry) /\ Len(Tagged(s, map)) = 1
      BY <3>1, TaggedOK
    <3>3. Tagged(s, map)[1] = t
      <4>1. \A i \in 1..Len(map) :
              Tagged(s, map)[i] = [scope |-> s, atom |-> map[i].atom, kind |-> map[i].kind]
        BY <3>1, TaggedOK
      <4> QED BY <3>1, <4>1
    <3>4. Tagged(s, map) = <<t>>
      <4>1. <<t>> \in Seq(Entry) /\ Len(<<t>>) = 1 /\ <<t>>[1] = t
        BY <1>4
      <4> QED BY <3>2, <3>3, <4>1, SeqEqual
    <3> QED BY <3>4 DEF map
  <2>6. Draft!Stage(v[n], t) = Append(v[n], t)
    BY <1>4, <2>3, StageNew
  <2>7. Append(v[n], t) = v[n] \o <<t>>
    BY <1>4, <2>3, AppendIsConcat
  <2> QED BY <1>2, <1>3, <2>1, <2>2, <2>4, <2>5, <2>6, <2>7
<1>10. ASSUME NEW k \in DOMAIN gs, gs[k].scope = s, hs = [gs EXCEPT ![k] = g]
       PROVE  Flat(hs) = Draft!Stage(Flat(gs), t)
  <2>1. /\ k \in 1..n /\ Len(hs) = n /\ hs[k] = g /\ k - 1 \in Nat
        /\ \A i \in 1..n : i # k => hs[i] = gs[i]
    BY <1>1, <1>6, <1>10 DEF GroupsOf
  <2>2. \A i \in 1..n : gs[i].scope = s => i = k
    <3>1. Distinct(gs, "scope")
      BY DEF GroupsOf
    <3> QED BY <1>5, <1>6, <1>10, <3>1 DEF Distinct
  <2>3. v[k - 1] = w[k - 1]
    <3>1. k - 1 <= Len(gs) /\ k - 1 <= Len(hs) /\ \A i \in 1..(k - 1) : gs[i] = hs[i]
      BY <1>1, <2>1
    <3> DEFINE d == k - 1
    <3>2. d \in Nat /\ d <= Len(gs) /\ d <= Len(hs) /\ (\A i \in 1..d : gs[i] = hs[i]) /\ d \in 0..d
      BY <2>1, <3>1
    <3> HIDE DEF d
    <3>3. \A i \in 0..d : v[i] = w[i]
      BY <1>1, <1>2, <1>3, <3>2, VisitPrefix
    <3>4. v[d] = w[d]
      BY <3>2, <3>3
    <3> QED BY <3>4 DEF d
  <2>4. v[k - 1] \in Seq(Entry) /\ Draft!OfScope(v[k - 1], s) = {}
    <3>1. k - 1 \in 0..Len(gs) /\ (\A i \in 1..(k - 1) : gs[i].scope # s)
      BY <1>1, <2>1, <2>2
    <3> DEFINE d == k - 1
    <3>2. d \in 0..Len(gs) /\ (\A i \in 1..d : gs[i].scope # s) /\ d \in 0..d
      BY <2>1, <3>1
    <3> HIDE DEF d
    <3>3. \A i \in 0..d : v[i] \in Seq(Entry) /\ Draft!OfScope(v[i], s) = {}
      BY <1>2, <3>2, VisitOtherScopes
    <3>4. v[d] \in Seq(Entry) /\ Draft!OfScope(v[d], s) = {}
      BY <3>2, <3>3
    <3> QED BY <3>4 DEF d
  <2>5. GroupEntries(gs, s) = gs[k].entries
    BY <1>10, GroupEntriesOK
  <2>6. v[k] = v[k - 1] \o Tagged(s, gs[k].entries) /\ v[k] \in Seq(Entry)
    <3>1. k \in 1..Len(gs) /\ k \in 0..Len(gs)
      BY <1>1, <2>1
    <3> QED BY <1>2, <1>10, <3>1 DEF Visit
  <2>7. w[k] = w[k - 1] \o Tagged(s, entries)
    <3>1. k \in 1..Len(hs)
      BY <2>1
    <3>2. w[k] = w[k - 1] \o Tagged(hs[k].scope, hs[k].entries)
      BY <1>3, <3>1 DEF Visit
    <3> QED BY <1>6, <2>1, <3>2
  <2>8. w[k] = Draft!Stage(v[k], t)
    <3> DEFINE q == v[k - 1]
               map == gs[k].entries
    <3>1. q \in Seq(Entry) /\ Draft!OfScope(q, s) = {} /\ map \in Entries(Intent)
      BY <1>7, <2>1, <2>4
    <3>2. entries = MapSet(map, "atom", e)
      BY <2>5 DEF entries
    <3> HIDE DEF q, map
    <3>3. Draft!Stage(q \o Tagged(s, map), t) = q \o Tagged(s, MapSet(map, "atom", e))
      BY <3>1, StageHere
    <3> QED BY <2>3, <2>6, <2>7, <3>2, <3>3 DEF q, map
  <2>9. Draft!OfScope(v[k], s) # {}
    <3> DEFINE q == v[k - 1]
               r == Tagged(s, gs[k].entries)
    <3>1. r \in Seq(Entry) /\ Draft!OfScope(r, s) # {}
      BY <1>10, <2>1, GroupTagged
    <3> HIDE DEF r
    <3>2. q \in Seq(Entry)
      BY <2>4
    <3> HIDE DEF q
    <3>3. Draft!OfScope(q \o r, s) = Draft!OfScope(q, s) \cup Shifted(Len(q), Draft!OfScope(r, s))
      BY <3>1, <3>2, OfScopeConcat
    <3>4. Draft!OfScope(q \o r, s) # {}
      BY <3>1, <3>3 DEF Shifted
    <3> QED BY <2>6, <3>4 DEF q, r
  <2> DEFINE S == {i \in 0..(n - k) : /\ w[k + i] = Draft!Stage(v[k + i], t)
                                      /\ Draft!OfScope(v[k + i], s) # {}}
  <2>10. 0 \in S /\ n - k \in Nat
    <3>1. k + 0 = k /\ 0 \in 0..(n - k) /\ n - k \in Nat
      BY <1>1, <2>1
    <3> QED BY <2>8, <2>9, <3>1
  <2>11. ASSUME NEW i \in 1..(n - k), i - 1 \in S
         PROVE  i \in S
    <3> DEFINE q == v[k + (i - 1)]
               r == Tagged(gs[k + i].scope, gs[k + i].entries)
    <3>1. /\ k + i \in 1..Len(gs) /\ k + i \in 1..Len(hs) /\ k + i # k /\ k + (i - 1) = (k + i) - 1
          /\ k + (i - 1) \in 0..Len(gs) /\ i \in 0..(n - k)
      BY <1>1, <2>1
    <3>2. v[k + i] = q \o r /\ q \in Seq(Entry)
      BY <1>2, <3>1 DEF Visit
    <3>3. w[k + i] = w[k + (i - 1)] \o r
      <4>1. w[k + i] = w[(k + i) - 1] \o Tagged(hs[k + i].scope, hs[k + i].entries)
        BY <1>3, <3>1 DEF Visit
      <4>2. hs[k + i] = gs[k + i]
        BY <2>1, <3>1
      <4> QED BY <3>1, <4>1, <4>2
    <3>4. w[k + (i - 1)] = Draft!Stage(q, t) /\ Draft!OfScope(q, s) # {}
      BY <2>11
    <3>5. r \in Seq(Entry) /\ Draft!OfScope(r, s) = {}
      <4>1. gs[k + i].scope # s
        BY <2>2, <3>1
      <4> QED BY <3>1, <4>1, GroupTagged
    <3> HIDE DEF q, r
    <3>6. Draft!Stage(q \o r, t) = Draft!Stage(q, t) \o r
      BY <1>4, <3>2, <3>4, <3>5, StageExtends
    <3>7. Draft!OfScope(q \o r, s) # {}
      BY <1>4, <3>2, <3>4, <3>5, StageExtends
    <3> QED BY <3>1, <3>2, <3>3, <3>4, <3>6, <3>7
  <2>12. \A i \in 0..(n - k) : i \in S
    <3> HIDE DEF S, n
    <3> QED BY <2>10, <2>11, IntervalInduction
  <2>13. w[n] = Draft!Stage(v[n], t)
    <3>1. n - k \in 0..(n - k) /\ k + (n - k) = n
      <4>1. n \in Nat /\ k \in Nat /\ n - k \in Nat
        BY <1>1, <2>1, <2>10
      <4> HIDE DEF n
      <4>2. k + (n - k) = n
        BY <4>1
      <4>3. n - k \in 0..(n - k)
        BY <4>1
      <4> QED BY <4>2, <4>3
    <3>2. w[k + (n - k)] = Draft!Stage(v[k + (n - k)], t)
      BY <2>12, <3>1
    <3> QED BY <3>1, <3>2
  <2> QED BY <1>2, <1>3, <2>1, <2>13
<1>11. \/ (\A i \in DOMAIN gs : gs[i].scope # s) /\ hs = Append(gs, g)
       \/ \E k \in DOMAIN gs : gs[k].scope = s /\ hs = [gs EXCEPT ![k] = g]
  <2> DEFINE field == "scope"
  <2>1. \/ (\A i \in DOMAIN gs : gs[i][field] # g[field]) /\ MapSet(gs, field, g) = Append(gs, g)
        \/ \E k \in DOMAIN gs : gs[k][field] = g[field] /\ MapSet(gs, field, g) = [gs EXCEPT ![k] = g]
    <3> HIDE DEF field
    <3> QED BY MapSetCases
  <2> QED BY <1>5, <1>6, <1>8, <2>1
<1> QED BY <1>9, <1>10, <1>11 DEF hs

-----------------------------------------------------------------------------
(* Every step is a step of the abstract draft *)

Coordinates(lanes) == {c \in Scopes \X Atoms : Lookup(lanes, c[1], c[2]) # None}
Memoized == {a \in Atoms : HasFallback(a)}

\* A staged intent goes where Stage puts it.
LEMMA ForEachPut ==
  ASSUME LanesWF(intents, Intent), NEW s \in Scopes, NEW a \in Atoms, NEW kind \in Kinds
  PROVE  ForEach(Put(intents, s, [atom |-> a, kind |-> kind]))
           = Draft!Stage(ForEach(intents), [scope |-> s, atom |-> a, kind |-> kind])
<1> DEFINE e == [atom |-> a, kind |-> kind]
           t == [scope |-> s, atom |-> a, kind |-> kind]
           next == Put(intents, s, e)
<1>1. e \in Intent /\ t = [scope |-> s, atom |-> e.atom, kind |-> e.kind]
  BY DEF Intent
<1> HIDE DEF e, t
<1>2. LanesWF(next, Intent)
  BY <1>1, PutNorm
<1>3. Norm(next) = PutGroup(Norm(intents), s, e)
  BY <1>1, PutNorm
<1> HIDE DEF next
<1>4. ForEach(next) = Flat(Norm(next)) /\ ForEach(intents) = Flat(Norm(intents))
  BY <1>2, ForEachNorm
<1>5. Norm(intents) \in GroupsOf(Intent)
  BY NormOK
<1> DEFINE gs == Norm(intents)
<1> HIDE DEF gs
<1>6. Flat(PutGroup(gs, s, e)) = Draft!Stage(Flat(gs), t)
  BY <1>1, <1>5, FlatStage DEF gs
<1> QED BY <1>3, <1>4, <1>6 DEF e, t, next, gs

\* A baseline is added for the coordinate and for no other.
LEMMA CoordinatesWithBaseline ==
  ASSUME LanesWF(baselines, Baseline), NEW s \in Scopes, NEW a \in Atoms
  PROVE  Coordinates(WithBaseline(s, a)) = Coordinates(baselines) \cup {<<s, a>>}
<1> DEFINE e == [atom |-> a, of |-> <<s, a>>]
           next == Put(baselines, s, e)
           gs == Norm(baselines)
<1>1. e \in Baseline /\ e.atom = a
  BY DEF Baseline
<1>2. e # None
  BY <1>1, EntryFacts
<1>3. CASE Lookup(baselines, s, a) # None
  BY <1>3 DEF WithBaseline, Coordinates
<1>4. CASE Lookup(baselines, s, a) = None
  <2>1. WithBaseline(s, a) = next
    BY <1>4 DEF WithBaseline
  <2> HIDE DEF e
  <2>2. LanesWF(next, Baseline)
    BY <1>1, PutNorm
  <2>3. Norm(next) = PutGroup(Norm(baselines), s, e)
    BY <1>1, PutNorm
  <2>4. gs \in GroupsOf(Baseline)
    BY NormOK
  <2> HIDE DEF next, gs
  <2>5. NormLookup(PutGroup(gs, s, e), s, e.atom) = e
    BY <1>1, <2>4, PutGroupOK
  <2>6. \A t \in Scopes, b \in Atoms : t # s \/ b # e.atom =>
          NormLookup(PutGroup(gs, s, e), t, b) = NormLookup(gs, t, b)
    BY <1>1, <2>4, PutGroupOK
  <2>7. \A t \in Scopes, b \in Atoms : /\ Lookup(next, t, b) = NormLookup(PutGroup(gs, s, e), t, b)
                                       /\ Lookup(baselines, t, b) = NormLookup(gs, t, b)
    BY <2>2, <2>3, LookupNorm DEF gs
  <2>8. Lookup(next, s, a) # None
    BY <1>1, <1>2, <2>5, <2>7
  <2>9. \A t \in Scopes, b \in Atoms : t # s \/ b # a => Lookup(next, t, b) = Lookup(baselines, t, b)
    BY <1>1, <2>6, <2>7
  <2>10. Coordinates(next) = Coordinates(baselines) \cup {<<s, a>>}
    BY <2>8, <2>9 DEF Coordinates
  <2> QED BY <2>1, <2>10
<1> QED BY <1>3, <1>4

\* A memoized fallback joins the ones of the single field or of the Map.
LEMMA MemoizedGrows ==
  ASSUME StorageWF, NEW a \in Atoms, Memoize(a)
  PROVE  Memoized' = Memoized \cup {a}
<1>1. fallbacks.single \in Atoms \cup {None} /\ fallbacks.memo \in (SUBSET Atoms) \cup {None}
  BY DEF StorageWF
<1>2. None \notin Atoms /\ \A xs \in SUBSET Atoms : xs # None
  BY NoneAssumption
<1>3. CASE fallbacks.memo # None
  <2>1. fallbacks' = [fallbacks EXCEPT !.memo = @ \cup {a}]
    BY <1>3 DEF Memoize
  <2>2. fallbacks'.single = fallbacks.single /\ fallbacks'.memo = fallbacks.memo \cup {a}
    BY <2>1 DEF StorageWF
  <2>3. fallbacks'.memo # None
    <3>1. fallbacks.memo \cup {a} \in SUBSET Atoms
      BY <1>1, <1>3
    <3> QED BY <1>2, <2>2, <3>1
  <2> QED BY <1>3, <2>2, <2>3 DEF Memoized, HasFallback
<1>4. CASE fallbacks.memo = None /\ fallbacks.single = None
  <2>1. fallbacks' = [fallbacks EXCEPT !.single = a]
    BY <1>4 DEF Memoize
  <2>2. fallbacks'.single = a /\ fallbacks'.memo = None
    BY <1>4, <2>1 DEF StorageWF
  <2> QED BY <1>2, <1>4, <2>2 DEF Memoized, HasFallback
<1>5. CASE fallbacks.memo = None /\ fallbacks.single # None
  <2>1. fallbacks' = [single |-> None, memo |-> {fallbacks.single, a}]
    BY <1>5 DEF Memoize
  <2>2. fallbacks'.single = None /\ fallbacks'.memo = {fallbacks.single, a}
    BY <2>1
  <2>3. fallbacks'.memo # None
    <3>1. {fallbacks.single, a} \in SUBSET Atoms
      BY <1>1, <1>5
    <3> QED BY <1>2, <2>2, <3>1
  <2> QED BY <1>1, <1>5, <2>2, <2>3 DEF Memoized, HasFallback
<1> QED BY <1>3, <1>4, <1>5

\* What a draft that holds nothing shows.
LEMMA NothingHeld ==
  /\ ForEach(NoLanes) = <<>>
  /\ Coordinates(NoLanes) = {}
<1>1. ForEach(NoLanes) = <<>>
  BY DEF ForEach, NoLanes
<1>2. ASSUME NEW s \in Scopes, NEW a \in Atoms
      PROVE  Lookup(NoLanes, s, a) = None
  <2>1. None # s
    BY NoneAssumption
  <2> QED BY <2>1 DEF Lookup, NoLanes
<1> QED BY <1>1, <1>2 DEF Coordinates

\* Fields, Maps and Maps of Maps store one ordered collection of intents, a set
\* of baselines and a memo, and a released draft stores nothing (class TreeDraft
\* in tree-transaction.ts): every behaviour is one of TransactionDraft.
THEOREM DraftImplemented == Spec => ImplementsDraft
<1>1. ASSUME Init
      PROVE  Draft!Init
  <2>1. ForEach(intents) = <<>> /\ Coordinates(baselines) = {}
    BY <1>1, NothingHeld DEF Init
  <2>2. Memoized = {}
    BY <1>1 DEF Init, Memoized, HasFallback
  <2>3. ~released
    BY <1>1 DEF Init
  <2> QED BY <2>1, <2>2, <2>3 DEF Draft!Init, Coordinates, Memoized
<1>2. ASSUME StorageWF, NEW s \in Scopes, NEW a \in Atoms, Inspect(s, a)
      PROVE  Draft!Next
  <2>1. Coordinates(baselines') = Coordinates(baselines) \cup {<<s, a>>}
    BY <1>2, CoordinatesWithBaseline DEF Inspect, StorageWF
  <2>2. UNCHANGED <<intents, fallbacks, released>> /\ ~released
    BY <1>2 DEF Inspect, StorageWF
  <2>3. ForEach(intents)' = ForEach(intents) /\ Memoized' = Memoized
    BY <2>2 DEF Memoized, HasFallback
  <2>4. Draft!Inspect
    BY <2>1, <2>2, <2>3 DEF Draft!Inspect, Coordinates, Memoized
  <2> QED BY <2>4 DEF Draft!Next
<1>3. ASSUME StorageWF, NEW s \in Scopes, NEW a \in Atoms, NEW kind \in Kinds, Write(s, a, kind)
      PROVE  Draft!Next
  <2>1. Coordinates(baselines') = Coordinates(baselines) \cup {<<s, a>>}
    BY <1>3, CoordinatesWithBaseline DEF Write, StorageWF
  <2>2. UNCHANGED <<fallbacks, released>> /\ ~released
    BY <1>3 DEF Write, StorageWF
  <2>3. ForEach(intents)' = Draft!Stage(ForEach(intents), [scope |-> s, atom |-> a, kind |-> kind])
    BY <1>3, ForEachPut DEF Write, StorageWF
  <2>4. Memoized' = Memoized
    BY <2>2 DEF Memoized, HasFallback
  <2>5. Draft!Write(s, a, kind)
    BY <2>1, <2>2, <2>3, <2>4 DEF Draft!Write, Coordinates, Memoized
  <2> QED BY <2>5 DEF Draft!Next
<1>4. ASSUME StorageWF, NEW a \in Atoms, Memoize(a)
      PROVE  Draft!Next
  <2>1. Memoized' = Memoized \cup {a}
    BY <1>4, MemoizedGrows
  <2>2. UNCHANGED <<intents, baselines, released>> /\ ~released
    BY <1>4 DEF Memoize, StorageWF
  <2>3. ForEach(intents)' = ForEach(intents) /\ Coordinates(baselines)' = Coordinates(baselines)
    BY <2>2 DEF Coordinates
  <2>4. Draft!Memoize(a)
    BY <2>1, <2>2, <2>3 DEF Draft!Memoize, Coordinates, Memoized
  <2> QED BY <2>4 DEF Draft!Next
<1>5. ASSUME StorageWF, Release
      PROVE  Draft!Next
  <2>1. ForEach(intents)' = <<>> /\ Coordinates(baselines)' = {}
    BY <1>5, NothingHeld DEF Release
  <2>2. Memoized' = {}
    BY <1>5 DEF Release, Memoized, HasFallback
  <2>3. released'
    BY <1>5 DEF Release
  <2>4. Draft!Release
    BY <2>1, <2>2, <2>3 DEF Draft!Release, Coordinates, Memoized
  <2> QED BY <2>4 DEF Draft!Next
<1>6. ASSUME UNCHANGED <<intents, baselines, fallbacks, released>>
      PROVE  UNCHANGED Draft!vars
  <2>1. /\ ForEach(intents)' = ForEach(intents) /\ Coordinates(baselines)' = Coordinates(baselines)
        /\ Memoized' = Memoized
    BY <1>6 DEF Coordinates, Memoized, HasFallback
  <2> QED BY <1>6, <2>1 DEF Draft!vars, Coordinates, Memoized
<1>7. ASSUME StorageWF, [Next]_vars
      PROVE  [Draft!Next]_(Draft!vars)
  <2>1. CASE \E s \in Scopes, a \in Atoms : ReadSource(s, a)
    BY <1>6, <2>1 DEF ReadSource, lanesVars
  <2>2. CASE Close
    BY <1>6, <2>2 DEF Close, lanesVars
  <2>3. CASE UNCHANGED vars
    BY <1>6, <2>3 DEF vars
  <2> QED BY <1>2, <1>3, <1>4, <1>5, <1>7, <2>1, <2>2, <2>3, LazyAssumption DEF Next
<1>8. Spec => []StorageWF
  BY StorageInductive, PTL DEF Spec
<1> QED BY <1>1, <1>7, <1>8, PTL DEF Spec, ImplementsDraft, Draft!Spec
=============================================================================
