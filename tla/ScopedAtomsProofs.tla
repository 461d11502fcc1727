------------------------- MODULE ScopedAtomsProofs -------------------------
(***************************************************************************)
(* Theorems about ScopedAtoms, for any tree of scopes, any atoms, values   *)
(* and comparator.                                                         *)
(***************************************************************************)
EXTENDS ScopedAtoms, WellFoundedInduction, SequenceTheorems, TLAPS

-----------------------------------------------------------------------------
(* Induction and recursion over an initial segment of the naturals, as facts *)
(* about sets and functions: the library's induction theorems take the       *)
(* hypothesis as an operator, which the provers cannot instantiate; here it  *)
(* is the set of the numbers it holds of, and a recursive definition is the  *)
(* function that satisfies its equations.                                    *)

\* Every nonempty set of naturals has a least element.
LEMMA LeastNatural ==
  ASSUME NEW S, S \subseteq Nat, S # {}
  PROVE  \E n \in S : \A m \in S : n <= m
<1> DEFINE R == OpToRel(<, Nat)
<1>1. IsWellFoundedOn(R, Nat)
  BY NatLessThanWellFounded
<1>2. PICK n \in S : \A m \in S : <<m, n>> \notin R
  <2> HIDE DEF R
  <2> QED BY <1>1, WFMin
<1>3. R = {ss \in Nat \X Nat : ss[1] < ss[2]}
  BY DEF OpToRel
<1>4. \A m \in S : ~(m < n)
  <2> HIDE DEF R
  <2> QED BY <1>2, <1>3
<1> QED BY <1>4

\* A set that holds 0 and, with a number, the next one up to n, holds 0..n.
LEMMA IntervalInduction ==
  ASSUME NEW S, NEW n \in Nat, 0 \in S, \A i \in 1..n : i - 1 \in S => i \in S
  PROVE  \A i \in 0..n : i \in S
<1> DEFINE T == (0..n) \ S
<1> SUFFICES ASSUME T # {} PROVE FALSE
  OBVIOUS
<1>1. PICK i \in T : \A j \in T : i <= j
  <2>1. T \subseteq Nat
    OBVIOUS
  <2> HIDE DEF T
  <2> QED BY <2>1, LeastNatural
<1>2. i \in 1..n /\ i - 1 \in 0..n /\ i - 1 \notin T
  BY <1>1
<1> QED BY <1>2

\* F[i] takes the value before step i to the one after it, and g is the run.
StepFunction(F, n, T) == F \in [1..n -> [T -> T]]
Run(g, F, x, n, T) ==
  g \in [0..n -> T] /\ g[0] = x /\ \A i \in 1..n : g[i] = F[i][g[i - 1]]

\* A step function and a first value have a run of any length.
LEMMA Recursion ==
  ASSUME NEW T, NEW x \in T, NEW n \in Nat, NEW F, StepFunction(F, n, T)
  PROVE  \E g : Run(g, F, x, n, T)
<1> DEFINE Runs(m) == {g \in [0..m -> T] : g[0] = x /\ \A i \in 1..m : g[i] = F[i][g[i - 1]]}
           S == {m \in 0..n : Runs(m) # {}}
<1>0. F \in [1..n -> [T -> T]]
  BY DEF StepFunction
<1>1. 0 \in S
  <2>1. [i \in 0..0 |-> x] \in Runs(0)
    OBVIOUS
  <2> QED BY <2>1
<1>2. ASSUME NEW m \in 1..n, m - 1 \in S
      PROVE  m \in S
  <2>1. PICK g \in [0..(m - 1) -> T] :
           g[0] = x /\ \A i \in 1..(m - 1) : g[i] = F[i][g[i - 1]]
    BY <1>2
  <2> DEFINE y == F[m][g[m - 1]]
             h == [i \in 0..m |-> IF i = m THEN y ELSE g[i]]
  <2>2. y \in T
    BY <1>0, <2>1
  <2>3. h \in [0..m -> T]
    <3> HIDE DEF y
    <3> QED BY <2>1, <2>2
  <2>4. h[0] = x
    BY <2>1
  <2>5. \A i \in 1..m : h[i] = F[i][h[i - 1]]
    <3>1. ASSUME NEW i \in 1..m, i # m PROVE h[i] = F[i][h[i - 1]]
      <4>1. i \in 1..(m - 1) /\ i \in 0..m /\ i - 1 \in 0..m /\ i - 1 # m
        BY <3>1
      <4>2. h[i] = g[i] /\ h[i - 1] = g[i - 1]
        BY <3>1, <4>1
      <4> QED BY <2>1, <4>1, <4>2
    <3>2. h[m] = F[m][h[m - 1]]
      <4>1. h[m] = y /\ h[m - 1] = g[m - 1]
        OBVIOUS
      <4> QED BY <4>1
    <3> QED BY <3>1, <3>2
  <2>6. h \in Runs(m)
    <3> HIDE DEF h
    <3> QED BY <2>3, <2>4, <2>5
  <2>7. m \in 0..n
    OBVIOUS
  <2> HIDE DEF Runs
  <2> QED BY <2>6, <2>7
<1>3. \A i \in 0..n : i \in S
  <2> HIDE DEF S
  <2> QED BY <1>1, <1>2, IntervalInduction
<1>4. n \in S
  <2> HIDE DEF S
  <2> QED BY <1>3
<1>5. PICK g \in Runs(n) : TRUE
  <2> HIDE DEF Runs
  <2> QED BY <1>4
<1> QED BY <1>5 DEF Run

\* The equations of a function given by its first value and its steps.
LEMMA Equations ==
  ASSUME NEW n \in Nat, NEW x, NEW b, NEW v,
         v = [i \in 0..n |-> IF i = 0 THEN x ELSE b[i]]
  PROVE  v[0] = x /\ \A i \in 1..n : v[i] = b[i]
<1>1. \A i \in 0..n : v[i] = IF i = 0 THEN x ELSE b[i]
  OBVIOUS
<1>2. 0 \in 0..n /\ \A i \in 1..n : i \in 0..n /\ i # 0
  OBVIOUS
<1> QED BY <1>1, <1>2

\* What holds of the first value and is kept by every step holds of all values.
LEMMA Stays ==
  ASSUME NEW n \in Nat, NEW v, NEW T,
         v[0] \in T, \A i \in 1..n : v[i - 1] \in T => v[i] \in T
  PROVE  \A i \in 0..n : v[i] \in T
<1> DEFINE S == {i \in 0..n : v[i] \in T}
<1>1. 0 \in S
  OBVIOUS
<1>2. \A i \in 1..n : i - 1 \in S => i \in S
  OBVIOUS
<1>3. \A i \in 0..n : i \in S
  <2> HIDE DEF S
  <2> QED BY <1>1, <1>2, IntervalInduction
<1> QED BY <1>3

-----------------------------------------------------------------------------
(* Following a pointer until it ends *)

\* f is what next leads to from each place, up to where it stops.
Follows(f, S, next, stop) ==
  /\ f \in [S -> SUBSET S]
  /\ f = [s \in S |-> {s} \cup IF next[s] = stop THEN {} ELSE f[next[s]]]

\* What can be reached from a place is defined, wherever the pointers lead.
LEMMA FollowExists ==
  ASSUME NEW S, NEW stop, stop \notin S, NEW next \in [S -> S \cup {stop}]
  PROVE  \E f : Follows(f, S, next, stop)
<1> DEFINE Closed(U) == \A y \in U : next[y] # stop => next[y] \in U
           Up(s) == {x \in S : \A U \in SUBSET S : s \in U /\ Closed(U) => x \in U}
           f == [s \in S |-> Up(s)]
<1>1. f \in [S -> SUBSET S]
  OBVIOUS
<1>2. \A s \in S : s \in Up(s)
  OBVIOUS
<1>3. ASSUME NEW s \in S, next[s] # stop
      PROVE  next[s] \in S /\ next[s] \in Up(s) /\ Up(next[s]) \subseteq Up(s)
  <2>1. next[s] \in S
    BY <1>3
  <2>2. \A U \in SUBSET S : s \in U /\ Closed(U) => next[s] \in U
    BY <1>3
  <2> QED BY <2>1, <2>2
<1>4. ASSUME NEW s \in S, NEW y \in Up(s), next[y] # stop
      PROVE  next[y] \in Up(s)
  <2>1. next[y] \in S
    BY <1>4
  <2>2. ASSUME NEW U \in SUBSET S, s \in U, Closed(U)
        PROVE  next[y] \in U
    BY <1>4, <2>2
  <2> QED BY <2>1, <2>2
<1>5. ASSUME NEW s \in S
      PROVE  Up(s) = {s} \cup IF next[s] = stop THEN {} ELSE Up(next[s])
  <2> DEFINE W == {s} \cup IF next[s] = stop THEN {} ELSE Up(next[s])
  <2>1. W \subseteq Up(s)
    BY <1>2, <1>3
  <2>2. W \in SUBSET S /\ s \in W
    BY <2>1
  <2>3. Closed(W)
    <3>1. ASSUME NEW y \in W, next[y] # stop PROVE next[y] \in W
      <4>1. CASE y = s
        <5>1. next[s] \in Up(next[s])
          BY <1>2, <1>3, <3>1, <4>1
        <5> QED BY <3>1, <4>1, <5>1
      <4>2. CASE y # s
        <5>1. next[s] # stop /\ y \in Up(next[s]) /\ next[s] \in S
          BY <1>3, <3>1, <4>2
        <5>2. next[y] \in Up(next[s])
          BY <1>4, <3>1, <5>1
        <5> QED BY <5>1, <5>2
      <4> QED BY <4>1, <4>2
    <3> QED BY <3>1
  <2>4. Up(s) \subseteq W
    <3> HIDE DEF W, Closed
    <3> QED BY <2>2, <2>3
  <2> QED BY <2>1, <2>4
<1>6. f = [s \in S |-> {s} \cup IF next[s] = stop THEN {} ELSE f[next[s]]]
  <2>1. ASSUME NEW s \in S
        PROVE  f[s] = {s} \cup IF next[s] = stop THEN {} ELSE f[next[s]]
    <3>1. next[s] # stop => f[next[s]] = Up(next[s])
      BY <1>3
    <3>2. f[s] = Up(s)
      OBVIOUS
    <3> HIDE DEF f, Up
    <3> QED BY <1>5, <3>1, <3>2
  <2>2. DOMAIN f = S
    OBVIOUS
  <2> HIDE DEF f
  <2>3. f \in [S -> SUBSET S]
    BY <1>1
  <2> QED BY <2>1, <2>3
<1> QED BY <1>1, <1>6 DEF Follows

-----------------------------------------------------------------------------
(* The tree *)

\* Path is what following the parents reaches.
LEMMA PathFollows ==
  /\ Path \in [Scopes -> SUBSET Scopes]
  /\ Path[Root] = {Root}
  /\ \A s \in Scopes \ {Root} : Parent[s] \in Scopes /\ Path[s] = {s} \cup Path[Parent[s]]
<1> DEFINE next == [s \in Scopes |-> IF s = Root THEN None ELSE Parent[s]]
<1>1. None \notin Scopes /\ Root \in Scopes /\ Parent \in [Scopes \ {Root} -> Scopes]
  BY TreeAssumption, DistinctAssumption
<1>2. next \in [Scopes -> Scopes \cup {None}]
  BY <1>1
<1>3. \A s \in Scopes : next[s] = None <=> s = Root
  BY <1>1
<1>4. \A s \in Scopes \ {Root} : next[s] = Parent[s]
  BY <1>1
<1> HIDE DEF next
<1>5. PICK f : Follows(f, Scopes, next, None)
  BY <1>1, <1>2, FollowExists
<1>6. ASSUME NEW g
      PROVE  [s \in Scopes |-> {s} \cup IF next[s] = None THEN {} ELSE g[next[s]]]
               = [s \in Scopes |-> {s} \cup IF s = Root THEN {} ELSE g[Parent[s]]]
  BY <1>3, <1>4
<1>7. f = [s \in Scopes |-> {s} \cup IF s = Root THEN {} ELSE f[Parent[s]]]
  BY <1>5, <1>6 DEF Follows
<1>8. Path = [s \in Scopes |-> {s} \cup IF s = Root THEN {} ELSE Path[Parent[s]]]
  BY <1>7, Zenon DEF Path
<1>9. \A s \in Scopes : Path[s] = {s} \cup IF s = Root THEN {} ELSE Path[Parent[s]]
  <2>1. ASSUME NEW p, p = [s \in Scopes |-> {s} \cup IF s = Root THEN {} ELSE p[Parent[s]]]
        PROVE  \A s \in Scopes : p[s] = {s} \cup IF s = Root THEN {} ELSE p[Parent[s]]
    BY <2>1, Zenon
  <2> QED BY <1>8, <2>1, Zenon
<1>10. \A s \in Scopes : Path[s] \subseteq Scopes
  <2> DEFINE odd == {s \in Scopes : ~(Path[s] \subseteq Scopes)}
  <2>1. Root \notin odd
    BY <1>1, <1>9
  <2>2. \A s \in odd : Parent[s] \in odd
    BY <1>1, <1>9, <2>1
  <2>3. odd = {}
    <3> HIDE DEF odd
    <3> QED BY <2>1, <2>2, RootedAssumption DEF odd
  <2> QED BY <2>3
<1>11. DOMAIN Path = Scopes
  BY <1>8, Zenon
<1>12. Path \in [Scopes -> SUBSET Scopes]
  <2>1. Path = [s \in Scopes |-> Path[s]]
    <3>1. ASSUME NEW p, p = [s \in Scopes |-> {s} \cup IF s = Root THEN {} ELSE p[Parent[s]]]
          PROVE  p = [s \in Scopes |-> p[s]]
      BY <3>1
    <3> QED BY <1>8, <3>1, Zenon
  <2> QED BY <1>10, <2>1
<1> QED BY <1>1, <1>9, <1>12


\* What holds of the root, and of a scope if of its parent, holds of all.
LEMMA TreeInduction ==
  ASSUME NEW S, Root \in S, \A s \in Scopes \ {Root} : Parent[s] \in S => s \in S
  PROVE  Scopes \subseteq S
<1> DEFINE rest == Scopes \ S
<1>1. rest \in SUBSET (Scopes \ {Root})
  OBVIOUS
<1>2. \A s \in rest : Parent[s] \in rest
  BY TreeAssumption
<1>3. rest = {}
  <2> HIDE DEF rest
  <2> QED BY <1>1, <1>2, RootedAssumption
<1> QED BY <1>3

\* A path leads from a scope to the root, and through the paths of its scopes.
LEMMA PathOK ==
  ASSUME NEW s \in Scopes
  PROVE  /\ s \in Path[s] /\ Root \in Path[s] /\ Path[s] \subseteq Scopes
         /\ \A x \in Path[s] : Path[x] \subseteq Path[s]
<1> DEFINE S == {x \in Scopes : /\ x \in Path[x] /\ Root \in Path[x] /\ Path[x] \subseteq Scopes
                                /\ \A y \in Path[x] : Path[y] \subseteq Path[x]}
<1>1. Root \in Scopes
  BY TreeAssumption
<1>2. Root \in S
  BY <1>1, PathFollows
<1>3. ASSUME NEW x \in Scopes \ {Root}, Parent[x] \in S
      PROVE  x \in S
  <2>1. Path[x] = {x} \cup Path[Parent[x]] /\ Path[x] \subseteq Scopes
    BY PathFollows
  <2> QED BY <1>3, <2>1
<1>4. Scopes \subseteq S
  <2> HIDE DEF S
  <2> QED BY <1>2, <1>3, TreeInduction
<1> QED BY <1>4

\* No scope is above itself.
LEMMA NoCycle ==
  ASSUME NEW s \in Scopes \ {Root}
  PROVE  s \notin Path[Parent[s]]
<1> SUFFICES ASSUME s \in Path[Parent[s]] PROVE FALSE
  OBVIOUS
<1> DEFINE S == {x \in Path[Parent[s]] : s \in Path[x]}
<1>1. Parent[s] \in Scopes /\ Path[Root] = {Root}
  BY PathFollows
<1>2. Parent[s] \in S /\ S \subseteq Scopes
  BY <1>1, PathOK
<1>3. Root \notin S
  BY <1>1
<1>4. ASSUME NEW x \in S
      PROVE  Parent[x] \in S
  <2>1. x \in Scopes \ {Root} /\ Path[x] = {x} \cup Path[Parent[x]] /\ Parent[x] \in Scopes
    BY <1>2, <1>3, PathFollows
  <2>2. Parent[x] \in Path[Parent[s]]
    <3>1. Parent[x] \in Path[x]
      BY <2>1, PathOK
    <3>2. Path[x] \subseteq Path[Parent[s]]
      BY <1>1, PathOK
    <3> QED BY <3>1, <3>2
  <2>3. s \in Path[Parent[x]]
    BY <2>1
  <2> QED BY <2>2, <2>3
<1>5. S \in SUBSET (Scopes \ {Root})
  BY <1>2, <1>3
<1> HIDE DEF S
<1> QED BY <1>2, <1>4, <1>5, RootedAssumption

\* Of some scopes on one path, one has all of them on its path.
LEMMA NearestOK ==
  ASSUME NEW s \in Scopes, NEW some, some \subseteq Path[s], some # {}
  PROVE  Nearest(some) \in some /\ some \subseteq Path[Nearest(some)]
<1> DEFINE S == {x \in Scopes : some \subseteq Path[x] => \E y \in some : some \subseteq Path[y]}
<1>1. Root \in S
  BY TreeAssumption, PathFollows
<1>2. ASSUME NEW x \in Scopes \ {Root}, Parent[x] \in S
      PROVE  x \in S
  <2>1. Path[x] = {x} \cup Path[Parent[x]]
    BY PathFollows
  <2>2. CASE x \in some
    BY <2>2
  <2>3. CASE x \notin some
    BY <1>2, <2>1, <2>3
  <2> QED BY <2>2, <2>3
<1>3. Scopes \subseteq S
  <2> HIDE DEF S
  <2> QED BY <1>1, <1>2, TreeInduction
<1>4. \E y \in some : some \subseteq Path[y]
  BY <1>3
<1> QED BY <1>4 DEF Nearest

\* Of two scopes on one path, one is on the path of the other, and only one.
LEMMA PathChain ==
  ASSUME NEW s \in Scopes, NEW x \in Path[s], NEW y \in Path[s]
  PROVE  /\ x \in Path[y] \/ y \in Path[x]
         /\ x \in Path[y] /\ y \in Path[x] => x = y
<1>1. x \in Scopes /\ y \in Scopes
  BY PathOK
<1>2. x \in Path[y] \/ y \in Path[x]
  <2> DEFINE some == {x, y}
  <2>1. Nearest(some) \in some /\ some \subseteq Path[Nearest(some)]
    <3>1. some \subseteq Path[s] /\ some # {}
      OBVIOUS
    <3> HIDE DEF some
    <3> QED BY <3>1, NearestOK
  <2> QED BY <2>1
<1>3. ASSUME x \in Path[y], y \in Path[x], x # y
      PROVE  FALSE
  <2>1. x # Root
    BY <1>1, <1>3, PathFollows
  <2>2. Path[x] = {x} \cup Path[Parent[x]] /\ Parent[x] \in Scopes
    BY <1>1, <2>1, PathFollows
  <2>3. Path[y] \subseteq Path[Parent[x]]
    BY <1>3, <2>2, PathOK
  <2> QED BY <1>1, <1>3, <2>1, <2>3, NoCycle
<1> QED BY <1>2, <1>3

-----------------------------------------------------------------------------
(* The draft's intents *)

\* The elements of a sequence, and intents for the same scope and atom.
Written(q) == {q[i] : i \in DOMAIN q}
SamePlace(d, e) == d.scope = e.scope /\ d.atom = e.atom
\* No two intents for one place.
OneEach(q) == \A i, j \in DOMAIN q : SamePlace(q[i], q[j]) => i = j

\* r is q with t put in after its first k elements.
Inserted(r, q, k, t) ==
  /\ k \in 0..Len(q)
  /\ Len(r) = Len(q) + 1
  /\ r[k + 1] = t
  /\ \A i \in 1..k : r[i] = q[i]
  /\ \A i \in (k + 1)..Len(q) : r[i + 1] = q[i]

\* An intent for a new place is written beside the others, wherever it is put.
LEMMA InsertedOK ==
  ASSUME NEW q \in Seq(Intent), OneEach(q), NEW t \in Intent,
         \A e \in Written(q) : ~SamePlace(e, t),
         NEW r \in Seq(Intent), NEW k, Inserted(r, q, k, t)
  PROVE  /\ OneEach(r)
         /\ \A e \in Intent : e \in Written(r) <=> e = t \/ e \in Written(q)
<1> DEFINE n == Len(q)
           from(i) == IF i <= k THEN i ELSE i - 1
<1>1. n \in Nat /\ k \in 0..n /\ DOMAIN q = 1..n /\ DOMAIN r = 1..(n + 1) /\ r[k + 1] = t
  BY DEF Inserted
<1>2. ASSUME NEW i \in 1..(n + 1), i # k + 1
      PROVE  from(i) \in 1..n /\ r[i] = q[from(i)]
  <2>1. CASE i <= k
    BY <1>1, <2>1 DEF Inserted
  <2>2. CASE ~(i <= k)
    <3>1. i - 1 \in (k + 1)..n /\ i - 1 \in 1..n /\ (i - 1) + 1 = i /\ from(i) = i - 1
      BY <1>1, <1>2, <2>2
    <3>2. r[(i - 1) + 1] = q[i - 1]
      BY <3>1 DEF Inserted
    <3> QED BY <3>1, <3>2
  <2> QED BY <2>1, <2>2
<1>3. ASSUME NEW i \in 1..(n + 1), NEW j \in 1..(n + 1), i # k + 1, j # k + 1, from(i) = from(j)
      PROVE  i = j
  BY <1>1, <1>3
<1>4. ASSUME NEW i \in 1..n
      PROVE  \E j \in 1..(n + 1) : r[j] = q[i]
  <2>1. CASE i <= k
    BY <1>1, <2>1 DEF Inserted
  <2>2. CASE ~(i <= k)
    <3>1. i \in (k + 1)..Len(q) /\ i + 1 \in 1..(n + 1)
      BY <1>1, <2>2
    <3> QED BY <3>1 DEF Inserted
  <2> QED BY <2>1, <2>2
<1>5. k + 1 \in 1..(n + 1)
  BY <1>1
<1> HIDE DEF n, from
<1>6. ASSUME NEW i \in 1..n
      PROVE  ~SamePlace(q[i], t) /\ ~SamePlace(t, q[i])
  BY <1>1 DEF Written, SamePlace
<1>7. OneEach(r)
  <2>1. ASSUME NEW i \in 1..(n + 1), NEW j \in 1..(n + 1), SamePlace(r[i], r[j])
        PROVE  i = j
    <3>1. CASE i = k + 1 /\ j = k + 1
      BY <3>1
    <3>2. CASE i = k + 1 /\ j # k + 1
      BY <1>1, <1>2, <1>6, <2>1, <3>2
    <3>3. CASE i # k + 1 /\ j = k + 1
      BY <1>1, <1>2, <1>6, <2>1, <3>3
    <3>4. CASE i # k + 1 /\ j # k + 1
      <4>1. from(i) = from(j)
        BY <1>1, <1>2, <2>1, <3>4 DEF OneEach
      <4> QED BY <1>3, <3>4, <4>1
    <3> QED BY <3>1, <3>2, <3>3, <3>4
  <2> QED BY <1>1, <2>1 DEF OneEach
<1>8. ASSUME NEW e \in Written(r)
      PROVE  e = t \/ e \in Written(q)
  <2>1. PICK i \in 1..(n + 1) : e = r[i]
    BY <1>1 DEF Written
  <2> QED BY <1>1, <1>2, <2>1 DEF Written
<1>9. t \in Written(r) /\ Written(q) \subseteq Written(r)
  <2>1. t \in Written(r)
    BY <1>1, <1>5 DEF Written
  <2>2. ASSUME NEW e \in Written(q)
        PROVE  e \in Written(r)
    BY <1>1, <1>4 DEF Written
  <2> QED BY <2>1, <2>2
<1> QED BY <1>7, <1>8, <1>9

\* The place where Stage inserts an intent of a scope that has some already.
LEMMA InsertedInGroup ==
  ASSUME NEW q \in Seq(Intent), NEW t \in Intent, NEW k \in 0..Len(q),
         NEW r, r = SubSeq(q, 1, k) \o <<t>> \o SubSeq(q, k + 1, Len(q))
  PROVE  r \in Seq(Intent) /\ Inserted(r, q, k, t)
<1> DEFINE n == Len(q)
           u == SubSeq(q, 1, k)
           v == SubSeq(q, k + 1, n)
<1>1. n \in Nat /\ k \in 0..n
  OBVIOUS
<1>2. u \in Seq(Intent) /\ Len(u) = k /\ \A i \in 1..k : u[i] = q[i]
  BY <1>1, SubSeqProperties
<1>3. v \in Seq(Intent) /\ Len(v) = n - k /\ \A i \in 1..(n - k) : v[i] = q[k + i]
  BY <1>1, SubSeqProperties
<1>4. r = u \o <<t>> \o v
  OBVIOUS
<1> HIDE DEF n, u, v
<1> DEFINE w == u \o <<t>>
<1>5. w \in Seq(Intent) /\ Len(w) = k + 1 /\ w[k + 1] = t /\ \A i \in 1..k : w[i] = q[i]
  BY <1>1, <1>2
<1>6. r = w \o v
  BY <1>4
<1> HIDE DEF w
<1>7. r \in Seq(Intent) /\ Len(r) = n + 1
  <2>1. w \o v \in Seq(Intent)
    BY <1>3, <1>5, ConcatProperties
  <2>2. Len(w \o v) = Len(w) + Len(v)
    BY <1>3, <1>5, ConcatProperties
  <2>3. (k + 1) + (n - k) = n + 1
    BY <1>1
  <2>4. Len(w \o v) = n + 1
    BY <1>3, <1>5, <2>2, <2>3
  <2> QED BY <1>6, <2>1, <2>4, Zenon
<1>8. ASSUME NEW i \in 1..(n + 1)
      PROVE  r[i] = IF i <= k + 1 THEN w[i] ELSE v[i - (k + 1)]
  <2>1. (w \o v)[i] = IF i <= Len(w) THEN w[i] ELSE v[i - Len(w)]
    <3>1. i \in 1..(Len(w) + Len(v))
      BY <1>1, <1>3, <1>5
    <3> QED BY <1>3, <1>5, <3>1, ConcatProperties
  <2> QED BY <1>5, <1>6, <2>1
<1>9. ASSUME NEW i \in (k + 1)..n
      PROVE  r[i + 1] = q[i]
  <2>1. i - k \in 1..(n - k) /\ k + (i - k) = i /\ (i + 1) - (k + 1) = i - k
        /\ i + 1 \in 1..(n + 1) /\ ~(i + 1 <= k + 1)
    BY <1>1
  <2>2. r[i + 1] = v[i - k]
    BY <1>8, <2>1
  <2> QED BY <1>3, <2>1, <2>2
<1>10. r[k + 1] = t /\ \A i \in 1..k : r[i] = q[i]
  BY <1>1, <1>5, <1>8
<1> QED BY <1>1, <1>7, <1>9, <1>10 DEF Inserted, n

\* A nonempty set of positions has a greatest one.
LEMMA GreatestPosition ==
  ASSUME NEW n \in Nat, NEW G, G \subseteq 1..n, G # {}
  PROVE  \E i \in G : \A j \in G : j <= i
<1> DEFINE S == {d \in Nat : \E i \in G : d = n - i}
<1>1. S \subseteq Nat /\ S # {}
  <2>1. PICK i \in G : TRUE
    OBVIOUS
  <2>2. n - i \in Nat
    OBVIOUS
  <2>3. n - i \in S
    BY <2>2
  <2> QED BY <2>3
<1>2. PICK d \in S : \A e \in S : d <= e
  <2> HIDE DEF S
  <2> QED BY <1>1, LeastNatural
<1>3. PICK i \in G : d = n - i
  BY <1>2
<1>4. ASSUME NEW j \in G
      PROVE  n - i <= n - j
  <2>1. n - j \in S
    OBVIOUS
  <2> HIDE DEF S
  <2> QED BY <1>2, <1>3, <2>1
<1>5. \A j \in G : j \in Nat
  OBVIOUS
<1> QED BY <1>4, <1>5

\* Staging an intent keeps one intent per place, and leaves the other places.
LEMMA StageOK ==
  ASSUME NEW q \in Seq(Intent), OneEach(q), NEW t \in Intent
  PROVE  /\ Stage(q, t) \in Seq(Intent)
         /\ OneEach(Stage(q, t))
         /\ \A e \in Intent :
              e \in Written(Stage(q, t)) <=> e = t \/ (e \in Written(q) /\ ~SamePlace(e, t))
<1> DEFINE n == Len(q)
           here == At(q, t.scope, t.atom)
           group == OfScope(q, t.scope)
           r == Stage(q, t)
<1>1. n \in Nat /\ DOMAIN q = 1..n /\ \A i \in 1..n : q[i] \in Intent
  OBVIOUS
<1>2. here = {i \in 1..n : SamePlace(q[i], t)} /\ group \subseteq 1..n
  BY <1>1 DEF At, OfScope, SamePlace
<1>3. CASE here # {}
  <2> DEFINE k == CHOOSE i \in here : TRUE
  <2>1. r = [q EXCEPT ![k] = t]
    BY <1>3 DEF Stage
  <2>2. k \in 1..n /\ SamePlace(q[k], t)
    <3>1. k \in here
      BY <1>3
    <3> QED BY <1>2, <3>1
  <2> HIDE DEF k, here, group, r
  <2>3. r \in Seq(Intent) /\ DOMAIN r = 1..n /\ \A j \in 1..n : r[j] = IF j = k THEN t ELSE q[j]
    BY <1>1, <2>1, <2>2
  <2>4. \A i \in 1..n : SamePlace(q[i], t) => i = k
    BY <1>1, <2>2 DEF OneEach, SamePlace
  <2>5. OneEach(r)
    <3>1. ASSUME NEW i \in 1..n, NEW j \in 1..n, SamePlace(r[i], r[j])
          PROVE  i = j
      BY <1>1, <2>2, <2>3, <2>4, <3>1 DEF OneEach, SamePlace
    <3> QED BY <2>3, <3>1 DEF OneEach
  <2>6. ASSUME NEW e \in Intent
        PROVE  e \in Written(r) <=> e = t \/ (e \in Written(q) /\ ~SamePlace(e, t))
    <3>1. ASSUME NEW i \in 1..n, e = r[i]
          PROVE  e = t \/ (e \in Written(q) /\ ~SamePlace(e, t))
      BY <1>1, <2>3, <2>4, <3>1 DEF Written
    <3>2. t \in Written(r)
      BY <2>2, <2>3 DEF Written
    <3>3. ASSUME NEW i \in 1..n, e = q[i], ~SamePlace(e, t)
          PROVE  e \in Written(r)
      BY <2>2, <2>3, <3>3 DEF Written
    <3> QED BY <1>1, <2>3, <3>1, <3>2, <3>3 DEF Written
  <2> QED BY <2>3, <2>5, <2>6 DEF r
<1>4. CASE here = {}
  <2>1. \A e \in Written(q) : ~SamePlace(e, t)
    BY <1>1, <1>2, <1>4 DEF Written
  <2>2. r \in Seq(Intent) /\ \E k : Inserted(r, q, k, t)
    <3>1. CASE group = {}
      <4>1. r = Append(q, t)
        BY <1>4, <3>1 DEF Stage
      <4> HIDE DEF r, here, group
      <4>2. r \in Seq(Intent) /\ Len(r) = n + 1 /\ r[n + 1] = t /\ \A i \in 1..n : r[i] = q[i]
        BY <1>1, <4>1
      <4>3. Inserted(r, q, n, t)
        BY <1>1, <4>2 DEF Inserted
      <4> QED BY <4>2, <4>3
    <3>2. CASE group # {}
      <4> DEFINE last == CHOOSE i \in group : \A j \in group : j <= i
      <4>1. r = SubSeq(q, 1, last) \o <<t>> \o SubSeq(q, last + 1, n)
        BY <1>4, <3>2 DEF Stage
      <4>2. last \in 1..n
        <5>1. \E i \in group : \A j \in group : j <= i
          <6> HIDE DEF group
          <6> QED BY <1>1, <1>2, <3>2, GreatestPosition
        <5>2. last \in group
          BY <5>1
        <5> QED BY <1>2, <5>2
      <4> HIDE DEF r, here, group, last
      <4>3. last \in 0..n
        BY <1>1, <4>2
      <4> QED BY <4>1, <4>3, InsertedInGroup DEF n
    <3> QED BY <3>1, <3>2
  <2>3. PICK k : Inserted(r, q, k, t)
    BY <2>2
  <2> HIDE DEF r, here, group
  <2>4. /\ OneEach(r)
        /\ \A e \in Intent : e \in Written(r) <=> e = t \/ e \in Written(q)
    BY <2>1, <2>2, <2>3, InsertedOK
  <2> QED BY <2>1, <2>2, <2>4 DEF r
<1> QED BY <1>3, <1>4

\* HasIntent and IntentOf in terms of what is written.
LEMMA IntentOfOK ==
  ASSUME NEW q \in Seq(Intent), OneEach(q), NEW s, NEW a
  PROVE  /\ HasIntent(q, s, a) => /\ IntentOf(q, s, a) \in Written(q)
                                  /\ IntentOf(q, s, a) \in Intent
                                  /\ IntentOf(q, s, a).scope = s
                                  /\ IntentOf(q, s, a).atom = a
         /\ \A e \in Written(q) :
              e.scope = s /\ e.atom = a => HasIntent(q, s, a) /\ IntentOf(q, s, a) = e
<1> DEFINE n == Len(q)
           here == At(q, s, a)
<1>1. n \in Nat /\ DOMAIN q = 1..n /\ \A i \in 1..n : q[i] \in Intent
  OBVIOUS
<1>2. here = {i \in 1..n : q[i].scope = s /\ q[i].atom = a}
  BY <1>1 DEF At, OfScope
<1>3. HasIntent(q, s, a) <=> here # {}
  BY DEF HasIntent
<1>4. IntentOf(q, s, a) = q[CHOOSE i \in here : TRUE]
  BY DEF IntentOf
<1>5. \A i \in 1..n : \A j \in 1..n : q[i].scope = q[j].scope /\ q[i].atom = q[j].atom => i = j
  BY <1>1 DEF OneEach, SamePlace
<1>6. ASSUME here # {}
      PROVE  (CHOOSE i \in here : TRUE) \in here
  BY <1>6
<1> HIDE DEF n, here
<1>7. HasIntent(q, s, a) => /\ IntentOf(q, s, a) \in Written(q)
                            /\ IntentOf(q, s, a) \in Intent
                            /\ IntentOf(q, s, a).scope = s
                            /\ IntentOf(q, s, a).atom = a
  <2> SUFFICES ASSUME here # {}
               PROVE  /\ IntentOf(q, s, a) \in Written(q)
                      /\ IntentOf(q, s, a) \in Intent
                      /\ IntentOf(q, s, a).scope = s
                      /\ IntentOf(q, s, a).atom = a
    BY <1>3
  <2>1. PICK k \in here : IntentOf(q, s, a) = q[k]
    BY <1>4, <1>6
  <2> QED BY <1>1, <1>2, <2>1 DEF Written
<1>8. ASSUME NEW e \in Written(q), e.scope = s, e.atom = a
      PROVE  HasIntent(q, s, a) /\ IntentOf(q, s, a) = e
  <2>1. PICK j \in 1..n : e = q[j]
    BY <1>1 DEF Written
  <2>2. j \in here
    BY <1>2, <1>8, <2>1
  <2>3. \A i \in here : i = j
    BY <1>2, <1>5, <2>2
  <2> QED BY <1>3, <1>4, <1>6, <2>1, <2>2, <2>3
<1> QED BY <1>7, <1>8

\* What is written is an intent, and has a position.
LEMMA WrittenOK ==
  ASSUME NEW q \in Seq(Intent)
  PROVE  /\ Written(q) \subseteq Intent
         /\ \A i \in DOMAIN q : q[i] \in Written(q)
         /\ \A e \in Written(q) : \E i \in DOMAIN q : e = q[i]
<1>1. Len(q) \in Nat /\ DOMAIN q = 1..Len(q) /\ \A i \in 1..Len(q) : q[i] \in Intent
  OBVIOUS
<1> QED BY <1>1 DEF Written

-----------------------------------------------------------------------------
(* The invariant *)

\* The scopes that are live form a tree.
ParentsLive ==
  \A s \in Scopes \ {Root} : status[s] = "live" => status[Parent[s]] = "live"

\* A scope that is not live holds nothing.
Vacant ==
  \A s \in Scopes, a \in Atoms :
    status[s] # "live" => override[s][a] = None /\ views[s][a] = None

\* An atom gets its first override from a commit that settles its fallback.
OwnersSettled ==
  \A s \in Scopes, a \in Atoms : override[s][a] # None => fallback[a] # None

\* Of the intents for an atom whose fallback is unresolved, the draft remembers
\* an outcome, and one of them publishes it.
Staged(q, m) ==
  \A e \in Written(q) :
    /\ status[e.scope] = "live"
    /\ e.kind = "set" => e.value \in Values
    /\ fallback[e.atom] = None =>
         /\ m[e.atom] # None
         /\ e.kind = "set" => e.publishes
         /\ \E d \in Written(q) : d.atom = e.atom /\ d.publishes

\* The draft is in order.
DraftOK ==
  /\ OneEach(intents)
  /\ Staged(intents, memo)
  /\ ~open => intents = <<>>

\* The inductive invariant of ownership.
IInv ==
  /\ TypeOK
  /\ ParentsLive
  /\ Vacant
  /\ OwnersSettled
  /\ DraftOK
  /\ IndexCoversOwned
  /\ ~fault

\* An intent that may be staged next.
Stageable(q, m, t) ==
  /\ status[t.scope] = "live"
  /\ t.kind = "set" => t.value \in Values
  /\ fallback[t.atom] = None =>
       /\ m[t.atom] # None
       /\ t.kind = "set" => t.publishes
       /\ \/ t.publishes
          \/ \E d \in Written(q) : d.scope # t.scope /\ d.atom = t.atom /\ d.publishes

\* Staging it keeps what is staged in order.
LEMMA StagedStays ==
  ASSUME NEW q \in Seq(Intent), OneEach(q), NEW m, Staged(q, m),
         NEW t \in Intent, Stageable(q, m, t)
  PROVE  Staged(Stage(q, t), m)
<1> DEFINE r == Stage(q, t)
<1>1. /\ r \in Seq(Intent)
      /\ \A e \in Intent : e \in Written(r) <=> e = t \/ (e \in Written(q) /\ ~SamePlace(e, t))
  BY StageOK
<1>2. Written(q) \subseteq Intent /\ Written(r) \subseteq Intent
  <2> HIDE DEF r
  <2> QED BY <1>1, WrittenOK
<1> HIDE DEF r
<1>3. ASSUME NEW e \in Written(r), fallback[e.atom] = None
      PROVE  \E d \in Written(r) : d.atom = e.atom /\ d.publishes
  <2>1. CASE e.atom = t.atom
    <3>1. CASE t.publishes
      BY <1>1, <2>1, <3>1
    <3>2. CASE ~t.publishes
      <4>1. PICK d \in Written(q) : d.scope # t.scope /\ d.atom = t.atom /\ d.publishes
        BY <1>3, <2>1, <3>2 DEF Stageable
      <4>2. d \in Written(r)
        BY <1>1, <1>2, <4>1 DEF SamePlace
      <4> QED BY <2>1, <4>1, <4>2
    <3> QED BY <3>1, <3>2
  <2>2. CASE e.atom # t.atom
    <3>1. e \in Written(q)
      BY <1>1, <1>2, <2>2
    <3>2. PICK d \in Written(q) : d.atom = e.atom /\ d.publishes
      BY <1>3, <3>1 DEF Staged
    <3>3. d \in Written(r)
      BY <1>1, <1>2, <2>2, <3>2 DEF SamePlace
    <3> QED BY <3>2, <3>3
  <2> QED BY <2>1, <2>2
<1>4. ASSUME NEW e \in Written(r)
      PROVE  /\ status[e.scope] = "live"
             /\ e.kind = "set" => e.value \in Values
             /\ fallback[e.atom] = None => m[e.atom] # None /\ (e.kind = "set" => e.publishes)
  <2>1. e = t \/ e \in Written(q)
    BY <1>1, <1>2
  <2>2. CASE e = t
    BY <2>2 DEF Stageable
  <2>3. CASE e \in Written(q)
    BY <2>3 DEF Staged
  <2> QED BY <2>1, <2>2, <2>3
<1> QED BY <1>3, <1>4 DEF Staged, r

\* Remembering more takes nothing back.
LEMMA StagedRemembers ==
  ASSUME NEW q \in Seq(Intent), NEW m, NEW more, Staged(q, m),
         \A a \in Atoms : m[a] # None => more[a] = m[a]
  PROVE  Staged(q, more)
<1>1. \A e \in Written(q) : e.atom \in Atoms
  BY WrittenOK DEF Intent
<1> QED BY <1>1 DEF Staged

-----------------------------------------------------------------------------
(* Resolution *)

\* What the committed and the draft resolution find.
LEMMA ResolvedOK ==
  ASSUME NEW s \in Scopes, NEW a \in Atoms,
         override \in [Scopes -> [Atoms -> Values \cup {None}]],
         fallback \in [Atoms -> Outcomes \cup {None}]
  PROVE  /\ Owners(s, a) = {} => Resolved(s, a) = fallback[a]
         /\ Owners(s, a) # {} => Resolved(s, a) \in Values
         /\ Resolved(s, a) \in Outcomes \cup {None}
<1>1. Owners(s, a) \subseteq Path[s] /\ Path[s] \subseteq Scopes
  BY PathOK DEF Owners
<1>2. Owners(s, a) # {} => /\ Nearest(Owners(s, a)) \in Owners(s, a)
                           /\ Resolved(s, a) = override[Nearest(Owners(s, a))][a]
  BY <1>1, NearestOK DEF Resolved
<1>3. ASSUME NEW x \in Owners(s, a)
      PROVE  override[x][a] \in Values
  BY <1>1 DEF Owners
<1>4. Owners(s, a) = {} => Resolved(s, a) = fallback[a]
  BY DEF Resolved
<1> QED BY <1>2, <1>3, <1>4 DEF Outcomes

\* What the draft serves is a value or a failure, once the fallback is known.
LEMMA DraftResolvedOK ==
  ASSUME NEW s \in Scopes, NEW a \in Atoms, NEW m \in [Atoms -> Outcomes \cup {None}],
         override \in [Scopes -> [Atoms -> Values \cup {None}]],
         fallback \in [Atoms -> Outcomes \cup {None}],
         intents \in Seq(Intent), OneEach(intents), Staged(intents, memo)
  PROVE  /\ DraftOwners(s, a) = {} => DraftResolved(s, a, m) = DraftFallback(a, m)
         /\ DraftOwners(s, a) # {} => DraftResolved(s, a, m) \in Values
         /\ DraftFallback(a, m) \in Outcomes \cup {None}
         /\ DraftResolved(s, a, m) \in Outcomes \cup {None}
         /\ fallback[a] # None \/ m[a] # None => DraftResolved(s, a, m) \in Outcomes
<1>1. DraftOwners(s, a) \subseteq Path[s] /\ Path[s] \subseteq Scopes
  BY PathOK DEF DraftOwners
<1>2. ASSUME NEW x \in DraftOwners(s, a)
      PROVE  (IF HasIntent(intents, x, a) THEN IntentOf(intents, x, a).value ELSE override[x][a])
               \in Values
  <2>1. CASE HasIntent(intents, x, a)
    <3>1. IntentOf(intents, x, a) \in Written(intents)
      BY <2>1, IntentOfOK
    <3>2. IntentOf(intents, x, a).kind = "set"
      BY <2>1 DEF DraftOwners
    <3> QED BY <2>1, <3>1, <3>2 DEF Staged
  <2>2. CASE ~HasIntent(intents, x, a)
    <3>1. override[x][a] # None
      BY <2>2 DEF DraftOwners
    <3> QED BY <1>1, <2>2, <3>1
  <2> QED BY <2>1, <2>2
<1>3. DraftOwners(s, a) # {} => DraftResolved(s, a, m) \in Values
  <2> SUFFICES ASSUME DraftOwners(s, a) # {} PROVE DraftResolved(s, a, m) \in Values
    OBVIOUS
  <2> DEFINE x == Nearest(DraftOwners(s, a))
  <2>1. x \in DraftOwners(s, a)
    BY <1>1, NearestOK
  <2>2. DraftResolved(s, a, m)
          = IF HasIntent(intents, x, a) THEN IntentOf(intents, x, a).value ELSE override[x][a]
    BY DEF DraftResolved
  <2> HIDE DEF x
  <2> QED BY <1>2, <2>1, <2>2
<1>4. DraftOwners(s, a) = {} => DraftResolved(s, a, m) = DraftFallback(a, m)
  BY DEF DraftResolved
<1>5. /\ DraftFallback(a, m) \in Outcomes \cup {None}
      /\ fallback[a] # None \/ m[a] # None => DraftFallback(a, m) \in Outcomes
  BY DEF DraftFallback
<1> QED BY <1>3, <1>4, <1>5 DEF Outcomes

\* Running an initializer adds to the memo.
LEMMA MemosOK ==
  ASSUME NEW a \in Atoms, NEW falls \in BOOLEAN,
         memo \in [Atoms -> Outcomes \cup {None}], NEW m \in Memos(a, falls)
  PROVE  /\ m \in [Atoms -> Outcomes \cup {None}]
         /\ \A b \in Atoms : memo[b] # None => m[b] = memo[b]
         /\ falls /\ fallback[a] = None => m[a] # None
<1>1. CASE falls /\ fallback[a] = None /\ memo[a] = None
  <2>1. PICK o \in Outcomes : m = [memo EXCEPT ![a] = o]
    BY <1>1 DEF Memos
  <2>2. o # None
    BY DistinctAssumption
  <2> QED BY <1>1, <2>1, <2>2
<1>2. CASE ~(falls /\ fallback[a] = None /\ memo[a] = None)
  <2>1. m = memo
    BY <1>2 DEF Memos
  <2> QED BY <1>2, <2>1
<1> QED BY <1>1, <1>2

\* While a fallback is unresolved nothing owns its atom, so setting it resolves
\* the fallback first; the intent is one that may be staged.
LEMMA SetStageable ==
  ASSUME TypeOK, OwnersSettled, DraftOK,
         NEW s \in Scopes, NEW a \in Atoms, NEW v \in Values,
         NEW falls \in BOOLEAN, BaselineFalls(s, a) => falls,
         NEW m \in Memos(a, falls), status[s] = "live"
  PROVE  SetIntent(s, a, v, m) \in Intent /\ Stageable(intents, m, SetIntent(s, a, v, m))
<1> DEFINE t == SetIntent(s, a, v, m)
           base == Baseline(s, a, m)
<1>1. /\ m \in [Atoms -> Outcomes \cup {None}]
      /\ falls /\ fallback[a] = None => m[a] # None
  BY MemosOK DEF TypeOK
<1>2. Canonical(base, v) \in Values
  <2>1. <<base, v>> \in Equal => base \in Values
    BY ComparatorAssumption
  <2> QED BY <2>1 DEF Canonical
<1>3. /\ t.scope = s /\ t.atom = a /\ t.kind = "set" /\ t.value = Canonical(base, v)
      /\ t.publishes = (BaselineFalls(s, a) /\ m[a] # None)
  BY DEF SetIntent
<1>4. t \in Intent
  <2>1. (BaselineFalls(s, a) /\ m[a] # None) \in BOOLEAN
    BY DEF BaselineFalls
  <2> QED BY <1>2, <2>1 DEF SetIntent, Intent
<1>5. fallback[a] = None => BaselineFalls(s, a)
  <2>1. Path[s] \subseteq Scopes
    BY PathOK
  <2> QED BY <2>1 DEF OwnersSettled, BaselineFalls, Owners
<1>6. fallback[a] = None => t.publishes /\ m[a] # None
  BY <1>1, <1>3, <1>5
<1> HIDE DEF t, base
<1>7. Stageable(intents, m, t)
  BY <1>2, <1>3, <1>6 DEF Stageable
<1> QED BY <1>4, <1>7 DEF t

\* What a reset falls through to is the fallback, or an override staged above
\* the scope, whose intent publishes the fallback.
LEMMA ResetStageable ==
  ASSUME TypeOK, OwnersSettled, DraftOK,
         NEW s \in Scopes, NEW a \in Atoms, NEW m,
         fallback[a] = None => m[a] # None, status[s] = "live"
  PROVE  ResetIntent(s, a, m) \in Intent /\ Stageable(intents, m, ResetIntent(s, a, m))
<1> DEFINE t == ResetIntent(s, a, m)
<1>1. /\ t.scope = s /\ t.atom = a /\ t.kind = "reset"
      /\ t.publishes = (ResetFalls(s, a) /\ m[a] # None)
  BY DEF ResetIntent
<1>2. t \in Intent
  <2>1. (ResetFalls(s, a) /\ m[a] # None) \in BOOLEAN
    BY DEF ResetFalls
  <2> QED BY <2>1 DEF ResetIntent, Intent
<1>3. ASSUME fallback[a] = None, ~t.publishes
      PROVE  \E d \in Written(intents) : d.scope # t.scope /\ d.atom = t.atom /\ d.publishes
  <2>1. s # Root /\ DraftOwners(Parent[s], a) # {}
    BY <1>1, <1>3 DEF ResetFalls
  <2>2. PICK x \in DraftOwners(Parent[s], a) : TRUE
    BY <2>1
  <2>3. Parent[s] \in Scopes /\ x \in Path[Parent[s]] /\ x \in Scopes /\ x # s
    <3>1. Parent[s] \in Scopes
      BY <2>1, PathFollows
    <3>2. x \in Path[Parent[s]]
      BY <2>2 DEF DraftOwners
    <3> QED BY <2>1, <3>1, <3>2, PathOK, NoCycle
  <2>4. override[x][a] = None
    BY <1>3, <2>3 DEF OwnersSettled
  <2>5. HasIntent(intents, x, a) /\ IntentOf(intents, x, a).kind = "set"
    BY <2>2, <2>4 DEF DraftOwners
  <2> DEFINE d == IntentOf(intents, x, a)
  <2>6. d \in Written(intents) /\ d.scope = x /\ d.atom = a
    BY <2>5, IntentOfOK DEF TypeOK, DraftOK
  <2>7. d.publishes
    BY <1>3, <2>5, <2>6 DEF DraftOK, Staged
  <2> QED BY <1>1, <2>3, <2>6, <2>7
<1> HIDE DEF t
<1>4. Stageable(intents, m, t)
  BY <1>1, <1>3 DEF Stageable
<1> QED BY <1>2, <1>4 DEF t

-----------------------------------------------------------------------------
(* Selecting positions of a sequence *)

\* v is how Keeping goes through q.
Keeps(v, q, P) ==
  /\ v[0] = <<>>
  /\ \A i \in 1..Len(q) : v[i] = IF i \in P THEN Append(v[i - 1], q[i]) ELSE v[i - 1]

\* Keeping is the last step of such a selection.
LEMMA KeepingSteps ==
  ASSUME NEW S, NEW q \in Seq(S), NEW P
  PROVE  \E v : Keeps(v, q, P) /\ Keeping(q, P) = v[Len(q)]
<1> DEFINE n == Len(q)
           T == Seq(S)
           none == <<>>
           step(w, i) == IF i \in P THEN Append(w, q[i]) ELSE w
           F == [i \in 1..n |-> [w \in T |-> step(w, i)]]
<1>1. n \in Nat /\ none \in T /\ \A i \in 1..n : q[i] \in S
  OBVIOUS
<1>2. ASSUME NEW i \in 1..n, NEW w \in T
      PROVE  step(w, i) \in T
  BY <1>1
<1>3. StepFunction(F, n, T)
  <2> HIDE DEF n, T, none, step
  <2>1. F \in [1..n -> [T -> T]]
    BY <1>2
  <2> QED BY <2>1 DEF StepFunction
<1> HIDE DEF n, T, none, step
<1>4. PICK g : Run(g, F, none, n, T)
  <2> HIDE DEF F
  <2> QED BY <1>1, <1>3, Recursion
<1>5. \A i \in 1..n : g[i] = step(g[i - 1], i)
  <2>1. \A i \in 1..n : i - 1 \in 0..n
    BY <1>1
  <2> QED BY <1>4, <2>1 DEF Run
<1>6. g = [i \in 0..n |-> IF i = 0 THEN none ELSE step(g[i - 1], i)]
  <2>1. g \in [0..n -> T] /\ g[0] = none
    BY <1>4 DEF Run
  <2>2. \A i \in 0..n : i # 0 => i \in 1..n
    BY <1>1
  <2> QED BY <1>5, <2>1, <2>2
<1>7. g = [i \in 0..Len(q) |->
            IF i = 0 THEN <<>>
            ELSE IF i \in P THEN Append(g[i - 1], q[i]) ELSE g[i - 1]]
  BY <1>6 DEF n, none, step
<1>8. \E v : /\ v = [i \in 0..Len(q) |->
                      IF i = 0 THEN <<>>
                      ELSE IF i \in P THEN Append(v[i - 1], q[i]) ELSE v[i - 1]]
             /\ Keeping(q, P) = v[Len(q)]
  BY <1>7, Zenon DEF Keeping
<1>9. PICK v : /\ v = [i \in 0..Len(q) |->
                        IF i = 0 THEN <<>>
                        ELSE IF i \in P THEN Append(v[i - 1], q[i]) ELSE v[i - 1]]
               /\ Keeping(q, P) = v[Len(q)]
  BY <1>8, Zenon
<1>10. v[0] = <<>> /\ \A i \in 1..n : v[i] = step(v[i - 1], i)
  <2> DEFINE b == [i \in 1..n |-> step(v[i - 1], i)]
  <2>1. v = [i \in 0..n |-> IF i = 0 THEN none ELSE b[i]]
    <3>1. v = [i \in 0..n |-> IF i = 0 THEN none ELSE step(v[i - 1], i)]
      BY <1>9, Zenon DEF n, none, step
    <3>2. \A i \in 0..n : i # 0 => b[i] = step(v[i - 1], i)
      BY <1>1
    <3> HIDE DEF b
    <3> QED BY <3>1, <3>2
  <2>2. \A i \in 1..n : b[i] = step(v[i - 1], i)
    OBVIOUS
  <2> HIDE DEF b
  <2>3. v[0] = none /\ \A i \in 1..n : v[i] = b[i]
    BY <1>1, <2>1, Equations
  <2> QED BY <2>2, <2>3 DEF none
<1> QED BY <1>9, <1>10 DEF Keeps, n, step

\* An element appended is added to what is written.
LEMMA AppendWritten ==
  ASSUME NEW U, NEW w \in Seq(U), NEW x \in U
  PROVE  Append(w, x) \in Seq(U) /\ Written(Append(w, x)) = Written(w) \cup {x}
<1> DEFINE r == Append(w, x)
           n == Len(w)
<1>1. n \in Nat /\ DOMAIN w = 1..n
  OBVIOUS
<1>2. /\ r \in Seq(U) /\ DOMAIN r = 1..(n + 1)
      /\ r[n + 1] = x /\ \A i \in 1..n : r[i] = w[i]
  BY AppendProperties
<1> HIDE DEF r, n
<1>3. Written(r) \subseteq Written(w) \cup {x}
  <2>1. ASSUME NEW i \in 1..(n + 1)
        PROVE  r[i] \in Written(w) \cup {x}
    <3>1. i = n + 1 \/ i \in 1..n
      BY <1>1
    <3> QED BY <1>1, <1>2, <3>1 DEF Written
  <2> QED BY <1>2, <2>1 DEF Written
<1>4. x \in Written(r) /\ Written(w) \subseteq Written(r)
  <2>1. n + 1 \in 1..(n + 1) /\ \A i \in 1..n : i \in 1..(n + 1)
    BY <1>1
  <2> QED BY <1>1, <1>2, <2>1 DEF Written
<1> QED BY <1>2, <1>3, <1>4 DEF r

\* What is kept is what is found at the positions, in whatever set that lies.
LEMMA KeepingOK ==
  ASSUME NEW S, NEW q \in Seq(S), NEW P, NEW U,
         \A i \in 1..Len(q) : i \in P => q[i] \in U
  PROVE  /\ Keeping(q, P) \in Seq(U)
         /\ \A i \in 1..Len(q) : i \in P => q[i] \in Written(Keeping(q, P))
         /\ \A x \in Written(Keeping(q, P)) : \E i \in 1..Len(q) : i \in P /\ x = q[i]
<1> DEFINE n == Len(q)
<1>1. n \in Nat
  OBVIOUS
<1>2. PICK v : Keeps(v, q, P) /\ Keeping(q, P) = v[n]
  BY KeepingSteps
<1>3. v[0] = <<>> /\ \A i \in 1..n : v[i] = IF i \in P THEN Append(v[i - 1], q[i]) ELSE v[i - 1]
  BY <1>2 DEF Keeps
<1> DEFINE T == {i \in 0..n : /\ v[i] \in Seq(U)
                              /\ \A j \in 1..i : j \in P => q[j] \in Written(v[i])
                              /\ \A x \in Written(v[i]) : \E j \in 1..i : j \in P /\ x = q[j]}
<1>4. 0 \in T
  <2>1. v[0] \in Seq(U) /\ Written(v[0]) = {}
    BY <1>3 DEF Written
  <2>2. 0 \in 0..n /\ \A j \in 1..0 : FALSE
    BY <1>1
  <2> QED BY <2>1, <2>2
<1>5. ASSUME NEW i \in 1..n, i - 1 \in T
      PROVE  i \in T
  <2>0. v[i - 1] \in Seq(U) /\ i \in 0..n
    BY <1>5
  <2>1. CASE i \notin P
    <3>1. v[i] = v[i - 1]
      BY <1>3, <2>1
    <3>2. \A j \in 1..i : j \in P => j \in 1..(i - 1)
      BY <2>1
    <3>3. \A j \in 1..(i - 1) : j \in 1..i
      BY <1>1
    <3> QED BY <1>5, <2>0, <3>1, <3>2, <3>3
  <2>2. CASE i \in P
    <3>1. v[i] = Append(v[i - 1], q[i]) /\ q[i] \in U
      BY <1>3, <2>2
    <3>2. v[i] \in Seq(U) /\ Written(v[i]) = Written(v[i - 1]) \cup {q[i]}
      BY <2>0, <3>1, AppendWritten
    <3>3. \A j \in 1..i : j = i \/ j \in 1..(i - 1)
      OBVIOUS
    <3>4. \A j \in 1..(i - 1) : j \in 1..i
      BY <1>1
    <3>5. i \in 1..i
      OBVIOUS
    <3> QED BY <1>5, <2>0, <2>2, <3>2, <3>3, <3>4, <3>5
  <2> QED BY <2>1, <2>2
<1>6. \A i \in 0..n : i \in T
  <2> HIDE DEF T
  <2> QED BY <1>1, <1>4, <1>5, IntervalInduction
<1>7. n \in T
  <2> HIDE DEF T
  <2> QED BY <1>1, <1>6
<1> QED BY <1>2, <1>7

-----------------------------------------------------------------------------
(* Staging the resets of resetAll *)

\* v is how StageResets goes through q.
Resetting(v, s, q, m) ==
  /\ v[0] = intents
  /\ \A i \in 1..Len(q) : v[i] = Stage(v[i - 1], ResetIntent(s, q[i], m))

\* A reset of an atom is an intent, whatever its outcome.
LEMMA ResetIntentOK ==
  ASSUME NEW s \in Scopes, NEW a \in Atoms, NEW m
  PROVE  /\ ResetIntent(s, a, m) \in Intent
         /\ ResetIntent(s, a, m).scope = s
         /\ ResetIntent(s, a, m).atom = a
         /\ ResetIntent(s, a, m).kind = "reset"
<1>1. (ResetFalls(s, a) /\ m[a] # None) \in BOOLEAN
  BY DEF ResetFalls
<1> QED BY <1>1 DEF ResetIntent, Intent

\* StageResets is the last step of staging them one by one.
LEMMA ResetSteps ==
  ASSUME intents \in Seq(Intent), OneEach(intents),
         NEW s \in Scopes, NEW q \in Seq(Atoms), NEW m
  PROVE  \E v : Resetting(v, s, q, m) /\ StageResets(s, q, m) = v[Len(q)]
<1> DEFINE n == Len(q)
           T == {w \in Seq(Intent) : OneEach(w)}
           step(w, i) == Stage(w, ResetIntent(s, q[i], m))
           F == [i \in 1..n |-> [w \in T |-> step(w, i)]]
<1>1. n \in Nat /\ intents \in T /\ \A i \in 1..n : q[i] \in Atoms
  OBVIOUS
<1>2. ASSUME NEW i \in 1..n, NEW w \in T
      PROVE  step(w, i) \in T
  <2>1. ResetIntent(s, q[i], m) \in Intent
    BY <1>1, ResetIntentOK
  <2>2. w \in Seq(Intent) /\ OneEach(w)
    OBVIOUS
  <2>3. step(w, i) \in Seq(Intent) /\ OneEach(step(w, i))
    BY <2>1, <2>2, StageOK
  <2> QED BY <2>3
<1>3. StepFunction(F, n, T)
  <2> HIDE DEF n, T, step
  <2>1. F \in [1..n -> [T -> T]]
    BY <1>2
  <2> QED BY <2>1 DEF StepFunction
<1> HIDE DEF n, T, step
<1>4. PICK g : Run(g, F, intents, n, T)
  <2> HIDE DEF F
  <2> QED BY <1>1, <1>3, Recursion
<1>5. \A i \in 1..n : g[i] = step(g[i - 1], i)
  <2>1. \A i \in 1..n : i - 1 \in 0..n
    BY <1>1
  <2> QED BY <1>4, <2>1 DEF Run
<1>6. g = [i \in 0..n |-> IF i = 0 THEN intents ELSE step(g[i - 1], i)]
  <2>1. g \in [0..n -> T] /\ g[0] = intents
    BY <1>4 DEF Run
  <2>2. \A i \in 0..n : i # 0 => i \in 1..n
    BY <1>1
  <2> QED BY <1>5, <2>1, <2>2
<1>7. g = [i \in 0..Len(q) |->
            IF i = 0 THEN intents ELSE Stage(g[i - 1], ResetIntent(s, q[i], m))]
  BY <1>6 DEF n, step
<1>8. \E v : /\ v = [i \in 0..Len(q) |->
                      IF i = 0 THEN intents ELSE Stage(v[i - 1], ResetIntent(s, q[i], m))]
             /\ StageResets(s, q, m) = v[Len(q)]
  BY <1>7, Zenon DEF StageResets
<1>9. PICK v : /\ v = [i \in 0..Len(q) |->
                        IF i = 0 THEN intents ELSE Stage(v[i - 1], ResetIntent(s, q[i], m))]
               /\ StageResets(s, q, m) = v[Len(q)]
  BY <1>8, Zenon
<1>10. v[0] = intents /\ \A i \in 1..n : v[i] = step(v[i - 1], i)
  <2> DEFINE b == [i \in 1..n |-> step(v[i - 1], i)]
  <2>1. v = [i \in 0..n |-> IF i = 0 THEN intents ELSE b[i]]
    <3>1. v = [i \in 0..n |-> IF i = 0 THEN intents ELSE step(v[i - 1], i)]
      BY <1>9, Zenon DEF n, step
    <3>2. \A i \in 0..n : i # 0 => b[i] = step(v[i - 1], i)
      BY <1>1
    <3> HIDE DEF b
    <3> QED BY <3>1, <3>2
  <2>2. \A i \in 1..n : b[i] = step(v[i - 1], i)
    OBVIOUS
  <2> HIDE DEF b
  <2>3. v[0] = intents /\ \A i \in 1..n : v[i] = b[i]
    BY <1>1, <2>1, Equations
  <2> QED BY <2>2, <2>3
<1> QED BY <1>9, <1>10 DEF Resetting, n, step

\* The draft r after the resets of the first k atoms of q in scope s.
ResetDone(r, s, q, k, m) ==
  /\ r \in Seq(Intent)
  /\ OneEach(r)
  /\ Staged(r, m)
  /\ \A e \in Written(intents) : e.scope # s => e \in Written(r)
  /\ \A e \in Written(intents) : \E d \in Written(r) : SamePlace(d, e)
  /\ \A e \in Written(r) : e \in Written(intents) \/ (e.scope = s /\ e.kind = "reset")
  /\ \A j \in 1..k :
       /\ \E e \in Written(r) : e.scope = s /\ e.atom = q[j]
       /\ \A e \in Written(r) : e.scope = s /\ e.atom = q[j] => e.kind = "reset"

\* One more reset.
LEMMA OneReset ==
  ASSUME TypeOK, OwnersSettled, DraftOK, NEW s \in Scopes, status[s] = "live",
         NEW q \in Seq(Atoms), NEW m, NEW k \in 1..Len(q),
         \A i \in 1..Len(q) : fallback[q[i]] = None => m[q[i]] # None,
         NEW w, ResetDone(w, s, q, k - 1, m)
  PROVE  ResetDone(Stage(w, ResetIntent(s, q[k], m)), s, q, k, m)
<1> DEFINE t == ResetIntent(s, q[k], m)
           r == Stage(w, t)
<1>1. q[k] \in Atoms /\ Len(q) \in Nat /\ fallback[q[k]] = None => m[q[k]] # None
  OBVIOUS
<1>2. t \in Intent /\ t.scope = s /\ t.atom = q[k] /\ t.kind = "reset"
  BY <1>1, ResetIntentOK
<1>3. Stageable(intents, m, t)
  <2>1. fallback[q[k]] = None => m[q[k]] # None
    OBVIOUS
  <2> QED BY <1>1, <2>1, ResetStageable
<1> HIDE DEF t
<1>4. /\ w \in Seq(Intent) /\ OneEach(w) /\ Staged(w, m)
      /\ \A e \in Written(intents) : e.scope # s => e \in Written(w)
      /\ \A e \in Written(intents) : \E d \in Written(w) : SamePlace(d, e)
      /\ \A e \in Written(w) : e \in Written(intents) \/ (e.scope = s /\ e.kind = "reset")
  BY DEF ResetDone
<1>5. Stageable(w, m, t)
  BY <1>2, <1>3, <1>4 DEF Stageable
<1>6. /\ r \in Seq(Intent) /\ OneEach(r)
      /\ \A e \in Intent : e \in Written(r) <=> e = t \/ (e \in Written(w) /\ ~SamePlace(e, t))
  BY <1>2, <1>4, StageOK
<1>7. Staged(r, m)
  BY <1>2, <1>4, <1>5, StagedStays
<1> HIDE DEF r
<1>8. Written(w) \subseteq Intent /\ Written(r) \subseteq Intent /\ Written(intents) \subseteq Intent
  BY <1>4, <1>6, WrittenOK DEF TypeOK
<1>9. \A e \in Written(intents) : e.scope # s => e \in Written(r)
  BY <1>2, <1>4, <1>6, <1>8 DEF SamePlace
<1>10. \A e \in Written(r) : e \in Written(intents) \/ (e.scope = s /\ e.kind = "reset")
  BY <1>2, <1>4, <1>6, <1>8
<1>11. ASSUME NEW j \in 1..k
       PROVE  /\ \E e \in Written(r) : e.scope = s /\ e.atom = q[j]
              /\ \A e \in Written(r) : e.scope = s /\ e.atom = q[j] => e.kind = "reset"
  <2>1. t \in Written(r)
    BY <1>2, <1>6
  <2>2. CASE q[j] = q[k]
    BY <1>2, <1>6, <1>8, <2>1, <2>2 DEF SamePlace
  <2>3. CASE q[j] # q[k]
    <3>1. j \in 1..(k - 1)
      BY <2>3
    <3>2. PICK e \in Written(w) : e.scope = s /\ e.atom = q[j]
      BY <3>1 DEF ResetDone
    <3>3. e \in Written(r)
      BY <1>2, <1>6, <1>8, <2>3, <3>2 DEF SamePlace
    <3>4. \A d \in Written(w) : d.scope = s /\ d.atom = q[j] => d.kind = "reset"
      BY <3>1 DEF ResetDone
    <3>5. \A d \in Written(r) : d.atom = q[j] => d \in Written(w)
      BY <1>2, <1>6, <1>8, <2>3
    <3> QED BY <3>2, <3>3, <3>4, <3>5
  <2> QED BY <2>2, <2>3
<1>12. ASSUME NEW e \in Written(intents)
       PROVE  \E d \in Written(r) : SamePlace(d, e)
  <2>1. PICK d \in Written(w) : SamePlace(d, e)
    BY <1>4
  <2>2. CASE SamePlace(d, t)
    BY <1>2, <1>6, <2>1, <2>2 DEF SamePlace
  <2>3. CASE ~SamePlace(d, t)
    BY <1>6, <1>8, <2>1, <2>3
  <2> QED BY <2>2, <2>3
<1> QED BY <1>6, <1>7, <1>9, <1>10, <1>11, <1>12 DEF ResetDone, r, t

\* All of them.
LEMMA StageResetsOK ==
  ASSUME TypeOK, OwnersSettled, DraftOK, NEW s \in Scopes, status[s] = "live",
         NEW q \in Seq(Atoms), NEW m, Staged(intents, m),
         \A i \in 1..Len(q) : fallback[q[i]] = None => m[q[i]] # None
  PROVE  ResetDone(StageResets(s, q, m), s, q, Len(q), m)
<1> DEFINE n == Len(q)
<1>1. n \in Nat
  OBVIOUS
<1>2. intents \in Seq(Intent) /\ OneEach(intents)
  BY DEF TypeOK, DraftOK
<1>3. PICK v : Resetting(v, s, q, m) /\ StageResets(s, q, m) = v[n]
  BY <1>2, ResetSteps
<1> DEFINE S == {i \in 0..n : ResetDone(v[i], s, q, i, m)}
<1>4. 0 \in S
  <2>1. ResetDone(intents, s, q, 0, m)
    BY <1>2 DEF ResetDone, SamePlace
  <2> QED BY <1>1, <1>3, <2>1 DEF Resetting
<1>5. ASSUME NEW i \in 1..n, i - 1 \in S
      PROVE  i \in S
  <2>1. ResetDone(v[i - 1], s, q, i - 1, m) /\ i \in 0..n
    BY <1>1, <1>5
  <2>2. v[i] = Stage(v[i - 1], ResetIntent(s, q[i], m))
    BY <1>3 DEF Resetting
  <2>3. ResetDone(Stage(v[i - 1], ResetIntent(s, q[i], m)), s, q, i, m)
    BY <2>1, OneReset
  <2> QED BY <2>1, <2>2, <2>3
<1>6. \A i \in 0..n : i \in S
  <2> HIDE DEF S, n
  <2> QED BY <1>1, <1>4, <1>5, IntervalInduction
<1>7. n \in S
  <2> HIDE DEF S, n
  <2> QED BY <1>1, <1>6
<1> QED BY <1>3, <1>7

\* resetAll's candidates are atoms, and all that the scope owns in the draft.
LEMMA CandidatesOK ==
  ASSUME TypeOK, IndexCoversOwned, DraftOK, NEW s \in Scopes
  PROVE  /\ Candidates(s) \in Seq(Atoms)
         /\ \A a \in Atoms :
              status[s] = "live" /\ s # Root /\ s \in DraftOwners(s, a)
                => \E i \in 1..Len(Candidates(s)) : Candidates(s)[i] = a
<1> DEFINE Any == Atoms \cup {None}
           index == owned[s]
           here == [i \in 1..Len(intents) |->
                      IF intents[i].scope = s THEN intents[i].atom ELSE None]
           atoms == index \o here
           n == Len(index)
           l == Len(intents)
           first == {i \in DOMAIN atoms :
                       atoms[i] # None /\ \A j \in 1..(i - 1) : atoms[j] # atoms[i]}
           wanted == {i \in first :
                        IF HasIntent(intents, s, atoms[i])
                          THEN IntentOf(intents, s, atoms[i]).kind = "set"
                          ELSE override[s][atoms[i]] # None}
<1>1. Candidates(s) = Keeping(atoms, wanted)
  BY DEF Candidates
<1>2. /\ index \in Seq(Any) /\ n \in Nat /\ \A i \in 1..n : index[i] \in Atoms
      /\ \A i \in 1..n : i \in DOMAIN index
  <2>1. index \in Seq(Atoms)
    BY DEF TypeOK
  <2> HIDE DEF index
  <2>2. index \in Seq(Any)
    BY <2>1, SeqMonotonic
  <2> QED BY <2>1, <2>2
<1>3. l \in Nat /\ \A i \in 1..l : intents[i] \in Intent
  BY DEF TypeOK
<1>4. here \in Seq(Any) /\ Len(here) = l /\ \A i \in 1..l : here[i] = IF intents[i].scope = s THEN intents[i].atom ELSE None
  <2>1. \A i \in 1..l : (IF intents[i].scope = s THEN intents[i].atom ELSE None) \in Any
    BY <1>3 DEF Intent
  <2> QED BY <1>3, <2>1
<1> HIDE DEF index, here
<1>5. /\ atoms \in Seq(Any) /\ Len(atoms) = n + l
      /\ \A i \in 1..n : atoms[i] = index[i]
      /\ \A i \in 1..l : atoms[n + i] = here[i]
  <2>0. atoms \in Seq(Any)
    <3> HIDE DEF Any, n, l
    <3> QED BY <1>2, <1>4, ConcatProperties
  <2>1. Len(atoms) = n + l
    <3> HIDE DEF Any, l
    <3> QED BY <1>2, <1>4, ConcatProperties
  <2>2. \A i \in 1..(n + l) : atoms[i] = IF i <= n THEN index[i] ELSE here[i - n]
    BY <1>2, <1>4, ConcatProperties
  <2>3. \A i \in 1..n : i \in 1..(n + l) /\ i <= n
    BY <1>2, <1>3
  <2>4. \A i \in 1..l : n + i \in 1..(n + l) /\ ~(n + i <= n) /\ (n + i) - n = i
    BY <1>2, <1>3
  <2> HIDE DEF atoms, n, l
  <2>5. \A i \in 1..n : atoms[i] = index[i]
    BY <2>2, <2>3
  <2>6. \A i \in 1..l : atoms[n + i] = here[i]
    BY <2>2, <2>4
  <2> QED BY <2>0, <2>1, <2>5, <2>6
<1>6. DOMAIN atoms = 1..(n + l) /\ \A i \in 1..(n + l) : atoms[i] \in Any
  <2> HIDE DEF atoms, n, l
  <2> QED BY <1>5
<1> HIDE DEF atoms, n, l
<1>7. \A i \in 1..Len(atoms) : i \in wanted => atoms[i] \in Atoms
  BY <1>5, <1>6
<1>8. Keeping(atoms, wanted) \in Seq(Atoms)
  <2> HIDE DEF wanted
  <2> QED BY <1>5, <1>7, KeepingOK
<1>9. ASSUME NEW a \in Atoms, status[s] = "live", s # Root, s \in DraftOwners(s, a)
      PROVE  \E i \in 1..Len(Candidates(s)) : Candidates(s)[i] = a
  <2>1. IF HasIntent(intents, s, a) THEN IntentOf(intents, s, a).kind = "set"
          ELSE override[s][a] # None
    BY <1>9 DEF DraftOwners
  <2> DEFINE P == {i \in 1..(n + l) : atoms[i] = a}
  <2>2. P # {}
    <3>1. CASE HasIntent(intents, s, a)
      <4>1. /\ IntentOf(intents, s, a) \in Written(intents)
            /\ IntentOf(intents, s, a).scope = s
            /\ IntentOf(intents, s, a).atom = a
        BY <3>1, IntentOfOK DEF TypeOK, DraftOK
      <4>2. PICK i \in 1..l : intents[i].scope = s /\ intents[i].atom = a
        BY <4>1 DEF Written, l, TypeOK
      <4>3. atoms[n + i] = a /\ n + i \in 1..(n + l)
        BY <1>2, <1>3, <1>4, <1>5, <4>2
      <4> QED BY <4>3
    <3>2. CASE ~HasIntent(intents, s, a)
      <4>1. \E i \in DOMAIN owned[s] : owned[s][i] = a
        BY <1>9, <2>1, <3>2 DEF IndexCoversOwned, LiveScopes
      <4>2. DOMAIN index = 1..n
        BY <1>2 DEF n
      <4>3. PICK i \in 1..n : index[i] = a
        BY <4>1, <4>2 DEF index
      <4>4. atoms[i] = a /\ i \in 1..(n + l)
        BY <1>2, <1>3, <1>5, <4>3
      <4> QED BY <4>4
    <3> QED BY <3>1, <3>2
  <2>3. PICK i \in P : \A j \in P : i <= j
    <3>1. P \subseteq Nat
      BY <1>2, <1>3
    <3> HIDE DEF P
    <3> QED BY <2>2, <3>1, LeastNatural
  <2>4. i \in 1..(n + l) /\ atoms[i] = a
    OBVIOUS
  <2>5. \A j \in 1..(i - 1) : atoms[j] # a
    BY <1>2, <1>3, <2>3, <2>4
  <2>6. a # None
    BY DistinctAssumption
  <2>7. i \in wanted
    BY <1>6, <2>1, <2>4, <2>5, <2>6
  <2>8. a \in Written(Keeping(atoms, wanted))
    <3>1. i \in 1..Len(atoms)
      BY <1>5, <2>4
    <3> HIDE DEF wanted
    <3> QED BY <1>5, <1>7, <2>4, <2>7, <3>1, KeepingOK
  <2>9. DOMAIN Candidates(s) = 1..Len(Candidates(s))
    BY <1>1, <1>8
  <2> QED BY <1>1, <2>8, <2>9 DEF Written
<1> QED BY <1>1, <1>8, <1>9

-----------------------------------------------------------------------------
(* The index a commit leaves *)

\* A scope owns an atom once the first k intents have been applied.
Applied(s, k, b) ==
  IF \E i \in 1..k : i \in At(intents, s, b)
    THEN IntentOf(intents, s, b).kind = "set"
    ELSE override[s][b] # None

\* The index after the k-th intent, from the one before it.
Indexed(s, sweeps, before, k) ==
  IF \/ intents[k].scope # s \/ intents[k].kind = "reset"
     \/ \E i \in DOMAIN before : before[i] = intents[k].atom
    THEN before
    ELSE IF k \in sweeps
      THEN Keeping(Append(before, intents[k].atom),
                   {i \in DOMAIN Append(before, intents[k].atom) :
                      Applied(s, k, Append(before, intents[k].atom)[i])})
      ELSE Append(before, intents[k].atom)

\* It stays an index of atoms, and never misses one the scope owns by then.
LEMMA IndexedOK ==
  ASSUME TypeOK, DraftOK, NEW s \in Scopes, NEW sweeps,
         NEW before \in Seq(Atoms), NEW k \in 1..Len(intents)
  PROVE  /\ Indexed(s, sweeps, before, k) \in Seq(Atoms)
         /\ (\A b \in Atoms : Applied(s, k - 1, b) => b \in Written(before))
              => \A b \in Atoms : Applied(s, k, b) => b \in Written(Indexed(s, sweeps, before, k))
<1> DEFINE a == intents[k].atom
           all == Append(before, a)
           keep == {i \in DOMAIN all : Applied(s, k, all[i])}
           after == Indexed(s, sweeps, before, k)
<1>1. intents \in Seq(Intent) /\ OneEach(intents)
  BY DEF TypeOK, DraftOK
<1>2. intents[k] \in Intent /\ a \in Atoms /\ intents[k] \in Written(intents)
      /\ Len(intents) \in Nat /\ DOMAIN intents = 1..Len(intents)
  <2>1. Len(intents) \in Nat /\ DOMAIN intents = 1..Len(intents) /\ intents[k] \in Intent
    BY <1>1
  <2>2. intents[k].atom \in Atoms
    BY <2>1 DEF Intent
  <2> QED BY <2>1, <2>2 DEF Written
<1>3. all \in Seq(Atoms) /\ Written(all) = Written(before) \cup {a}
  BY <1>2, AppendWritten
<1>4. DOMAIN all = 1..Len(all) /\ DOMAIN before = 1..Len(before)
  <2> HIDE DEF all
  <2> QED BY <1>3
<1>5. CASE \/ intents[k].scope # s \/ intents[k].kind = "reset"
           \/ \E i \in DOMAIN before : before[i] = a
  <2>1. after = before
    BY <1>5 DEF Indexed
  <2>2. ASSUME NEW b \in Atoms, Applied(s, k, b), b \notin Written(before)
        PROVE  Applied(s, k - 1, b)
    <3>1. ASSUME k \in At(intents, s, b)
          PROVE  FALSE
      <4>1. intents[k].scope = s /\ intents[k].atom = b
        BY <3>1 DEF At, OfScope
      <4>2. IntentOf(intents, s, b) = intents[k]
        BY <1>1, <1>2, <4>1, IntentOfOK
      <4>3. intents[k].kind = "set"
        BY <2>2, <3>1, <4>2 DEF Applied
      <4>4. \E i \in DOMAIN before : before[i] = b
        BY <1>5, <4>1, <4>3
      <4> QED BY <2>2, <4>4 DEF Written
    <3>2. (\E i \in 1..k : i \in At(intents, s, b)) <=> (\E i \in 1..(k - 1) : i \in At(intents, s, b))
      BY <3>1
    <3> QED BY <2>2, <3>2 DEF Applied
  <2> QED BY <2>1, <2>2
<1>6. CASE ~(\/ intents[k].scope # s \/ intents[k].kind = "reset"
             \/ \E i \in DOMAIN before : before[i] = a)
  <2>1. after = IF k \in sweeps THEN Keeping(all, keep) ELSE all
    BY <1>6 DEF Indexed
  <2>2. ASSUME NEW b \in Atoms, Applied(s, k, b), b # a
        PROVE  Applied(s, k - 1, b)
    <3>1. k \notin At(intents, s, b)
      BY <2>2 DEF At, OfScope
    <3>2. (\E i \in 1..k : i \in At(intents, s, b)) <=> (\E i \in 1..(k - 1) : i \in At(intents, s, b))
      BY <3>1
    <3> QED BY <2>2, <3>2 DEF Applied
  <2>3. (\A b \in Atoms : Applied(s, k - 1, b) => b \in Written(before))
          => \A b \in Atoms : Applied(s, k, b) => b \in Written(all)
    BY <1>3, <2>2
  <2>4. CASE k \notin sweeps
    BY <1>3, <2>1, <2>3, <2>4
  <2>5. CASE k \in sweeps
    <3>1. \A i \in 1..Len(all) : all[i] \in Atoms
      <4> HIDE DEF all
      <4> QED BY <1>3
    <3>2. after \in Seq(Atoms) /\ \A i \in 1..Len(all) : i \in keep => all[i] \in Written(after)
      <4>1. after = Keeping(all, keep)
        BY <2>1, <2>5
      <4> HIDE DEF all, keep, after
      <4> QED BY <1>3, <3>1, <4>1, KeepingOK
    <3>3. ASSUME NEW b \in Atoms, Applied(s, k, b), b \in Written(all)
          PROVE  b \in Written(after)
      <4>1. PICK i \in DOMAIN all : b = all[i]
        BY <3>3 DEF Written
      <4>2. i \in keep
        BY <3>3, <4>1
      <4> HIDE DEF all, keep, after
      <4> QED BY <1>4, <3>2, <4>1, <4>2
    <3> QED BY <2>3, <3>2, <3>3
  <2> QED BY <2>4, <2>5
<1> QED BY <1>5, <1>6

\* v is how IndexOwned goes through the intents.
Indexing(v, s, sweeps) ==
  /\ v[0] = owned[s]
  /\ \A k \in 1..Len(intents) : v[k] = Indexed(s, sweeps, v[k - 1], k)

\* IndexOwned is the last of these indices.
LEMMA IndexSteps ==
  ASSUME TypeOK, DraftOK, NEW s \in Scopes, NEW sweeps
  PROVE  \E v : Indexing(v, s, sweeps) /\ IndexOwned(s, sweeps) = v[Len(intents)]
<1> DEFINE n == Len(intents)
           T == Seq(Atoms)
           F == [k \in 1..n |-> [w \in T |-> Indexed(s, sweeps, w, k)]]
<1>1. n \in Nat /\ owned[s] \in T
  BY DEF TypeOK
<1>2. \A k \in 1..n : \A w \in T : Indexed(s, sweeps, w, k) \in T
  BY IndexedOK
<1>3. StepFunction(F, n, T)
  <2> HIDE DEF n, T
  <2>1. F \in [1..n -> [T -> T]]
    BY <1>2
  <2> QED BY <2>1 DEF StepFunction
<1> HIDE DEF n, T
<1>4. PICK g : Run(g, F, owned[s], n, T)
  <2> HIDE DEF F
  <2> QED BY <1>1, <1>3, Recursion
<1>5. \A k \in 1..n : g[k] = Indexed(s, sweeps, g[k - 1], k)
  <2>1. \A k \in 1..n : k - 1 \in 0..n
    BY <1>1
  <2> QED BY <1>4, <2>1 DEF Run
<1>6. g = [k \in 0..n |-> IF k = 0 THEN owned[s] ELSE Indexed(s, sweeps, g[k - 1], k)]
  <2>1. g \in [0..n -> T] /\ g[0] = owned[s]
    BY <1>4 DEF Run
  <2>2. \A k \in 0..n : k # 0 => k \in 1..n
    BY <1>1
  <2> QED BY <1>5, <2>1, <2>2
<1>7. \E v : /\ v = [k \in 0..Len(intents) |->
                      IF k = 0 THEN owned[s] ELSE Indexed(s, sweeps, v[k - 1], k)]
             /\ IndexOwned(s, sweeps) = v[Len(intents)]
  BY <1>6, Zenon DEF n, IndexOwned, Indexed, Applied
<1>8. PICK v : /\ v = [k \in 0..Len(intents) |->
                        IF k = 0 THEN owned[s] ELSE Indexed(s, sweeps, v[k - 1], k)]
               /\ IndexOwned(s, sweeps) = v[Len(intents)]
  BY <1>7, Zenon
<1>9. v[0] = owned[s] /\ \A k \in 1..n : v[k] = Indexed(s, sweeps, v[k - 1], k)
  <2> DEFINE b == [k \in 1..n |-> Indexed(s, sweeps, v[k - 1], k)]
  <2>1. v = [k \in 0..n |-> IF k = 0 THEN owned[s] ELSE b[k]]
    <3>1. v = [k \in 0..n |-> IF k = 0 THEN owned[s] ELSE Indexed(s, sweeps, v[k - 1], k)]
      BY <1>8, Zenon DEF n
    <3>2. \A k \in 0..n : k # 0 => b[k] = Indexed(s, sweeps, v[k - 1], k)
      BY <1>1
    <3> HIDE DEF b
    <3> QED BY <3>1, <3>2
  <2>2. \A k \in 1..n : b[k] = Indexed(s, sweeps, v[k - 1], k)
    OBVIOUS
  <2> HIDE DEF b
  <2>3. v[0] = owned[s] /\ \A k \in 1..n : v[k] = b[k]
    BY <1>1, <2>1, Equations
  <2> QED BY <2>2, <2>3
<1> QED BY <1>8, <1>9 DEF Indexing, n

\* Whatever is swept on the way, the index holds what the scope owns in the end.
LEMMA IndexOwnedOK ==
  ASSUME TypeOK, DraftOK, NEW s \in Scopes, NEW sweeps
  PROVE  /\ IndexOwned(s, sweeps) \in Seq(Atoms)
         /\ (\A b \in Atoms : override[s][b] # None => b \in Written(owned[s]))
              => \A b \in Atoms : Applied(s, Len(intents), b) => b \in Written(IndexOwned(s, sweeps))
<1> DEFINE n == Len(intents)
           covers == \A b \in Atoms : override[s][b] # None => b \in Written(owned[s])
<1>1. n \in Nat /\ owned[s] \in Seq(Atoms)
  BY DEF TypeOK
<1>2. PICK v : Indexing(v, s, sweeps) /\ IndexOwned(s, sweeps) = v[n]
  BY IndexSteps
<1> DEFINE S == {k \in 0..n : /\ v[k] \in Seq(Atoms)
                              /\ covers => \A b \in Atoms : Applied(s, k, b) => b \in Written(v[k])}
<1>3. 0 \in S
  <2>1. \A b \in Atoms : Applied(s, 0, b) => override[s][b] # None
    BY DEF Applied
  <2>2. v[0] = owned[s]
    BY <1>2 DEF Indexing
  <2> QED BY <1>1, <2>1, <2>2
<1>4. ASSUME NEW k \in 1..n, k - 1 \in S
      PROVE  k \in S
  <2>1. v[k] = Indexed(s, sweeps, v[k - 1], k)
    BY <1>2 DEF Indexing
  <2>2. v[k - 1] \in Seq(Atoms) /\ k \in 0..n
    BY <1>1, <1>4
  <2>3. v[k] \in Seq(Atoms)
    BY <2>1, <2>2, IndexedOK
  <2>4. ASSUME covers
        PROVE  \A b \in Atoms : Applied(s, k, b) => b \in Written(v[k])
    <3>1. \A b \in Atoms : Applied(s, k - 1, b) => b \in Written(v[k - 1])
      BY <1>4, <2>4
    <3> HIDE DEF covers, S
    <3> QED BY <2>1, <2>2, <3>1, IndexedOK
  <2> QED BY <2>2, <2>3, <2>4
<1>5. \A k \in 0..n : k \in S
  <2> HIDE DEF S, n
  <2> QED BY <1>1, <1>3, <1>4, IntervalInduction
<1>6. n \in S
  <2> HIDE DEF S, n
  <2> QED BY <1>1, <1>5
<1> QED BY <1>2, <1>6

-----------------------------------------------------------------------------
(* Creating views *)

\* All overrides, and all views, of a tree.
Overrides == [Scopes -> [Atoms -> Values \cup {None}]]
Views == [Scopes -> [Atoms -> View \cup {None}]]

\* The view of z is where the missing views above s start to inherit from.
Anchor(z, vs, s, a, overrides) ==
  /\ z \in Path[s]
  /\ vs[z][a] # None \/ overrides[z][a] # None \/ z = Root
  /\ \A x \in Path[s] :
       z \in Path[x] /\ x # z => vs[x][a] = None /\ overrides[x][a] = None /\ x # Root

\* What is served there.
AnchorOutcome(z, vs, a, overrides, default) ==
  IF vs[z][a] # None THEN vs[z][a].outcome
    ELSE IF overrides[z][a] # None THEN overrides[z][a] ELSE default

\* w is vs with the missing views of a from s up to z.
Materialized(w, z, vs, s, a, overrides, default) ==
  /\ w \in Views
  /\ \A x \in Scopes, b \in Atoms :
       vs[x][b] # None \/ b # a \/ x \notin Path[s] \/ z \notin Path[x] => w[x][b] = vs[x][b]
  /\ \A x \in Path[s] :
       z \in Path[x] /\ vs[x][a] = None =>
         /\ w[x][a] \in View
         /\ w[x][a].outcome = AnchorOutcome(z, vs, a, overrides, default)
         /\ w[x][a].from = IF x = z THEN None ELSE Parent[x]

\* Views are created from the nearest anchor down, and no others are touched.
LEMMA MaterializeOK ==
  ASSUME NEW vs \in Views, NEW s \in Scopes, NEW a \in Atoms,
         NEW overrides \in Overrides, NEW default \in Outcomes
  PROVE  \E z \in Path[s] :
           /\ Anchor(z, vs, s, a, overrides)
           /\ Materialized(Materialize(vs, s, a, overrides, default),
                           z, vs, s, a, overrides, default)
<1> DEFINE stops == {x \in Path[s] : vs[x][a] # None \/ overrides[x][a] # None \/ x = Root}
           z == Nearest(stops)
           served == AnchorOutcome(z, vs, a, overrides, default)
           missing == {x \in Path[s] : z \in Path[x] /\ vs[x][a] = None}
           new(x) == [outcome |-> served, from |-> IF x = z THEN None ELSE Parent[x]]
           w == Materialize(vs, s, a, overrides, default)
<1>1. Path[s] \subseteq Scopes /\ Root \in stops /\ stops \subseteq Path[s]
  BY PathOK
<1>2. z \in stops /\ stops \subseteq Path[z]
  <2> HIDE DEF stops
  <2> QED BY <1>1, NearestOK
<1>3. z \in Path[s] /\ z \in Scopes /\ (vs[z][a] # None \/ overrides[z][a] # None \/ z = Root)
  BY <1>1, <1>2
<1>4. w = [x \in Scopes |-> IF x \in missing THEN [vs[x] EXCEPT ![a] = new(x)] ELSE vs[x]]
  BY DEF Materialize, AnchorOutcome
<1> HIDE DEF z, w
<1>5. ASSUME NEW x \in Path[s], z \in Path[x], x # z
      PROVE  vs[x][a] = None /\ overrides[x][a] = None /\ x # Root
  <2>1. x \notin Path[z]
    BY <1>3, <1>5, PathChain
  <2>2. x \notin stops
    BY <1>2, <2>1
  <2> QED BY <2>2
<1>6. Anchor(z, vs, s, a, overrides)
  BY <1>3, <1>5 DEF Anchor
<1>7. served \in Outcomes
  <2>1. vs[z][a] \in View \cup {None} /\ overrides[z][a] \in Values \cup {None}
    BY <1>3 DEF Views, Overrides
  <2> QED BY <2>1 DEF AnchorOutcome, View, Outcomes
<1>8. ASSUME NEW x \in missing
      PROVE  new(x) \in View
  <2>1. x # z => Parent[x] \in Scopes
    BY <1>1, <1>5, PathFollows
  <2> HIDE DEF served
  <2> QED BY <1>7, <2>1 DEF View
<1> HIDE DEF new, stops, served
<1>9. w \in Views
  <2>1. ASSUME NEW x \in Scopes
        PROVE  (IF x \in missing THEN [vs[x] EXCEPT ![a] = new(x)] ELSE vs[x])
                 \in [Atoms -> View \cup {None}]
    <3>1. vs[x] \in [Atoms -> View \cup {None}]
      BY DEF Views
    <3> HIDE DEF missing
    <3> QED BY <1>8, <3>1
  <2> HIDE DEF missing
  <2> QED BY <1>4, <2>1 DEF Views
<1>10. ASSUME NEW x \in Scopes, NEW b \in Atoms,
              vs[x][b] # None \/ b # a \/ x \notin Path[s] \/ z \notin Path[x]
       PROVE  w[x][b] = vs[x][b]
  <2>1. CASE x \notin missing
    BY <1>4, <2>1
  <2>2. CASE x \in missing
    <3>1. b # a
      BY <1>10, <2>2
    <3>2. w[x] = [vs[x] EXCEPT ![a] = new(x)] /\ vs[x] \in [Atoms -> View \cup {None}]
      BY <1>4, <2>2 DEF Views
    <3> QED BY <3>1, <3>2
  <2> QED BY <2>1, <2>2
<1>11. ASSUME NEW x \in Path[s], z \in Path[x], vs[x][a] = None
       PROVE  /\ w[x][a] \in View
              /\ w[x][a].outcome = served
              /\ w[x][a].from = IF x = z THEN None ELSE Parent[x]
  <2>1. x \in missing /\ x \in Scopes
    BY <1>1, <1>11
  <2>2. w[x] = [vs[x] EXCEPT ![a] = new(x)] /\ vs[x] \in [Atoms -> View \cup {None}]
    BY <1>4, <2>1 DEF Views
  <2>3. w[x][a] = new(x)
    BY <2>2
  <2>4. new(x) \in View
    BY <1>8, <2>1
  <2> QED BY <2>3, <2>4 DEF new
<1>12. Materialized(w, z, vs, s, a, overrides, default)
  BY <1>9, <1>10, <1>11 DEF Materialized, served
<1> QED BY <1>3, <1>6, <1>12 DEF w

\* Every scope from s up to the anchor has a view then.
LEMMA MaterializedAll ==
  ASSUME NEW vs \in Views, NEW s \in Scopes, NEW a \in Atoms,
         NEW overrides, NEW default, NEW w, NEW z \in Path[s],
         Materialized(w, z, vs, s, a, overrides, default)
  PROVE  /\ \A x \in Path[s] : z \in Path[x] => w[x][a] # None
         /\ \A x \in Scopes, b \in Atoms : vs[x][b] # None => w[x][b] = vs[x][b]
<1>1. ASSUME NEW x \in Path[s], z \in Path[x]
      PROVE  w[x][a] # None
  <2>1. x \in Scopes
    BY PathOK
  <2>2. CASE vs[x][a] # None
    BY <2>1, <2>2 DEF Materialized
  <2>3. CASE vs[x][a] = None
    BY <1>1, <2>3, ViewAssumption DEF Materialized
  <2> QED BY <2>2, <2>3
<1>2. ASSUME NEW x \in Scopes, NEW b \in Atoms, vs[x][b] # None
      PROVE  w[x][b] = vs[x][b]
  BY <1>2 DEF Materialized
<1> QED BY <1>1, <1>2

-----------------------------------------------------------------------------
(* Rewiring *)

\* One view inherits from elsewhere.
WithFrom(vs, s, a, p) == [vs EXCEPT ![s][a].from = p]

\* w is vs but for where the view of s and a inherits from.
FromSet(w, vs, s, a, p) ==
  /\ w \in Views
  /\ w[s][a] \in View /\ w[s][a].outcome = vs[s][a].outcome /\ w[s][a].from = p
  /\ \A x \in Scopes, b \in Atoms : x # s \/ b # a => w[x][b] = vs[x][b]

\* A view can be made to inherit from elsewhere.
LEMMA FromSetOK ==
  ASSUME NEW vs \in Views, NEW s \in Scopes, NEW a \in Atoms, vs[s][a] # None,
         NEW p \in Scopes \cup {None}
  PROVE  FromSet(WithFrom(vs, s, a, p), vs, s, a, p)
<1> DEFINE w == WithFrom(vs, s, a, p)
           new == [vs[s][a] EXCEPT !.from = p]
           row == [vs[s] EXCEPT ![a] = new]
<1>1. vs[s] \in [Atoms -> View \cup {None}] /\ vs[s][a] \in View
  BY DEF Views
<1>2. new \in View /\ new.outcome = vs[s][a].outcome /\ new.from = p
  BY <1>1 DEF View
<1>3. w = [vs EXCEPT ![s] = row]
  BY DEF WithFrom
<1> HIDE DEF new, w
<1>4. row \in [Atoms -> View \cup {None}] /\ row[a] = new /\ \A b \in Atoms : b # a => row[b] = vs[s][b]
  BY <1>1, <1>2
<1> HIDE DEF row
<1>5. w \in Views /\ w[s] = row /\ \A x \in Scopes : x # s => w[x] = vs[x]
  BY <1>3, <1>4 DEF Views
<1>6. FromSet(w, vs, s, a, p)
  BY <1>2, <1>4, <1>5 DEF FromSet
<1> QED BY <1>6 DEF w

\* The views after the k-th intent is rewired.
RewiredOnce(overrides, fallbacks, vs, k) ==
  IF vs[intents[k].scope][intents[k].atom] = None THEN vs
    ELSE IF intents[k].kind = "set" \/ intents[k].scope = Root
      THEN [vs EXCEPT ![intents[k].scope][intents[k].atom].from = None]
      ELSE [Materialize(vs, Parent[intents[k].scope], intents[k].atom, overrides,
                        fallbacks[intents[k].atom])
             EXCEPT ![intents[k].scope][intents[k].atom].from = Parent[intents[k].scope]]

\* The k-th intent makes its scope an owner, or is the root's.
Detaches(k) == intents[k].kind = "set" \/ intents[k].scope = Root

\* Views keep their outcome and, but for the intent's own, where they inherit
\* from; only a reset below the root creates some, above its scope.
OneRewired(w, vs, overrides, fallbacks, k) ==
  /\ w \in Views
  /\ \A x \in Scopes, b \in Atoms :
       vs[x][b] # None =>
         /\ w[x][b] \in View
         /\ w[x][b].outcome = vs[x][b].outcome
         /\ x # intents[k].scope \/ b # intents[k].atom => w[x][b] = vs[x][b]
  /\ vs[intents[k].scope][intents[k].atom] = None => w = vs
  /\ vs[intents[k].scope][intents[k].atom] # None =>
       w[intents[k].scope][intents[k].atom].from
         = IF Detaches(k) THEN None ELSE Parent[intents[k].scope]
  /\ Detaches(k) => \A x \in Scopes, b \in Atoms : vs[x][b] = None => w[x][b] = None
  /\ vs[intents[k].scope][intents[k].atom] # None /\ ~Detaches(k) =>
       \E z \in Path[Parent[intents[k].scope]], u \in Views :
         /\ Anchor(z, vs, Parent[intents[k].scope], intents[k].atom, overrides)
         /\ Materialized(u, z, vs, Parent[intents[k].scope], intents[k].atom, overrides,
                         fallbacks[intents[k].atom])
         /\ \A x \in Scopes, b \in Atoms :
              x # intents[k].scope \/ b # intents[k].atom => w[x][b] = u[x][b]

\* Rewiring one intent does what OneRewired says.
LEMMA RewiredOnceOK ==
  ASSUME intents \in Seq(Intent), NEW overrides \in Overrides, NEW fallbacks,
         NEW vs \in Views, NEW k \in 1..Len(intents), fallbacks[intents[k].atom] \in Outcomes
  PROVE  OneRewired(RewiredOnce(overrides, fallbacks, vs, k), vs, overrides, fallbacks, k)
<1> DEFINE s == intents[k].scope
           a == intents[k].atom
           w == RewiredOnce(overrides, fallbacks, vs, k)
<1>1. s \in Scopes /\ a \in Atoms
  <2>1. intents[k] \in Intent
    OBVIOUS
  <2> QED BY <2>1 DEF Intent
<1>2. \A x \in Scopes, b \in Atoms : vs[x][b] \in View \cup {None}
  BY DEF Views
<1>3. CASE vs[s][a] = None
  <2>1. w = vs
    BY <1>3 DEF RewiredOnce
  <2> HIDE DEF w
  <2> QED BY <1>2, <1>3, <2>1 DEF OneRewired, w
<1>4. CASE vs[s][a] # None /\ Detaches(k)
  <2>1. w = [vs EXCEPT ![s][a].from = None]
    BY <1>4 DEF RewiredOnce, Detaches
  <2> HIDE DEF w, s, a
  <2>2. /\ w \in Views
        /\ w[s][a] \in View /\ w[s][a].outcome = vs[s][a].outcome /\ w[s][a].from = None
        /\ \A x \in Scopes, b \in Atoms : x # s \/ b # a => w[x][b] = vs[x][b]
    <3>1. FromSet(WithFrom(vs, s, a, None), vs, s, a, None)
      BY <1>1, <1>4, FromSetOK
    <3> QED BY <2>1, <3>1 DEF FromSet, WithFrom
  <2>3. \A x \in Scopes, b \in Atoms :
          vs[x][b] # None => w[x][b] \in View /\ w[x][b].outcome = vs[x][b].outcome
    BY <1>2, <2>2
  <2>4. \A x \in Scopes, b \in Atoms : vs[x][b] = None => w[x][b] = None
    BY <1>4, <2>2
  <2> QED BY <1>4, <2>2, <2>3, <2>4 DEF OneRewired, w, s, a
<1>5. CASE vs[s][a] # None /\ ~Detaches(k)
  <2> DEFINE u == Materialize(vs, Parent[s], a, overrides, fallbacks[a])
  <2>1. w = [u EXCEPT ![s][a].from = Parent[s]]
    BY <1>5 DEF RewiredOnce, Detaches
  <2>2. Parent[s] \in Scopes
    BY <1>1, <1>5, PathFollows DEF Detaches
  <2> HIDE DEF w, s, a, u
  <2>3. PICK z \in Path[Parent[s]] :
          /\ Anchor(z, vs, Parent[s], a, overrides)
          /\ Materialized(u, z, vs, Parent[s], a, overrides, fallbacks[a])
    <3>1. fallbacks[a] \in Outcomes
      BY DEF a
    <3> QED BY <1>1, <2>2, <3>1, MaterializeOK DEF u
  <2>4. u \in Views /\ \A x \in Scopes, b \in Atoms : vs[x][b] # None => u[x][b] = vs[x][b]
    BY <2>3 DEF Materialized
  <2>5. /\ w \in Views
        /\ w[s][a] \in View /\ w[s][a].outcome = u[s][a].outcome /\ w[s][a].from = Parent[s]
        /\ \A x \in Scopes, b \in Atoms : x # s \/ b # a => w[x][b] = u[x][b]
    <3>1. u[s][a] # None
      BY <1>1, <1>5, <2>4
    <3>2. FromSet(WithFrom(u, s, a, Parent[s]), u, s, a, Parent[s])
      BY <1>1, <2>2, <2>4, <3>1, FromSetOK
    <3> QED BY <2>1, <3>2 DEF FromSet, WithFrom
  <2>6. \A x \in Scopes, b \in Atoms :
          vs[x][b] # None => /\ w[x][b] \in View
                             /\ w[x][b].outcome = vs[x][b].outcome
                             /\ x # s \/ b # a => w[x][b] = vs[x][b]
    BY <1>1, <1>2, <2>4, <2>5
  <2> QED BY <1>5, <2>3, <2>4, <2>5, <2>6 DEF OneRewired, w, s, a
<1> QED BY <1>3, <1>4, <1>5

\* v is how Rewire goes through the intents.
Rewiring(v, overrides, fallbacks) ==
  /\ v[0] = views
  /\ \A k \in 0..Len(intents) : v[k] \in Views
  /\ \A k \in 1..Len(intents) : v[k] = RewiredOnce(overrides, fallbacks, v[k - 1], k)

\* Rewire is the last step of rewiring the intents one by one.
LEMMA RewireSteps ==
  ASSUME intents \in Seq(Intent), views \in Views,
         NEW overrides \in Overrides, NEW fallbacks,
         \A k \in 1..Len(intents) : fallbacks[intents[k].atom] \in Outcomes
  PROVE  \E v : Rewiring(v, overrides, fallbacks)
                  /\ Rewire(overrides, fallbacks) = v[Len(intents)]
<1> DEFINE n == Len(intents)
           T == Views
           step(w, k) == RewiredOnce(overrides, fallbacks, w, k)
           F == [k \in 1..n |-> [w \in T |-> step(w, k)]]
<1>1. n \in Nat /\ views \in T
  OBVIOUS
<1>2. ASSUME NEW k \in 1..n, NEW w \in T
      PROVE  step(w, k) \in T
  BY RewiredOnceOK DEF OneRewired
<1>3. StepFunction(F, n, T)
  <2> HIDE DEF n, T, step
  <2>1. F \in [1..n -> [T -> T]]
    BY <1>2
  <2> QED BY <2>1 DEF StepFunction
<1> HIDE DEF n, T, step
<1>4. PICK g : Run(g, F, views, n, T)
  <2> HIDE DEF F
  <2> QED BY <1>1, <1>3, Recursion
<1>5. \A k \in 1..n : g[k] = step(g[k - 1], k)
  <2>1. \A k \in 1..n : k - 1 \in 0..n
    BY <1>1
  <2> QED BY <1>4, <2>1 DEF Run
<1>6. g = [k \in 0..n |-> IF k = 0 THEN views ELSE step(g[k - 1], k)]
  <2>1. g \in [0..n -> T] /\ g[0] = views
    BY <1>4 DEF Run
  <2>2. \A k \in 0..n : k # 0 => k \in 1..n
    BY <1>1
  <2> QED BY <1>5, <2>1, <2>2
<1>7. \E v : /\ v = [k \in 0..Len(intents) |->
                      IF k = 0 THEN views ELSE RewiredOnce(overrides, fallbacks, v[k - 1], k)]
             /\ Rewire(overrides, fallbacks) = v[Len(intents)]
  BY <1>6, ZenonT(60) DEF n, step, Rewire, RewiredOnce
<1>8. PICK v : /\ v = [k \in 0..Len(intents) |->
                        IF k = 0 THEN views ELSE RewiredOnce(overrides, fallbacks, v[k - 1], k)]
               /\ Rewire(overrides, fallbacks) = v[Len(intents)]
  BY <1>7, Zenon
<1>9. v[0] = views /\ \A k \in 1..n : v[k] = step(v[k - 1], k)
  <2> DEFINE b == [k \in 1..n |-> step(v[k - 1], k)]
  <2>1. v = [k \in 0..n |-> IF k = 0 THEN views ELSE b[k]]
    <3>1. v = [k \in 0..n |-> IF k = 0 THEN views ELSE step(v[k - 1], k)]
      BY <1>8, Zenon DEF n, step
    <3>2. \A k \in 0..n : k # 0 => b[k] = step(v[k - 1], k)
      BY <1>1
    <3> HIDE DEF b
    <3> QED BY <3>1, <3>2
  <2>2. \A k \in 1..n : b[k] = step(v[k - 1], k)
    OBVIOUS
  <2> HIDE DEF b
  <2>3. v[0] = views /\ \A k \in 1..n : v[k] = b[k]
    BY <1>1, <2>1, Equations
  <2> QED BY <2>2, <2>3
<1>10. \A k \in 0..n : v[k] \in T
  <2>1. \A k \in 1..n : v[k - 1] \in T => v[k] \in T
    BY <1>2, <1>9
  <2> QED BY <1>1, <1>9, <2>1, Stays
<1> QED BY <1>8, <1>9, <1>10 DEF Rewiring, n, step, T

-----------------------------------------------------------------------------
(* Reads and scopes *)

\* A closed draft is in order, whatever is committed.
LEMMA ClosedDraft ==
  ASSUME DraftOK, ~open, UNCHANGED draft
  PROVE  DraftOK'
<1>1. intents = <<>> /\ intents' = <<>> /\ ~open'
  BY DEF DraftOK, draft
<1>2. Written(<<>>) = {}
  BY DEF Written
<1> QED BY <1>1, <1>2 DEF DraftOK, Staged, OneEach

\* What a draft does leaves alone what is said of the committed state.
LEMMA CommittedSame ==
  ASSUME IInv, UNCHANGED committed, UNCHANGED fault
  PROVE  ParentsLive' /\ Vacant' /\ OwnersSettled' /\ IndexCoversOwned' /\ ~fault'
BY DEF IInv, committed, ParentsLive, Vacant, OwnersSettled, IndexCoversOwned, LiveScopes

\* The scopes above a live one are live.
LEMMA LivePath ==
  ASSUME ParentsLive, NEW s \in LiveScopes
  PROVE  Path[s] \subseteq LiveScopes
<1> DEFINE S == {x \in Scopes : x \in LiveScopes => Path[x] \subseteq LiveScopes}
<1>1. Root \in S
  BY TreeAssumption, PathFollows
<1>2. ASSUME NEW x \in Scopes \ {Root}, Parent[x] \in S
      PROVE  x \in S
  BY <1>2, PathFollows DEF ParentsLive, LiveScopes
<1>3. Scopes \subseteq S
  <2> HIDE DEF S
  <2> QED BY <1>1, <1>2, TreeInduction
<1> QED BY <1>3 DEF LiveScopes

\* A read creates views above a live scope, and may settle one fallback.
LEMMA GetInductive ==
  ASSUME IInv, NEW s \in Scopes, NEW a \in Atoms, Get(s, a)
  PROVE  IInv'
<1> USE DEF IInv
<1>1. ~open /\ s \in LiveScopes /\ UNCHANGED <<status, override, owned, draft, fault>>
      /\ reached' = NoneReached
  BY DEF Get
<1>2. PICK default \in Outcomes :
        /\ fallback[a] # None => default = fallback[a]
        /\ views' = Materialize(views, s, a, override, default)
        /\ fallback' = IF \E x \in Path[s] : views[x][a] # None \/ override[x][a] # None
                         THEN fallback ELSE [fallback EXCEPT ![a] = default]
  BY DEF Get
<1>3. views \in Views /\ override \in Overrides /\ fallback \in [Atoms -> Outcomes \cup {None}]
  BY DEF TypeOK, Views, Overrides
<1>4. PICK z \in Path[s] : Materialized(views', z, views, s, a, override, default)
  BY <1>2, <1>3, MaterializeOK
<1>5. /\ fallback' \in [Atoms -> Outcomes \cup {None}]
      /\ \A b \in Atoms : fallback[b] # None => fallback'[b] # None
  BY <1>2, <1>3, DistinctAssumption
<1>6. TypeOK'
  <2>1. views' \in [Scopes -> [Atoms -> View \cup {None}]]
    BY <1>4 DEF Materialized, Views
  <2>2. reached' \in [Atoms -> SUBSET Scopes]
    BY <1>1 DEF NoneReached
  <2> QED BY <1>1, <1>5, <2>1, <2>2 DEF TypeOK, draft
<1>7. ParentsLive' /\ IndexCoversOwned' /\ ~fault'
  BY <1>1 DEF ParentsLive, IndexCoversOwned, LiveScopes
<1>8. Vacant'
  <2>1. Path[s] \subseteq LiveScopes
    BY <1>1, LivePath
  <2>2. ASSUME NEW x \in Scopes, NEW b \in Atoms, status[x] # "live"
        PROVE  override[x][b] = None /\ views'[x][b] = None
    <3>1. x \notin Path[s]
      BY <2>1, <2>2 DEF LiveScopes
    <3>2. views'[x][b] = views[x][b]
      BY <1>4, <3>1 DEF Materialized
    <3> QED BY <2>2, <3>2 DEF Vacant
  <2> QED BY <1>1, <2>2 DEF Vacant
<1>9. OwnersSettled'
  BY <1>1, <1>5 DEF OwnersSettled
<1>10. DraftOK'
  BY <1>1, ClosedDraft
<1> QED BY <1>6, <1>7, <1>8, <1>9, <1>10

\* A read for hydration settles at most one fallback.
LEMMA ReadHydrationInductive ==
  ASSUME IInv, NEW s \in Scopes, NEW a \in Atoms, ReadHydration(s, a)
  PROVE  IInv'
<1> USE DEF IInv
<1>1. ~open /\ UNCHANGED <<status, override, views, owned, draft, fault>> /\ reached' = NoneReached
  BY DEF ReadHydration
<1>2. /\ fallback' \in [Atoms -> Outcomes \cup {None}]
      /\ \A b \in Atoms : fallback[b] # None => fallback'[b] # None
  <2>1. CASE Owners(s, a) = {} /\ fallback[a] = None
    BY <2>1, DistinctAssumption DEF ReadHydration, TypeOK
  <2>2. CASE ~(Owners(s, a) = {} /\ fallback[a] = None)
    BY <2>2 DEF ReadHydration, TypeOK
  <2> QED BY <2>1, <2>2
<1>3. TypeOK'
  BY <1>1, <1>2 DEF TypeOK, NoneReached, draft
<1>4. ParentsLive' /\ Vacant' /\ IndexCoversOwned' /\ ~fault'
  BY <1>1 DEF ParentsLive, Vacant, IndexCoversOwned, LiveScopes
<1>5. OwnersSettled'
  BY <1>1, <1>2 DEF OwnersSettled
<1>6. DraftOK'
  BY <1>1, ClosedDraft
<1> QED BY <1>3, <1>4, <1>5, <1>6

\* A new scope holds nothing.
LEMMA CreateScopeInductive ==
  ASSUME IInv, NEW s \in Scopes, CreateScope(s)
  PROVE  IInv'
<1> USE DEF IInv
<1>1. /\ ~open /\ s # Root /\ status[s] = "absent" /\ Parent[s] \in LiveScopes
      /\ status' = [status EXCEPT ![s] = "live"]
      /\ UNCHANGED <<override, fallback, views, owned, draft, fault>> /\ reached' = NoneReached
  BY DEF CreateScope
<1>2. TypeOK'
  BY <1>1 DEF TypeOK, NoneReached, draft
<1>3. \A x \in Scopes : status'[x] = IF x = s THEN "live" ELSE status[x]
  BY <1>1 DEF TypeOK
<1>4. ParentsLive'
  BY <1>1, <1>3, PathFollows DEF ParentsLive, LiveScopes
<1>5. Vacant' /\ OwnersSettled' /\ ~fault'
  BY <1>1, <1>3 DEF Vacant, OwnersSettled
<1>6. IndexCoversOwned'
  <2>1. ASSUME NEW x \in Scopes \ {Root}, status'[x] = "live", NEW b \in Atoms, override[x][b] # None
        PROVE  \E i \in DOMAIN owned[x] : owned[x][i] = b
    <3>1. status[x] = "live"
      BY <2>1 DEF Vacant
    <3> QED BY <2>1, <3>1 DEF IndexCoversOwned, LiveScopes
  <2> QED BY <1>1, <2>1 DEF IndexCoversOwned, LiveScopes
<1>7. DraftOK'
  BY <1>1, ClosedDraft
<1> QED BY <1>2, <1>4, <1>5, <1>6, <1>7

\* Disposing a subtree leaves nothing behind in it.
LEMMA DisposeInductive ==
  ASSUME IInv, NEW s \in Scopes, Dispose(s)
  PROVE  IInv'
<1> USE DEF IInv
<1> DEFINE gone == {x \in LiveScopes : s \in Path[x]}
<1>1. /\ ~open /\ s \in LiveScopes
      /\ status' = [x \in Scopes |-> IF x \in gone THEN "disposed" ELSE status[x]]
      /\ override' = [x \in Scopes |-> IF x \in gone THEN [a \in Atoms |-> None] ELSE override[x]]
      /\ views' = [x \in Scopes |-> IF x \in gone THEN [a \in Atoms |-> None] ELSE views[x]]
      /\ owned' = [x \in Scopes |-> IF x \in gone THEN <<>> ELSE owned[x]]
      /\ fallback' = IF s = Root THEN [a \in Atoms |-> IF a \in Lazy THEN None ELSE EagerFallback[a]]
                       ELSE fallback
      /\ UNCHANGED <<draft, fault>> /\ reached' = NoneReached
  BY DEF Dispose
<1>2. ASSUME NEW x \in Scopes, x # Root, s \in Path[Parent[x]]
      PROVE  s \in Path[x]
  BY <1>2, PathFollows
<1>3. ASSUME s = Root, NEW x \in Scopes, status[x] = "live"
      PROVE  x \in gone
  BY <1>3, PathOK DEF LiveScopes
<1>4. gone \subseteq LiveScopes
  OBVIOUS
<1> HIDE DEF gone
<1>5. TypeOK'
  <2>1. fallback' \in [Atoms -> Outcomes \cup {None}]
    BY <1>1, AtomsAssumption DEF TypeOK, Outcomes
  <2>2. status' \in [Scopes -> {"absent", "live", "disposed"}]
    BY <1>1 DEF TypeOK
  <2>3. override' \in [Scopes -> [Atoms -> Values \cup {None}]]
    BY <1>1 DEF TypeOK
  <2>4. views' \in [Scopes -> [Atoms -> View \cup {None}]]
    BY <1>1 DEF TypeOK
  <2>5. owned' \in [Scopes -> Seq(Atoms)]
    BY <1>1 DEF TypeOK
  <2>6. open' \in BOOLEAN /\ intents' \in Seq(Intent) /\ memo' \in [Atoms -> Outcomes \cup {None}]
        /\ fault' \in BOOLEAN
    BY <1>1 DEF TypeOK, draft
  <2>7. reached' \in [Atoms -> SUBSET Scopes]
    BY <1>1 DEF NoneReached
  <2> QED BY <2>1, <2>2, <2>3, <2>4, <2>5, <2>6, <2>7 DEF TypeOK
<1>6. ParentsLive'
  <2>1. ASSUME NEW x \in Scopes \ {Root}, status'[x] = "live"
        PROVE  status'[Parent[x]] = "live"
    <3>1. x \notin gone /\ status[x] = "live"
      BY <1>1, <2>1
    <3>2. status[Parent[x]] = "live" /\ Parent[x] \in Scopes
      BY <3>1, PathFollows DEF ParentsLive
    <3>3. Parent[x] \notin gone
      BY <1>2, <3>1 DEF gone, LiveScopes
    <3> QED BY <1>1, <3>2, <3>3
  <2> QED BY <2>1 DEF ParentsLive
<1>7. Vacant'
  <2>1. ASSUME NEW x \in Scopes, NEW b \in Atoms, status'[x] # "live"
        PROVE  override'[x][b] = None /\ views'[x][b] = None
    BY <1>1, <2>1 DEF Vacant
  <2> QED BY <2>1 DEF Vacant
<1>8. OwnersSettled'
  <2>1. ASSUME NEW x \in Scopes, NEW b \in Atoms, override'[x][b] # None
        PROVE  fallback'[b] # None
    <3>1. x \notin gone /\ override[x][b] # None
      BY <1>1, <2>1
    <3>2. s # Root
      BY <1>3, <3>1 DEF Vacant
    <3> QED BY <1>1, <3>1, <3>2 DEF OwnersSettled
  <2> QED BY <2>1 DEF OwnersSettled
<1>9. IndexCoversOwned'
  <2>1. ASSUME NEW x \in Scopes \ {Root}, status'[x] = "live", NEW b \in Atoms, override'[x][b] # None
        PROVE  \E i \in DOMAIN owned'[x] : owned'[x][i] = b
    <3>1. x \notin gone /\ status[x] = "live" /\ override[x][b] # None /\ owned'[x] = owned[x]
      BY <1>1, <2>1
    <3> QED BY <3>1 DEF IndexCoversOwned, LiveScopes
  <2> QED BY <2>1 DEF IndexCoversOwned, LiveScopes
<1>10. DraftOK' /\ ~fault'
  BY <1>1, ClosedDraft
<1> QED BY <1>5, <1>6, <1>7, <1>8, <1>9, <1>10

-----------------------------------------------------------------------------
(* Drafting *)

\* An open draft that is in order under what is committed now stays so.
LEMMA DraftedInductive ==
  ASSUME IInv, UNCHANGED <<committed, fault>>, reached' \in [Atoms -> SUBSET Scopes],
         open' \in BOOLEAN, intents' \in Seq(Intent), memo' \in [Atoms -> Outcomes \cup {None}],
         OneEach(intents'), Staged(intents', memo'), ~open' => intents' = <<>>
  PROVE  IInv'
<1>1. ParentsLive' /\ Vacant' /\ OwnersSettled' /\ IndexCoversOwned' /\ ~fault'
  BY CommittedSame
<1>2. TypeOK'
  BY DEF IInv, TypeOK, committed
<1>3. DraftOK'
  BY DEF DraftOK, Staged, committed
<1> QED BY <1>1, <1>2, <1>3 DEF IInv

\* Nothing is staged in an empty draft.
LEMMA EmptyDraft ==
  ASSUME NEW m
  PROVE  OneEach(<<>>) /\ Staged(<<>>, m) /\ <<>> \in Seq(Intent)
<1>1. Written(<<>>) = {}
  BY DEF Written
<1> QED BY <1>1 DEF OneEach, Staged

\* Opening and dropping a draft commit nothing.
LEMMA EmptiedInductive ==
  ASSUME IInv, UNCHANGED <<committed, fault>>, reached' \in [Atoms -> SUBSET Scopes],
         open' \in BOOLEAN, intents' = <<>>, memo' = [a \in Atoms |-> None]
  PROVE  IInv'
<1>1. OneEach(intents') /\ Staged(intents', memo') /\ intents' \in Seq(Intent)
  BY EmptyDraft
<1>2. memo' \in [Atoms -> Outcomes \cup {None}]
  OBVIOUS
<1> QED BY <1>1, <1>2, DraftedInductive

\* A step of the callback that stages an intent that may be staged, or none.
LEMMA StagingInductive ==
  ASSUME IInv, UNCHANGED <<committed, open, reached, fault>>, open,
         NEW a \in Atoms, NEW falls \in BOOLEAN, memo' \in Memos(a, falls),
         \/ intents' = intents
         \/ \E t \in Intent : Stageable(intents, memo', t) /\ intents' = Stage(intents, t)
  PROVE  IInv'
<1>0. memo \in [Atoms -> Outcomes \cup {None}]
  BY DEF IInv, TypeOK
<1>1. /\ memo' \in [Atoms -> Outcomes \cup {None}]
      /\ \A b \in Atoms : memo[b] # None => memo'[b] = memo[b]
  BY <1>0, MemosOK
<1>2. intents \in Seq(Intent) /\ OneEach(intents) /\ Staged(intents, memo)
      /\ reached' \in [Atoms -> SUBSET Scopes] /\ open' \in BOOLEAN
  BY DEF IInv, TypeOK, DraftOK
<1>3. Staged(intents, memo')
  BY <1>1, <1>2, StagedRemembers
<1>4. intents' \in Seq(Intent) /\ OneEach(intents') /\ Staged(intents', memo')
  <2>1. CASE intents' = intents
    BY <1>2, <1>3, <2>1
  <2>2. ASSUME NEW t \in Intent, Stageable(intents, memo', t), intents' = Stage(intents, t)
        PROVE  intents' \in Seq(Intent) /\ OneEach(intents') /\ Staged(intents', memo')
    BY <1>2, <1>3, <2>2, StageOK, StagedStays
  <2> QED BY <2>1, <2>2
<1> QED BY <1>1, <1>2, <1>4, DraftedInductive

\* A draft read may remember one fallback.
LEMMA TxGetInductive ==
  ASSUME IInv, NEW s \in Scopes, NEW a \in Atoms, TxGet(s, a)
  PROVE  IInv'
<1>1. memo' \in Memos(a, DraftOwners(s, a) = {}) /\ (DraftOwners(s, a) = {}) \in BOOLEAN
  BY DEF TxGet
<1>2. open /\ UNCHANGED <<committed, open, reached, fault>> /\ intents' = intents
  BY DEF TxGet
<1> QED BY <1>1, <1>2, StagingInductive

\* A set stages one intent, its baseline remembered.
LEMMA TxSetInductive ==
  ASSUME IInv, NEW s \in Scopes, NEW a \in Atoms, NEW v \in Values, TxSet(s, a, v)
  PROVE  IInv'
<1>1. /\ memo' \in Memos(a, BaselineFalls(s, a)) /\ BaselineFalls(s, a) \in BOOLEAN
      /\ intents' = Stage(intents, SetIntent(s, a, v, memo'))
  BY DEF TxSet, BaselineFalls
<1>2. open /\ status[s] = "live" /\ UNCHANGED <<committed, open, reached, fault>>
  BY DEF TxSet, Writable, LiveScopes
<1>3. /\ SetIntent(s, a, v, memo') \in Intent
      /\ Stageable(intents, memo', SetIntent(s, a, v, memo'))
  BY <1>1, <1>2, SetStageable DEF IInv
<1> QED BY <1>1, <1>2, <1>3, StagingInductive

\* An update stages one intent, unless the updater met a failure.
LEMMA TxUpdateInductive ==
  ASSUME IInv, NEW s \in Scopes, NEW a \in Atoms, NEW v \in Values, TxUpdate(s, a, v)
  PROVE  IInv'
<1> DEFINE falls == BaselineFalls(s, a) \/ DraftOwners(s, a) = {}
<1>1. /\ memo' \in Memos(a, falls) /\ falls \in BOOLEAN /\ (BaselineFalls(s, a) => falls)
      /\ intents' = intents \/ intents' = Stage(intents, SetIntent(s, a, v, memo'))
  BY DEF TxUpdate, BaselineFalls
<1>2. open /\ status[s] = "live" /\ UNCHANGED <<committed, open, reached, fault>>
  BY DEF TxUpdate, Writable, LiveScopes
<1> HIDE DEF falls
<1>3. /\ SetIntent(s, a, v, memo') \in Intent
      /\ Stageable(intents, memo', SetIntent(s, a, v, memo'))
  BY <1>1, <1>2, SetStageable DEF IInv
<1> QED BY <1>1, <1>2, <1>3, StagingInductive

\* A reset stages one intent, unless what it would inherit failed.
LEMMA TxResetInductive ==
  ASSUME IInv, NEW s \in Scopes, NEW a \in Atoms, TxReset(s, a)
  PROVE  IInv'
<1> DEFINE falls == BaselineFalls(s, a) \/ ResetFalls(s, a)
<1>1. /\ memo' \in Memos(a, falls) /\ falls \in BOOLEAN /\ (BaselineFalls(s, a) => falls)
      /\ intents' = intents \/ intents' = Stage(intents, ResetIntent(s, a, memo'))
  BY DEF TxReset, BaselineFalls, ResetFalls
<1>2. open /\ status[s] = "live" /\ UNCHANGED <<committed, open, reached, fault>>
  BY DEF TxReset, Writable, LiveScopes
<1> HIDE DEF falls
<1>3. fallback[a] = None => memo'[a] # None
  <2>1. Path[s] \subseteq Scopes
    BY PathOK
  <2>2. fallback[a] = None => falls
    BY <1>1, <2>1 DEF IInv, OwnersSettled, BaselineFalls, Owners
  <2> QED BY <1>1, <2>2, MemosOK DEF IInv, TypeOK
<1>4. /\ ResetIntent(s, a, memo') \in Intent
      /\ Stageable(intents, memo', ResetIntent(s, a, memo'))
  BY <1>2, <1>3, ResetStageable DEF IInv
<1> QED BY <1>1, <1>2, <1>4, StagingInductive

\* A resetAll stages a reset of each candidate, or nothing.
LEMMA ResetAllSteps ==
  ASSUME IInv, NEW s \in Scopes, TxResetAll(s)
  PROVE  /\ s # Root /\ status[s] = "live" /\ open /\ UNCHANGED <<committed, open, reached, fault>>
         /\ memo' \in [Atoms -> Outcomes \cup {None}]
         /\ \A b \in Atoms : memo[b] # None => memo'[b] = memo[b]
         /\ \/ /\ intents' = intents
               /\ \E a \in Atoms, m \in [Atoms -> Outcomes \cup {None}] :
                    ResetOutcome(s, a, m) \notin Values /\ memo'[a] = m[a]
                    /\ (fallback[a] = None => m[a] # None)
            \/ ResetDone(intents', s, Candidates(s), Len(Candidates(s)), memo')
<1> DEFINE atoms == Candidates(s)
           n == Len(atoms)
           run(i) == /\ ResetFalls(s, atoms[i]) \/ BaselineFalls(s, atoms[i])
                     /\ fallback[atoms[i]] = None /\ memo[atoms[i]] = None
           fresh == {i \in DOMAIN atoms : run(i)}
           picked(a) == CHOOSE i \in fresh : atoms[i] = a
<1>1. atoms \in Seq(Atoms) /\ n \in Nat /\ DOMAIN atoms = 1..n
  BY CandidatesOK DEF IInv
<1>2. PICK results \in [fresh -> Outcomes] :
        LET all == [a \in Atoms |->
                     IF \E i \in fresh : atoms[i] = a THEN results[picked(a)] ELSE memo[a]]
            failing == {i \in DOMAIN atoms : ResetOutcome(s, atoms[i], all) \notin Values}
            visited == {i \in DOMAIN atoms : \A f \in failing : i <= f}
        IN /\ memo' = [a \in Atoms |->
                        IF \E i \in visited : atoms[i] = a THEN all[a] ELSE memo[a]]
           /\ intents' = IF failing = {} THEN StageResets(s, atoms, all) ELSE intents
  BY DEF TxResetAll
<1> DEFINE all == [a \in Atoms |->
                    IF \E i \in fresh : atoms[i] = a THEN results[picked(a)] ELSE memo[a]]
           failing == {i \in DOMAIN atoms : ResetOutcome(s, atoms[i], all) \notin Values}
           visited == {i \in DOMAIN atoms : \A f \in failing : i <= f}
<1>3. /\ memo' = [a \in Atoms |-> IF \E i \in visited : atoms[i] = a THEN all[a] ELSE memo[a]]
      /\ intents' = IF failing = {} THEN StageResets(s, atoms, all) ELSE intents
  BY <1>2
<1>4. s # Root /\ status[s] = "live" /\ open /\ UNCHANGED <<committed, open, reached, fault>>
  BY DEF TxResetAll, Writable, LiveScopes
<1>5. memo \in [Atoms -> Outcomes \cup {None}]
  BY DEF IInv, TypeOK
<1>6. ASSUME NEW a \in Atoms
      PROVE  /\ all[a] \in Outcomes \cup {None}
             /\ memo[a] # None => all[a] = memo[a]
             /\ \A i \in fresh : atoms[i] = a => all[a] # None
  <2>1. CASE \E i \in fresh : atoms[i] = a
    <3>1. picked(a) \in fresh /\ atoms[picked(a)] = a
      BY <2>1
    <3>2. all[a] = results[picked(a)]
      BY <2>1
    <3>3. all[a] \in Outcomes
      <4> HIDE DEF picked, fresh, all
      <4> QED BY <3>1, <3>2
    <3>4. memo[a] = None
      BY <3>1
    <3> QED BY <3>3, <3>4, DistinctAssumption
  <2>2. CASE ~\E i \in fresh : atoms[i] = a
    <3>1. all[a] = memo[a]
      BY <2>2
    <3> HIDE DEF all
    <3> QED BY <1>5, <2>2, <3>1
  <2> QED BY <2>1, <2>2
<1>7. ASSUME NEW i \in 1..n, fallback[atoms[i]] = None
      PROVE  all[atoms[i]] # None
  <2>1. atoms[i] \in Atoms
    BY <1>1
  <2>2. BaselineFalls(s, atoms[i])
    <3>1. Path[s] \subseteq Scopes
      BY PathOK
    <3> HIDE DEF atoms
    <3> QED BY <1>7, <2>1, <3>1 DEF IInv, OwnersSettled, BaselineFalls, Owners
  <2>3. CASE memo[atoms[i]] = None
    <3>1. i \in fresh
      BY <1>1, <1>7, <2>2, <2>3
    <3> HIDE DEF all, fresh, atoms
    <3> QED BY <1>6, <2>1, <3>1
  <2>4. CASE memo[atoms[i]] # None
    <3> HIDE DEF all, fresh, atoms
    <3> QED BY <1>6, <2>1, <2>4
  <2> QED BY <2>3, <2>4
<1>8. all \in [Atoms -> Outcomes \cup {None}]
  <2>1. DOMAIN all = Atoms /\ all = [a \in Atoms |-> all[a]]
    OBVIOUS
  <2> HIDE DEF all
  <2> QED BY <1>6, <2>1
<1> HIDE DEF all, fresh
<1>9. memo' \in [Atoms -> Outcomes \cup {None}] /\ \A b \in Atoms : memo[b] # None => memo'[b] = memo[b]
  <2> HIDE DEF visited
  <2> QED BY <1>3, <1>5, <1>6
<1>10. CASE failing = {}
  <2>1. visited = 1..n
    BY <1>1, <1>10
  <2>2. memo' = all
    <3>1. ASSUME NEW a \in Atoms
          PROVE  memo'[a] = all[a]
      <4>1. CASE \E i \in 1..n : atoms[i] = a
        <5> HIDE DEF visited, atoms
        <5> QED BY <1>3, <2>1, <4>1
      <4>2. CASE ~\E i \in 1..n : atoms[i] = a
        <5>1. memo'[a] = memo[a]
          <6> HIDE DEF visited, atoms
          <6> QED BY <1>3, <2>1, <4>2
        <5>2. all[a] = memo[a]
          BY <1>1, <4>2 DEF all, fresh
        <5> QED BY <5>1, <5>2
      <4> QED BY <4>1, <4>2
    <3> QED BY <1>8, <1>9, <3>1
  <2>3. Staged(intents, all)
    <3>1. intents \in Seq(Intent) /\ Staged(intents, memo)
      BY DEF IInv, TypeOK, DraftOK
    <3> QED BY <1>6, <3>1, StagedRemembers
  <2>4. intents' = StageResets(s, atoms, all)
    BY <1>3, <1>10
  <2>5. ResetDone(StageResets(s, atoms, all), s, atoms, n, all)
    <3> HIDE DEF atoms
    <3> QED BY <1>1, <1>4, <1>7, <2>3, StageResetsOK DEF IInv, n
  <2> QED BY <1>4, <1>9, <2>2, <2>4, <2>5
<1>11. CASE failing # {}
  <2>1. intents' = intents
    BY <1>3, <1>11
  <2>2. PICK f \in failing : \A g \in failing : f <= g
    <3>1. failing \subseteq Nat
      BY <1>1
    <3> HIDE DEF failing
    <3> QED BY <1>11, <3>1, LeastNatural
  <2>3. f \in 1..n /\ f \in visited /\ ResetOutcome(s, atoms[f], all) \notin Values
    BY <1>1, <2>2
  <2>4. atoms[f] \in Atoms
    BY <1>1, <2>3
  <2>5. memo'[atoms[f]] = all[atoms[f]]
    <3> HIDE DEF visited, atoms
    <3> QED BY <1>3, <2>3, <2>4
  <2>6. fallback[atoms[f]] = None => all[atoms[f]] # None
    BY <1>7, <2>3
  <2>7. \E a \in Atoms, m \in [Atoms -> Outcomes \cup {None}] :
          ResetOutcome(s, a, m) \notin Values /\ memo'[a] = m[a]
          /\ (fallback[a] = None => m[a] # None)
    <3> HIDE DEF failing, visited, atoms
    <3> QED BY <1>8, <2>3, <2>4, <2>5, <2>6
  <2> QED BY <1>4, <1>9, <2>1, <2>7
<1> QED BY <1>10, <1>11

\* resetAll stages resets of one scope, or none.
LEMMA TxResetAllInductive ==
  ASSUME IInv, NEW s \in Scopes, TxResetAll(s)
  PROVE  IInv'
<1>1. /\ open /\ UNCHANGED <<committed, open, reached, fault>>
      /\ memo' \in [Atoms -> Outcomes \cup {None}]
      /\ \A b \in Atoms : memo[b] # None => memo'[b] = memo[b]
      /\ \/ intents' = intents
         \/ ResetDone(intents', s, Candidates(s), Len(Candidates(s)), memo')
  BY ResetAllSteps
<1>2. intents \in Seq(Intent) /\ OneEach(intents) /\ Staged(intents, memo)
      /\ reached' \in [Atoms -> SUBSET Scopes] /\ open' \in BOOLEAN
  BY <1>1 DEF IInv, TypeOK, DraftOK
<1>3. Staged(intents, memo')
  BY <1>1, <1>2, StagedRemembers
<1>4. intents' \in Seq(Intent) /\ OneEach(intents') /\ Staged(intents', memo')
  BY <1>1, <1>2, <1>3 DEF ResetDone
<1> QED BY <1>1, <1>2, <1>4, DraftedInductive

-----------------------------------------------------------------------------
(* Committing *)

\* What a commit applies, and the fallbacks it publishes.
LEMMA AppliedOK ==
  ASSUME IInv
  PROVE  /\ ApplyOverrides \in Overrides
         /\ PublishFallbacks \in [Atoms -> Outcomes \cup {None}]
         /\ \A a \in Atoms : fallback[a] # None => PublishFallbacks[a] = fallback[a]
         /\ \A e \in Written(intents) :
              /\ PublishFallbacks[e.atom] \in Outcomes
              /\ PublishFallbacks[e.atom] = DraftFallback(e.atom, memo)
              /\ fallback[e.atom] # None \/ memo[e.atom] # None
         /\ \A s \in Scopes, a \in Atoms :
              ApplyOverrides[s][a] # None <=> IF HasIntent(intents, s, a)
                                                THEN IntentOf(intents, s, a).kind = "set"
                                                ELSE override[s][a] # None
<1>1. /\ override \in Overrides /\ fallback \in [Atoms -> Outcomes \cup {None}]
      /\ intents \in Seq(Intent) /\ memo \in [Atoms -> Outcomes \cup {None}]
      /\ OneEach(intents) /\ Staged(intents, memo)
  BY DEF IInv, TypeOK, Overrides, DraftOK
<1> DEFINE new(s, a) == IF HasIntent(intents, s, a)
                          THEN IF IntentOf(intents, s, a).kind = "set"
                                 THEN IntentOf(intents, s, a).value ELSE None
                          ELSE override[s][a]
<1>2. ASSUME NEW s \in Scopes, NEW a \in Atoms
      PROVE  /\ new(s, a) \in Values \cup {None}
             /\ new(s, a) # None <=> IF HasIntent(intents, s, a)
                                       THEN IntentOf(intents, s, a).kind = "set"
                                       ELSE override[s][a] # None
  <2>1. CASE HasIntent(intents, s, a)
    <3>1. IntentOf(intents, s, a) \in Written(intents)
      BY <1>1, <2>1, IntentOfOK
    <3>2. IntentOf(intents, s, a).kind = "set" => IntentOf(intents, s, a).value \in Values
      BY <1>1, <3>1 DEF Staged
    <3>3. None \notin Values
      BY DistinctAssumption DEF Outcomes
    <3> QED BY <2>1, <3>2, <3>3
  <2>2. CASE ~HasIntent(intents, s, a)
    BY <1>1, <2>2 DEF Overrides
  <2> QED BY <2>1, <2>2
<1>3. ApplyOverrides = [s \in Scopes |-> [a \in Atoms |-> new(s, a)]]
  BY DEF ApplyOverrides
<1> HIDE DEF new
<1>4. ApplyOverrides \in Overrides /\ \A s \in Scopes, a \in Atoms : ApplyOverrides[s][a] = new(s, a)
  BY <1>2, <1>3 DEF Overrides
<1>5. /\ PublishFallbacks \in [Atoms -> Outcomes \cup {None}]
      /\ \A a \in Atoms : fallback[a] # None => PublishFallbacks[a] = fallback[a]
  BY <1>1 DEF PublishFallbacks
<1>6. ASSUME NEW e \in Written(intents)
      PROVE  /\ PublishFallbacks[e.atom] \in Outcomes
             /\ PublishFallbacks[e.atom] = DraftFallback(e.atom, memo)
             /\ fallback[e.atom] # None \/ memo[e.atom] # None
  <2>1. e.atom \in Atoms
    BY <1>1, WrittenOK DEF Intent
  <2>2. CASE fallback[e.atom] # None
    BY <1>1, <1>5, <2>1, <2>2 DEF DraftFallback
  <2>3. CASE fallback[e.atom] = None
    <3>1. memo[e.atom] # None /\ memo[e.atom] \in Outcomes
      BY <1>1, <2>1, <2>3 DEF Staged
    <3>2. PICK d \in Written(intents) : d.atom = e.atom /\ d.publishes
      BY <1>1, <2>3 DEF Staged
    <3>3. \E i \in DOMAIN intents : intents[i].atom = e.atom /\ intents[i].publishes
      BY <1>1, <3>2, WrittenOK
    <3>4. PublishFallbacks[e.atom] = memo[e.atom]
      BY <2>1, <2>3, <3>3 DEF PublishFallbacks
    <3> QED BY <2>3, <3>1, <3>4 DEF DraftFallback
  <2> QED BY <2>2, <2>3
<1> QED BY <1>2, <1>4, <1>5, <1>6

\* What the draft serves of an atom it writes has been resolved.
LEMMA FinalOK ==
  ASSUME IInv, NEW s \in Scopes, NEW e \in Written(intents)
  PROVE  Final(s, e.atom) \in Outcomes
<1>1. e.atom \in Atoms
  BY WrittenOK DEF IInv, TypeOK, Intent
<1>2. fallback[e.atom] # None \/ memo[e.atom] # None
  BY AppliedOK
<1> QED BY <1>1, <1>2, DraftResolvedOK DEF Final, IInv, TypeOK, DraftOK

\* Rewiring creates views above live scopes only, and drops none.
LEMMA RewireOK ==
  ASSUME IInv
  PROVE  /\ Rewire(ApplyOverrides, PublishFallbacks) \in Views
         /\ \A s \in Scopes, a \in Atoms :
              /\ views[s][a] # None =>
                   /\ Rewire(ApplyOverrides, PublishFallbacks)[s][a] \in View
                   /\ Rewire(ApplyOverrides, PublishFallbacks)[s][a].outcome = views[s][a].outcome
              /\ status[s] # "live" => Rewire(ApplyOverrides, PublishFallbacks)[s][a] = None
<1> DEFINE O == ApplyOverrides
           P == PublishFallbacks
           n == Len(intents)
<1>1. O \in Overrides /\ views \in Views /\ intents \in Seq(Intent) /\ n \in Nat
  BY AppliedOK DEF IInv, TypeOK, Views
<1>2. \A k \in 1..n : intents[k] \in Intent /\ intents[k] \in Written(intents)
  BY <1>1 DEF Written
<1>3. \A k \in 1..n : P[intents[k].atom] \in Outcomes
  BY <1>2, AppliedOK
<1> HIDE DEF O, P
<1>4. PICK v : Rewiring(v, O, P) /\ Rewire(O, P) = v[n]
  BY <1>1, <1>3, RewireSteps
<1>5. ASSUME NEW k \in 1..n
      PROVE  v[k - 1] \in Views /\ OneRewired(v[k], v[k - 1], O, P, k)
  <2>1. k - 1 \in 0..Len(intents)
    BY <1>1
  <2>2. v[k - 1] \in Views /\ v[k] = RewiredOnce(O, P, v[k - 1], k)
    BY <1>4, <2>1 DEF Rewiring
  <2> QED BY <1>1, <1>3, <2>2, RewiredOnceOK
<1> DEFINE S == {k \in 0..n :
                   /\ v[k] \in Views
                   /\ \A s \in Scopes, a \in Atoms :
                        /\ views[s][a] # None =>
                             v[k][s][a] \in View /\ v[k][s][a].outcome = views[s][a].outcome
                        /\ status[s] # "live" => v[k][s][a] = None}
<1>6. 0 \in S
  <2>1. v[0] = views
    BY <1>4 DEF Rewiring
  <2>2. \A s \in Scopes, a \in Atoms : /\ views[s][a] # None => views[s][a] \in View
                                       /\ status[s] # "live" => views[s][a] = None
    BY <1>1 DEF Views, IInv, Vacant
  <2> QED BY <1>1, <2>1, <2>2
<1>7. ASSUME NEW k \in 1..n, k - 1 \in S
      PROVE  k \in S
  <2> DEFINE s == intents[k].scope
             a == intents[k].atom
             vs == v[k - 1]
             w == v[k]
  <2>1. s \in Scopes /\ a \in Atoms /\ status[s] = "live"
    BY <1>2 DEF Intent, IInv, DraftOK, Staged
  <2>2. OneRewired(w, vs, O, P, k) /\ vs \in Views
    BY <1>5
  <2>3. \A x \in Scopes, b \in Atoms :
          /\ views[x][b] # None => vs[x][b] \in View /\ vs[x][b].outcome = views[x][b].outcome
          /\ status[x] # "live" => vs[x][b] = None
    BY <1>7
  <2>4. w \in Views
    BY <2>2 DEF OneRewired
  <2>5. ASSUME NEW x \in Scopes, NEW b \in Atoms, views[x][b] # None
        PROVE  w[x][b] \in View /\ w[x][b].outcome = views[x][b].outcome
    <3>1. vs[x][b] # None /\ vs[x][b].outcome = views[x][b].outcome
      BY <2>3, <2>5, ViewAssumption
    <3> QED BY <2>2, <3>1 DEF OneRewired
  <2>6. ASSUME NEW x \in Scopes, NEW b \in Atoms, status[x] # "live"
        PROVE  w[x][b] = None
    <3>1. vs[x][b] = None
      BY <2>3, <2>6
    <3>2. CASE vs[s][a] = None \/ Detaches(k)
      BY <2>2, <3>1, <3>2 DEF OneRewired
    <3>3. CASE vs[s][a] # None /\ ~Detaches(k)
      <4>1. PICK z \in Path[Parent[s]], u \in Views :
              /\ Materialized(u, z, vs, Parent[s], a, O, P[a])
              /\ \A y \in Scopes, c \in Atoms : y # s \/ c # a => w[y][c] = u[y][c]
        BY <2>2, <3>3 DEF OneRewired
      <4>2. Parent[s] \in LiveScopes
        BY <2>1, <3>3, PathFollows DEF IInv, ParentsLive, LiveScopes, Detaches
      <4>3. x \notin Path[Parent[s]]
        BY <2>6, <4>2, LivePath DEF IInv, LiveScopes
      <4>4. u[x][b] = vs[x][b]
        BY <4>1, <4>3 DEF Materialized
      <4>5. x # s
        BY <2>1, <2>6
      <4> QED BY <3>1, <4>1, <4>4, <4>5
    <3> QED BY <3>2, <3>3
  <2>7. k \in 0..n
    BY <1>1
  <2> HIDE DEF s, a, vs
  <2> QED BY <2>4, <2>5, <2>6, <2>7
<1>8. \A k \in 0..n : k \in S
  <2> HIDE DEF S, n
  <2> QED BY <1>1, <1>6, <1>7, IntervalInduction
<1>9. n \in S
  <2> HIDE DEF S, n
  <2> QED BY <1>1, <1>8
<1> QED BY <1>4, <1>9 DEF O, P

\* The views a view inherits through are its own and those of the one it
\* inherits from.
LEMMA InheritsOK ==
  ASSUME NEW vs \in Views, NEW a \in Atoms
  PROVE  \A s \in Scopes :
           Inherits(vs, a)[s] = {s} \cup (IF vs[s][a] = None \/ vs[s][a].from = None
                                            THEN {} ELSE Inherits(vs, a)[vs[s][a].from])
<1> DEFINE next == [s \in Scopes |-> IF vs[s][a] = None THEN None ELSE vs[s][a].from]
<1>1. next \in [Scopes -> Scopes \cup {None}]
  BY DEF Views, View
<1>2. \A s \in Scopes : next[s] = None <=> vs[s][a] = None \/ vs[s][a].from = None
  OBVIOUS
<1>3. \A s \in Scopes : next[s] # None => next[s] = vs[s][a].from
  OBVIOUS
<1>4. None \notin Scopes
  BY DistinctAssumption
<1> HIDE DEF next
<1>5. PICK f : Follows(f, Scopes, next, None)
  BY <1>1, <1>4, FollowExists
<1>6. ASSUME NEW g
      PROVE  [s \in Scopes |-> {s} \cup IF next[s] = None THEN {} ELSE g[next[s]]]
               = [s \in Scopes |-> {s} \cup (IF vs[s][a] = None \/ vs[s][a].from = None
                                               THEN {} ELSE g[vs[s][a].from])]
  BY <1>2, <1>3
<1>7. f = [s \in Scopes |-> {s} \cup (IF vs[s][a] = None \/ vs[s][a].from = None
                                        THEN {} ELSE f[vs[s][a].from])]
  BY <1>5, <1>6 DEF Follows
<1>8. \E r : /\ r = [s \in Scopes |-> {s} \cup (IF vs[s][a] = None \/ vs[s][a].from = None
                                                  THEN {} ELSE r[vs[s][a].from])]
             /\ Inherits(vs, a) = r
  BY <1>7, Zenon DEF Inherits
<1>9. PICK r : /\ r = [s \in Scopes |-> {s} \cup (IF vs[s][a] = None \/ vs[s][a].from = None
                                                    THEN {} ELSE r[vs[s][a].from])]
               /\ Inherits(vs, a) = r
  BY <1>8, Zenon
<1>10. ASSUME NEW s \in Scopes
       PROVE  r[s] = {s} \cup (IF vs[s][a] = None \/ vs[s][a].from = None
                                 THEN {} ELSE r[vs[s][a].from])
  BY <1>9, Zenon
<1> QED BY <1>9, <1>10, Zenon

\* A view to refresh is there to begin with, and of an atom that is written.
LEMMA AffectedOK ==
  ASSUME IInv, NEW a \in Atoms, NEW s \in Affected(a)
  PROVE  s \in Scopes /\ views[s][a] # None /\ \E e \in Written(intents) : e.atom = a
<1> DEFINE Route == Inherits(views, a)
<1>1. s \in Scopes /\ \E i \in Route[s] : /\ HasIntent(intents, i, a)
                                          /\ \A x \in Route[s] : i \in Route[x] => Changes(x, a)
  BY DEF Affected
<1>2. s \in Route[s]
  <2>1. views \in Views
    BY DEF IInv, TypeOK, Views
  <2> QED BY <1>1, <2>1, InheritsOK
<1>3. Changes(s, a)
  BY <1>1, <1>2
<1>4. \E e \in Written(intents) : e.atom = a
  BY <1>1, IntentOfOK DEF IInv, TypeOK, DraftOK
<1> QED BY <1>1, <1>3, <1>4 DEF Changes

\* A commit meets every fallback it needs, and indexes what it applies.
LEMMA CommitInductive ==
  ASSUME IInv, Commit
  PROVE  IInv'
<1> DEFINE O == ApplyOverrides
           P == PublishFallbacks
           rewired == Rewire(O, P)
           stale == [a \in Atoms |-> Affected(a)]
<1>1. /\ override' = O /\ fallback' = P
      /\ views' = [s \in Scopes |-> [a \in Atoms |->
                    IF s \in stale[a] THEN [rewired[s][a] EXCEPT !.outcome = Final(s, a)]
                      ELSE rewired[s][a]]]
      /\ reached' = stale
      /\ fault' = (fault \/ ~FallbacksResolved(rewired))
      /\ open' = FALSE /\ intents' = <<>> /\ memo' = [a \in Atoms |-> None]
      /\ status' = status
  BY DEF Commit
<1>2. PICK sweeps : owned' = [s \in Scopes |-> IF s = Root THEN <<>> ELSE IndexOwned(s, sweeps)]
  BY DEF Commit
<1>3. /\ intents \in Seq(Intent) /\ OneEach(intents) /\ override \in Overrides /\ views \in Views
      /\ Written(intents) \subseteq Intent
  BY WrittenOK DEF IInv, TypeOK, DraftOK, Overrides, Views
<1>4. /\ O \in Overrides /\ P \in [Atoms -> Outcomes \cup {None}]
      /\ \A a \in Atoms : fallback[a] # None => P[a] = fallback[a]
      /\ \A e \in Written(intents) : P[e.atom] \in Outcomes
      /\ \A s \in Scopes, a \in Atoms :
           O[s][a] # None <=> IF HasIntent(intents, s, a)
                                THEN IntentOf(intents, s, a).kind = "set"
                                ELSE override[s][a] # None
  BY AppliedOK
<1>5. /\ rewired \in Views
      /\ \A s \in Scopes, a \in Atoms :
           /\ views[s][a] # None => rewired[s][a] \in View /\ rewired[s][a].outcome = views[s][a].outcome
           /\ status[s] # "live" => rewired[s][a] = None
  BY RewireOK
<1> HIDE DEF O, P, rewired
<1>6. ASSUME NEW a \in Atoms, NEW s \in stale[a]
      PROVE  s \in Scopes /\ views[s][a] # None /\ Final(s, a) \in Outcomes
  <2>1. s \in Affected(a)
    OBVIOUS
  <2> QED BY <2>1, AffectedOK, FinalOK
<1>7. stale \in [Atoms -> SUBSET Scopes]
  BY DEF Affected
<1> HIDE DEF stale
<1>8. ASSUME NEW s \in Scopes, NEW a \in Atoms
      PROVE  /\ views'[s][a] \in View \cup {None}
             /\ rewired[s][a] = None => views'[s][a] = None
  <2>1. CASE s \in stale[a]
    <3>1. rewired[s][a] \in View /\ Final(s, a) \in Outcomes
      BY <1>5, <1>6, <2>1
    <3>2. views'[s][a] = [rewired[s][a] EXCEPT !.outcome = Final(s, a)]
      BY <1>1, <2>1
    <3>3. [rewired[s][a] EXCEPT !.outcome = Final(s, a)] \in View
      BY <3>1 DEF View
    <3> QED BY <3>1, <3>2, <3>3, ViewAssumption
  <2>2. CASE s \notin stale[a]
    BY <1>1, <1>5, <2>2 DEF Views
  <2> QED BY <2>1, <2>2
<1>9. TypeOK'
  <2>1. views' \in [Scopes -> [Atoms -> View \cup {None}]]
    BY <1>1, <1>8
  <2>2. owned' \in [Scopes -> Seq(Atoms)]
    <3>1. \A s \in Scopes : IndexOwned(s, sweeps) \in Seq(Atoms)
      BY IndexOwnedOK DEF IInv
    <3> QED BY <1>2, <3>1
  <2>3. intents' \in Seq(Intent) /\ open' \in BOOLEAN /\ memo' \in [Atoms -> Outcomes \cup {None}]
        /\ reached' \in [Atoms -> SUBSET Scopes]
    BY <1>1, <1>7, EmptyDraft
  <2>4. fault' \in BOOLEAN
    BY <1>1 DEF IInv
  <2>5. status' \in [Scopes -> {"absent", "live", "disposed"}]
    BY <1>1 DEF IInv, TypeOK
  <2>6. override' \in [Scopes -> [Atoms -> Values \cup {None}]]
        /\ fallback' \in [Atoms -> Outcomes \cup {None}]
    BY <1>1, <1>4 DEF Overrides
  <2> QED BY <2>1, <2>2, <2>3, <2>4, <2>5, <2>6 DEF TypeOK
<1>10. ParentsLive'
  BY <1>1 DEF IInv, ParentsLive
<1>11. Vacant'
  <2>1. ASSUME NEW s \in Scopes, NEW a \in Atoms, status[s] # "live"
        PROVE  override'[s][a] = None /\ views'[s][a] = None
    <3>1. ~HasIntent(intents, s, a)
      BY <1>3, <2>1, IntentOfOK DEF IInv, DraftOK, Staged
    <3>2. O[s][a] = None
      BY <1>4, <2>1, <3>1 DEF IInv, Vacant
    <3> QED BY <1>1, <1>5, <1>8, <2>1, <3>2
  <2> QED BY <1>1, <2>1 DEF Vacant
<1>12. OwnersSettled'
  <2>1. ASSUME NEW s \in Scopes, NEW a \in Atoms, O[s][a] # None
        PROVE  P[a] # None
    <3>1. CASE HasIntent(intents, s, a)
      <4>1. \E e \in Written(intents) : e.atom = a
        BY <1>3, <3>1, IntentOfOK
      <4> QED BY <1>4, <4>1, DistinctAssumption
    <3>2. CASE ~HasIntent(intents, s, a)
      BY <1>4, <2>1, <3>2 DEF IInv, OwnersSettled
    <3> QED BY <3>1, <3>2
  <2> QED BY <1>1, <2>1 DEF OwnersSettled
<1>13. DraftOK'
  <2>1. OneEach(intents') /\ Written(intents') = {}
    BY <1>1, EmptyDraft DEF Written
  <2> QED BY <1>1, <2>1 DEF DraftOK, Staged
<1>14. IndexCoversOwned'
  <2>1. ASSUME NEW s \in Scopes \ {Root}, status[s] = "live", NEW a \in Atoms, O[s][a] # None
        PROVE  \E i \in DOMAIN owned'[s] : owned'[s][i] = a
    <3>1. Applied(s, Len(intents), a)
      <4>1. At(intents, s, a) \subseteq 1..Len(intents)
        BY <1>3 DEF At, OfScope
      <4> QED BY <1>4, <2>1, <4>1 DEF Applied, HasIntent
    <3>2. \A b \in Atoms : override[s][b] # None => b \in Written(owned[s])
      BY <2>1 DEF IInv, IndexCoversOwned, LiveScopes, Written
    <3>3. a \in Written(IndexOwned(s, sweeps))
      BY <3>1, <3>2, IndexOwnedOK DEF IInv
    <3>4. owned'[s] = IndexOwned(s, sweeps)
      BY <1>2
    <3> QED BY <3>3, <3>4 DEF Written
  <2> QED BY <1>1, <2>1 DEF IndexCoversOwned, LiveScopes
<1>15. ~fault'
  <2>1. \A i \in DOMAIN intents : Final(intents[i].scope, intents[i].atom) # None
    <3>1. \A e \in Written(intents) : Final(e.scope, e.atom) # None
      BY <1>3, FinalOK, DistinctAssumption DEF Intent
    <3> QED BY <1>3, <3>1, WrittenOK
  <2>2. \A s \in Scopes, a \in Atoms : rewired[s][a] # None => rewired[s][a].outcome # None
    BY <1>5, DistinctAssumption DEF Views, View
  <2>3. FallbacksResolved(rewired)
    BY <2>1, <2>2 DEF FallbacksResolved
  <2> QED BY <1>1, <2>3 DEF IInv
<1> QED BY <1>9, <1>10, <1>11, <1>12, <1>13, <1>14, <1>15 DEF IInv

-----------------------------------------------------------------------------
(* Theorems *)

\* Nothing is owned, read or staged before the first step.
LEMMA InitInv == Init => IInv
<1> SUFFICES ASSUME Init PROVE IInv
  OBVIOUS
<1>1. TypeOK
  <2>1. fallback \in [Atoms -> Outcomes \cup {None}]
    BY AtomsAssumption DEF Init, Outcomes
  <2>2. intents \in Seq(Intent)
    BY EmptyDraft DEF Init
  <2>3. owned \in [Scopes -> Seq(Atoms)]
    BY DEF Init
  <2> QED BY <2>1, <2>2, <2>3 DEF Init, TypeOK, NoneReached
<1>2. ParentsLive /\ Vacant /\ OwnersSettled /\ IndexCoversOwned /\ ~fault
  BY DEF Init, ParentsLive, Vacant, OwnersSettled, IndexCoversOwned, LiveScopes
<1>3. DraftOK
  <2>1. OneEach(<<>>) /\ Written(<<>>) = {}
    BY EmptyDraft DEF Written
  <2> QED BY <2>1 DEF Init, DraftOK, Staged
<1> QED BY <1>1, <1>2, <1>3 DEF IInv

\* Every step keeps the invariant.
LEMMA NextInv == IInv /\ [Next]_vars => IInv'
<1> SUFFICES ASSUME IInv, [Next]_vars PROVE IInv'
  OBVIOUS
<1>1. ASSUME NEW s \in Scopes, CreateScope(s) PROVE IInv'
  BY <1>1, CreateScopeInductive
<1>2. ASSUME NEW s \in Scopes, Dispose(s) PROVE IInv'
  BY <1>2, DisposeInductive
<1>3. ASSUME NEW s \in Scopes, TxResetAll(s) PROVE IInv'
  BY <1>3, TxResetAllInductive
<1>4. ASSUME NEW s \in Scopes, NEW a \in Atoms, Get(s, a) PROVE IInv'
  BY <1>4, GetInductive
<1>5. ASSUME NEW s \in Scopes, NEW a \in Atoms, ReadHydration(s, a) PROVE IInv'
  BY <1>5, ReadHydrationInductive
<1>6. ASSUME NEW s \in Scopes, NEW a \in Atoms, TxGet(s, a) PROVE IInv'
  BY <1>6, TxGetInductive
<1>7. ASSUME NEW s \in Scopes, NEW a \in Atoms, TxReset(s, a) PROVE IInv'
  BY <1>7, TxResetInductive
<1>8. ASSUME NEW s \in Scopes, NEW a \in Atoms, NEW v \in Values, TxSet(s, a, v) PROVE IInv'
  BY <1>8, TxSetInductive
<1>9. ASSUME NEW s \in Scopes, NEW a \in Atoms, NEW v \in Values, TxUpdate(s, a, v) PROVE IInv'
  BY <1>9, TxUpdateInductive
<1>10. ASSUME Begin PROVE IInv'
  <2>1. UNCHANGED <<committed, fault>> /\ intents' = <<>> /\ memo' = [a \in Atoms |-> None]
        /\ open' \in BOOLEAN /\ reached' \in [Atoms -> SUBSET Scopes]
    BY <1>10 DEF Begin, NoneReached
  <2> QED BY <2>1, EmptiedInductive
<1>11. ASSUME Abort PROVE IInv'
  <2>1. UNCHANGED <<committed, fault>> /\ intents' = <<>> /\ memo' = [a \in Atoms |-> None]
        /\ open' \in BOOLEAN /\ reached' \in [Atoms -> SUBSET Scopes]
    BY <1>11 DEF Abort, IInv, TypeOK
  <2> QED BY <2>1, EmptiedInductive
<1>12. ASSUME CommitNothing PROVE IInv'
  <2>1. UNCHANGED <<committed, fault>> /\ intents' = <<>> /\ memo' = [a \in Atoms |-> None]
        /\ open' \in BOOLEAN /\ reached' \in [Atoms -> SUBSET Scopes]
    BY <1>12 DEF CommitNothing, IInv, TypeOK
  <2> QED BY <2>1, EmptiedInductive
<1>13. ASSUME Commit PROVE IInv'
  BY <1>13, CommitInductive
<1>14. ASSUME UNCHANGED vars PROVE IInv'
  <2>1. UNCHANGED <<committed, fault>> /\ UNCHANGED draft /\ reached' = reached
    BY <1>14 DEF vars, committed, draft
  <2>2. reached' \in [Atoms -> SUBSET Scopes] /\ open' \in BOOLEAN /\ intents' \in Seq(Intent)
        /\ memo' \in [Atoms -> Outcomes \cup {None}]
    BY <2>1 DEF IInv, TypeOK, draft
  <2>3. OneEach(intents') /\ Staged(intents', memo') /\ (~open' => intents' = <<>>)
    BY <2>1 DEF IInv, DraftOK, draft
  <2> QED BY <2>1, <2>2, <2>3, DraftedInductive
<1> QED BY <1>1, <1>2, <1>3, <1>4, <1>5, <1>6, <1>7, <1>8, <1>9, <1>10, <1>11, <1>12, <1>13, <1>14
        DEF Next

\* The invariant holds in every state of a behaviour.
LEMMA Invariant == Spec => []IInv
<1> QED BY InitInv, NextInv, PTL DEF Spec

\* Every variable keeps the shape declared for it: no view without an outcome,
\* no intent for an atom or a scope that is not there.
THEOREM TypeCorrect == Spec => []TypeOK
<1>1. IInv => TypeOK
  BY DEF IInv
<1> QED BY <1>1, Invariant, PTL

\* A commit never meets a fallback that staging left unresolved.
THEOREM FallbacksSettled == Spec => []FallbacksSettledBeforeCommit
<1>1. IInv => FallbacksSettledBeforeCommit
  BY DEF IInv, FallbacksSettledBeforeCommit
<1> QED BY <1>1, Invariant, PTL

\* resetAll's index misses no owned atom, whenever it is swept.
THEOREM IndexComplete == Spec => []IndexCoversOwned
<1>1. IInv => IndexCoversOwned
  BY DEF IInv
<1> QED BY <1>1, Invariant, PTL

-----------------------------------------------------------------------------
(* What a commit publishes *)

\* Of an atom that is written or settled, a scope resolves what the draft would
\* serve; otherwise nothing of the atom is committed.
LEMMA FinalResolves ==
  ASSUME IInv, Commit, NEW s \in Scopes, NEW a \in Atoms
  PROVE  /\ (\E e \in Written(intents) : e.atom = a) \/ fallback[a] # None
              => Resolved(s, a)' = Final(s, a)
         /\ (\A e \in Written(intents) : e.atom # a) => fallback'[a] = fallback[a]
<1>1. override' = ApplyOverrides /\ fallback' = PublishFallbacks
  BY DEF Commit
<1>2. /\ override \in Overrides /\ fallback \in [Atoms -> Outcomes \cup {None}]
      /\ intents \in Seq(Intent) /\ OneEach(intents) /\ Path[s] \subseteq Scopes
  BY PathOK DEF IInv, TypeOK, DraftOK, Overrides
<1>3. DraftOwners(s, a) = Owners(s, a)'
  <2>1. \A x \in Path[s] :
          ApplyOverrides[x][a] # None <=> IF HasIntent(intents, x, a)
                                            THEN IntentOf(intents, x, a).kind = "set"
                                            ELSE override[x][a] # None
    BY <1>2, AppliedOK
  <2>2. Owners(s, a)' = {x \in Path[s] : ApplyOverrides[x][a] # None}
    BY <1>1 DEF Owners
  <2> QED BY <2>1, <2>2 DEF DraftOwners
<1>4. CASE DraftOwners(s, a) # {}
  <2> DEFINE x == Nearest(DraftOwners(s, a))
  <2>1. x \in DraftOwners(s, a) /\ DraftOwners(s, a) \subseteq Path[s]
    <3>1. DraftOwners(s, a) \subseteq Path[s]
      BY DEF DraftOwners
    <3> QED BY <1>4, <3>1, NearestOK
  <2>2. Resolved(s, a)' = override'[x][a]
    BY <1>3, <1>4 DEF Resolved
  <2>3. Final(s, a) = IF HasIntent(intents, x, a) THEN IntentOf(intents, x, a).value
                        ELSE override[x][a]
    BY <1>4 DEF Final, DraftResolved
  <2> HIDE DEF x
  <2>4. HasIntent(intents, x, a) => IntentOf(intents, x, a).kind = "set"
    BY <2>1 DEF DraftOwners
  <2>5. x \in Scopes
    BY <1>2, <2>1
  <2>6. override'[x][a] = IF HasIntent(intents, x, a) THEN IntentOf(intents, x, a).value
                            ELSE override[x][a]
    BY <1>1, <2>4, <2>5 DEF ApplyOverrides
  <2>7. Resolved(s, a)' = Final(s, a)
    BY <2>2, <2>3, <2>6
  <2>8. (\A e \in Written(intents) : e.atom # a) => fallback'[a] = fallback[a]
    BY <1>1, <1>2, WrittenOK DEF PublishFallbacks
  <2> QED BY <2>7, <2>8
<1>5. CASE DraftOwners(s, a) = {}
  <2>1. Resolved(s, a)' = fallback'[a] /\ Final(s, a) = DraftFallback(a, memo)
    BY <1>3, <1>5 DEF Resolved, Final, DraftResolved
  <2>2. ASSUME NEW e \in Written(intents), e.atom = a
        PROVE  fallback'[a] = DraftFallback(a, memo)
    BY <1>1, <2>2, AppliedOK
  <2>3. fallback[a] # None => fallback'[a] = DraftFallback(a, memo)
    BY <1>1, AppliedOK DEF DraftFallback
  <2>4. (\A e \in Written(intents) : e.atom # a) => fallback'[a] = fallback[a]
    BY <1>1, <1>2, WrittenOK DEF PublishFallbacks
  <2> QED BY <2>1, <2>2, <2>3, <2>4
<1> QED BY <1>4, <1>5

\* After a commit every scope resolves what the draft served there, but for a
\* fallback the draft resolved of an atom it never wrote.
THEOREM CommitPublishes == Spec => CommitPublishesDraft
<1>1. IInv /\ [Next]_vars =>
        [Commit =>
           \A s \in LiveScopes, a \in Atoms :
             \/ Resolved(s, a)' = Final(s, a)
             \/ /\ fallback'[a] = None
                /\ \A i \in DOMAIN intents : intents[i].atom # a]_vars
  <2>1. ASSUME IInv, Commit, NEW s \in LiveScopes, NEW a \in Atoms
        PROVE  \/ Resolved(s, a)' = Final(s, a)
               \/ /\ fallback'[a] = None
                  /\ \A i \in DOMAIN intents : intents[i].atom # a
    <3>1. /\ (\E e \in Written(intents) : e.atom = a) \/ fallback[a] # None
               => Resolved(s, a)' = Final(s, a)
          /\ (\A e \in Written(intents) : e.atom # a) => fallback'[a] = fallback[a]
      <4>1. s \in Scopes
        BY DEF LiveScopes
      <4> QED BY <2>1, <4>1, FinalResolves
    <3>2. \A i \in DOMAIN intents : intents[i] \in Written(intents)
      BY <2>1, WrittenOK DEF IInv, TypeOK
    <3> QED BY <3>1, <3>2
  <2> QED BY <2>1
<1> QED BY <1>1, Invariant, PTL DEF Spec, CommitPublishesDraft

\* resetAll stages a reset of everything its scope owns in the draft, or nothing
\* because what it would inherit failed.
THEOREM ResetAllAllOrNothing == Spec => ResetAllIsAllOrNothing
<1>1. ASSUME IInv, NEW s \in Scopes \ {Root}, TxResetAll(s)
      PROVE  \/ \A a \in Atoms : (s \notin DraftOwners(s, a))'
             \/ /\ intents' = intents
                /\ \E a \in Atoms : DraftResolved(Parent[s], a, memo') = Failed
  <2>1. /\ s # Root /\ status[s] = "live" /\ UNCHANGED <<committed, open, reached, fault>>
        /\ memo' \in [Atoms -> Outcomes \cup {None}]
        /\ \/ /\ intents' = intents
              /\ \E a \in Atoms, m \in [Atoms -> Outcomes \cup {None}] :
                   ResetOutcome(s, a, m) \notin Values /\ memo'[a] = m[a]
                   /\ (fallback[a] = None => m[a] # None)
           \/ ResetDone(intents', s, Candidates(s), Len(Candidates(s)), memo')
    BY <1>1, ResetAllSteps
  <2>2. ASSUME intents' = intents, NEW a \in Atoms, NEW m \in [Atoms -> Outcomes \cup {None}],
               ResetOutcome(s, a, m) \notin Values, memo'[a] = m[a],
               fallback[a] = None => m[a] # None
        PROVE  DraftResolved(Parent[s], a, memo') = Failed
    <3>1. Parent[s] \in Scopes
      BY PathFollows
    <3>2. ResetOutcome(s, a, m) = DraftResolved(Parent[s], a, m)
      BY <2>1 DEF ResetOutcome
    <3>3. DraftResolved(Parent[s], a, m) \in Outcomes
      BY <1>1, <2>2, <3>1, DraftResolvedOK DEF IInv, TypeOK, DraftOK
    <3>4. DraftResolved(Parent[s], a, memo') = DraftResolved(Parent[s], a, m)
      BY <2>2 DEF DraftResolved, DraftFallback
    <3> QED BY <2>2, <3>2, <3>3, <3>4 DEF Outcomes
  <2>3. ASSUME ResetDone(intents', s, Candidates(s), Len(Candidates(s)), memo'), NEW a \in Atoms
        PROVE  (s \notin DraftOwners(s, a))'
    <3> DEFINE q == Candidates(s)
    <3>1. intents \in Seq(Intent) /\ OneEach(intents) /\ intents' \in Seq(Intent) /\ OneEach(intents')
      BY <1>1, <2>3 DEF IInv, TypeOK, DraftOK, ResetDone
    <3>2. override' = override /\ s \in Path[s]
      BY <2>1, PathOK DEF committed
    <3>3. HasIntent(intents', s, a) => /\ IntentOf(intents', s, a) \in Written(intents')
                                       /\ IntentOf(intents', s, a).scope = s
                                       /\ IntentOf(intents', s, a).atom = a
      BY <3>1, IntentOfOK
    <3>4. CASE s \in DraftOwners(s, a)
      <4>1. PICK j \in 1..Len(q) : q[j] = a
        BY <1>1, <2>1, <3>4, CandidatesOK DEF IInv
      <4>2. PICK e \in Written(intents') : e.scope = s /\ e.atom = a
        BY <2>3, <4>1 DEF ResetDone
      <4>3. \A d \in Written(intents') : d.scope = s /\ d.atom = a => d.kind = "reset"
        BY <2>3, <4>1 DEF ResetDone
      <4>4. HasIntent(intents', s, a) /\ IntentOf(intents', s, a).kind = "reset"
        BY <3>1, <3>3, <4>2, <4>3, IntentOfOK
      <4> QED BY <4>4 DEF DraftOwners
    <3>5. CASE s \notin DraftOwners(s, a)
      <4>1. CASE HasIntent(intents', s, a)
        <5> DEFINE e == IntentOf(intents', s, a)
        <5>1. e \in Written(intents) \/ e.kind = "reset"
          BY <2>3, <3>3, <4>1 DEF ResetDone
        <5>2. e \in Written(intents) => HasIntent(intents, s, a) /\ IntentOf(intents, s, a) = e
          BY <3>1, <3>3, <4>1, IntentOfOK
        <5>3. HasIntent(intents, s, a) => IntentOf(intents, s, a).kind # "set"
          BY <3>2, <3>5 DEF DraftOwners
        <5>4. e.kind # "set"
          BY <5>1, <5>2, <5>3
        <5> QED BY <4>1, <5>4 DEF DraftOwners
      <4>2. CASE ~HasIntent(intents', s, a)
        <5>1. ~HasIntent(intents, s, a)
          <6>1. ASSUME HasIntent(intents, s, a)
                PROVE  FALSE
            <7> DEFINE d == IntentOf(intents, s, a)
            <7>1. d \in Written(intents) /\ d.scope = s /\ d.atom = a
              BY <3>1, <6>1, IntentOfOK
            <7>2. PICK e \in Written(intents') : SamePlace(e, d)
              BY <2>3, <7>1 DEF ResetDone
            <7> QED BY <3>1, <4>2, <7>1, <7>2, IntentOfOK DEF SamePlace
          <6> QED BY <6>1
        <5> QED BY <3>2, <3>5, <4>2, <5>1 DEF DraftOwners
      <4> QED BY <4>1, <4>2
    <3> QED BY <3>4, <3>5
  <2> QED BY <2>1, <2>2, <2>3
<1>2. IInv /\ [Next]_vars =>
        [\A s \in Scopes \ {Root} : TxResetAll(s) =>
           \/ \A a \in Atoms : (s \notin DraftOwners(s, a))'
           \/ /\ intents' = intents
              /\ \E a \in Atoms : DraftResolved(Parent[s], a, memo') = Failed]_vars
  BY <1>1
<1> QED BY <1>2, Invariant, PTL DEF Spec, ResetAllIsAllOrNothing

-----------------------------------------------------------------------------
(* What a tree of overrides serves *)

\* Resolution as an operator of the overrides and the fallback.
OwnersIn(overrides, s, a) == {x \in Path[s] : overrides[x][a] # None}
ServedBy(overrides, default, s, a) ==
  IF OwnersIn(overrides, s, a) = {} THEN default
    ELSE overrides[Nearest(OwnersIn(overrides, s, a))][a]

\* Nothing owns a strictly below z on the path of s.
NoneBelow(overrides, z, s, a) ==
  \A y \in Path[s] : z \in Path[y] /\ y # z => overrides[y][a] = None

\* Committed resolution, before and after a step.
LEMMA ResolvedServed ==
  ASSUME NEW s, NEW a
  PROVE  /\ Resolved(s, a) = ServedBy(override, fallback[a], s, a)
         /\ Resolved(s, a)' = ServedBy(override', fallback'[a], s, a)
<1>1. Owners(s, a) = OwnersIn(override, s, a) /\ Owners(s, a)' = OwnersIn(override', s, a)
  BY DEF Owners, OwnersIn
<1>2. Resolved(s, a) = ServedBy(override, fallback[a], s, a)
  BY <1>1 DEF Resolved, ServedBy
<1>3. Resolved(s, a)' = ServedBy(override', fallback'[a], s, a)
  BY <1>1 DEF Resolved, ServedBy
<1> QED BY <1>2, <1>3

\* A scope serves what a scope above it does if nothing in between owns the atom.
LEMMA SameServed ==
  ASSUME NEW overrides, NEW default, NEW s \in Scopes, NEW z \in Path[s], NEW a,
         NoneBelow(overrides, z, s, a)
  PROVE  ServedBy(overrides, default, s, a) = ServedBy(overrides, default, z, a)
<1>1. z \in Scopes /\ Path[z] \subseteq Path[s]
  BY PathOK
<1>2. ASSUME NEW x \in OwnersIn(overrides, s, a)
      PROVE  x \in Path[z]
  <2>1. x \in Path[s] /\ overrides[x][a] # None
    BY DEF OwnersIn
  <2>2. z \notin Path[x] \/ x = z
    BY <2>1 DEF NoneBelow
  <2> QED BY <1>1, <2>1, <2>2, PathChain, PathOK
<1>3. OwnersIn(overrides, s, a) = OwnersIn(overrides, z, a)
  BY <1>1, <1>2 DEF OwnersIn
<1> QED BY <1>3 DEF ServedBy

\* An owner serves its override.
LEMMA OwnerServes ==
  ASSUME NEW overrides, NEW default, NEW z \in Scopes, NEW a, overrides[z][a] # None
  PROVE  ServedBy(overrides, default, z, a) = overrides[z][a]
<1> DEFINE some == OwnersIn(overrides, z, a)
<1>1. some \subseteq Path[z] /\ z \in some
  BY PathOK DEF OwnersIn
<1>2. Nearest(some) \in some /\ some \subseteq Path[Nearest(some)]
  <2> HIDE DEF some
  <2> QED BY <1>1, NearestOK
<1>3. Nearest(some) = z
  <2>1. Nearest(some) \in Path[z] /\ z \in Path[Nearest(some)] /\ z \in Path[z]
    BY <1>1, <1>2
  <2> QED BY <2>1, PathChain
<1> QED BY <1>1, <1>3 DEF ServedBy

\* The root serves the fallback if it owns nothing.
LEMMA RootServes ==
  ASSUME NEW overrides, NEW default, NEW a, overrides[Root][a] = None
  PROVE  ServedBy(overrides, default, Root, a) = default
<1>1. OwnersIn(overrides, Root, a) = {}
  BY PathFollows DEF OwnersIn
<1> QED BY <1>1 DEF ServedBy

\* Only the path of a scope matters to it.
LEMMA PathServes ==
  ASSUME NEW O, NEW P, NEW default, NEW s \in Scopes, NEW a,
         \A x \in Path[s] : O[x][a] = P[x][a]
  PROVE  ServedBy(O, default, s, a) = ServedBy(P, default, s, a)
<1>1. OwnersIn(O, s, a) = OwnersIn(P, s, a) /\ OwnersIn(O, s, a) \subseteq Path[s]
  BY DEF OwnersIn
<1>2. OwnersIn(O, s, a) # {} => Nearest(OwnersIn(O, s, a)) \in Path[s]
  BY <1>1, NearestOK
<1> QED BY <1>1, <1>2 DEF ServedBy

-----------------------------------------------------------------------------
(* Views and the routes they inherit along *)

\* A view inherits from the parent's, unless its scope owns the atom or is the root.
Proper(vs, overrides, s, a) ==
  /\ vs[s][a].from = None => s = Root \/ overrides[s][a] # None
  /\ vs[s][a].from # None =>
       /\ s # Root /\ vs[s][a].from = Parent[s]
       /\ overrides[s][a] = None
       /\ vs[Parent[s]][a] # None

\* Every view is Proper.
Routed(vs, overrides) ==
  \A s \in Scopes, a \in Atoms : vs[s][a] # None => Proper(vs, overrides, s, a)

\* Every view serves what its scope resolves.
Serves(vs, overrides, fallbacks) ==
  \A s \in Scopes, a \in Atoms :
    vs[s][a] # None => vs[s][a].outcome = ServedBy(overrides, fallbacks[a], s, a)

\* The views created below an anchor inherit from the parent's, down from the
\* root or an owner.
LEMMA MaterializedProper ==
  ASSUME NEW vs \in Views, NEW s \in Scopes, NEW a \in Atoms, NEW O \in Overrides, NEW default,
         NEW w, NEW z \in Path[s], Anchor(z, vs, s, a, O), Materialized(w, z, vs, s, a, O, default),
         NEW x \in Path[s], z \in Path[x], vs[x][a] = None
  PROVE  Proper(w, O, x, a)
<1>1. x \in Scopes /\ z \in Scopes /\ Path[x] \subseteq Path[s]
  BY PathOK
<1>2. w[x][a].from = IF x = z THEN None ELSE Parent[x]
  BY <1>1 DEF Materialized
<1>3. /\ vs[z][a] # None \/ O[z][a] # None \/ z = Root
      /\ \A y \in Path[s] : z \in Path[y] /\ y # z => O[y][a] = None /\ y # Root
  BY DEF Anchor
<1>4. CASE x = z
  BY <1>2, <1>3, <1>4 DEF Proper
<1>5. CASE x # z
  <2>1. O[x][a] = None /\ x # Root
    BY <1>3, <1>5
  <2>2. Parent[x] \in Scopes /\ Path[x] = {x} \cup Path[Parent[x]]
    BY <1>1, <2>1, PathFollows
  <2>3. Parent[x] \in Path[s] /\ z \in Path[Parent[x]]
    BY <1>1, <1>5, <2>2, PathOK
  <2>4. w[Parent[x]][a] # None
    BY <2>3, MaterializedAll
  <2>5. Parent[x] # None
    BY <2>2, DistinctAssumption
  <2> QED BY <1>2, <1>5, <2>1, <2>4, <2>5 DEF Proper
<1> QED BY <1>4, <1>5

\* They serve what resolves there, if the anchor does.
LEMMA MaterializedServes ==
  ASSUME NEW vs \in Views, NEW s \in Scopes, NEW a \in Atoms, NEW O \in Overrides, NEW default,
         NEW w, NEW z \in Path[s], Anchor(z, vs, s, a, O), Materialized(w, z, vs, s, a, O, default),
         NEW x \in Path[s], z \in Path[x], vs[x][a] = None,
         vs[z][a] # None => vs[z][a].outcome = ServedBy(O, default, z, a)
  PROVE  w[x][a].outcome = ServedBy(O, default, x, a)
<1>1. x \in Scopes /\ z \in Scopes /\ Path[x] \subseteq Path[s]
  BY PathOK
<1>2. w[x][a].outcome = AnchorOutcome(z, vs, a, O, default)
  BY <1>1 DEF Materialized
<1>3. /\ vs[z][a] # None \/ O[z][a] # None \/ z = Root
      /\ \A y \in Path[s] : z \in Path[y] /\ y # z => O[y][a] = None /\ y # Root
  BY DEF Anchor
<1>4. AnchorOutcome(z, vs, a, O, default) = ServedBy(O, default, z, a)
  <2>1. ASSUME O[z][a] # None PROVE ServedBy(O, default, z, a) = O[z][a]
    BY <1>1, <2>1, OwnerServes
  <2>2. ASSUME z = Root, O[z][a] = None PROVE ServedBy(O, default, z, a) = default
    BY <2>2, RootServes
  <2>3. CASE vs[z][a] # None
    BY <2>3 DEF AnchorOutcome
  <2>4. CASE vs[z][a] = None /\ O[z][a] # None
    BY <2>1, <2>4 DEF AnchorOutcome
  <2>5. CASE vs[z][a] = None /\ O[z][a] = None
    BY <1>3, <2>2, <2>5 DEF AnchorOutcome
  <2> QED BY <2>3, <2>4, <2>5
<1>5. NoneBelow(O, z, x, a)
  BY <1>1, <1>3 DEF NoneBelow
<1>6. ServedBy(O, default, x, a) = ServedBy(O, default, z, a)
  BY <1>1, <1>5, SameServed
<1> QED BY <1>2, <1>4, <1>6

-----------------------------------------------------------------------------
(* The invariant of the views *)

\* Bound: where one draft writes scopes above each other, they are a scope and
\* its parent.
Adjacent == \A T \in Together : \A s, x \in T : x \in Path[s] => x = s \/ x = Parent[s]

\* A draft writes scopes that may be written together.
DraftTogether ==
  intents # <<>> => \E T \in Together : \A e \in Written(intents) : e.scope \in T

\* The inductive invariant of views.
VInv ==
  /\ IInv
  /\ Routed(views, override)
  /\ Serves(views, override, fallback)
  /\ DraftTogether

\* An atom that was read has settled its fallback.
LEMMA ViewsSettled ==
  ASSUME VInv, NEW s \in Scopes, NEW a \in Atoms, views[s][a] # None
  PROVE  fallback[a] # None
<1> SUFFICES ASSUME fallback[a] = None PROVE FALSE
  OBVIOUS
<1>1. views[s][a].outcome = ServedBy(override, fallback[a], s, a) /\ views[s][a].outcome \in Outcomes
  BY DEF VInv, Serves, IInv, TypeOK, View
<1>2. OwnersIn(override, s, a) = {}
  BY PathOK DEF OwnersIn, VInv, IInv, OwnersSettled
<1> QED BY <1>1, <1>2, DistinctAssumption DEF ServedBy

\* A read creates views that serve what resolves at their scopes.
LEMMA GetViews ==
  ASSUME VInv, NEW s \in Scopes, NEW a \in Atoms, Get(s, a)
  PROVE  VInv'
<1>1. UNCHANGED <<status, override, owned, draft, fault>>
  BY DEF Get
<1>2. PICK default \in Outcomes :
        /\ fallback[a] # None => default = fallback[a]
        /\ views' = Materialize(views, s, a, override, default)
        /\ fallback' = IF \E x \in Path[s] : views[x][a] # None \/ override[x][a] # None
                         THEN fallback ELSE [fallback EXCEPT ![a] = default]
  BY DEF Get
<1>3. /\ views \in Views /\ override \in Overrides /\ fallback \in [Atoms -> Outcomes \cup {None}]
      /\ Routed(views, override) /\ Serves(views, override, fallback)
  BY DEF VInv, IInv, TypeOK, Views, Overrides
<1>4. fallback'[a] = default /\ \A b \in Atoms : fallback[b] # None => fallback'[b] = fallback[b]
  <2>1. CASE \E x \in Path[s] : views[x][a] # None \/ override[x][a] # None
    <3>1. fallback[a] # None
      BY <2>1, ViewsSettled, PathOK DEF VInv, IInv, OwnersSettled
    <3> QED BY <1>2, <2>1, <3>1
  <2>2. CASE ~\E x \in Path[s] : views[x][a] # None \/ override[x][a] # None
    BY <1>2, <1>3, <2>2
  <2> QED BY <2>1, <2>2
<1>5. PICK z \in Path[s] : /\ Anchor(z, views, s, a, override)
                           /\ Materialized(views', z, views, s, a, override, fallback'[a])
  BY <1>2, <1>3, <1>4, MaterializeOK
<1>6. ASSUME NEW x \in Scopes, NEW b \in Atoms, views[x][b] # None
      PROVE  views'[x][b].outcome = ServedBy(override, fallback'[b], x, b)
  <2>1. views'[x][b] = views[x][b]
    BY <1>5, <1>6 DEF Materialized
  <2>2. fallback'[b] = fallback[b]
    BY <1>4, <1>6, ViewsSettled
  <2>3. ServedBy(override, fallback'[b], x, b) = ServedBy(override, fallback[b], x, b)
    BY <2>2
  <2> QED BY <1>3, <1>6, <2>1, <2>3 DEF Serves
<1>7. ASSUME NEW x \in Scopes, NEW b \in Atoms, views[x][b] # None
      PROVE  Proper(views', override, x, b)
  <2>1. views'[x][b] = views[x][b] /\ Proper(views, override, x, b)
    BY <1>3, <1>5, <1>7 DEF Materialized, Routed
  <2>2. x # Root => Parent[x] \in Scopes
    BY PathFollows
  <2>3. \A y \in Scopes : views[y][b] # None => views'[y][b] # None
    BY <1>5 DEF Materialized
  <2> QED BY <2>1, <2>2, <2>3 DEF Proper
<1>8. ASSUME NEW x \in Scopes, NEW b \in Atoms, views[x][b] = None, views'[x][b] # None
      PROVE  Proper(views', override, x, b) /\ views'[x][b].outcome = ServedBy(override, fallback'[b], x, b)
  <2>1. b = a /\ x \in Path[s] /\ z \in Path[x]
    BY <1>5, <1>8 DEF Materialized
  <2>2. views[z][a] # None => views[z][a].outcome = ServedBy(override, fallback'[a], z, a)
    <3>1. z \in Scopes
      BY PathOK
    <3>2. views[z][a] # None => views'[z][a] = views[z][a]
      BY <1>5, <3>1 DEF Materialized
    <3> QED BY <1>6, <3>1, <3>2
  <2>3. /\ z \in Path[s] /\ views \in Views /\ override \in Overrides
        /\ Anchor(z, views, s, a, override)
        /\ Materialized(views', z, views, s, a, override, fallback'[a])
        /\ x \in Path[s] /\ z \in Path[x] /\ views[x][a] = None
    BY <1>3, <1>5, <1>8, <2>1
  <2>4. Proper(views', override, x, a)
    BY <2>3, MaterializedProper
  <2>5. views'[x][a].outcome = ServedBy(override, fallback'[a], x, a)
    BY <2>2, <2>3, MaterializedServes
  <2> QED BY <2>1, <2>4, <2>5
<1>9. Routed(views', override) /\ Serves(views', override, fallback')
  BY <1>6, <1>7, <1>8 DEF Routed, Serves
<1>10. IInv'
  BY GetInductive DEF VInv
<1>11. DraftTogether'
  BY <1>1 DEF VInv, DraftTogether, draft
<1> QED BY <1>1, <1>9, <1>10, <1>11 DEF VInv

\* A fallback settled for hydration is one no view depends on.
LEMMA ReadHydrationViews ==
  ASSUME VInv, NEW s \in Scopes, NEW a \in Atoms, ReadHydration(s, a)
  PROVE  VInv'
<1>1. UNCHANGED <<status, override, views, owned, draft, fault>>
  BY DEF ReadHydration
<1>2. \A b \in Atoms : fallback[b] # None => fallback'[b] = fallback[b]
  <2>1. CASE Owners(s, a) = {} /\ fallback[a] = None
    BY <2>1 DEF ReadHydration, VInv, IInv, TypeOK
  <2>2. CASE ~(Owners(s, a) = {} /\ fallback[a] = None)
    BY <2>2 DEF ReadHydration
  <2> QED BY <2>1, <2>2
<1>3. Serves(views, override, fallback')
  <2>1. ASSUME NEW x \in Scopes, NEW b \in Atoms, views[x][b] # None
        PROVE  views[x][b].outcome = ServedBy(override, fallback'[b], x, b)
    <3>1. fallback'[b] = fallback[b]
      BY <1>2, <2>1, ViewsSettled
    <3>2. ServedBy(override, fallback'[b], x, b) = ServedBy(override, fallback[b], x, b)
      BY <3>1
    <3> QED BY <2>1, <3>2 DEF VInv, Serves
  <2> QED BY <2>1 DEF Serves
<1>4. IInv'
  BY ReadHydrationInductive DEF VInv
<1>5. DraftTogether'
  BY <1>1 DEF VInv, DraftTogether, draft
<1> QED BY <1>1, <1>3, <1>4, <1>5 DEF VInv

\* The views left after a disposal are of scopes no disposed one is above.
LEMMA DisposeViews ==
  ASSUME VInv, NEW s \in Scopes, Dispose(s)
  PROVE  VInv'
<1> DEFINE gone == {x \in LiveScopes : s \in Path[x]}
<1>1. /\ override' = [x \in Scopes |-> IF x \in gone THEN [a \in Atoms |-> None] ELSE override[x]]
      /\ views' = [x \in Scopes |-> IF x \in gone THEN [a \in Atoms |-> None] ELSE views[x]]
      /\ fallback' = IF s = Root THEN [a \in Atoms |-> IF a \in Lazy THEN None ELSE EagerFallback[a]]
                       ELSE fallback
      /\ UNCHANGED draft
  BY DEF Dispose
<1>2. ASSUME NEW x \in Scopes, NEW a \in Atoms, views'[x][a] # None
      PROVE  /\ views'[x][a] = views[x][a] /\ fallback' = fallback
             /\ \A y \in Path[x] : override'[y] = override[y] /\ views'[y] = views[y]
  <2>1. x \notin gone /\ views'[x] = views[x]
    BY <1>1, <1>2
  <2>2. x \in LiveScopes
    BY <1>2, <2>1 DEF VInv, IInv, Vacant, LiveScopes
  <2>3. s \notin Path[x]
    BY <2>1, <2>2
  <2>4. s # Root
    BY <2>3, PathOK
  <2>5. \A y \in Path[x] : y \in Scopes /\ y \notin gone
    BY <2>3, PathOK
  <2> QED BY <1>1, <2>1, <2>4, <2>5
<1> HIDE DEF gone
<1>3. ASSUME NEW x \in Scopes, NEW a \in Atoms, views'[x][a] # None
      PROVE  /\ views'[x][a].outcome = ServedBy(override', fallback'[a], x, a)
             /\ Proper(views', override', x, a)
  <2>1. /\ views'[x][a] = views[x][a] /\ fallback' = fallback
        /\ \A y \in Path[x] : override'[y] = override[y] /\ views'[y] = views[y]
    BY <1>2, <1>3
  <2>2. views[x][a].outcome = ServedBy(override, fallback[a], x, a) /\ Proper(views, override, x, a)
    BY <1>3, <2>1 DEF VInv, Serves, Routed
  <2>3. ServedBy(override', fallback'[a], x, a) = ServedBy(override, fallback[a], x, a)
    <3>1. \A y \in Path[x] : override'[y][a] = override[y][a]
      BY <2>1
    <3>2. fallback'[a] = fallback[a]
      BY <2>1
    <3> QED BY <3>1, <3>2, PathServes
  <2>4. x \in Path[x] /\ (x # Root => Parent[x] \in Path[x])
    <3>1. x \in Path[x]
      BY PathOK
    <3>2. ASSUME x # Root PROVE Parent[x] \in Path[x]
      <4>1. Parent[x] \in Scopes /\ Path[x] = {x} \cup Path[Parent[x]]
        BY <3>2, PathFollows
      <4> QED BY <4>1, PathOK
    <3> QED BY <3>1, <3>2
  <2>5. Proper(views', override', x, a)
    BY <2>1, <2>2, <2>4 DEF Proper
  <2> QED BY <2>1, <2>2, <2>3, <2>5
<1>4. IInv'
  BY DisposeInductive DEF VInv
<1>5. DraftTogether'
  BY <1>1 DEF VInv, DraftTogether, draft
<1>6. Routed(views', override') /\ Serves(views', override', fallback')
  BY <1>3 DEF Routed, Serves
<1> QED BY <1>4, <1>5, <1>6 DEF VInv

\* A draft writes the scopes it may write together.
LEMMA StagedTogether ==
  ASSUME TypeOK, DraftOK, NEW s \in Scopes, Writable(s),
         intents' \in Seq(Intent),
         \A e \in Written(intents') : e \in Written(intents) \/ e.scope = s
  PROVE  DraftTogether'
<1>1. {intents[i].scope : i \in DOMAIN intents} \cup {s} \in Together
  BY DEF Writable
<1> DEFINE T == {intents[i].scope : i \in DOMAIN intents} \cup {s}
<1>2. \A e \in Written(intents) : e.scope \in T
  BY DEF Written
<1>3. \A e \in Written(intents') : e.scope \in T
  BY <1>2
<1> QED BY <1>1, <1>3 DEF DraftTogether

\* What a draft does leaves the views alone.
LEMMA DraftedViews ==
  ASSUME VInv, UNCHANGED committed, IInv', DraftTogether'
  PROVE  VInv'
BY DEF VInv, committed

\* So does staging an intent where the draft may write.
LEMMA StagingViews ==
  ASSUME VInv, UNCHANGED committed, IInv', NEW s \in Scopes,
         \/ intents' = intents
         \/ Writable(s) /\ \E t \in Intent : t.scope = s /\ intents' = Stage(intents, t)
  PROVE  VInv'
<1>1. TypeOK /\ DraftOK /\ intents \in Seq(Intent) /\ OneEach(intents)
  BY DEF VInv, IInv, TypeOK, DraftOK
<1>2. CASE intents' = intents
  <2>1. DraftTogether'
    BY <1>2 DEF VInv, DraftTogether
  <2> QED BY <2>1, DraftedViews
<1>3. ASSUME Writable(s), NEW t \in Intent, t.scope = s, intents' = Stage(intents, t)
      PROVE  VInv'
  <2>1. /\ intents' \in Seq(Intent)
        /\ \A e \in Intent : e \in Written(intents') <=> e = t \/ (e \in Written(intents) /\ ~SamePlace(e, t))
    BY <1>1, <1>3, StageOK
  <2>2. \A e \in Written(intents') : e \in Written(intents) \/ e.scope = s
    BY <1>3, <2>1, WrittenOK
  <2>3. DraftTogether'
    BY <1>1, <1>3, <2>1, <2>2, StagedTogether
  <2> QED BY <2>3, DraftedViews
<1> QED BY <1>2, <1>3

\* Sets and updates.
LEMMA TxSetViews ==
  ASSUME VInv, NEW s \in Scopes, NEW a \in Atoms, NEW v \in Values,
         TxSet(s, a, v) \/ TxUpdate(s, a, v)
  PROVE  VInv'
<1>1. IInv'
  BY TxSetInductive, TxUpdateInductive DEF VInv
<1>2. /\ Writable(s) /\ status[s] = "live" /\ UNCHANGED committed
      /\ \E falls \in BOOLEAN : (BaselineFalls(s, a) => falls) /\ memo' \in Memos(a, falls)
      /\ intents' = intents \/ intents' = Stage(intents, SetIntent(s, a, v, memo'))
  <2>1. CASE TxSet(s, a, v)
    <3>1. BaselineFalls(s, a) \in BOOLEAN
      BY DEF BaselineFalls
    <3> QED BY <2>1, <3>1 DEF TxSet, Writable, LiveScopes
  <2>2. CASE TxUpdate(s, a, v)
    <3>1. (BaselineFalls(s, a) \/ DraftOwners(s, a) = {}) \in BOOLEAN
      BY DEF BaselineFalls
    <3> QED BY <2>2, <3>1 DEF TxUpdate, Writable, LiveScopes
  <2> QED BY <2>1, <2>2
<1>3. SetIntent(s, a, v, memo') \in Intent /\ SetIntent(s, a, v, memo').scope = s
  BY <1>2, SetStageable DEF VInv, IInv, SetIntent
<1> QED BY <1>1, <1>2, <1>3, StagingViews

\* Resets.
LEMMA TxResetViews ==
  ASSUME VInv, NEW s \in Scopes, NEW a \in Atoms, TxReset(s, a)
  PROVE  VInv'
<1>1. IInv'
  BY TxResetInductive DEF VInv
<1>2. /\ Writable(s) /\ UNCHANGED committed
      /\ intents' = intents \/ intents' = Stage(intents, ResetIntent(s, a, memo'))
  BY DEF TxReset
<1>3. ResetIntent(s, a, memo') \in Intent /\ ResetIntent(s, a, memo').scope = s
  BY ResetIntentOK
<1> QED BY <1>1, <1>2, <1>3, StagingViews

\* resetAll.
LEMMA TxResetAllViews ==
  ASSUME VInv, NEW s \in Scopes, TxResetAll(s)
  PROVE  VInv'
<1>1. IInv' /\ IInv
  BY TxResetAllInductive DEF VInv
<1>2. /\ UNCHANGED committed
      /\ \/ intents' = intents
         \/ ResetDone(intents', s, Candidates(s), Len(Candidates(s)), memo')
  BY <1>1, ResetAllSteps
<1>3. CASE intents' = intents
  BY <1>1, <1>2, <1>3, StagingViews
<1>4. CASE ResetDone(intents', s, Candidates(s), Len(Candidates(s)), memo')
  <2>1. /\ intents' \in Seq(Intent)
        /\ \A e \in Written(intents') : e \in Written(intents) \/ e.scope = s
    BY <1>4 DEF ResetDone
  <2>2. Writable(s)
    BY DEF TxResetAll
  <2>3. DraftTogether'
    BY <1>1, <2>1, <2>2, StagedTogether DEF IInv
  <2> QED BY <1>1, <1>2, <2>3, DraftedViews
<1> QED BY <1>2, <1>3, <1>4

-----------------------------------------------------------------------------
(* What a commit refreshes *)

\* The scopes from which s inherits an atom: up to the nearest one that owns it.
Reach(s, a) == {x \in Path[s] : NoneBelow(override, x, s, a)}

\* The views a view inherits through are those of the scopes it resolves through,
\* and all of these have one.
LEMMA RouteOK ==
  ASSUME VInv, NEW a \in Atoms, NEW s \in Scopes, views[s][a] # None
  PROVE  Inherits(views, a)[s] = Reach(s, a) /\ \A x \in Reach(s, a) : views[x][a] # None
<1> DEFINE Route == Inherits(views, a)
           S == {x \in Scopes : views[x][a] # None =>
                   Route[x] = Reach(x, a) /\ \A y \in Reach(x, a) : views[y][a] # None}
<1>1. views \in Views /\ \A x \in Scopes : views[x][a] # None => Proper(views, override, x, a)
  BY DEF VInv, IInv, TypeOK, Views, Routed
<1>2. \A x \in Scopes : Route[x] = {x} \cup (IF views[x][a] = None \/ views[x][a].from = None
                                               THEN {} ELSE Route[views[x][a].from])
  BY <1>1, InheritsOK
<1> HIDE DEF Route
<1>3. ASSUME NEW x \in Scopes, views[x][a] # None, views[x][a].from = None
      PROVE  Route[x] = Reach(x, a) /\ \A y \in Reach(x, a) : views[y][a] # None
  <2>1. Route[x] = {x}
    BY <1>2, <1>3
  <2>2. x = Root \/ override[x][a] # None
    BY <1>1, <1>3 DEF Proper
  <2>3. x \in Path[x] /\ \A y \in Path[x] : x \in Path[y] => y = x
    <3>1. x \in Path[x]
      BY PathOK
    <3> QED BY <3>1, PathChain
  <2>4. x \in Reach(x, a)
    BY <2>3 DEF Reach, NoneBelow
  <2>5. ASSUME NEW y \in Reach(x, a)
        PROVE  y = x
    <3>1. y \in Path[x] /\ (x # y => override[x][a] = None)
      BY <2>3 DEF Reach, NoneBelow
    <3> QED BY <2>2, <3>1, PathFollows
  <2>6. Reach(x, a) = {x}
    BY <2>4, <2>5
  <2> QED BY <1>3, <2>1, <2>6
<1>4. ASSUME NEW x \in Scopes, views[x][a] # None, views[x][a].from # None, Parent[x] \in S
      PROVE  Route[x] = Reach(x, a) /\ \A y \in Reach(x, a) : views[y][a] # None
  <2>1. /\ x # Root /\ views[x][a].from = Parent[x]
        /\ override[x][a] = None
        /\ views[Parent[x]][a] # None
    BY <1>1, <1>4 DEF Proper
  <2>2. Route[x] = {x} \cup Route[Parent[x]]
    BY <1>2, <1>4, <2>1
  <2>3. Route[Parent[x]] = Reach(Parent[x], a) /\ \A y \in Reach(Parent[x], a) : views[y][a] # None
    BY <1>4, <2>1
  <2>4. Path[x] = {x} \cup Path[Parent[x]] /\ Parent[x] \in Scopes
    BY <2>1, PathFollows
  <2>5. x \notin Path[Parent[x]]
    BY <2>1, NoCycle
  <2>6. ASSUME NEW y \in Path[Parent[x]]
        PROVE  y \in Reach(x, a) <=> y \in Reach(Parent[x], a)
    BY <2>1, <2>4 DEF Reach, NoneBelow
  <2>7. x \in Reach(x, a)
    <3>1. \A y \in Path[Parent[x]] : x \notin Path[y]
      BY <2>4, <2>5, PathOK
    <3> QED BY <2>4, <3>1 DEF Reach, NoneBelow
  <2>8. Reach(x, a) \subseteq Path[x] /\ Reach(Parent[x], a) \subseteq Path[Parent[x]]
    BY DEF Reach
  <2>9. Reach(x, a) = {x} \cup Reach(Parent[x], a)
    BY <2>4, <2>6, <2>7, <2>8
  <2> QED BY <1>4, <2>2, <2>3, <2>9
<1>5. Root \in S
  <2>1. views[Root][a] # None => views[Root][a].from = None
    BY <1>1, TreeAssumption DEF Proper
  <2> QED BY <1>3, <2>1, TreeAssumption
<1>6. ASSUME NEW x \in Scopes \ {Root}, Parent[x] \in S
      PROVE  x \in S
  BY <1>3, <1>4, <1>6
<1>7. Scopes \subseteq S
  <2> HIDE DEF S
  <2> QED BY <1>5, <1>6, TreeInduction
<1> QED BY <1>7 DEF Route

\* Between a scope and one it resolves through, nothing owns the atom.
LEMMA ReachServes ==
  ASSUME NEW s \in Scopes, NEW a \in Atoms, NEW x \in Reach(s, a)
  PROVE  /\ x \in Path[s] /\ x \in Scopes
         /\ ServedBy(override, fallback[a], s, a) = ServedBy(override, fallback[a], x, a)
         /\ \A y \in Path[s] : x \in Path[y] => y \in Reach(s, a)
         /\ \A y \in Path[s] : x \in Path[y] /\ y # x => override[y][a] = None
<1>1. x \in Path[s] /\ NoneBelow(override, x, s, a)
  BY DEF Reach
<1>2. x \in Scopes
  BY <1>1, PathOK
<1>3. \A y \in Path[s] : x \in Path[y] /\ y # x => override[y][a] = None
  BY <1>1 DEF NoneBelow
<1>4. ASSUME NEW y \in Path[s], x \in Path[y]
      PROVE  y \in Reach(s, a)
  <2>1. ASSUME NEW u \in Path[s], y \in Path[u], u # y
        PROVE  override[u][a] = None
    <3>1. u \in Scopes /\ y \in Scopes
      BY PathOK
    <3>2. x \in Path[u]
      BY <1>4, <2>1, <3>1, PathOK
    <3>3. u # x
      BY <1>4, <2>1, <3>1, PathOK, PathChain
    <3> QED BY <1>3, <3>2, <3>3
  <2> QED BY <2>1 DEF Reach, NoneBelow
<1> QED BY <1>1, <1>2, <1>3, <1>4, SameServed

\* A view whose outcome a commit changes is found: the nearest intent it
\* inherits through changes every view in between.
LEMMA AffectedFound ==
  ASSUME VInv, Commit, NEW a \in Atoms, NEW s \in Scopes, views[s][a] # None,
         views[s][a].outcome # ServedBy(ApplyOverrides, PublishFallbacks[a], s, a)
  PROVE  s \in Affected(a)
<1> DEFINE O == ApplyOverrides
           d == fallback[a]
           Route == Inherits(views, a)
           R == Reach(s, a)
           H == {x \in R : HasIntent(intents, x, a)}
<1>1. /\ d # None /\ PublishFallbacks[a] = d /\ IInv
      /\ intents \in Seq(Intent) /\ OneEach(intents) /\ R \subseteq Path[s]
  BY ViewsSettled, AppliedOK DEF VInv, IInv, TypeOK, DraftOK, Reach
<1>2. \A x \in Scopes : views[x][a] # None =>
         /\ views[x][a].outcome = ServedBy(override, d, x, a)
         /\ Route[x] = Reach(x, a) /\ \A y \in Reach(x, a) : views[y][a] # None
  BY RouteOK DEF VInv, Serves
<1>3. ServedBy(override, d, s, a) # ServedBy(O, d, s, a)
  BY <1>1, <1>2
<1>4. \A x \in Scopes : ~HasIntent(intents, x, a) => O[x][a] = override[x][a]
  BY DEF ApplyOverrides
<1> HIDE DEF O, Route, d
<1>5. CASE H = {}
  <2>1. \A x \in R : O[x][a] = override[x][a]
    BY <1>1, <1>4, <1>5, PathOK
  <2>2. CASE OwnersIn(override, s, a) = {}
    <3>1. R = Path[s]
      BY <2>2 DEF OwnersIn, Reach, NoneBelow
    <3>2. \A x \in Path[s] : override[x][a] = O[x][a]
      BY <2>1, <3>1
    <3> QED BY <1>3, <3>2, PathServes
  <2>3. CASE OwnersIn(override, s, a) # {}
    <3> DEFINE some == OwnersIn(override, s, a)
               z == Nearest(some)
    <3>1. some # {} /\ some \subseteq Path[s] /\ \A y \in Path[s] : override[y][a] # None => y \in some
      BY <2>3 DEF OwnersIn
    <3>2. z \in some /\ some \subseteq Path[z] /\ override[z][a] # None
      <4>1. \A y \in some : override[y][a] # None
        BY DEF OwnersIn
      <4> HIDE DEF some
      <4> QED BY <3>1, <4>1, NearestOK
    <3> HIDE DEF some, z
    <3>3. z \in Path[s] /\ z \in Scopes
      BY <3>1, <3>2, PathOK
    <3>4. z \in R
      <4>1. ASSUME NEW y \in Path[s], z \in Path[y], y # z
            PROVE  override[y][a] = None
        <5>1. y \notin Path[z]
          BY <3>3, <4>1, PathChain
        <5> QED BY <3>1, <3>2, <5>1
      <4> QED BY <3>3, <4>1 DEF Reach, NoneBelow
    <3>5. ServedBy(override, d, s, a) = ServedBy(override, d, z, a)
      BY <3>4, ReachServes DEF d
    <3>6. NoneBelow(O, z, s, a)
      <4>1. \A y \in Path[s] : z \in Path[y] => y \in R
        BY <3>4, ReachServes
      <4>2. \A y \in Path[s] : z \in Path[y] /\ y # z => override[y][a] = None
        BY <3>4, ReachServes
      <4> QED BY <2>1, <4>1, <4>2 DEF NoneBelow
    <3>7. ServedBy(O, d, s, a) = ServedBy(O, d, z, a)
      BY <3>3, <3>6, SameServed
    <3>8. ServedBy(O, d, z, a) = O[z][a] /\ ServedBy(override, d, z, a) = override[z][a]
      BY <2>1, <3>2, <3>3, <3>4, OwnerServes
    <3> QED BY <1>3, <2>1, <3>4, <3>5, <3>7, <3>8
  <2> QED BY <2>2, <2>3
<1>6. CASE H # {}
  <2> DEFINE i == Nearest(H)
  <2>1. i \in H /\ H \subseteq Path[i]
    <3>1. H \subseteq Path[s]
      BY <1>1
    <3> HIDE DEF H
    <3> QED BY <1>6, <3>1, NearestOK
  <2> HIDE DEF i
  <2>2. i \in R /\ HasIntent(intents, i, a) /\ i \in Route[s]
    BY <1>2, <2>1
  <2>3. ASSUME NEW x \in Route[s], i \in Route[x]
        PROVE  Changes(x, a)
    <3>1. x \in R /\ views[x][a] # None
      BY <1>2, <2>3
    <3>2. x \in Path[s] /\ x \in Scopes
      BY <1>1, <3>1, PathOK
    <3>3. views[x][a].outcome = ServedBy(override, d, s, a)
      <4>1. ServedBy(override, d, s, a) = ServedBy(override, d, x, a)
        BY <3>1, ReachServes DEF d
      <4> QED BY <1>2, <3>1, <3>2, <4>1
    <3>4. i \in Path[x] /\ i \in Scopes
      <4>1. Route[x] = Reach(x, a)
        BY <1>2, <3>1, <3>2
      <4> QED BY <2>3, <3>2, <4>1, PathOK DEF Reach
    <3>5. NoneBelow(O, x, s, a)
      <4>1. ASSUME NEW y \in Path[s], x \in Path[y], y # x
            PROVE  O[y][a] = None
        <5>1. y \in R /\ override[y][a] = None /\ y \in Scopes
          BY <3>1, <4>1, ReachServes, PathOK
        <5>2. y \notin Path[x]
          BY <3>2, <4>1, PathChain
        <5>3. y \notin Path[i]
          BY <3>2, <3>4, <5>2, PathOK
        <5>4. ~HasIntent(intents, y, a)
          BY <2>1, <5>1, <5>3
        <5> QED BY <1>4, <5>1, <5>4
      <4> QED BY <4>1 DEF NoneBelow
    <3>6. ServedBy(O, d, s, a) = ServedBy(O, d, x, a)
      BY <3>2, <3>5, SameServed
    <3>7. Final(x, a) = ServedBy(O, d, x, a)
      <4>1. Resolved(x, a)' = Final(x, a)
        BY <1>1, <3>2, FinalResolves DEF d
      <4>2. override' = O /\ fallback'[a] = d
        BY <1>1 DEF Commit, O
      <4> QED BY <4>1, <4>2, ResolvedServed
    <3> QED BY <1>3, <3>1, <3>3, <3>6, <3>7 DEF Changes
  <2> QED BY <2>2, <2>3 DEF Affected, Route
<1> QED BY <1>5, <1>6

\* The views a commit refreshes are those whose outcome it changes, and what they
\* get is what their scope resolves then.
LEMMA AffectedExact ==
  ASSUME VInv, Commit, NEW a \in Atoms, NEW s \in Scopes
  PROVE  /\ s \in Affected(a) <=>
              views[s][a] # None /\ views[s][a].outcome # ServedBy(ApplyOverrides, PublishFallbacks[a], s, a)
         /\ s \in Affected(a) => Final(s, a) = ServedBy(ApplyOverrides, PublishFallbacks[a], s, a)
<1> DEFINE new == ServedBy(ApplyOverrides, PublishFallbacks[a], s, a)
<1>1. IInv /\ views \in Views
  BY DEF VInv, IInv, TypeOK, Views
<1>2. ASSUME s \in Affected(a)
      PROVE  views[s][a] # None /\ views[s][a].outcome # Final(s, a) /\ Final(s, a) = new
  <2>1. views[s][a] # None /\ \E e \in Written(intents) : e.atom = a
    BY <1>1, <1>2, AffectedOK
  <2>2. Changes(s, a)
    <3>1. s \in Inherits(views, a)[s]
      BY <1>1, InheritsOK
    <3> QED BY <1>2, <3>1 DEF Affected
  <2>3. Resolved(s, a)' = Final(s, a)
    BY <1>1, <2>1, FinalResolves
  <2>4. override' = ApplyOverrides /\ fallback' = PublishFallbacks
    BY DEF Commit
  <2>5. Resolved(s, a)' = new
    BY <2>4, ResolvedServed
  <2> QED BY <2>1, <2>2, <2>3, <2>5 DEF Changes
<1>3. ASSUME views[s][a] # None, views[s][a].outcome # new
      PROVE  s \in Affected(a)
  BY <1>3, AffectedFound
<1> HIDE DEF new
<1>4. s \in Affected(a) <=> views[s][a] # None /\ views[s][a].outcome # new
  BY <1>2, <1>3
<1> QED BY <1>2, <1>4 DEF new

-----------------------------------------------------------------------------
(* What rewiring leaves behind *)

\* An intent after the k-th rewires the view of s and a.
Awaits(s, a, k) ==
  \E j \in (k + 1)..Len(intents) : intents[j].scope = s /\ intents[j].atom = a

\* Views fit the new owners, but for those an intent still has to rewire.
ProperAfter(vs, k) ==
  \A s \in Scopes, a \in Atoms :
    vs[s][a] # None => Proper(vs, ApplyOverrides, s, a) \/ Awaits(s, a, k)

\* Old views keep their outcome until they are refreshed; new ones serve already
\* what resolves after the commit.
NewServe(vs) ==
  \A s \in Scopes, a \in Atoms :
    /\ views[s][a] # None => vs[s][a] # None /\ vs[s][a].outcome = views[s][a].outcome
    /\ views[s][a] = None /\ vs[s][a] # None =>
         vs[s][a].outcome = ServedBy(ApplyOverrides, PublishFallbacks[a], s, a)

\* No view has to wait for an intent the draft does not have.
LEMMA ProperBefore ==
  ASSUME VInv
  PROVE  ProperAfter(views, 0)
<1>1. intents \in Seq(Intent) /\ Len(intents) \in Nat /\ Routed(views, override)
  BY DEF VInv, IInv, TypeOK
<1>2. ASSUME NEW s \in Scopes, NEW a \in Atoms, views[s][a] # None, ~Awaits(s, a, 0)
      PROVE  Proper(views, ApplyOverrides, s, a)
  <2>1. ~HasIntent(intents, s, a)
    BY <1>1, <1>2 DEF Awaits, HasIntent, At, OfScope
  <2>2. ApplyOverrides[s][a] = override[s][a]
    BY <2>1 DEF ApplyOverrides
  <2>3. Proper(views, override, s, a)
    BY <1>1, <1>2 DEF Routed
  <2> QED BY <2>2, <2>3 DEF Proper
<1> QED BY <1>2 DEF ProperAfter

\* An intent decides what its scope owns.
LEMMA IntentApplied ==
  ASSUME IInv, NEW k \in 1..Len(intents)
  PROVE  /\ intents[k].scope \in Scopes /\ intents[k].atom \in Atoms
         /\ intents[k] \in Written(intents)
         /\ intents[k].kind \in {"set", "reset"}
         /\ ApplyOverrides[intents[k].scope][intents[k].atom] # None <=> intents[k].kind = "set"
<1>1. intents \in Seq(Intent) /\ OneEach(intents) /\ intents[k] \in Written(intents) /\ intents[k] \in Intent
  BY WrittenOK DEF IInv, TypeOK, DraftOK
<1>2. intents[k].scope \in Scopes /\ intents[k].atom \in Atoms /\ intents[k].kind \in {"set", "reset"}
  BY <1>1 DEF Intent
<1>3. /\ HasIntent(intents, intents[k].scope, intents[k].atom)
      /\ IntentOf(intents, intents[k].scope, intents[k].atom) = intents[k]
  BY <1>1, IntentOfOK
<1> QED BY <1>1, <1>2, <1>3, AppliedOK

\* Rewiring one intent leaves no other view of the wrong shape.
LEMMA ProperStep ==
  ASSUME IInv, NEW k \in 1..Len(intents), NEW vs \in Views, NEW w, NEW F,
         OneRewired(w, vs, ApplyOverrides, F, k), ProperAfter(vs, k - 1)
  PROVE  ProperAfter(w, k)
<1> DEFINE O == ApplyOverrides
           s == intents[k].scope
           a == intents[k].atom
<1>1. /\ s \in Scopes /\ a \in Atoms /\ intents[k].kind \in {"set", "reset"}
      /\ O[s][a] # None <=> intents[k].kind = "set"
  BY IntentApplied
<1>2. O \in Overrides /\ Len(intents) \in Nat
  BY AppliedOK DEF IInv, TypeOK
<1>3. \A x \in Scopes, b \in Atoms :
        x # s \/ b # a => (Awaits(x, b, k - 1) => Awaits(x, b, k))
  <2>1. \A j \in ((k - 1) + 1)..Len(intents) : j = k \/ j \in (k + 1)..Len(intents)
    BY <1>2
  <2> QED BY <2>1 DEF Awaits
<1>4. /\ w \in Views
      /\ \A x \in Scopes, b \in Atoms :
           vs[x][b] # None =>
             /\ w[x][b] \in View
             /\ w[x][b].outcome = vs[x][b].outcome
             /\ x # s \/ b # a => w[x][b] = vs[x][b]
      /\ vs[s][a] = None => w = vs
      /\ vs[s][a] # None => w[s][a].from = IF Detaches(k) THEN None ELSE Parent[s]
      /\ Detaches(k) => \A x \in Scopes, b \in Atoms : vs[x][b] = None => w[x][b] = None
      /\ vs[s][a] # None /\ ~Detaches(k) =>
           \E z \in Path[Parent[s]], u \in Views :
             /\ Anchor(z, vs, Parent[s], a, O)
             /\ Materialized(u, z, vs, Parent[s], a, O, F[a])
             /\ \A x \in Scopes, b \in Atoms : x # s \/ b # a => w[x][b] = u[x][b]
  BY DEF OneRewired
<1> HIDE DEF O, s, a
<1>5. \A x \in Scopes, b \in Atoms : vs[x][b] # None => w[x][b] # None
  BY <1>4, ViewAssumption
<1>6. ASSUME NEW x \in Scopes, NEW b \in Atoms, vs[x][b] # None, x # s \/ b # a
      PROVE  Proper(w, O, x, b) \/ Awaits(x, b, k)
  <2>1. w[x][b] = vs[x][b]
    BY <1>4, <1>6
  <2>2. Proper(vs, O, x, b) \/ Awaits(x, b, k - 1)
    BY <1>6 DEF ProperAfter, O
  <2>3. x # Root => Parent[x] \in Scopes
    BY PathFollows
  <2>4. Proper(vs, O, x, b) => Proper(w, O, x, b)
    BY <1>5, <2>1, <2>3 DEF Proper
  <2> QED BY <1>3, <1>6, <2>2, <2>4
<1>7. CASE vs[s][a] = None
  <2>1. w = vs
    BY <1>4, <1>7
  <2>2. \A x \in Scopes, b \in Atoms : vs[x][b] # None => x # s \/ b # a
    BY <1>7
  <2> QED BY <1>6, <2>1, <2>2 DEF ProperAfter, O
<1>8. CASE vs[s][a] # None /\ Detaches(k)
  <2>1. w[s][a].from = None
    BY <1>4, <1>8
  <2>2. s = Root \/ O[s][a] # None
    BY <1>1, <1>8 DEF Detaches, s
  <2>3. Proper(w, O, s, a)
    BY <2>1, <2>2 DEF Proper
  <2>4. \A x \in Scopes, b \in Atoms : w[x][b] # None => vs[x][b] # None
    BY <1>4, <1>8
  <2> QED BY <1>6, <2>3, <2>4 DEF ProperAfter, O
<1>9. CASE vs[s][a] # None /\ ~Detaches(k)
  <2>1. s # Root /\ O[s][a] = None
    BY <1>1, <1>9 DEF Detaches, s
  <2>2. Parent[s] \in Scopes /\ Parent[s] # s /\ Parent[s] # None
    BY <1>1, <2>1, PathFollows, PathOK, NoCycle, DistinctAssumption
  <2>3. PICK z \in Path[Parent[s]], u \in Views :
          /\ Anchor(z, vs, Parent[s], a, O)
          /\ Materialized(u, z, vs, Parent[s], a, O, F[a])
          /\ \A x \in Scopes, b \in Atoms : x # s \/ b # a => w[x][b] = u[x][b]
    BY <1>4, <1>9
  <2>4. w[s][a] # None /\ w[s][a].from = Parent[s]
    BY <1>1, <1>4, <1>5, <1>9
  <2>5. u[Parent[s]][a] # None
    <3>1. Parent[s] \in Path[Parent[s]] /\ z \in Path[Parent[s]]
      BY <2>2, PathOK
    <3> QED BY <1>1, <2>2, <2>3, <3>1, MaterializedAll
  <2>6. Proper(w, O, s, a)
    <3>1. w[Parent[s]][a] = u[Parent[s]][a]
      BY <1>1, <2>2, <2>3
    <3> QED BY <2>1, <2>2, <2>4, <2>5, <3>1 DEF Proper
  <2>7. ASSUME NEW x \in Scopes, NEW b \in Atoms, vs[x][b] = None, w[x][b] # None
        PROVE  Proper(w, O, x, b)
    <3>1. x # s \/ b # a
      BY <1>9, <2>7
    <3>2. u[x][b] = w[x][b] /\ u[x][b] # None
      BY <2>3, <2>7, <3>1
    <3>3. b = a /\ x \in Path[Parent[s]] /\ z \in Path[x]
      BY <2>3, <2>7, <3>2 DEF Materialized
    <3>4. vs[x][a] = None
      BY <2>7, <3>3
    <3>5. Proper(u, O, x, a)
      BY <1>1, <1>2, <2>2, <2>3, <3>3, <3>4, MaterializedProper
    <3>6. \A y \in Scopes : u[y][a] # None => w[y][a] # None
      BY <1>1, <2>3, <2>4
    <3>7. x # Root => Parent[x] \in Scopes
      BY PathFollows
    <3>8. w[x][a] = u[x][a]
      BY <3>2, <3>3
    <3>9. Proper(w, O, x, a)
      BY <3>5, <3>6, <3>7, <3>8 DEF Proper
    <3> QED BY <3>3, <3>9
  <2> QED BY <1>6, <2>6, <2>7 DEF ProperAfter, O
<1> QED BY <1>7, <1>8, <1>9

\* The views a reset creates above its scope start from one that the draft does
\* not reach, or that is new as well.
LEMMA ServeStep ==
  ASSUME Adjacent, VInv, NEW k \in 1..Len(intents), NEW vs \in Views, NEW w,
         OneRewired(w, vs, ApplyOverrides, PublishFallbacks, k), NewServe(vs)
  PROVE  NewServe(w)
<1> DEFINE O == ApplyOverrides
           P == PublishFallbacks
           s == intents[k].scope
           a == intents[k].atom
<1>1. s \in Scopes /\ a \in Atoms /\ intents[k] \in Written(intents)
  BY IntentApplied DEF VInv
<1>2. /\ O \in Overrides /\ IInv /\ intents \in Seq(Intent) /\ OneEach(intents)
      /\ \A b \in Atoms : fallback[b] # None => P[b] = fallback[b]
  BY AppliedOK DEF VInv, IInv, TypeOK, DraftOK
<1>3. /\ \A x \in Scopes, b \in Atoms :
           vs[x][b] # None => w[x][b] \in View /\ w[x][b].outcome = vs[x][b].outcome
      /\ vs[s][a] = None => w = vs
      /\ Detaches(k) => \A x \in Scopes, b \in Atoms : vs[x][b] = None => w[x][b] = None
      /\ vs[s][a] # None /\ ~Detaches(k) =>
           \E z \in Path[Parent[s]], u \in Views :
             /\ Anchor(z, vs, Parent[s], a, O)
             /\ Materialized(u, z, vs, Parent[s], a, O, P[a])
             /\ \A x \in Scopes, b \in Atoms : x # s \/ b # a => w[x][b] = u[x][b]
      /\ s = Root => Detaches(k)
  BY DEF OneRewired, Detaches
<1>4. \A x \in Scopes, b \in Atoms :
        /\ views[x][b] # None => vs[x][b] # None /\ vs[x][b].outcome = views[x][b].outcome
        /\ views[x][b] = None /\ vs[x][b] # None => vs[x][b].outcome = ServedBy(O, P[b], x, b)
  BY DEF NewServe
<1>5. PICK T \in Together : \A e \in Written(intents) : e.scope \in T
  <2>1. intents # <<>>
    OBVIOUS
  <2> QED BY <2>1 DEF VInv, DraftTogether
<1>6. s \in T /\ \A x \in T : x \in Path[s] => x = s \/ x = Parent[s]
  BY <1>1, <1>5 DEF Adjacent
<1>7. \A x \in Scopes, b \in Atoms : HasIntent(intents, x, b) => x \in T
  BY <1>2, <1>5, IntentOfOK
<1>8. \A x \in Scopes, b \in Atoms : ~HasIntent(intents, x, b) => O[x][b] = override[x][b]
  BY DEF ApplyOverrides
<1>9. \A x \in Scopes, b \in Atoms : views[x][b] # None =>
        fallback[b] # None /\ views[x][b].outcome = ServedBy(override, fallback[b], x, b)
  BY ViewsSettled DEF VInv, Serves
<1> HIDE DEF O, P, s, a
<1>10. ASSUME NEW x \in Scopes, NEW b \in Atoms, vs[x][b] # None
       PROVE  w[x][b] # None /\ w[x][b].outcome = vs[x][b].outcome
  BY <1>3, <1>10, ViewAssumption
<1>11. ASSUME NEW x \in Scopes, NEW b \in Atoms, vs[x][b] = None, w[x][b] # None
       PROVE  w[x][b].outcome = ServedBy(O, P[b], x, b)
  <2>1. vs[s][a] # None /\ ~Detaches(k) /\ s # Root
    BY <1>3, <1>11
  <2>2. PICK z \in Path[Parent[s]], u \in Views :
          /\ Anchor(z, vs, Parent[s], a, O)
          /\ Materialized(u, z, vs, Parent[s], a, O, P[a])
          /\ \A y \in Scopes, c \in Atoms : y # s \/ c # a => w[y][c] = u[y][c]
    BY <1>3, <2>1
  <2>3. Parent[s] \in Scopes /\ s \notin Path[Parent[s]] /\ Path[s] = {s} \cup Path[Parent[s]]
    BY <1>1, <2>1, PathFollows, NoCycle
  <2>4. u[x][b] = w[x][b]
    BY <1>11, <2>1, <2>2
  <2>5. b = a /\ x \in Path[Parent[s]] /\ z \in Path[x]
    BY <1>11, <2>2, <2>4 DEF Materialized
  <2>6. z \in Scopes /\ Path[z] \subseteq Path[Parent[s]]
    BY <2>3, PathOK
  <2>7. ASSUME vs[z][a] # None
        PROVE  vs[z][a].outcome = ServedBy(O, P[a], z, a)
    <3>1. CASE views[z][a] = None
      BY <1>1, <1>4, <2>6, <2>7, <3>1
    <3>2. CASE views[z][a] # None
      <4>1. z # Parent[s]
        <5>1. x # z
          BY <1>11, <2>5, <2>7
        <5>2. Parent[s] \in Path[Parent[s]]
          BY <2>3, PathOK
        <5> QED BY <2>3, <2>5, <5>1, <5>2, PathChain
      <4>2. s \notin Path[z] /\ Parent[s] \notin Path[z]
        <5>1. Parent[s] \in Path[Parent[s]]
          BY <2>3, PathOK
        <5> QED BY <2>3, <2>6, <4>1, <5>1, PathChain
      <4>3. \A y \in Path[z] : y \in Scopes /\ y \notin T
        BY <1>6, <2>3, <2>6, <4>2, PathOK
      <4>4. \A y \in Path[z] : override[y][a] = O[y][a]
        BY <1>1, <1>7, <1>8, <4>3
      <4>5. ServedBy(override, fallback[a], z, a) = ServedBy(O, fallback[a], z, a)
        BY <2>6, <4>4, PathServes
      <4>6. /\ vs[z][a].outcome = views[z][a].outcome
            /\ views[z][a].outcome = ServedBy(override, fallback[a], z, a)
            /\ P[a] = fallback[a]
        BY <1>1, <1>2, <1>4, <1>9, <2>6, <3>2
      <4> QED BY <4>5, <4>6
    <3> QED BY <3>1, <3>2
  <2>8. vs[x][a] = None
    BY <1>11, <2>5
  <2>9. u[x][a].outcome = ServedBy(O, P[a], x, a)
    BY <1>1, <1>2, <2>2, <2>3, <2>5, <2>7, <2>8, MaterializedServes
  <2> QED BY <2>4, <2>5, <2>9
<1>12. ASSUME NEW x \in Scopes, NEW b \in Atoms
       PROVE  /\ views[x][b] # None => w[x][b] # None /\ w[x][b].outcome = views[x][b].outcome
              /\ views[x][b] = None /\ w[x][b] # None =>
                   w[x][b].outcome = ServedBy(O, P[b], x, b)
  BY <1>4, <1>10, <1>11
<1> QED BY <1>12 DEF NewServe, O, P

\* After the last one every view is in its place, and the new ones are right.
LEMMA RewiredViews ==
  ASSUME Adjacent, VInv
  PROVE  /\ Rewire(ApplyOverrides, PublishFallbacks) \in Views
         /\ Routed(Rewire(ApplyOverrides, PublishFallbacks), ApplyOverrides)
         /\ NewServe(Rewire(ApplyOverrides, PublishFallbacks))
<1> DEFINE O == ApplyOverrides
           P == PublishFallbacks
           n == Len(intents)
<1>1. IInv /\ O \in Overrides /\ views \in Views /\ intents \in Seq(Intent) /\ n \in Nat
  BY AppliedOK DEF VInv, IInv, TypeOK, Views
<1>2. \A k \in 1..n : P[intents[k].atom] \in Outcomes
  BY <1>1, IntentApplied, AppliedOK
<1>3. PICK v : Rewiring(v, O, P) /\ Rewire(O, P) = v[n]
  <2> HIDE DEF O, P
  <2> QED BY <1>1, <1>2, RewireSteps
<1>4. ASSUME NEW k \in 1..n
      PROVE  v[k - 1] \in Views /\ OneRewired(v[k], v[k - 1], O, P, k)
  <2>1. k - 1 \in 0..Len(intents)
    BY <1>1
  <2> HIDE DEF O, P
  <2>2. v[k - 1] \in Views /\ v[k] = RewiredOnce(O, P, v[k - 1], k)
    BY <1>3, <2>1 DEF Rewiring
  <2> QED BY <1>1, <1>2, <2>2, RewiredOnceOK
<1> DEFINE S == {k \in 0..n : ProperAfter(v[k], k) /\ NewServe(v[k])}
<1>5. 0 \in S
  <2>1. v[0] = views
    BY <1>3 DEF Rewiring
  <2>2. NewServe(views)
    BY DEF NewServe
  <2> QED BY <1>1, <2>1, <2>2, ProperBefore
<1>6. ASSUME NEW k \in 1..n, k - 1 \in S
      PROVE  k \in S
  <2>1. ProperAfter(v[k - 1], k - 1) /\ NewServe(v[k - 1]) /\ k \in 0..n
    BY <1>1, <1>6
  <2>2. v[k - 1] \in Views /\ OneRewired(v[k], v[k - 1], O, P, k)
    BY <1>4
  <2>3. ProperAfter(v[k], k)
    BY <1>1, <2>1, <2>2, ProperStep
  <2>4. NewServe(v[k])
    BY <2>1, <2>2, ServeStep
  <2> QED BY <2>1, <2>3, <2>4
<1>7. \A k \in 0..n : k \in S
  <2> HIDE DEF S, n
  <2> QED BY <1>1, <1>5, <1>6, IntervalInduction
<1>8. n \in S
  <2> HIDE DEF S, n
  <2> QED BY <1>1, <1>7
<1>9. v[n] \in Views
  <2>1. n \in 0..Len(intents)
    BY <1>1
  <2> QED BY <1>3, <2>1 DEF Rewiring
<1>10. Routed(v[n], O)
  <2>1. \A x \in Scopes, b \in Atoms : ~Awaits(x, b, n)
    BY <1>1 DEF Awaits
  <2> HIDE DEF n
  <2> QED BY <1>8, <2>1 DEF ProperAfter, Routed
<1> QED BY <1>3, <1>8, <1>9, <1>10

\* A commit leaves every view inheriting from where its scope resolves, with the
\* outcome found there.
LEMMA CommitViews ==
  ASSUME Adjacent, VInv, Commit
  PROVE  VInv'
<1> DEFINE O == ApplyOverrides
           P == PublishFallbacks
           w == Rewire(O, P)
           stale == [a \in Atoms |-> Affected(a)]
<1>1. /\ override' = O /\ fallback' = P
      /\ views' = [s \in Scopes |-> [a \in Atoms |->
                    IF s \in stale[a] THEN [w[s][a] EXCEPT !.outcome = Final(s, a)] ELSE w[s][a]]]
      /\ intents' = <<>>
  BY DEF Commit
<1>2. w \in Views /\ Routed(w, O) /\ NewServe(w)
  BY RewiredViews
<1>3. \A a \in Atoms : stale[a] = Affected(a)
  OBVIOUS
<1>4. ASSUME NEW s \in Scopes, NEW a \in Atoms
      PROVE  /\ s \in stale[a] <=> views[s][a] # None /\ views[s][a].outcome # ServedBy(O, P[a], s, a)
             /\ s \in stale[a] => Final(s, a) = ServedBy(O, P[a], s, a)
  BY <1>3, AffectedExact
<1>5. ASSUME NEW s \in Scopes, NEW a \in Atoms
      PROVE  /\ views[s][a] # None => w[s][a] # None /\ w[s][a].outcome = views[s][a].outcome
             /\ views[s][a] = None /\ w[s][a] # None => w[s][a].outcome = ServedBy(O, P[a], s, a)
  BY <1>2 DEF NewServe
<1>6. \A s \in Scopes, a \in Atoms : w[s][a] \in View \cup {None}
  BY <1>2 DEF Views
<1> HIDE DEF O, P, w, stale
<1>7. ASSUME NEW s \in Scopes, NEW a \in Atoms
      PROVE  /\ views'[s][a] = None <=> w[s][a] = None
             /\ w[s][a] # None => /\ views'[s][a].from = w[s][a].from
                                  /\ views'[s][a].outcome = ServedBy(O, P[a], s, a)
  <2>1. CASE s \in stale[a]
    <3>1. w[s][a] \in View /\ Final(s, a) = ServedBy(O, P[a], s, a)
      BY <1>4, <1>5, <1>6, <2>1
    <3>2. views'[s][a] = [w[s][a] EXCEPT !.outcome = Final(s, a)]
      BY <1>1, <2>1
    <3>3. /\ views'[s][a] = [outcome |-> Final(s, a), from |-> w[s][a].from]
          /\ views'[s][a].outcome = Final(s, a) /\ views'[s][a].from = w[s][a].from
      BY <3>1, <3>2 DEF View
    <3>4. views'[s][a] # None
      <4>1. \E e \in Written(intents) : e.atom = a
        BY <1>3, <2>1, AffectedOK DEF VInv
      <4>2. Final(s, a) \in Outcomes
        BY <4>1, FinalOK DEF VInv
      <4>3. views'[s][a] \in View
        BY <3>1, <3>3, <4>2 DEF View
      <4> QED BY <4>3, ViewAssumption
    <3> QED BY <3>1, <3>3, <3>4, ViewAssumption
  <2>2. CASE s \notin stale[a]
    <3>1. views'[s][a] = w[s][a]
      BY <1>1, <2>2
    <3> QED BY <1>4, <1>5, <2>2, <3>1
  <2> QED BY <2>1, <2>2
<1>8. Serves(views', O, P)
  BY <1>7 DEF Serves
<1>9. ASSUME NEW s \in Scopes, NEW a \in Atoms, views'[s][a] # None
      PROVE  Proper(views', O, s, a)
  <2>1. Proper(w, O, s, a) /\ views'[s][a].from = w[s][a].from
    BY <1>2, <1>7, <1>9 DEF Routed
  <2>2. s # Root => Parent[s] \in Scopes
    BY PathFollows
  <2> QED BY <1>7, <2>1, <2>2 DEF Proper
<1>10. IInv'
  BY CommitInductive DEF VInv
<1>11. DraftTogether'
  BY <1>1 DEF DraftTogether
<1> QED BY <1>1, <1>8, <1>9, <1>10, <1>11 DEF VInv, Routed

-----------------------------------------------------------------------------
(* The theorems about views *)

\* A new scope has no view, and takes none from the others.
LEMMA CreateScopeViews ==
  ASSUME VInv, NEW s \in Scopes, CreateScope(s)
  PROVE  VInv'
<1>1. UNCHANGED <<override, fallback, views, draft>>
  BY DEF CreateScope
<1>2. IInv'
  BY CreateScopeInductive DEF VInv
<1> QED BY <1>1, <1>2 DEF VInv, DraftTogether, draft

\* Opening and dropping a draft commit nothing.
LEMMA EmptiedViews ==
  ASSUME VInv, UNCHANGED <<committed, fault>>, intents' = <<>>, memo' = [a \in Atoms |-> None],
         open' \in BOOLEAN, reached' \in [Atoms -> SUBSET Scopes]
  PROVE  VInv'
<1>1. IInv'
  BY EmptiedInductive DEF VInv
<1>2. DraftTogether'
  BY DEF DraftTogether
<1> QED BY <1>1, <1>2, DraftedViews

\* Nothing is read before the first step.
LEMMA InitViews == Init => VInv
<1> SUFFICES ASSUME Init PROVE VInv
  OBVIOUS
<1>1. IInv
  BY InitInv
<1>2. intents = <<>> /\ \A s \in Scopes, a \in Atoms : views[s][a] = None
  BY DEF Init
<1> QED BY <1>1, <1>2 DEF VInv, Routed, Serves, DraftTogether

\* Every step keeps the views in order.
LEMMA NextViews == Adjacent /\ VInv /\ [Next]_vars => VInv'
<1> SUFFICES ASSUME Adjacent, VInv, [Next]_vars PROVE VInv'
  OBVIOUS
<1>1. ASSUME NEW s \in Scopes, CreateScope(s) PROVE VInv'
  BY <1>1, CreateScopeViews
<1>2. ASSUME NEW s \in Scopes, Dispose(s) PROVE VInv'
  BY <1>2, DisposeViews
<1>3. ASSUME NEW s \in Scopes, TxResetAll(s) PROVE VInv'
  BY <1>3, TxResetAllViews
<1>4. ASSUME NEW s \in Scopes, NEW a \in Atoms, Get(s, a) PROVE VInv'
  BY <1>4, GetViews
<1>5. ASSUME NEW s \in Scopes, NEW a \in Atoms, ReadHydration(s, a) PROVE VInv'
  BY <1>5, ReadHydrationViews
<1>6. ASSUME NEW s \in Scopes, NEW a \in Atoms, TxGet(s, a) PROVE VInv'
  <2>1. UNCHANGED committed /\ intents' = intents
    BY <1>6 DEF TxGet
  <2>2. IInv'
    BY <1>6, TxGetInductive DEF VInv
  <2> QED BY <2>1, <2>2, StagingViews
<1>7. ASSUME NEW s \in Scopes, NEW a \in Atoms, TxReset(s, a) PROVE VInv'
  BY <1>7, TxResetViews
<1>8. ASSUME NEW s \in Scopes, NEW a \in Atoms, NEW v \in Values, TxSet(s, a, v) PROVE VInv'
  BY <1>8, TxSetViews
<1>9. ASSUME NEW s \in Scopes, NEW a \in Atoms, NEW v \in Values, TxUpdate(s, a, v) PROVE VInv'
  BY <1>9, TxSetViews
<1>10. ASSUME Begin PROVE VInv'
  <2>1. UNCHANGED <<committed, fault>> /\ intents' = <<>> /\ memo' = [a \in Atoms |-> None]
        /\ open' \in BOOLEAN /\ reached' \in [Atoms -> SUBSET Scopes]
    BY <1>10 DEF Begin, NoneReached
  <2> QED BY <2>1, EmptiedViews
<1>11. ASSUME Abort \/ CommitNothing PROVE VInv'
  <2>1. UNCHANGED <<committed, fault>> /\ intents' = <<>> /\ memo' = [a \in Atoms |-> None]
        /\ open' \in BOOLEAN /\ reached' \in [Atoms -> SUBSET Scopes]
    BY <1>11 DEF Abort, CommitNothing, VInv, IInv, TypeOK
  <2> QED BY <2>1, EmptiedViews
<1>12. ASSUME Commit PROVE VInv'
  BY <1>12, CommitViews
<1>13. ASSUME UNCHANGED vars PROVE VInv'
  <2>1. IInv'
    BY <1>13, NextInv DEF VInv
  <2>2. UNCHANGED committed /\ intents' = intents
    BY <1>13 DEF vars, committed
  <2>3. DraftTogether'
    BY <2>2 DEF VInv, DraftTogether
  <2> QED BY <2>1, <2>2, <2>3, DraftedViews
<1> QED BY <1>1, <1>2, <1>3, <1>4, <1>5, <1>6, <1>7, <1>8, <1>9, <1>10, <1>11, <1>12, <1>13
        DEF Next

\* Views are in order in every state of a behaviour.
LEMMA ViewsInvariant ==
  ASSUME Adjacent
  PROVE  Spec => []VInv
<1>1. VInv /\ [Next]_vars => VInv'
  BY NextViews
<1> QED BY <1>1, InitViews, PTL DEF Spec

\* What a scope serves from its view is what walking up the tree would find, if
\* no transaction writes a scope together with one further above than its parent.
THEOREM ViewsServe ==
  ASSUME Adjacent
  PROVE  Spec => []ViewsServeResolution
<1>1. VInv => ViewsServeResolution
  <2>1. ASSUME VInv, NEW s \in Scopes, NEW a \in Atoms, views[s][a] # None
        PROVE  views[s][a].outcome = Resolved(s, a)
    <3>1. views[s][a].outcome = ServedBy(override, fallback[a], s, a)
      BY <2>1 DEF VInv, Serves
    <3> QED BY <3>1, ResolvedServed
  <2> QED BY <2>1 DEF ViewsServeResolution, LiveScopes
<1> QED BY <1>1, ViewsInvariant, PTL

\* A commit refreshes the views whose outcome it changes and no others: to stop
\* the walk at an unchanged view misses none below it.
THEOREM RefreshExact ==
  ASSUME Adjacent
  PROVE  Spec => RefreshesExactlyChanged
<1>1. ASSUME VInv, Commit
      PROVE  reached' = [a \in Atoms |->
               {s \in Scopes : views[s][a] # None /\ views[s][a].outcome # Resolved(s, a)'}]
  <2>1. reached' = [a \in Atoms |-> Affected(a)]
    BY <1>1 DEF Commit
  <2>2. override' = ApplyOverrides /\ fallback' = PublishFallbacks
    BY <1>1 DEF Commit
  <2>3. ASSUME NEW a \in Atoms
        PROVE  Affected(a)
                 = {s \in Scopes : views[s][a] # None /\ views[s][a].outcome # Resolved(s, a)'}
    <3>1. Affected(a) \subseteq Scopes
      BY DEF Affected
    <3>2. ASSUME NEW s \in Scopes
          PROVE  s \in Affected(a)
                   <=> views[s][a] # None /\ views[s][a].outcome # Resolved(s, a)'
      <4>1. Resolved(s, a)' = ServedBy(ApplyOverrides, PublishFallbacks[a], s, a)
        BY <2>2, ResolvedServed
      <4> QED BY <1>1, <4>1, AffectedExact
    <3> QED BY <3>1, <3>2
  <2> QED BY <2>1, <2>3
<1>2. VInv /\ [Next]_vars =>
        [Commit => reached' = [a \in Atoms |->
           {s \in Scopes : views[s][a] # None /\ views[s][a].outcome # Resolved(s, a)'}]]_vars
  BY <1>1
<1> QED BY <1>2, ViewsInvariant, PTL DEF Spec, RefreshesExactlyChanged

=============================================================================
