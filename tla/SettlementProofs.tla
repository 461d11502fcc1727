-------------------------- MODULE SettlementProofs --------------------------
(***************************************************************************)
(* Proofs about Settlement.                                                *)
(*                                                                         *)
(* The first invariant says what each frame of the stack is, which session *)
(* it may use, and what it waits for.  The sessions are counted by the     *)
(* settle frames that opened them; a selector is evaluated once per        *)
(* session.  The second says what an evaluation has proved about the       *)
(* graph when it skips a search, and that this is enough: no cycle leads   *)
(* through the selectors that are recorded and not in evaluation.          *)
(***************************************************************************)
EXTENDS Settlement, WellFoundedInduction, FiniteSetTheorems, SequenceTheorems, TLAPS

-----------------------------------------------------------------------------
(* Induction and recursion over an initial segment of the naturals, as facts *)
(* about sets and functions: the library's induction theorems take the       *)
(* hypothesis as an operator, which the provers cannot instantiate; here it  *)
(* is the set of the numbers it holds of, and a recursive definition is the  *)
(* function that satisfies its equations.                                    *)

\* Every nonempty set of naturals has a least element.
LEMMA LeastNatural ==
  ASSUME NEW S, S \subseteq Nat, S # {}
  PROVE  \E n \in S : \A m \in S : n <= m
<1> DEFINE R == OpToRel(<, Nat)
<1>1. IsWellFoundedOn(R, Nat)
  BY NatLessThanWellFounded
<1>2. PICK n \in S : \A m \in S : <<m, n>> \notin R
  <2> HIDE DEF R
  <2> QED BY <1>1, WFMin
<1>3. R = {ss \in Nat \X Nat : ss[1] < ss[2]}
  BY DEF OpToRel
<1>4. \A m \in S : ~(m < n)
  <2> HIDE DEF R
  <2> QED BY <1>2, <1>3
<1> QED BY <1>4

\* A set that holds 0 and, with a number, the next one up to n, holds 0..n.
LEMMA IntervalInduction ==
  ASSUME NEW S, NEW n \in Nat, 0 \in S, \A i \in 1..n : i - 1 \in S => i \in S
  PROVE  \A i \in 0..n : i \in S
<1> DEFINE T == (0..n) \ S
<1> SUFFICES ASSUME T # {} PROVE FALSE
  OBVIOUS
<1>1. PICK i \in T : \A j \in T : i <= j
  <2>1. T \subseteq Nat
    OBVIOUS
  <2> HIDE DEF T
  <2> QED BY <2>1, LeastNatural
<1>2. i \in 1..n /\ i - 1 \in 0..n /\ i - 1 \notin T
  BY <1>1
<1> QED BY <1>2

\* F[i] takes the value before step i to the one after it, and g is the run.
StepFunction(F, n, T) == F \in [1..n -> [T -> T]]
Run(g, F, x, n, T) ==
  g \in [0..n -> T] /\ g[0] = x /\ \A i \in 1..n : g[i] = F[i][g[i - 1]]

\* A step function and a first value have a run of any length.
LEMMA Recursion ==
  ASSUME NEW T, NEW x \in T, NEW n \in Nat, NEW F, StepFunction(F, n, T)
  PROVE  \E g : Run(g, F, x, n, T)
<1> DEFINE Runs(m) == {g \in [0..m -> T] : g[0] = x /\ \A i \in 1..m : g[i] = F[i][g[i - 1]]}
           S == {m \in 0..n : Runs(m) # {}}
<1>0. F \in [1..n -> [T -> T]]
  BY DEF StepFunction
<1>1. 0 \in S
  <2>1. [i \in 0..0 |-> x] \in Runs(0)
    OBVIOUS
  <2> QED BY <2>1
<1>2. ASSUME NEW m \in 1..n, m - 1 \in S
      PROVE  m \in S
  <2>1. PICK g \in [0..(m - 1) -> T] :
           g[0] = x /\ \A i \in 1..(m - 1) : g[i] = F[i][g[i - 1]]
    BY <1>2
  <2> DEFINE y == F[m][g[m - 1]]
             h == [i \in 0..m |-> IF i = m THEN y ELSE g[i]]
  <2>2. y \in T
    BY <1>0, <2>1
  <2>3. h \in [0..m -> T]
    <3> HIDE DEF y
    <3> QED BY <2>1, <2>2
  <2>4. h[0] = x
    BY <2>1
  <2>5. \A i \in 1..m : h[i] = F[i][h[i - 1]]
    <3>1. ASSUME NEW i \in 1..m, i # m PROVE h[i] = F[i][h[i - 1]]
      <4>1. i \in 1..(m - 1) /\ i \in 0..m /\ i - 1 \in 0..m /\ i - 1 # m
        BY <3>1
      <4>2. h[i] = g[i] /\ h[i - 1] = g[i - 1]
        BY <3>1, <4>1
      <4> QED BY <2>1, <4>1, <4>2
    <3>2. h[m] = F[m][h[m - 1]]
      <4>1. h[m] = y /\ h[m - 1] = g[m - 1]
        OBVIOUS
      <4> QED BY <4>1
    <3> QED BY <3>1, <3>2
  <2>6. h \in Runs(m)
    <3> HIDE DEF h
    <3> QED BY <2>3, <2>4, <2>5
  <2>7. m \in 0..n
    OBVIOUS
  <2> HIDE DEF Runs
  <2> QED BY <2>6, <2>7
<1>3. \A i \in 0..n : i \in S
  <2> HIDE DEF S
  <2> QED BY <1>1, <1>2, IntervalInduction
<1>4. n \in S
  <2> HIDE DEF S
  <2> QED BY <1>3
<1>5. PICK g \in Runs(n) : TRUE
  <2> HIDE DEF Runs
  <2> QED BY <1>4
<1> QED BY <1>5 DEF Run

\* The equations of a function given by its first value and its steps.
LEMMA Equations ==
  ASSUME NEW n \in Nat, NEW x, NEW b, NEW v,
         v = [i \in 0..n |-> IF i = 0 THEN x ELSE b[i]]
  PROVE  v[0] = x /\ \A i \in 1..n : v[i] = b[i]
<1>1. \A i \in 0..n : v[i] = IF i = 0 THEN x ELSE b[i]
  OBVIOUS
<1>2. 0 \in 0..n /\ \A i \in 1..n : i \in 0..n /\ i # 0
  OBVIOUS
<1> QED BY <1>1, <1>2

\* What holds of the first value and is kept by every step holds of all values.
LEMMA Stays ==
  ASSUME NEW n \in Nat, NEW v, NEW T,
         v[0] \in T, \A i \in 1..n : v[i - 1] \in T => v[i] \in T
  PROVE  \A i \in 0..n : v[i] \in T
<1> DEFINE S == {i \in 0..n : v[i] \in T}
<1>1. 0 \in S
  OBVIOUS
<1>2. \A i \in 1..n : i - 1 \in S => i \in S
  OBVIOUS
<1>3. \A i \in 0..n : i \in S
  <2> HIDE DEF S
  <2> QED BY <1>1, <1>2, IntervalInduction
<1> QED BY <1>3

-----------------------------------------------------------------------------
(* The inductive invariant *)

\* Fields of the two kinds of frames.
EvaluationFields ==
  {"call", "selector", "session", "at", "pending", "deps", "tokens", "reads", "known",
   "baseline", "entry", "proof", "observed", "cycle", "provisional"}
SettleFields ==
  {"call", "selector", "session", "reader", "at", "todo", "currentness", "version",
   "provisional", "entered", "owns"}

\* The values a getter has got, as far as its evaluation has come.
ReadsWF(f) ==
  /\ f.at # "failed" => f.reads \in Seq(Values)
  /\ f.at = "running" => Len(f.reads) <= MaxReads
  /\ f.at \in {"serving", "served"} => Len(f.reads) < MaxReads /\ f.pending # None
  /\ f.at = "serving" => f.pending \in Selectors

EvaluationWF(f) ==
  /\ DOMAIN f = EvaluationFields
  /\ f.selector \in Selectors
  /\ f.session \in Nat \ {0}
  /\ f.at \in {"running", "serving", "served", "failed"}
  /\ f.pending \in Nodes \cup {None}
  /\ f.deps \in Seq(Nodes) /\ IsInjective(f.deps)
  /\ f.tokens \in Seq(Nat \cup {None}) /\ Len(f.tokens) = Len(f.deps)
  /\ ReadsWF(f)
  /\ f.cycle # None => f.cycle \in Seq(Selectors \ {f.selector})

SettleWF(f) ==
  /\ DOMAIN f = SettleFields
  /\ f.selector \in Selectors
  /\ f.session \in Nat /\ f.reader \in Nat
  /\ f.at \in {"entered", "walking", "evaluated"}
  /\ f.todo \in Seq(Selectors)
  /\ f.owns \in BOOLEAN /\ (f.owns => f.at = "evaluated")

FrameWF(f) ==
  /\ f.call \in {"settle", "evaluate"}
  /\ f.call = "evaluate" => EvaluationWF(f)
  /\ f.call = "settle" => SettleWF(f)

\* A settle frame that opened a session; those below position i, and the number of
\* the innermost session there, with `base` of them opened before the first.
Owner(f) == f.call = "settle" /\ f.owns
Owners(stk, i) == {j \in 1..i - 1 : Owner(stk[j])}
Level(stk, i, base) == base + Cardinality(Owners(stk, i))
Base == IF mode = "reading" THEN 1 ELSE 0

\* A frame that evaluates its selector in its session, or is going to.
Claims(f) == IsEvaluation(f) \/ f.at \in {"entered", "walking"}

\* Frames use the sessions opened below them.
Numbered(stk, base) ==
  \A i \in DOMAIN stk :
    /\ stk[i].session <= Level(stk, i, base)
    /\ stk[i].call = "settle" => stk[i].reader <= Level(stk, i, base)

\* No selector is evaluated twice in one session.
Apart(stk) ==
  \A i, j \in DOMAIN stk :
    /\ IsEvaluation(stk[i]) /\ stk[i].session = stk[j].session
    /\ i < j
    /\ Claims(stk[j])
    => stk[i].selector # stk[j].selector

\* What is about to be evaluated for a read is not in evaluation.
Serveable(stk) ==
  \A i, j \in DOMAIN stk :
    /\ IsEvaluation(stk[i]) /\ stk[i].session = stk[j].session
    /\ i <= j
    /\ IsEvaluation(stk[j]) /\ stk[j].at = "serving"
    => stk[i].selector # stk[j].pending

\* What a read is served has a record, or the next frame makes one.
Awaits(stk, recs) ==
  \A i \in DOMAIN stk :
    IsEvaluation(stk[i]) /\ stk[i].at = "served" /\ stk[i].pending \in Selectors =>
      \/ recs[stk[i].pending] # None
      \/ /\ i + 1 \in DOMAIN stk
         /\ IsEvaluation(stk[i + 1])
         /\ stk[i + 1].selector = stk[i].pending

\* The frame f has the token of an earlier outcome of its selector.
HasToken(f) == IsEvaluation(f) /\ f.baseline # None /\ f.baseline.token # None

\* Equal tokens of one selector stand for equal outcomes.
Baselines(stk, recs, next) ==
  /\ \A i \in DOMAIN stk : HasToken(stk[i]) =>
       /\ stk[i].baseline.token \in Nat /\ stk[i].baseline.token < next
       /\ LET s == stk[i].selector IN
          recs[s] # None /\ recs[s].token = stk[i].baseline.token
            => recs[s].out = stk[i].baseline.value
  /\ \A i, j \in DOMAIN stk :
       /\ HasToken(stk[i]) /\ HasToken(stk[j])
       /\ stk[i].selector = stk[j].selector
       /\ stk[i].baseline.token = stk[j].baseline.token
       => stk[i].baseline.value = stk[j].baseline.value

StackOK(stk, base, recs, next) ==
  /\ stk \in Seq(Range(stk))
  /\ \A i \in DOMAIN stk : FrameWF(stk[i])
  /\ Numbered(stk, base)
  /\ Apart(stk)
  /\ Serveable(stk)
  /\ Awaits(stk, recs)
  /\ Baselines(stk, recs, next)

RecordWF(rec, next) ==
  /\ rec \in Records
  /\ rec.token < next
  /\ IsInjective(rec.deps)
  /\ rec.out # Error => rec.success = rec.out

RouteWF(route, s) ==
  /\ DOMAIN route = {"reported", "path"}
  /\ route.reported \in Seq(Selectors \ {s})
  /\ route.path \in Seq(Selectors \ {s}) /\ route.path # <<>>

Statuses == SUBSET {"queued", "walking", "settling", "settled"}

\* The records are what Install makes of evaluations, and the routes cycles.
RecordsOK == \A s \in Selectors : record[s] # None => RecordWF(record[s], nextToken)
RoutesOK == \A s \in Selectors : routes[s] # None => RouteWF(routes[s], s)

DataOK ==
  /\ body \in Programs
  /\ value \in [Atoms -> Values]
  /\ DOMAIN record = Selectors /\ RecordsOK
  /\ DOMAIN routes = Selectors /\ RoutesOK
  /\ dirty \subseteq Selectors
  /\ mode \in {"idle", "reading", "propagating"}
  /\ queue \in Seq(Selectors)
  /\ status \in [Selectors -> Statuses]
  /\ graphVersion \in Nat /\ provisional \in Nat /\ nextToken \in Nat
  /\ reached \subseteq Selectors

SessionsWF ==
  /\ sessions \in Seq(Range(sessions))
  /\ \A i \in DOMAIN sessions :
       /\ sessions[i].outer \in 0..i - 1
       /\ sessions[i].publications \in Nat
       /\ DOMAIN sessions[i] = {"outer", "publications"}

\* Every session open now was opened by the read or by a settle frame.
SessionsCounted == Len(sessions) = Level(stack, Len(stack) + 1, Base)

\* What had an outcome has a record.
BeforeOK == \A s \in Selectors : before[s] # None => record[s] # None

IInv ==
  /\ DataOK
  /\ SessionsWF
  /\ SessionsCounted
  /\ StackOK(stack, Base, record, nextToken)
  /\ BeforeOK /\ ReachesChanged

-----------------------------------------------------------------------------
(* The invariant of the graph *)

\* A graph is given by the selectors each selector leads to.  No cycle goes through a
\* if what a leads to is in a set that the edges do not leave and that a is not in.
Closed(g, S) == \A x \in S : g[x] \subseteq S
OffCycle(g, a) == \E S \in SUBSET Selectors : Closed(g, S) /\ g[a] \subseteq S /\ a \notin S

\* The edges of g that are not in X.
Without(g, X) == [s \in Selectors |-> {d \in g[s] : <<s, d>> \notin X}]

\* What matters of an evaluation to the graph, and the evaluations of a stack by their
\* positions in it.
View(f) ==
  [selector |-> f.selector, session |-> f.session, deps |-> f.deps, known |-> f.known,
   entry |-> f.entry, proof |-> f.proof, observed |-> f.observed]
Evaluations(stk) == {i \in DOMAIN stk : IsEvaluation(stk[i])}
Evaluated(stk) == [i \in Evaluations(stk) |-> View(stk[i])]

\* The selectors it has read and those it read the last time, as long as the record
\* from then stands; the edges published since its last proof.
ReadBy(v) == Range(v.deps) \cap Selectors
KnownTo(v) == IF v.known = None THEN {} ELSE Range(v.known) \cap Selectors
Marks(v) == IF v.observed = None THEN {} ELSE v.observed

\* Its session published all that was published since `since`, at version gv of the
\* graph with P[id] publications of session id.
Alone(v, since, gv, P) == gv - since[1] = P[v.session] - since[2]

\* The reads the evaluation at h answers for: its own and, while the record stands that
\* it started from, those of the last time if it is the innermost.
Reading(fl, gv, h) ==
  ReadBy(fl[h]) \cup
    {d \in KnownTo(fl[h]) : gv = fl[h].entry[1] /\ \A i \in DOMAIN fl : i <= h}

\* Frames of s below j, and those of the session of j from j on.
Below(fl, j, s) == \E i \in DOMAIN fl : i < j /\ fl[i].selector = s
Again(fl, j, s) ==
  {h \in DOMAIN fl : j <= h /\ fl[h].selector = s /\ fl[h].session = fl[j].session}

\* The graph as the evaluation at j has to answer for it: what is evaluated below j is
\* answered for there, its own session counts as far as it has read, and other sessions
\* by what they have recorded.
Seen(fl, G, gv, j) ==
  [s \in Selectors |->
     {d \in Selectors :
        /\ ~Below(fl, j, s)
        /\ \/ Again(fl, j, s) = {} /\ d \in G[s]
           \/ \E h \in Again(fl, j, s) : d \in Reading(fl, gv, h)}]

\* Without the edges that other sessions published since its last proof.
Suspect(v, gv, P) == {e \in Marks(v) : ~Alone(v, v.proof, gv, P)}
Trusted(fl, G, gv, P, j) == Without(Seen(fl, G, gv, j), Suspect(fl[j], gv, P))

\* The records of the selectors that are not in evaluation.
Resting(fl, G) ==
  [s \in Selectors |-> {d \in G[s] : \A i \in DOMAIN fl : fl[i].selector # s}]

FramesOK(fl) ==
  /\ DOMAIN fl \subseteq Nat
  /\ \A j \in DOMAIN fl :
       /\ fl[j].selector \in Selectors
       /\ fl[j].session \in Nat \ {0}
       /\ fl[j].observed = None \/ fl[j].observed \in SUBSET (Selectors \X Selectors)
  /\ \A i, j \in DOMAIN fl : i < j => fl[i].session <= fl[j].session
  /\ \A i, j \in DOMAIN fl :
       fl[i].session = fl[j].session /\ fl[i].selector = fl[j].selector => i = j

\* Versions only grow, and no session publishes what the graph does not count.
VersionOK(v, gv, P) ==
  /\ P[v.session] \in Nat
  /\ v.entry[1] \in Nat /\ v.entry[2] \in Nat
  /\ v.proof[1] \in Nat /\ v.proof[2] \in Nat
  /\ v.entry[1] <= v.proof[1] /\ v.proof[1] <= gv
  /\ v.proof[2] <= P[v.session]
  /\ P[v.session] - v.proof[2] <= gv - v.proof[1]
  /\ P[v.session] - v.entry[2] <= gv - v.entry[1]
VersionsOK(fl, gv, P) == gv \in Nat /\ \A j \in DOMAIN fl : VersionOK(fl[j], gv, P)

\* The selectors that edges lead to have records (`has`); a selector without one, as
\* far as its evaluation knows, has none unless another session published.
KnownOK(fl, G, has, gv, P) ==
  /\ \A s \in Selectors : G[s] \in SUBSET (Selectors \cap has)
  /\ \A j \in DOMAIN fl :
       /\ ReadBy(fl[j]) \subseteq has /\ KnownTo(fl[j]) \subseteq has
       /\ fl[j].observed = None => ReadBy(fl[j]) = {}
       /\ fl[j].known = None /\ Alone(fl[j], fl[j].entry, gv, P) => fl[j].selector \notin has

\* No cycle leads through a lowest evaluation of a selector, and none through the rest.
ProvenOK(fl, G, gv, P) ==
  \A j \in DOMAIN fl :
    ~Below(fl, j, fl[j].selector) => OffCycle(Trusted(fl, G, gv, P, j), fl[j].selector)
RestingOK(fl, G) == \A a \in Selectors : OffCycle(Resting(fl, G), a)

GraphOK(fl, G, has, gv, P) ==
  /\ FramesOK(fl)
  /\ VersionsOK(fl, gv, P)
  /\ KnownOK(fl, G, has, gv, P)
  /\ ProvenOK(fl, G, gv, P)
  /\ RestingOK(fl, G)

\* What the records and the sessions are to the graph.
Graph(recs) == [s \in Selectors |-> Range(Deps(recs, s)) \cap Selectors]
HasRecord(recs) == {s \in Selectors : recs[s] # None}
Published(ses) == [id \in Nat |-> ses[id].publications]

\* Every session is opened inside the one before it.
Nested(ses) == \A i \in DOMAIN ses : ses[i].outer = i - 1

\* A frame at level l: it belongs to the innermost session there, but for the walks of
\* propagations, which are in none.
Situated(f, l) == IF IsEvaluation(f) THEN f.session = l ELSE f.reader = l /\ f.session \in {0, l}

Placed(stk, base) == \A i \in DOMAIN stk : Situated(stk[i], Level(stk, i, base))

\* An evaluation that runs, or has failed and is about to be installed, is the innermost
\* call, and has nothing to look at.
Active(f) == f.at \in {"running", "failed"}
Prepared(stk, gv, P) ==
  \A i \in Evaluations(stk) :
    /\ stk[i].known = None \/ stk[i].known \in Seq(Nodes)
    /\ Active(stk[i]) => i = Len(stk) /\ Suspect(View(stk[i]), gv, P) = {}

Stands(stk, base, G, has, gv, P) ==
  /\ Placed(stk, base)
  /\ Prepared(stk, gv, P)
  /\ GraphOK(Evaluated(stk), G, has, gv, P)

Stacked(stk) == stk \in Seq(Range(stk)) /\ \A i \in DOMAIN stk : FrameWF(stk[i])

\* The stack is prepared for the records and the sessions there are.
Steady(stk) ==
  Stands(stk, Base, Graph(record), HasRecord(record), graphVersion, Published(sessions))

GraphInv ==
  /\ mode = "idle" => stack = <<>>
  /\ Nested(sessions)
  /\ Steady(stack)

-----------------------------------------------------------------------------
(* Paths *)

\* The walks from a to b, of any length.
Walks(edges, a, b) ==
  {p \in Seq(Selectors) :
     /\ p # <<>> /\ p[1] = a /\ p[Len(p)] = b
     /\ \A i \in 1..Len(p) - 1 : <<p[i], p[i + 1]>> \in edges}

\* v[n] holds what at most n edges reach from a.
Spreads(v, edges, a) ==
  /\ v[0] = {a}
  /\ \A n \in 1..Cardinality(Selectors) :
       v[n] = v[n - 1] \cup {b \in Selectors : \E c \in v[n - 1] : <<c, b>> \in edges}

\* ReachableFrom spreads over the edges, as often as there are selectors.
LEMMA ReachableSteps ==
  ASSUME NEW edges, NEW a \in Selectors
  PROVE  \E v : Spreads(v, edges, a) /\ ReachableFrom(edges, a) = v[Cardinality(Selectors)]
<1> DEFINE N == Cardinality(Selectors)
           T == SUBSET Selectors
           More(w) == w \cup {b \in Selectors : \E c \in w : <<c, b>> \in edges}
           F == [n \in 1..N |-> [w \in T |-> More(w)]]
<1>1. N \in Nat
  BY NodesAssumption, FS_CardinalityType
<1>2. {a} \in T /\ \A w \in T : More(w) \in T
  OBVIOUS
<1>3. StepFunction(F, N, T)
  <2> HIDE DEF N
  <2>1. F \in [1..N -> [T -> T]]
    BY <1>2
  <2> QED BY <2>1 DEF StepFunction
<1> HIDE DEF N, T
<1>4. PICK g : Run(g, F, {a}, N, T)
  <2> HIDE DEF F
  <2> QED BY <1>1, <1>2, <1>3, Recursion
<1>5. \A n \in 1..N : g[n] = More(g[n - 1])
  <2>1. \A n \in 1..N : n - 1 \in 0..N
    BY <1>1
  <2> QED BY <1>4, <2>1 DEF Run
<1>6. g = [n \in 0..N |-> IF n = 0 THEN {a} ELSE More(g[n - 1])]
  <2>1. g \in [0..N -> T] /\ g[0] = {a}
    BY <1>4 DEF Run
  <2>2. \A n \in 0..N : n # 0 => n \in 1..N
    BY <1>1
  <2> HIDE DEF More
  <2> QED BY <1>5, <2>1, <2>2
<1>7. PICK v : /\ v = [n \in 0..N |-> IF n = 0 THEN {a} ELSE More(v[n - 1])]
               /\ ReachableFrom(edges, a) = v[N]
  BY <1>6, Zenon DEF N, ReachableFrom
<1>8. v[0] = {a} /\ \A n \in 1..N : v[n] = More(v[n - 1])
  <2> DEFINE w == [n \in 1..N |-> More(v[n - 1])]
  <2>1. v = [n \in 0..N |-> IF n = 0 THEN {a} ELSE w[n]]
    <3>0. \A n \in 0..N : n # 0 => n \in 1..N
      BY <1>1
    <3>1. \A n \in 0..N : n # 0 => w[n] = More(v[n - 1])
      <4> HIDE DEF More
      <4> QED BY <3>0
    <3> HIDE DEF w, More
    <3> QED BY <1>7, <3>1
  <2>2. \A n \in 1..N : w[n] = More(v[n - 1])
    OBVIOUS
  <2> HIDE DEF w
  <2>3. v[0] = {a} /\ \A n \in 1..N : v[n] = w[n]
    BY <1>1, <2>1, Equations
  <2> QED BY <2>2, <2>3
<1> QED BY <1>7, <1>8 DEF Spreads, N

\* What is reachable has a walk to it.
LEMMA ReachableWalk ==
  ASSUME NEW edges, NEW a \in Selectors, NEW b \in ReachableFrom(edges, a)
  PROVE  b \in Selectors /\ Walks(edges, a, b) # {}
<1> DEFINE N == Cardinality(Selectors)
           R == {c \in Selectors : Walks(edges, a, c) # {}}
<1>1. N \in Nat
  BY NodesAssumption, FS_CardinalityType
<1>2. PICK v : Spreads(v, edges, a) /\ ReachableFrom(edges, a) = v[N]
  BY ReachableSteps
<1>3. a \in R
  <2>1. <<a>> \in Walks(edges, a, a)
    BY DEF Walks
  <2> QED BY <2>1
<1>4. ASSUME NEW c \in R, NEW d \in Selectors, <<c, d>> \in edges
      PROVE  d \in R
  <2>1. PICK p \in Walks(edges, a, c) : TRUE
    OBVIOUS
  <2>2. /\ p \in Seq(Selectors) /\ p # <<>> /\ p[1] = a /\ p[Len(p)] = c
        /\ \A i \in 1..Len(p) - 1 : <<p[i], p[i + 1]>> \in edges
    BY <2>1 DEF Walks
  <2> DEFINE w == Append(p, d)
  <2>3. /\ w \in Seq(Selectors) /\ w # <<>> /\ Len(w) = Len(p) + 1 /\ Len(p) \in Nat \ {0}
        /\ w[Len(p) + 1] = d /\ \A i \in 1..Len(p) : w[i] = p[i]
    BY <2>2
  <2> HIDE DEF w
  <2>4. ASSUME NEW i \in 1..Len(w) - 1 PROVE <<w[i], w[i + 1]>> \in edges
    <3>1. CASE i = Len(p)
      <4>1. w[i] = c /\ w[i + 1] = d
        BY <2>2, <2>3, <3>1
      <4> QED BY <1>4, <4>1
    <3>2. CASE i # Len(p)
      <4>1. i \in 1..Len(p) - 1 /\ w[i] = p[i] /\ w[i + 1] = p[i + 1]
        BY <2>3, <3>2
      <4> QED BY <2>2, <4>1
    <3> QED BY <3>1, <3>2
  <2>5. w[1] = a /\ w[Len(w)] = d
    <3>1. 1 \in 1..Len(p)
      BY <2>3
    <3> QED BY <2>2, <2>3, <3>1
  <2>6. w \in Walks(edges, a, d)
    BY <2>3, <2>4, <2>5 DEF Walks
  <2> QED BY <2>6
<1> HIDE DEF R, N
<1>5. v[0] \in SUBSET R
  BY <1>2, <1>3 DEF Spreads
<1>6. \A n \in 1..N : v[n - 1] \in SUBSET R => v[n] \in SUBSET R
  BY <1>2, <1>4 DEF Spreads, N
<1>7. \A n \in 0..N : v[n] \in SUBSET R
  BY <1>1, <1>5, <1>6, Stays
<1>8. b \in R
  BY <1>1, <1>2, <1>7
<1> QED BY <1>8 DEF R

\* If there is a walk, there is a shortest one.
LEMMA ShortestWalk ==
  ASSUME NEW edges, NEW a, NEW b, Walks(edges, a, b) # {}
  PROVE  \E p \in Walks(edges, a, b) : \A w \in Walks(edges, a, b) : Len(p) <= Len(w)
<1> DEFINE L == {n \in Nat : \E p \in Walks(edges, a, b) : n = Len(p)}
<1>1. \A p \in Walks(edges, a, b) : Len(p) \in L
  BY DEF Walks
<1>2. L \subseteq Nat /\ L # {}
  BY <1>1
<1>3. PICK n \in L : \A m \in L : n <= m
  <2> HIDE DEF L
  <2> QED BY <1>2, LeastNatural
<1>4. PICK p \in Walks(edges, a, b) : n = Len(p)
  BY <1>3
<1> QED BY <1>1, <1>3, <1>4

\* A shortest walk comes to no selector twice.
LEMMA ShortestInjective ==
  ASSUME NEW edges, NEW a, NEW b, NEW p \in Walks(edges, a, b),
         \A w \in Walks(edges, a, b) : Len(p) <= Len(w)
  PROVE  IsInjective(p)
<1>1. /\ p \in Seq(Selectors) /\ p # <<>> /\ p[1] = a /\ p[Len(p)] = b
      /\ \A i \in 1..Len(p) - 1 : <<p[i], p[i + 1]>> \in edges
  BY DEF Walks
<1>2. Len(p) \in Nat \ {0} /\ DOMAIN p = 1..Len(p) /\ \A i \in 1..Len(p) : p[i] \in Selectors
  BY <1>1
<1>3. ASSUME NEW i \in 1..Len(p), NEW j \in 1..Len(p), p[i] = p[j], i < j
      PROVE  FALSE
  <2> DEFINE n == Len(p) - (j - i)
             w == [k \in 1..n |-> IF k <= i THEN p[k] ELSE p[k + (j - i)]]
  <2>1. n \in Nat \ {0} /\ n < Len(p) /\ i <= n
    BY <1>2, <1>3
  <2>2. \A k \in 1..n : w[k] = IF k <= i THEN p[k] ELSE p[k + (j - i)]
    OBVIOUS
  <2>3. w \in Seq(Selectors) /\ Len(w) = n
    <3>1. \A k \in 1..n : (IF k <= i THEN p[k] ELSE p[k + (j - i)]) \in Selectors
      BY <1>2, <1>3
    <3>2. w \in [1..n -> Selectors]
      BY <3>1
    <3> HIDE DEF w, n
    <3> QED BY <2>1, <3>2
  <2> HIDE DEF w, n
  <2>4. w[1] = a
    BY <1>1, <1>2, <1>3, <2>1, <2>2
  <2>5. w[n] = b
    <3>1. CASE n <= i
      BY <1>1, <1>2, <1>3, <2>1, <2>2, <3>1 DEF n
    <3>2. CASE n > i
      BY <1>1, <1>2, <1>3, <2>1, <2>2, <3>2 DEF n
    <3> QED BY <2>1, <3>1, <3>2
  <2>6. ASSUME NEW k \in 1..n - 1 PROVE <<w[k], w[k + 1]>> \in edges
    <3>1. k \in 1..n /\ k + 1 \in 1..n /\ k \in 1..Len(p) - 1
      BY <2>1
    <3>2. CASE k < i
      <4>1. w[k] = p[k] /\ w[k + 1] = p[k + 1]
        BY <2>2, <3>1, <3>2
      <4> QED BY <1>1, <3>1, <4>1
    <3>3. CASE k = i
      <4>1. w[k] = p[j] /\ w[k + 1] = p[j + 1]
        <5>1. (k + 1) + (j - i) = j + 1 /\ ~(k + 1 <= i)
          BY <1>3, <3>3
        <5> QED BY <1>3, <2>2, <3>1, <3>3, <5>1
      <4>2. j \in 1..Len(p) - 1
        BY <1>2, <1>3, <3>1, <3>3 DEF n
      <4> QED BY <1>1, <4>1, <4>2
    <3>4. CASE k > i
      <4>1. w[k] = p[k + (j - i)] /\ w[k + 1] = p[(k + 1) + (j - i)]
        BY <2>2, <3>1, <3>4
      <4>2. k + (j - i) \in 1..Len(p) - 1 /\ (k + 1) + (j - i) = (k + (j - i)) + 1
        BY <1>2, <1>3, <3>1 DEF n
      <4> QED BY <1>1, <4>1, <4>2
    <3> QED BY <1>3, <3>1, <3>2, <3>3, <3>4
  <2>7. w # <<>>
    BY <2>1, <2>3
  <2>8. w \in Walks(edges, a, b)
    BY <2>3, <2>4, <2>5, <2>6, <2>7 DEF Walks
  <2> QED BY <1>2, <2>1, <2>3, <2>8
<1>4. \A i, j \in 1..Len(p) : p[i] = p[j] => i = j
  BY <1>2, <1>3
<1> QED BY <1>2, <1>4 DEF IsInjective

\* What PathOf finds for a reachable selector leads there without passing it.
LEMMA PathOfOK ==
  ASSUME NEW edges, NEW a \in Selectors, NEW b \in ReachableFrom(edges, a)
  PROVE  /\ PathOf(edges, a, b) \in Walks(edges, a, b)
         /\ \A w \in Walks(edges, a, b) : Len(PathOf(edges, a, b)) <= Len(w)
<1> DEFINE N == Cardinality(Selectors)
<1>1. N \in Nat
  BY NodesAssumption, FS_CardinalityType
<1>2. PICK p \in Walks(edges, a, b) : \A w \in Walks(edges, a, b) : Len(p) <= Len(w)
  BY ReachableWalk, ShortestWalk
<1>3. IsInjective(p)
  BY <1>2, ShortestInjective
<1>4. p \in Seq(Selectors) /\ DOMAIN p = 1..Len(p) /\ Len(p) \in Nat
  BY <1>2 DEF Walks
<1>5. Len(p) <= N
  <2>1. p \in [1..Len(p) -> Selectors]
    BY <1>4
  <2>2. p \in Injection(1..Len(p), Selectors)
    BY <1>3, <2>1 DEF Injection, IsInjective
  <2>3. Cardinality(1..Len(p)) <= N
    BY <2>2, NodesAssumption, FS_Injection
  <2>4. Cardinality(1..Len(p)) = Len(p)
    BY <1>4, FS_Interval
  <2> QED BY <2>3, <2>4
<1>6. \A w \in Paths(edges, a, b) : w \in Walks(edges, a, b)
  <2>1. ASSUME NEW w \in Paths(edges, a, b) PROVE w \in Walks(edges, a, b)
    <3>1. PICK m \in 0..N : w \in [1..m -> Selectors]
      BY DEF Paths, SeqOf
    <3>2. w \in Seq(Selectors)
      BY <1>1, <3>1
    <3>3. w # <<>> /\ Head(w) = a /\ Last(w) = b
          /\ \A i \in 1..Len(w) - 1 : <<w[i], w[i + 1]>> \in edges
      BY DEF Paths
    <3>4. w[1] = a
      BY <3>2, <3>3
    <3> QED BY <3>2, <3>3, <3>4 DEF Walks, Last
  <2> QED BY <2>1
<1>7. p \in Paths(edges, a, b)
  <2>1. Len(p) \in 0..N /\ p \in [1..Len(p) -> Selectors]
    BY <1>1, <1>4, <1>5
  <2>2. p \in SeqOf(Selectors, N)
    BY <2>1 DEF SeqOf
  <2>3. p # <<>> /\ p[1] = a /\ p[Len(p)] = b
        /\ \A i \in 1..Len(p) - 1 : <<p[i], p[i + 1]>> \in edges
    BY <1>2 DEF Walks
  <2>4. Head(p) = a
    BY <1>4, <2>3
  <2> QED BY <2>2, <2>3, <2>4 DEF Paths, Last
<1> DEFINE z == PathOf(edges, a, b)
<1>8. z \in Paths(edges, a, b) /\ \A w \in Paths(edges, a, b) : Len(z) <= Len(w)
  BY <1>2, <1>6, <1>7, Zenon DEF PathOf
<1>9. z \in Walks(edges, a, b)
  BY <1>6, <1>8
<1>10. Len(z) \in Nat /\ Len(z) <= Len(p)
  BY <1>7, <1>8, <1>9 DEF Walks
<1>11. \A w \in Walks(edges, a, b) : Len(w) \in Nat /\ Len(p) <= Len(w)
  BY <1>2 DEF Walks
<1> HIDE DEF z
<1>12. \A w \in Walks(edges, a, b) : Len(z) <= Len(w)
  BY <1>4, <1>10, <1>11
<1> QED BY <1>9, <1>12 DEF z

\* The path without its end: it starts at a and does not come to b.
LEMMA FrontOfPath ==
  ASSUME NEW edges, NEW a \in Selectors, NEW b \in ReachableFrom(edges, a)
  PROVE  /\ Front(PathOf(edges, a, b)) \in Seq(Selectors \ {b})
         /\ a # b => Front(PathOf(edges, a, b)) # <<>>
<1> DEFINE p == PathOf(edges, a, b)
<1>1. p \in Walks(edges, a, b) /\ \A w \in Walks(edges, a, b) : Len(p) <= Len(w)
  BY PathOfOK
<1>2. IsInjective(p)
  <2> HIDE DEF p
  <2> QED BY <1>1, ShortestInjective
<1> HIDE DEF p
<1>3. p \in Seq(Selectors) /\ p # <<>> /\ p[1] = a /\ p[Len(p)] = b
  BY <1>1 DEF Walks
<1>4. Len(p) \in Nat \ {0} /\ DOMAIN p = 1..Len(p)
  BY <1>3
<1>5. \A i \in 1..Len(p) - 1 : p[i] \in Selectors \ {b}
  <2> TAKE i \in 1..Len(p) - 1
  <2> DEFINE n == Len(p)
  <2>1. n \in Nat \ {0} /\ i \in 1..n - 1
    BY <1>4
  <2>2. i \in 1..n /\ n \in 1..n /\ i # n
    <3> HIDE DEF n
    <3> QED BY <2>1
  <2>3. p[i] \in Selectors
    BY <1>3, <2>2
  <2>4. p[i] # p[n]
    BY <1>2, <1>4, <2>2 DEF IsInjective
  <2> QED BY <1>3, <2>3, <2>4
<1>6. Front(p) \in Seq(Selectors \ {b})
  BY <1>4, <1>5, SubSeqProperties DEF Front
<1>7. Len(Front(p)) = Len(p) - 1
  BY <1>4, <1>5, SubSeqProperties DEF Front
<1>8. a # b => Front(p) # <<>>
  BY <1>3, <1>4, <1>7
<1> QED BY <1>6, <1>8 DEF p

-----------------------------------------------------------------------------
(* Stacks *)

\* Pushing, replacing the last frame and popping, as facts about positions.
LEMMA PushSeq ==
  ASSUME NEW stk, stk \in Seq(Range(stk)), NEW f
  PROVE  LET more == Append(stk, f) IN
         /\ more \in Seq(Range(more))
         /\ Len(stk) \in Nat /\ Len(more) = Len(stk) + 1 /\ more # <<>>
         /\ DOMAIN stk = 1..Len(stk) /\ DOMAIN more = 1..(Len(stk) + 1)
         /\ \A i \in DOMAIN stk : more[i] = stk[i]
         /\ more[Len(stk) + 1] = f
<1> DEFINE S == Range(stk) \cup {f}
           more == Append(stk, f)
<1>1. stk \in Seq(S) /\ f \in S
  BY SeqMonotonic
<1> HIDE DEF S
<1>2. /\ more \in Seq(S) /\ Len(stk) \in Nat /\ Len(more) = Len(stk) + 1 /\ more # <<>>
      /\ DOMAIN stk = 1..Len(stk) /\ DOMAIN more = 1..(Len(stk) + 1)
      /\ \A i \in DOMAIN stk : more[i] = stk[i]
      /\ more[Len(stk) + 1] = f
  BY <1>1
<1> HIDE DEF more
<1>3. more \in Seq(Range(more))
  BY <1>2, SeqOfRange
<1> QED BY <1>2, <1>3 DEF more

LEMMA ReplaceSeq ==
  ASSUME NEW stk, stk \in Seq(Range(stk)), stk # <<>>, NEW f
  PROVE  LET next == [stk EXCEPT ![Len(stk)] = f] IN
         /\ next \in Seq(Range(next))
         /\ Len(stk) \in Nat \ {0} /\ Len(next) = Len(stk) /\ next # <<>>
         /\ DOMAIN stk = 1..Len(stk) /\ DOMAIN next = 1..Len(stk)
         /\ \A i \in DOMAIN stk : i # Len(stk) => next[i] = stk[i]
         /\ next[Len(stk)] = f
<1> DEFINE S == Range(stk) \cup {f}
           next == [stk EXCEPT ![Len(stk)] = f]
<1>1. stk \in Seq(S) /\ f \in S
  BY SeqMonotonic
<1> HIDE DEF S
<1>2. /\ next \in Seq(S) /\ Len(stk) \in Nat \ {0} /\ Len(next) = Len(stk) /\ next # <<>>
      /\ DOMAIN stk = 1..Len(stk) /\ DOMAIN next = 1..Len(stk)
      /\ \A i \in DOMAIN stk : i # Len(stk) => next[i] = stk[i]
      /\ next[Len(stk)] = f
  BY <1>1
<1> HIDE DEF next
<1>3. next \in Seq(Range(next))
  BY <1>2, SeqOfRange
<1> QED BY <1>2, <1>3 DEF next

LEMMA PopSeq ==
  ASSUME NEW stk, stk \in Seq(Range(stk)), stk # <<>>
  PROVE  LET rest == Front(stk) IN
         /\ rest \in Seq(Range(rest))
         /\ Len(stk) \in Nat \ {0} /\ Len(rest) = Len(stk) - 1
         /\ DOMAIN stk = 1..Len(stk) /\ DOMAIN rest = 1..(Len(stk) - 1)
         /\ \A i \in DOMAIN rest : i \in DOMAIN stk /\ rest[i] = stk[i]
         /\ rest # <<>> => Len(stk) - 1 \in DOMAIN rest
<1> DEFINE S == Range(stk)
           n == Len(stk) - 1
           rest == Front(stk)
<1>1. Len(stk) \in Nat \ {0} /\ DOMAIN stk = 1..Len(stk) /\ \A i \in DOMAIN stk : stk[i] \in S
  BY DEF Range
<1>2. n \in Nat /\ \A i \in 1..n : i \in DOMAIN stk /\ stk[i] \in S
  BY <1>1
<1> HIDE DEF S
<1>3. rest \in Seq(S)
  BY <1>1, <1>2, SubSeqProperties DEF Front
<1>4. Len(rest) = n
  BY <1>1, <1>2, SubSeqProperties DEF Front
<1>5. \A i \in 1..n : rest[i] = stk[i]
  <2>1. \A i \in 1..n - 1 + 1 : rest[i] = stk[1 + i - 1]
    BY <1>1, <1>2, SubSeqProperties DEF Front
  <2> QED BY <1>2, <2>1
<1> HIDE DEF rest
<1>6. rest \in Seq(Range(rest))
  BY <1>3, SeqOfRange
<1>7. DOMAIN rest = 1..n
  BY <1>3, <1>4
<1>8. rest # <<>> => n \in 1..n
  BY <1>2, <1>3, <1>4
<1> QED BY <1>1, <1>2, <1>4, <1>5, <1>6, <1>7, <1>8 DEF rest

\* Levels are numbers and only grow; they count the owners below.
LEMMA LevelNat ==
  ASSUME NEW stk, NEW i \in Nat, NEW base \in Nat
  PROVE  IsFiniteSet(Owners(stk, i)) /\ Level(stk, i, base) \in Nat
<1>1. IsFiniteSet(1..i - 1)
  BY FS_Interval
<1>2. Owners(stk, i) \in SUBSET (1..i - 1)
  BY DEF Owners
<1>3. IsFiniteSet(Owners(stk, i))
  BY <1>1, <1>2, FS_Subset
<1>4. Cardinality(Owners(stk, i)) \in Nat
  BY <1>3, FS_CardinalityType
<1> QED BY <1>3, <1>4 DEF Level

LEMMA LevelGrows ==
  ASSUME NEW stk, NEW i \in Nat, NEW k \in Nat, i <= k, NEW base \in Nat
  PROVE  Level(stk, i, base) <= Level(stk, k, base)
<1>1. Owners(stk, i) \in SUBSET Owners(stk, k)
  BY DEF Owners
<1>2. IsFiniteSet(Owners(stk, i)) /\ IsFiniteSet(Owners(stk, k))
  BY LevelNat
<1>3. Cardinality(Owners(stk, i)) <= Cardinality(Owners(stk, k))
  BY <1>1, <1>2, FS_Subset
<1>4. Cardinality(Owners(stk, i)) \in Nat /\ Cardinality(Owners(stk, k)) \in Nat
  BY <1>2, FS_CardinalityType
<1> QED BY <1>3, <1>4 DEF Level

LEMMA LevelStep ==
  ASSUME NEW stk, NEW i \in Nat \ {0}, NEW base \in Nat
  PROVE  /\ Owner(stk[i]) => Level(stk, i + 1, base) = Level(stk, i, base) + 1
         /\ ~Owner(stk[i]) => Level(stk, i + 1, base) = Level(stk, i, base)
<1>1. IsFiniteSet(Owners(stk, i))
  BY LevelNat
<1>2. Cardinality(Owners(stk, i)) \in Nat
  BY <1>1, FS_CardinalityType
<1>3. i \notin Owners(stk, i)
  BY DEF Owners
<1>4. \A j : j \in 1..i <=> j \in 1..i - 1 \/ j = i
  OBVIOUS
<1>5. i + 1 - 1 = i
  OBVIOUS
<1>6. ASSUME Owner(stk[i])
      PROVE  Level(stk, i + 1, base) = Level(stk, i, base) + 1
  <2>1. Owners(stk, i + 1) = Owners(stk, i) \cup {i}
    BY <1>4, <1>5, <1>6 DEF Owners
  <2>2. Cardinality(Owners(stk, i) \cup {i}) = Cardinality(Owners(stk, i)) + 1
    BY <1>1, <1>3, FS_AddElement
  <2> QED BY <1>2, <2>1, <2>2 DEF Level
<1>7. ASSUME ~Owner(stk[i])
      PROVE  Level(stk, i + 1, base) = Level(stk, i, base)
  <2>1. Owners(stk, i + 1) = Owners(stk, i)
    BY <1>4, <1>5, <1>7 DEF Owners
  <2> QED BY <2>1 DEF Level
<1> QED BY <1>6, <1>7

LEMMA LevelSame ==
  ASSUME NEW stk, NEW more, NEW i, \A j \in 1..i - 1 : Owner(stk[j]) <=> Owner(more[j]), NEW base
  PROVE  Level(stk, i, base) = Level(more, i, base)
<1>1. Owners(stk, i) = Owners(more, i)
  BY DEF Owners
<1> QED BY <1>1 DEF Level

LEMMA LevelPrefix ==
  ASSUME NEW stk, NEW more, NEW i \in Nat, \A j \in 1..i - 1 : stk[j] = more[j], NEW base
  PROVE  Level(stk, i, base) = Level(more, i, base)
<1>1. Owners(stk, i) = Owners(more, i)
  BY DEF Owners
<1> QED BY <1>1 DEF Level

\* Nothing is opened on an empty stack.
LEMMA LevelEmpty ==
  ASSUME NEW base \in Nat
  PROVE  Level(<<>>, 1, base) = base
<1>1. Owners(<<>>, 1) = {}
  BY DEF Owners
<1> QED BY <1>1, FS_EmptySet DEF Level

\* Frame g is frame f a step later: it may have moved on, not changed its place.
Kept(f, g) ==
  /\ g.call = f.call /\ g.selector = f.selector /\ g.session = f.session
  /\ f.call = "settle" => g.reader = f.reader
  /\ f.call = "evaluate" => g.baseline = f.baseline
  /\ Claims(g) => Claims(f)

\* It has not even moved on.
Quiet(f, g) == f.call = "evaluate" => g.at = f.at /\ g.pending = f.pending

\* `more` is `stk` with some frames moved on.
Moved(stk, more) ==
  /\ more \in Seq(Range(more))
  /\ Len(more) = Len(stk)
  /\ \A i \in DOMAIN stk : FrameWF(more[i]) /\ Kept(stk[i], more[i])
  /\ \A i \in DOMAIN stk : i # Len(stk) => (Owner(more[i]) <=> Owner(stk[i]))

\* Frames that move on keep their numbers, selectors and baselines.
LEMMA MovedOK ==
  ASSUME NEW base, NEW recs, NEW next, NEW stk, StackOK(stk, base, recs, next),
         NEW more, Moved(stk, more), Serveable(more), Awaits(more, recs)
  PROVE  StackOK(more, base, recs, next)
<1>1. stk \in Seq(Range(stk)) /\ Len(stk) \in Nat
  BY DEF StackOK
<1>2. DOMAIN stk = 1..Len(stk) /\ DOMAIN more = 1..Len(stk)
  BY <1>1 DEF Moved
<1>3. \A i \in DOMAIN stk : FrameWF(more[i]) /\ Kept(stk[i], more[i])
  BY DEF Moved
<1>4. Numbered(more, base)
  <2> SUFFICES ASSUME NEW i \in DOMAIN more
               PROVE  /\ more[i].session <= Level(more, i, base)
                      /\ more[i].call = "settle" => more[i].reader <= Level(more, i, base)
    BY DEF Numbered
  <2>1. i \in DOMAIN stk /\ i \in 1..Len(stk)
    BY <1>2
  <2>2. \A j \in 1..i - 1 : Owner(stk[j]) <=> Owner(more[j])
    <3>1. ASSUME NEW n \in Nat, NEW k \in 1..n, NEW j \in 1..k - 1
          PROVE  j \in 1..n /\ j # n
      BY <3>1
    <3>2. \A j \in 1..i - 1 : j \in DOMAIN stk /\ j # Len(stk)
      BY <1>1, <1>2, <2>1, <3>1
    <3> QED BY <3>2 DEF Moved
  <2>3. Level(stk, i, base) = Level(more, i, base)
    BY <2>2, LevelSame
  <2>4. stk[i].session <= Level(stk, i, base)
        /\ (stk[i].call = "settle" => stk[i].reader <= Level(stk, i, base))
    BY <2>1 DEF StackOK, Numbered
  <2> QED BY <1>3, <2>1, <2>3, <2>4 DEF Kept
<1>5. Apart(more)
  <2>1. \A i \in DOMAIN stk : /\ IsEvaluation(more[i]) => IsEvaluation(stk[i])
                              /\ more[i].selector = stk[i].selector
                              /\ more[i].session = stk[i].session
                              /\ Claims(more[i]) => Claims(stk[i])
    BY <1>3 DEF Kept, IsEvaluation
  <2>2. Apart(stk)
    BY DEF StackOK
  <2> QED BY <1>2, <2>1, <2>2 DEF Apart
<1>6. Baselines(more, recs, next)
  <2>1. \A i \in DOMAIN stk : HasToken(more[i]) =>
          /\ HasToken(stk[i])
          /\ more[i].baseline = stk[i].baseline
          /\ more[i].selector = stk[i].selector
    BY <1>3 DEF Kept, IsEvaluation, HasToken
  <2>2. Baselines(stk, recs, next)
    BY DEF StackOK
  <2> QED BY <1>2, <2>1, <2>2 DEF Baselines
<1>7. more \in Seq(Range(more))
  BY DEF Moved
<1>8. \A i \in DOMAIN more : FrameWF(more[i])
  BY <1>2, <1>3
<1> QED BY <1>4, <1>5, <1>6, <1>7, <1>8 DEF StackOK

\* If they are quiet, they wait for what they waited for.
LEMMA QuietOK ==
  ASSUME NEW base, NEW recs, NEW next, NEW stk, StackOK(stk, base, recs, next),
         NEW more, Moved(stk, more), \A i \in DOMAIN stk : Quiet(stk[i], more[i])
  PROVE  StackOK(more, base, recs, next)
<1>1. DOMAIN stk = DOMAIN more
  <2>1. stk \in Seq(Range(stk)) /\ more \in Seq(Range(more)) /\ Len(stk) = Len(more)
    BY DEF StackOK, Moved
  <2> QED BY <2>1
<1>2. \A i \in DOMAIN stk : /\ IsEvaluation(more[i]) <=> IsEvaluation(stk[i])
                            /\ more[i].selector = stk[i].selector
                            /\ more[i].session = stk[i].session
                            /\ IsEvaluation(stk[i]) =>
                                 more[i].at = stk[i].at /\ more[i].pending = stk[i].pending
  BY DEF Moved, Kept, Quiet, IsEvaluation
<1>3. Serveable(more)
  <2>1. Serveable(stk)
    BY DEF StackOK
  <2> QED BY <1>1, <1>2, <2>1 DEF Serveable
<1>4. Awaits(more, recs)
  <2>1. Awaits(stk, recs)
    BY DEF StackOK
  <2> QED BY <1>1, <1>2, <2>1 DEF Awaits
<1> QED BY <1>3, <1>4, MovedOK

\* The baseline of f is the current record of its selector.
TakesBaseline(f, recs, next) ==
  HasToken(f) =>
    /\ recs[f.selector] # None
    /\ recs[f.selector].token = f.baseline.token
    /\ recs[f.selector].out = f.baseline.value
    /\ f.baseline.token \in Nat /\ f.baseline.token < next

\* A new frame that has its place.
LEMMA PushOK ==
  ASSUME NEW base, NEW recs, NEW next, NEW stk, StackOK(stk, base, recs, next),
         NEW f, FrameWF(f), f.session <= Level(stk, Len(stk) + 1, base),
         f.call = "settle" => f.reader <= Level(stk, Len(stk) + 1, base),
         \A i \in DOMAIN stk : IsEvaluation(stk[i]) /\ stk[i].session = f.session =>
                                 stk[i].selector # f.selector,
         IsEvaluation(f) => f.at = "running",
         TakesBaseline(f, recs, next)
  PROVE  StackOK(Append(stk, f), base, recs, next)
<1> DEFINE more == Append(stk, f)
           n == Len(stk) + 1
<1>1. /\ more \in Seq(Range(more))
      /\ Len(stk) \in Nat /\ Len(more) = Len(stk) + 1 /\ more # <<>>
      /\ DOMAIN stk = 1..Len(stk) /\ DOMAIN more = 1..(Len(stk) + 1)
      /\ \A i \in DOMAIN stk : more[i] = stk[i]
      /\ more[Len(stk) + 1] = f
  BY PushSeq DEF StackOK
<1> HIDE DEF more
<1>2. /\ \A i \in DOMAIN more : i \in DOMAIN stk \/ i = n
      /\ \A i \in DOMAIN stk : i \in DOMAIN more /\ i < n /\ more[i] = stk[i]
      /\ more[n] = f /\ n \in DOMAIN more
  BY <1>1
<1> HIDE DEF n
<1>3. \A i \in DOMAIN more : FrameWF(more[i])
  BY <1>2 DEF StackOK
<1>4. Numbered(more, base)
  <2> SUFFICES ASSUME NEW i \in DOMAIN more
               PROVE  /\ more[i].session <= Level(more, i, base)
                      /\ more[i].call = "settle" => more[i].reader <= Level(more, i, base)
    BY DEF Numbered
  <2>1. \A j \in 1..i - 1 : Owner(stk[j]) <=> Owner(more[j])
    <3>1. \A j \in 1..i - 1 : j \in DOMAIN stk
      BY <1>1
    <3> QED BY <1>2, <3>1
  <2>2. Level(stk, i, base) = Level(more, i, base)
    BY <2>1, LevelSame
  <2>3. CASE i \in DOMAIN stk
    BY <1>2, <2>2, <2>3 DEF StackOK, Numbered
  <2>4. CASE i = n
    BY <1>2, <2>2, <2>4 DEF n
  <2> QED BY <1>2, <2>3, <2>4
<1>5. Apart(more)
  <2>1. Apart(stk)
    BY DEF StackOK
  <2> SUFFICES ASSUME NEW i \in DOMAIN more, NEW j \in DOMAIN more,
                      IsEvaluation(more[i]), more[i].session = more[j].session,
                      i < j, Claims(more[j])
               PROVE  more[i].selector # more[j].selector
    BY DEF Apart
  <2>2. i \in DOMAIN stk
    BY <1>1
  <2>3. CASE j \in DOMAIN stk
    BY <1>2, <2>1, <2>2, <2>3 DEF Apart
  <2>4. CASE j = n
    BY <1>2, <2>2, <2>4
  <2> QED BY <1>2, <2>3, <2>4
<1>6. Serveable(more)
  <2>1. Serveable(stk)
    BY DEF StackOK
  <2> SUFFICES ASSUME NEW i \in DOMAIN more, NEW j \in DOMAIN more,
                      IsEvaluation(more[i]), more[i].session = more[j].session,
                      i <= j, IsEvaluation(more[j]), more[j].at = "serving"
               PROVE  more[i].selector # more[j].pending
    BY DEF Serveable
  <2>2. j # n
    BY <1>2
  <2>3. i \in DOMAIN stk /\ j \in DOMAIN stk
    BY <1>1, <1>2, <2>2
  <2> QED BY <1>2, <2>1, <2>3 DEF Serveable
<1>7. Awaits(more, recs)
  <2>1. Awaits(stk, recs)
    BY DEF StackOK
  <2> SUFFICES ASSUME NEW i \in DOMAIN more, IsEvaluation(more[i]), more[i].at = "served",
                      more[i].pending \in Selectors
               PROVE  \/ recs[more[i].pending] # None
                      \/ /\ i + 1 \in DOMAIN more
                         /\ IsEvaluation(more[i + 1])
                         /\ more[i + 1].selector = more[i].pending
    BY DEF Awaits
  <2>2. i # n
    BY <1>2
  <2>3. i \in DOMAIN stk
    BY <1>2, <2>2
  <2> QED BY <1>2, <2>1, <2>3 DEF Awaits
<1>8. Baselines(more, recs, next)
  <2>1. Baselines(stk, recs, next)
    BY DEF StackOK
  <2>2. ASSUME NEW i \in DOMAIN more, HasToken(more[i])
        PROVE  /\ more[i].baseline.token \in Nat /\ more[i].baseline.token < next
               /\ LET s == more[i].selector IN
                  recs[s] # None /\ recs[s].token = more[i].baseline.token
                    => recs[s].out = more[i].baseline.value
    <3>1. CASE i \in DOMAIN stk
      BY <1>2, <2>1, <2>2, <3>1 DEF Baselines
    <3>2. CASE i = n
      BY <1>2, <2>2, <3>2 DEF TakesBaseline
    <3> QED BY <1>2, <3>1, <3>2
  <2>3. ASSUME NEW i \in DOMAIN more, NEW j \in DOMAIN more,
               HasToken(more[i]), HasToken(more[j]),
               more[i].selector = more[j].selector,
               more[i].baseline.token = more[j].baseline.token
        PROVE  more[i].baseline.value = more[j].baseline.value
    <3>1. CASE i \in DOMAIN stk /\ j \in DOMAIN stk
      BY <1>2, <2>1, <2>3, <3>1 DEF Baselines
    <3>2. CASE i \in DOMAIN stk /\ j = n
      BY <1>2, <2>2, <2>3, <3>2 DEF TakesBaseline
    <3>3. CASE i = n /\ j \in DOMAIN stk
      BY <1>2, <2>2, <2>3, <3>3 DEF TakesBaseline
    <3>4. CASE i = n /\ j = n
      BY <3>4
    <3> QED BY <1>2, <3>1, <3>2, <3>3, <3>4
  <2> QED BY <2>2, <2>3 DEF Baselines
<1> QED BY <1>1, <1>3, <1>4, <1>5, <1>6, <1>7, <1>8 DEF StackOK, more

\* The last frame is taken off: who waits for it has its record.
LEMMA PopOK ==
  ASSUME NEW base, NEW recs, NEW next, NEW stk, StackOK(stk, base, recs, next), stk # <<>>,
         IsEvaluation(Last(stk)) => recs[Last(stk).selector] # None
  PROVE  StackOK(Front(stk), base, recs, next)
<1> DEFINE rest == Front(stk)
<1>1. /\ rest \in Seq(Range(rest))
      /\ Len(stk) \in Nat \ {0} /\ Len(rest) = Len(stk) - 1
      /\ DOMAIN stk = 1..Len(stk) /\ DOMAIN rest = 1..(Len(stk) - 1)
      /\ \A i \in DOMAIN rest : i \in DOMAIN stk /\ rest[i] = stk[i]
  BY PopSeq DEF StackOK
<1> HIDE DEF rest
<1>2. \A i \in DOMAIN rest : i \in DOMAIN stk /\ rest[i] = stk[i]
  BY <1>1
<1>3. \A i \in DOMAIN rest : FrameWF(rest[i])
  BY <1>2 DEF StackOK
<1>4. Numbered(rest, base)
  <2> SUFFICES ASSUME NEW i \in DOMAIN rest
               PROVE  /\ rest[i].session <= Level(rest, i, base)
                      /\ rest[i].call = "settle" => rest[i].reader <= Level(rest, i, base)
    BY DEF Numbered
  <2>1. \A j \in 1..i - 1 : Owner(stk[j]) <=> Owner(rest[j])
    <3>1. \A j \in 1..i - 1 : j \in DOMAIN rest
      BY <1>1
    <3> QED BY <1>2, <3>1
  <2>2. Level(stk, i, base) = Level(rest, i, base)
    <3>1. Owners(stk, i) = Owners(rest, i)
      BY <2>1 DEF Owners
    <3> QED BY <3>1 DEF Level
  <2> QED BY <1>2, <2>2 DEF StackOK, Numbered
<1>5. Apart(rest)
  <2>1. Apart(stk)
    BY DEF StackOK
  <2> QED BY <1>2, <2>1 DEF Apart
<1>6. Serveable(rest)
  <2>1. Serveable(stk)
    BY DEF StackOK
  <2> QED BY <1>2, <2>1 DEF Serveable
<1>7. Awaits(rest, recs)
  <2>1. Awaits(stk, recs)
    BY DEF StackOK
  <2> SUFFICES ASSUME NEW i \in DOMAIN rest, IsEvaluation(rest[i]), rest[i].at = "served",
                      rest[i].pending \in Selectors, recs[rest[i].pending] = None
               PROVE  /\ i + 1 \in DOMAIN rest
                      /\ IsEvaluation(rest[i + 1])
                      /\ rest[i + 1].selector = rest[i].pending
    BY DEF Awaits
  <2>2. /\ i + 1 \in DOMAIN stk
        /\ IsEvaluation(stk[i + 1])
        /\ stk[i + 1].selector = rest[i].pending
    BY <1>2, <2>1 DEF Awaits
  <2>3. i + 1 # Len(stk)
    BY <2>2 DEF Last
  <2>4. i + 1 \in DOMAIN rest
    BY <1>1, <2>2, <2>3
  <2> QED BY <1>2, <2>2, <2>4
<1>8. Baselines(rest, recs, next)
  <2>1. Baselines(stk, recs, next)
    BY DEF StackOK
  <2> QED BY <1>2, <2>1 DEF Baselines
<1> QED BY <1>1, <1>3, <1>4, <1>5, <1>6, <1>7, <1>8 DEF StackOK, rest

\* A stack of one settle frame without a session, or of one evaluation in the first.
LEMMA SingleOK ==
  ASSUME NEW base \in Nat, NEW recs, NEW next, NEW f, FrameWF(f), f.session <= base,
         f.call = "settle" => f.reader <= base,
         IsEvaluation(f) => f.at = "running",
         TakesBaseline(f, recs, next)
  PROVE  StackOK(<<f>>, base, recs, next)
<1>1. <<>> \in Seq(Range(<<>>)) /\ DOMAIN <<>> = {}
  BY SeqOfRange
<1>2. StackOK(<<>>, base, recs, next)
  BY <1>1 DEF StackOK, Numbered, Apart, Serveable, Awaits, Baselines
<1>3. Level(<<>>, Len(<<>>) + 1, base) = base
  BY LevelEmpty
<1>4. StackOK(Append(<<>>, f), base, recs, next)
  BY <1>1, <1>2, <1>3, PushOK
<1>5. Append(<<>>, f) = <<f>>
  OBVIOUS
<1> QED BY <1>4, <1>5

-----------------------------------------------------------------------------
(* Frames *)

\* A new evaluation takes its place and its baseline from the record.
LEMMA EvaluationOK ==
  ASSUME RecordsOK, NEW s \in Selectors, NEW id \in Nat \ {0}, NEW n
  PROVE  LET f == Evaluation(s, id, n) IN
         /\ FrameWF(f)
         /\ f.call = "evaluate" /\ f.at = "running" /\ f.selector = s /\ f.session = id
         /\ TakesBaseline(f, record, nextToken)
<1> DEFINE f == Evaluation(s, id, n)
<1>1. /\ DOMAIN f = EvaluationFields
      /\ f.call = "evaluate" /\ f.at = "running" /\ f.selector = s /\ f.session = id
      /\ f.pending = None /\ f.deps = <<>> /\ f.tokens = <<>> /\ f.reads = <<>> /\ f.cycle = None
  BY DEF Evaluation, EvaluationFields
<1>2. f.baseline = IF record[s] = None \/ record[s].success = None THEN None
                   ELSE [value |-> record[s].success,
                         token |-> IF record[s].out = Error THEN None ELSE record[s].token]
  BY DEF Evaluation
<1> HIDE DEF f
<1>3. ReadsWF(f)
  <2>1. MaxReads \in Nat \ {0} /\ Len(f.reads) = 0 /\ f.reads \in Seq(Values)
    BY <1>1, MaxReadsAssumption
  <2> QED BY <1>1, <2>1 DEF ReadsWF
<1>4. f.deps \in Seq(Nodes) /\ IsInjective(f.deps) /\ f.tokens \in Seq(Nat \cup {None})
      /\ Len(f.tokens) = Len(f.deps)
  BY <1>1 DEF IsInjective
<1>5. EvaluationWF(f)
  BY <1>1, <1>3, <1>4 DEF EvaluationWF
<1>6. FrameWF(f)
  BY <1>1, <1>5 DEF FrameWF
<1>7. TakesBaseline(f, record, nextToken)
  <2> SUFFICES ASSUME HasToken(f)
               PROVE  /\ record[s] # None
                      /\ record[s].token = f.baseline.token
                      /\ record[s].out = f.baseline.value
                      /\ f.baseline.token \in Nat /\ f.baseline.token < nextToken
    BY <1>1 DEF TakesBaseline
  <2>1. record[s] # None /\ record[s].success # None
    BY <1>2 DEF HasToken
  <2>2. f.baseline = [value |-> record[s].success,
                      token |-> IF record[s].out = Error THEN None ELSE record[s].token]
    BY <1>2, <2>1
  <2>3. record[s].out # Error
    BY <2>2 DEF HasToken
  <2>4. f.baseline.token = record[s].token /\ f.baseline.value = record[s].success
    BY <2>2, <2>3
  <2>5. RecordWF(record[s], nextToken)
    BY <2>1 DEF RecordsOK
  <2> QED BY <2>1, <2>3, <2>4, <2>5 DEF RecordWF, Records
<1> QED BY <1>1, <1>6, <1>7 DEF f

LEMMA SettlingOK ==
  ASSUME NEW s \in Selectors, NEW id \in Nat, NEW reader \in Nat
  PROVE  LET f == Settling(s, id, reader) IN
         /\ FrameWF(f)
         /\ f.call = "settle" /\ f.selector = s /\ f.session = id /\ f.reader = reader
         /\ ~Owner(f)
<1> DEFINE f == Settling(s, id, reader)
<1>1. /\ DOMAIN f = SettleFields
      /\ f.call = "settle" /\ f.selector = s /\ f.session = id /\ f.reader = reader
      /\ f.at = "entered" /\ f.todo = <<>> /\ f.owns = FALSE
  BY DEF Settling, SettleFields
<1> HIDE DEF f
<1>2. ~Owner(f) /\ f.owns \in BOOLEAN
  BY <1>1, Zenon DEF Owner
<1>3. f.owns => f.at = "evaluated"
  BY <1>1, Zenon
<1>4. f.todo \in Seq(Selectors)
  BY <1>1
<1>5. SettleWF(f)
  BY <1>1, <1>2, <1>3, <1>4, Zenon DEF SettleWF
<1> QED BY <1>1, <1>2, <1>5 DEF FrameWF, f

\* g is the evaluation f but for what the provers of its reads keep.
Resembles(f, g) ==
  /\ DOMAIN g = DOMAIN f
  /\ g.call = f.call /\ g.selector = f.selector /\ g.session = f.session /\ g.at = f.at
  /\ g.pending = f.pending /\ g.reads = f.reads /\ g.baseline = f.baseline

\* An evaluation that resembles a well-formed one is well-formed with its lists.
LEMMA ResemblesOK ==
  ASSUME NEW f, FrameWF(f), IsEvaluation(f), NEW g, Resembles(f, g),
         g.deps \in Seq(Nodes), IsInjective(g.deps), g.tokens \in Seq(Nat \cup {None}),
         Len(g.tokens) = Len(g.deps),
         g.cycle # None => g.cycle \in Seq(Selectors \ {f.selector})
  PROVE  FrameWF(g) /\ IsEvaluation(g) /\ Kept(f, g) /\ Quiet(f, g) /\ Resembles(f, g)
<1>1. EvaluationWF(f) /\ f.call = "evaluate"
  BY DEF FrameWF, IsEvaluation
<1>2. ReadsWF(g)
  BY <1>1 DEF EvaluationWF, ReadsWF, Resembles
<1>3. EvaluationWF(g)
  BY <1>1, <1>2 DEF EvaluationWF, Resembles
<1>4. FrameWF(g) /\ IsEvaluation(g)
  BY <1>1, <1>3 DEF FrameWF, IsEvaluation, Resembles
<1>5. Kept(f, g) /\ Quiet(f, g)
  BY <1>1 DEF Kept, Quiet, Resembles, Claims, IsEvaluation
<1> QED BY <1>4, <1>5

\* A change of the proof or of the observed edges is of no concern.
LEMMA ProofChange ==
  ASSUME NEW f, FrameWF(f), IsEvaluation(f), NEW x
  PROVE  LET g == [f EXCEPT !.proof = x] IN
         FrameWF(g) /\ IsEvaluation(g) /\ Kept(f, g) /\ Quiet(f, g) /\ Resembles(f, g)
<1> DEFINE g == [f EXCEPT !.proof = x]
<1>1. EvaluationWF(f) /\ f.call = "evaluate"
  BY DEF FrameWF, IsEvaluation
<1>2. DOMAIN f = EvaluationFields
  BY <1>1 DEF EvaluationWF
<1>3. Resembles(f, g) /\ g.deps = f.deps /\ g.tokens = f.tokens /\ g.cycle = f.cycle
  BY <1>2 DEF EvaluationFields, Resembles
<1> HIDE DEF g
<1>4. /\ g.deps \in Seq(Nodes) /\ IsInjective(g.deps) /\ g.tokens \in Seq(Nat \cup {None})
      /\ Len(g.tokens) = Len(g.deps)
      /\ g.cycle # None => g.cycle \in Seq(Selectors \ {f.selector})
  BY <1>1, <1>3 DEF EvaluationWF
<1>5. FrameWF(g) /\ IsEvaluation(g) /\ Kept(f, g) /\ Quiet(f, g) /\ Resembles(f, g)
  BY <1>3, <1>4, ResemblesOK
<1> QED BY <1>5 DEF g

LEMMA ObservedChange ==
  ASSUME NEW f, FrameWF(f), IsEvaluation(f), NEW x
  PROVE  LET g == [f EXCEPT !.observed = x] IN
         FrameWF(g) /\ IsEvaluation(g) /\ Kept(f, g) /\ Quiet(f, g) /\ Resembles(f, g)
<1> DEFINE g == [f EXCEPT !.observed = x]
<1>1. EvaluationWF(f) /\ f.call = "evaluate"
  BY DEF FrameWF, IsEvaluation
<1>2. DOMAIN f = EvaluationFields
  BY <1>1 DEF EvaluationWF
<1>3. Resembles(f, g) /\ g.deps = f.deps /\ g.tokens = f.tokens /\ g.cycle = f.cycle
  BY <1>2 DEF EvaluationFields, Resembles
<1> HIDE DEF g
<1>4. /\ g.deps \in Seq(Nodes) /\ IsInjective(g.deps) /\ g.tokens \in Seq(Nat \cup {None})
      /\ Len(g.tokens) = Len(g.deps)
      /\ g.cycle # None => g.cycle \in Seq(Selectors \ {f.selector})
  BY <1>1, <1>3 DEF EvaluationWF
<1>5. FrameWF(g) /\ IsEvaluation(g) /\ Kept(f, g) /\ Quiet(f, g) /\ Resembles(f, g)
  BY <1>3, <1>4, ResemblesOK
<1> QED BY <1>5 DEF g

\* A path that PathExists finds, without its end.
LEMMA ClosingCycleOK ==
  ASSUME NEW stk, NEW id, NEW a, NEW b, PathExists(stk, id, a, b)
  PROVE  a \in Selectors /\ ClosingCycle(stk, id, a, b) \in Seq(Selectors \ {b})
<1>1. a \in Selectors /\ b \in ReachableFrom(EffectiveEdges(stk, id), a)
  BY DEF PathExists
<1> QED BY <1>1, FrontOfPath DEF ClosingCycle

\* A prefix cut before its first closing read.
LEMMA TruncatedOK ==
  ASSUME NEW stk, NEW i, FrameWF(stk[i]), IsEvaluation(stk[i]), ClosingReads(stk, i) # {}
  PROVE  LET f == stk[i]
             g == Truncated(stk, i)
         IN FrameWF(g) /\ IsEvaluation(g) /\ Kept(f, g) /\ Quiet(f, g) /\ Resembles(f, g)
<1> DEFINE f == stk[i]
           first == Min(ClosingReads(stk, i))
           g == Truncated(stk, i)
           cut == IF f.cycle = None
                    THEN ClosingCycle(stk, f.session, f.deps[first], f.selector) ELSE f.cycle
<1>1. EvaluationWF(f) /\ f.call = "evaluate"
  BY DEF FrameWF, IsEvaluation
<1>2. DOMAIN f = EvaluationFields /\ f.deps \in Seq(Nodes) /\ IsInjective(f.deps)
      /\ f.tokens \in Seq(Nat \cup {None}) /\ Len(f.tokens) = Len(f.deps)
      /\ (f.cycle # None => f.cycle \in Seq(Selectors \ {f.selector}))
  BY <1>1 DEF EvaluationWF
<1>3. Len(f.deps) \in Nat /\ DOMAIN f.deps = 1..Len(f.deps)
  BY <1>2
<1>4. first \in ClosingReads(stk, i)
  <2> DEFINE C == ClosingReads(stk, i)
  <2>1. C \subseteq Nat
    BY <1>3 DEF ClosingReads
  <2>2. \E x \in C : \A y \in C : x <= y
    <3> HIDE DEF C
    <3> QED BY <2>1, LeastNatural DEF C
  <2> HIDE DEF C
  <2>3. Min(C) \in C
    BY <2>2, Zenon DEF Min
  <2> QED BY <2>3 DEF C
<1>5. first \in 1..Len(f.deps) /\ PathExists(stk, f.session, f.deps[first], f.selector)
  BY <1>3, <1>4 DEF ClosingReads
<1> HIDE DEF first
<1>6. cut \in Seq(Selectors \ {f.selector})
  BY <1>2, <1>5, ClosingCycleOK
<1>7. /\ Resembles(f, g)
      /\ g.deps = SubSeq(f.deps, 1, first - 1) /\ g.tokens = SubSeq(f.tokens, 1, first - 1)
      /\ g.cycle = cut
  <2>1. g = [f EXCEPT !.deps = SubSeq(@, 1, first - 1), !.tokens = SubSeq(@, 1, first - 1),
                      !.observed = {}, !.cycle = cut]
    BY Zenon DEF Truncated, first
  <2> HIDE DEF g, cut, f
  <2> QED BY <1>2, <2>1 DEF EvaluationFields, Resembles
<1> HIDE DEF g, cut
<1>8. g.deps \in Seq(Nodes) /\ IsInjective(g.deps)
  <2>1. \A n \in 1..first - 1 : n \in 1..Len(f.deps) /\ f.deps[n] \in Nodes
    BY <1>2, <1>3, <1>5
  <2>2. /\ g.deps \in Seq(Nodes)
        /\ Len(g.deps) = first - 1
    BY <1>3, <1>5, <1>7, <2>1, SubSeqProperties
  <2>3. \A n \in 1..first - 1 : g.deps[n] = f.deps[n]
    <3>1. \A n \in 1..first - 1 - 1 + 1 : g.deps[n] = f.deps[1 + n - 1]
      BY <1>3, <1>5, <1>7, <2>1, SubSeqProperties
    <3> QED BY <1>3, <1>5, <3>1
  <2>4. DOMAIN g.deps = 1..first - 1
    BY <2>2
  <2>5. IsInjective(g.deps)
    BY <1>2, <1>3, <2>1, <2>3, <2>4 DEF IsInjective
  <2> QED BY <2>2, <2>5
<1>9. g.tokens \in Seq(Nat \cup {None}) /\ Len(g.tokens) = Len(g.deps)
  <2>1. \A n \in 1..first - 1 : f.tokens[n] \in Nat \cup {None}
    BY <1>2, <1>3, <1>5
  <2>2. \A n \in 1..first - 1 : f.deps[n] \in Nodes
    BY <1>2, <1>3, <1>5
  <2>3. g.tokens \in Seq(Nat \cup {None})
    BY <1>3, <1>5, <1>7, <2>1, SubSeqProperties
  <2>4. Len(g.tokens) = first - 1
    BY <1>3, <1>5, <1>7, <2>1, SubSeqProperties
  <2>5. Len(g.deps) = first - 1
    BY <1>3, <1>5, <1>7, <2>2, SubSeqProperties
  <2> QED BY <2>3, <2>4, <2>5
<1>10. FrameWF(g) /\ IsEvaluation(g) /\ Kept(f, g) /\ Quiet(f, g) /\ Resembles(f, g)
  <2> HIDE DEF f
  <2>1. FrameWF(f) /\ IsEvaluation(f)
    BY DEF f
  <2> QED BY <1>6, <1>7, <1>8, <1>9, <2>1, ResemblesOK
<1> QED BY <1>10 DEF f, g

\* Proving its prefix leaves an evaluation where it is.
LEMMA OwnPrefixOK ==
  ASSUME NEW stk, NEW i, FrameWF(stk[i]), IsEvaluation(stk[i])
  PROVE  LET f == stk[i]
             g == OwnPrefix(stk, i)
         IN FrameWF(g) /\ IsEvaluation(g) /\ Kept(f, g) /\ Quiet(f, g)
<1> DEFINE f == stk[i]
           g == OwnPrefix(stk, i)
           h == [f EXCEPT !.observed = {}]
<1>0. FrameWF(f) /\ IsEvaluation(f)
  OBVIOUS
<1>1. FrameWF(h) /\ IsEvaluation(h) /\ Kept(f, h) /\ Quiet(f, h)
  <2> HIDE DEF f
  <2> QED BY <1>0, ObservedChange
<1>2. FrameWF(Proved(f)) /\ IsEvaluation(Proved(f)) /\ Kept(f, Proved(f)) /\ Quiet(f, Proved(f))
  <2> HIDE DEF f
  <2> QED BY <1>0, ProofChange DEF Proved
<1>3. FrameWF(Proved(h)) /\ IsEvaluation(Proved(h)) /\ Kept(h, Proved(h)) /\ Quiet(h, Proved(h))
  <2> HIDE DEF h
  <2> QED BY <1>1, ProofChange DEF Proved
<1>4. Kept(f, Proved(h)) /\ Quiet(f, Proved(h))
  <2> HIDE DEF f, h
  <2> QED BY <1>0, <1>1, <1>3 DEF Kept, Quiet, IsEvaluation
<1>5. Kept(f, f) /\ Quiet(f, f)
  BY DEF Kept, Quiet
<1>6. \/ g = f
      \/ g = Proved(f)
      \/ g = Proved(h)
      \/ ClosingReads(stk, i) # {} /\ g = Truncated(stk, i)
  BY Zenon DEF OwnPrefix
<1>7. CASE g = f
  <2> HIDE DEF f, g
  <2> QED BY <1>0, <1>5, <1>7 DEF f, g
<1>8. CASE g = Proved(f)
  <2> HIDE DEF f, g
  <2> QED BY <1>2, <1>8 DEF f, g
<1>9. CASE g = Proved(h)
  <2> HIDE DEF f, g, h
  <2> QED BY <1>3, <1>4, <1>9 DEF f, g
<1>10. CASE ClosingReads(stk, i) # {} /\ g = Truncated(stk, i)
  BY <1>10, TruncatedOK
<1> QED BY <1>6, <1>7, <1>8, <1>9, <1>10

\* The evaluations that revalidateAcceptedPrefix looks at, and what it has made of the
\* stack when it has come to each frame.
Due(stk) ==
  IF OnlyAttributed(Last(stk), Last(stk).proof) THEN {Len(stk)}
  ELSE {i \in DOMAIN stk : IsEvaluation(stk[i]) /\ stk[i].session = Last(stk).session}
Revalidating(v, stk) ==
  /\ v[0] = stk
  /\ \A i \in 1..Len(stk) :
       v[i] = IF i \in Due(stk) THEN [v[i - 1] EXCEPT ![i] = OwnPrefix(v[i - 1], i)] ELSE v[i - 1]

LEMMA RevalidatedSteps ==
  ASSUME NEW stk, stk \in Seq(Range(stk)), stk # <<>>
  PROVE  \E v : Revalidating(v, stk) /\ Revalidated(stk) = v[Len(stk)]
<1> DEFINE n == Len(stk)
           due == Due(stk)
           S(w, i) == IF i \in due THEN [w EXCEPT ![i] = OwnPrefix(w, i)] ELSE w
<1>1. n \in Nat \ {0} /\ DOMAIN stk = 1..n
  OBVIOUS
<1>3. \E v : v = [i \in 0..n |-> IF i = 0 THEN stk ELSE S(v[i - 1], i)]
  <2> DEFINE Runs(m) == \E h : h = [i \in 0..m |-> IF i = 0 THEN stk ELSE S(h[i - 1], i)]
             R == {m \in 0..n : Runs(m)}
  <2> HIDE DEF n, due, S
  <2>1. 0 \in R
    <3> DEFINE h == [i \in 0..0 |-> stk]
    <3>1. h = [i \in 0..0 |-> IF i = 0 THEN stk ELSE S(h[i - 1], i)]
      OBVIOUS
    <3> HIDE DEF h
    <3>2. Runs(0)
      BY <3>1
    <3> QED BY <1>1, <3>2
  <2>2. ASSUME NEW m \in 1..n, m - 1 \in R
        PROVE  m \in R
    <3>1. PICK h : h = [i \in 0..(m - 1) |-> IF i = 0 THEN stk ELSE S(h[i - 1], i)]
      BY <2>2
    <3> DEFINE last2 == S(h[m - 1], m)
               k == [i \in 0..m |-> IF i = m THEN last2 ELSE h[i]]
    <3>2. k[m] = last2 /\ DOMAIN k = 0..m
      BY <1>1
    <3>3. \A i \in 0..(m - 1) : k[i] = h[i]
      BY <1>1
    <3> HIDE DEF k
    <3>4. \A i \in 0..m : k[i] = IF i = 0 THEN stk ELSE S(k[i - 1], i)
      <4> TAKE i \in 0..m
      <4>1. CASE i = m
        <5>1. m - 1 \in 0..(m - 1) /\ m # 0
          BY <1>1
        <5>2. k[m - 1] = h[m - 1]
          BY <3>3, <5>1
        <5> QED BY <3>2, <4>1, <5>1, <5>2
      <4>2. CASE i # m
        <5>1. i \in 0..(m - 1)
          BY <1>1, <4>2
        <5>2. k[i] = h[i] /\ h[i] = IF i = 0 THEN stk ELSE S(h[i - 1], i)
          BY <3>1, <3>3, <5>1
        <5>3. i # 0 => k[i - 1] = h[i - 1]
          <6>1. i # 0 => i - 1 \in 0..(m - 1)
            BY <1>1, <5>1
          <6> QED BY <3>3, <6>1
        <5> QED BY <5>2, <5>3
      <4> QED BY <4>1, <4>2
    <3>5. k = [i \in 0..m |-> k[i]]
      BY DEF k
    <3>6. k = [i \in 0..m |-> IF i = 0 THEN stk ELSE S(k[i - 1], i)]
      BY <3>4, <3>5
    <3>7. Runs(m)
      BY <3>6
    <3> QED BY <1>1, <3>7
  <2>3. \A m \in 0..n : m \in R
    <3> HIDE DEF R
    <3> QED BY <1>1, <2>1, <2>2, IntervalInduction
  <2> QED BY <1>1, <2>3
<1>4. PICK v : /\ v = [i \in 0..n |-> IF i = 0 THEN stk ELSE S(v[i - 1], i)]
               /\ Revalidated(stk) = v[n]
  <2>1. \E v : v = [i \in 0..Len(stk) |->
          IF i = 0 THEN stk
          ELSE IF i \in due THEN [v[i - 1] EXCEPT ![i] = OwnPrefix(v[i - 1], i)] ELSE v[i - 1]]
    <3> HIDE DEF due
    <3> QED BY <1>3
  <2>2. \E v : /\ v = [i \in 0..Len(stk) |->
                    IF i = 0 THEN stk
                    ELSE IF i \in due THEN [v[i - 1] EXCEPT ![i] = OwnPrefix(v[i - 1], i)]
                    ELSE v[i - 1]]
               /\ Revalidated(stk) = v[Len(stk)]
    BY <2>1, Zenon DEF Revalidated, Due
  <2> HIDE DEF due
  <2> QED BY <2>2
<1> HIDE DEF due
<1>5. v[0] = stk /\ \A i \in 1..n : v[i] = S(v[i - 1], i)
  <2> DEFINE b == [i \in 1..n |-> S(v[i - 1], i)]
  <2>1. v = [i \in 0..n |-> IF i = 0 THEN stk ELSE b[i]]
    <3>1. \A i \in 0..n : i # 0 => i \in 1..n
      BY <1>1
    <3>2. \A i \in 0..n : i # 0 => b[i] = S(v[i - 1], i)
      <4> HIDE DEF S, n
      <4> QED BY <3>1
    <3> HIDE DEF b, S, n
    <3> QED BY <1>4, <3>2
  <2>2. \A i \in 1..n : b[i] = S(v[i - 1], i)
    OBVIOUS
  <2> HIDE DEF b, S
  <2>3. v[0] = stk /\ \A i \in 1..n : v[i] = b[i]
    BY <1>1, <2>1, Equations
  <2> QED BY <2>2, <2>3
<1>6. Revalidating(v, stk)
  <2> HIDE DEF n
  <2> QED BY <1>5 DEF Revalidating, due, n
<1> QED BY <1>4, <1>6, Zenon

\* The prefix proofs leave every evaluation where it is.
LEMMA RevalidatedOK ==
  ASSUME NEW stk, stk \in Seq(Range(stk)), stk # <<>>, IsEvaluation(Last(stk)),
         \A i \in DOMAIN stk : FrameWF(stk[i])
  PROVE  Moved(stk, Revalidated(stk)) /\ \A i \in DOMAIN stk : Quiet(stk[i], Revalidated(stk)[i])
<1> DEFINE n == Len(stk)
           due == Due(stk)
           S(w, i) == IF i \in due THEN [w EXCEPT ![i] = OwnPrefix(w, i)] ELSE w
           Good(w) == Moved(stk, w) /\ \A i \in DOMAIN stk : Quiet(stk[i], w[i])
<1>1. n \in Nat \ {0} /\ DOMAIN stk = 1..n
  OBVIOUS
<1>2. \A i \in due : i \in 1..n /\ IsEvaluation(stk[i])
  BY <1>1 DEF Last, Due
<1> HIDE DEF due
<1>3. PICK v : Revalidating(v, stk) /\ Revalidated(stk) = v[n]
  BY RevalidatedSteps
<1>4. Revalidated(stk) = v[n]
  BY <1>3
<1>5. v[0] = stk /\ \A i \in 1..n : v[i] = S(v[i - 1], i)
  BY <1>3 DEF Revalidating, due
<1>6. Good(stk)
  BY <1>1 DEF Moved, Kept, Quiet
<1>7. ASSUME NEW w, Good(w), NEW i \in 1..n
      PROVE  Good(S(w, i))
  <2>1. CASE i \notin due
    BY <1>7, <2>1
  <2>2. CASE i \in due
    <3> DEFINE g == OwnPrefix(w, i)
               z == [w EXCEPT ![i] = g]
               X == Range(w) \cup {g}
    <3>1. FrameWF(w[i]) /\ Kept(stk[i], w[i]) /\ Quiet(stk[i], w[i])
      BY <1>1, <1>7 DEF Moved
    <3>2. IsEvaluation(stk[i]) /\ IsEvaluation(w[i])
      BY <1>2, <2>2, <3>1 DEF Kept, IsEvaluation
    <3>3. FrameWF(g) /\ IsEvaluation(g) /\ Kept(w[i], g) /\ Quiet(w[i], g)
      BY <3>1, <3>2, OwnPrefixOK
    <3> HIDE DEF g
    <3>4. Kept(stk[i], g) /\ Quiet(stk[i], g) /\ ~Owner(g) /\ ~Owner(stk[i])
      BY <3>1, <3>2, <3>3 DEF Kept, Quiet, IsEvaluation, Owner
    <3>5. w \in Seq(X) /\ g \in X /\ Len(w) = n
      BY <1>7, SeqMonotonic DEF Moved
    <3> HIDE DEF X
    <3>6. /\ z \in Seq(X) /\ Len(z) = n /\ z[i] = g
          /\ \A j \in 1..n : j # i => z[j] = w[j]
      BY <1>1, <3>5
    <3> HIDE DEF z
    <3>7. z \in Seq(Range(z))
      BY <3>6, SeqOfRange
    <3>8. \A j \in 1..n : FrameWF(z[j]) /\ Kept(stk[j], z[j]) /\ Quiet(stk[j], z[j])
      BY <1>1, <1>7, <3>3, <3>4, <3>6 DEF Moved
    <3>9. \A j \in 1..n : j # n => (Owner(z[j]) <=> Owner(stk[j]))
      BY <1>1, <1>7, <3>4, <3>6 DEF Moved
    <3>10. Good(z)
      BY <1>1, <3>6, <3>7, <3>8, <3>9 DEF Moved
    <3> QED BY <2>2, <3>10 DEF z, g
  <2> QED BY <2>1, <2>2
<1>8. \A i \in 0..n : Good(v[i])
  <2> DEFINE G == {i \in 0..n : Good(v[i])}
  <2> HIDE DEF Good, n, S
  <2>1. 0 \in G
    BY <1>1, <1>5, <1>6
  <2>2. \A i \in 1..n : i - 1 \in G => i \in G
    <3> TAKE i \in 1..n
    <3>1. i \in 0..n
      BY <1>1
    <3> QED BY <1>5, <1>7, <3>1
  <2>3. \A i \in 0..n : i \in G
    <3> HIDE DEF G
    <3> QED BY <1>1, <2>1, <2>2, IntervalInduction
  <2> QED BY <2>3
<1>9. Good(v[n])
  <2> HIDE DEF Good
  <2> QED BY <1>1, <1>8
<1> HIDE DEF n
<1> QED BY <1>4, <1>9

-----------------------------------------------------------------------------
(* Steps of the stack *)

\* What the last frame may wait for.
Waits(stk, g, recs) ==
  /\ IsEvaluation(g) /\ g.at = "serving" =>
       \A i \in DOMAIN stk : IsEvaluation(stk[i]) /\ stk[i].session = g.session =>
                               stk[i].selector # g.pending
  /\ IsEvaluation(g) /\ g.at = "served" /\ g.pending \in Selectors => recs[g.pending] # None

\* The last frame moves on.
LEMMA TopOK ==
  ASSUME NEW base \in Nat, NEW recs, NEW next, NEW stk, StackOK(stk, base, recs, next), stk # <<>>,
         NEW g, FrameWF(g), Kept(Last(stk), g), Waits(stk, g, recs)
  PROVE  LET more == [stk EXCEPT ![Len(stk)] = g] IN
         /\ StackOK(more, base, recs, next)
         /\ more # <<>> /\ Len(more) = Len(stk) /\ Len(stk) \in Nat \ {0} /\ Last(more) = g
         /\ DOMAIN more = DOMAIN stk
         /\ \A i \in DOMAIN stk : Kept(stk[i], more[i])
         /\ Level(more, Len(stk), base) = Level(stk, Len(stk), base)
<1> DEFINE more == [stk EXCEPT ![Len(stk)] = g]
           n == Len(stk)
<1>1. /\ more \in Seq(Range(more))
      /\ n \in Nat \ {0} /\ Len(more) = n /\ more # <<>>
      /\ DOMAIN stk = 1..n /\ DOMAIN more = 1..n
      /\ \A i \in DOMAIN stk : i # n => more[i] = stk[i]
      /\ more[n] = g
  BY ReplaceSeq DEF StackOK
<1> HIDE DEF more, n
<1>2. Kept(stk[n], g)
  BY DEF Last, n
<1>3. \A i \in DOMAIN stk : FrameWF(more[i]) /\ Kept(stk[i], more[i])
  <2> TAKE i \in DOMAIN stk
  <2>1. CASE i = n
    BY <1>1, <1>2, <2>1
  <2>2. CASE i # n
    <3>1. more[i] = stk[i] /\ FrameWF(stk[i])
      BY <1>1, <2>2 DEF StackOK
    <3> QED BY <3>1 DEF Kept
  <2> QED BY <2>1, <2>2
<1>4. Moved(stk, more)
  BY <1>1, <1>3 DEF Moved, n
<1>5. \A i \in DOMAIN stk : /\ IsEvaluation(more[i]) <=> IsEvaluation(stk[i])
                            /\ more[i].selector = stk[i].selector
                            /\ more[i].session = stk[i].session
  BY <1>3 DEF Kept, IsEvaluation
<1>6. Serveable(more)
  <2> SUFFICES ASSUME NEW i \in 1..n, NEW j \in 1..n,
                      IsEvaluation(more[i]), more[i].session = more[j].session,
                      i <= j, IsEvaluation(more[j]), more[j].at = "serving"
               PROVE  more[i].selector # more[j].pending
    BY <1>1 DEF Serveable
  <2>1. CASE j = n
    BY <1>1, <1>5, <2>1 DEF Waits
  <2>2. CASE j # n
    <3>1. more[j] = stk[j] /\ Serveable(stk)
      BY <1>1, <2>2 DEF StackOK
    <3> QED BY <1>1, <1>5, <3>1 DEF Serveable
  <2> QED BY <2>1, <2>2
<1>7. Awaits(more, recs)
  <2> SUFFICES ASSUME NEW i \in 1..n, IsEvaluation(more[i]), more[i].at = "served",
                      more[i].pending \in Selectors, recs[more[i].pending] = None
               PROVE  /\ i + 1 \in 1..n
                      /\ IsEvaluation(more[i + 1])
                      /\ more[i + 1].selector = more[i].pending
    BY <1>1 DEF Awaits
  <2>1. i # n
    BY <1>1 DEF Waits
  <2>2. more[i] = stk[i] /\ Awaits(stk, recs)
    BY <1>1, <2>1 DEF StackOK
  <2> QED BY <1>1, <1>5, <2>2 DEF Awaits
<1>8. StackOK(more, base, recs, next)
  BY <1>4, <1>6, <1>7, MovedOK
<1>9. Last(more) = g
  BY <1>1 DEF Last
<1>10. Level(more, n, base) = Level(stk, n, base)
  <2>1. \A j \in 1..n - 1 : more[j] = stk[j]
    <3>1. \A j \in 1..n - 1 : j \in 1..n /\ j # n
      BY <1>1
    <3> QED BY <1>1, <3>1
  <2> QED BY <1>1, <2>1, LevelPrefix
<1> QED BY <1>1, <1>3, <1>8, <1>9, <1>10 DEF more, n

\* The level above the last frame.
LEMMA LevelTop ==
  ASSUME NEW stk, Len(stk) \in Nat \ {0}, NEW base \in Nat
  PROVE  /\ Owner(Last(stk)) => Level(stk, Len(stk) + 1, base) = Level(stk, Len(stk), base) + 1
         /\ ~Owner(Last(stk)) => Level(stk, Len(stk) + 1, base) = Level(stk, Len(stk), base)
BY LevelStep DEF Last

\* The level is that of the frames, whatever is pushed above them.
LEMMA LevelPush ==
  ASSUME NEW stk, stk \in Seq(Range(stk)), NEW f, ~Owner(f), NEW base \in Nat
  PROVE  Level(Append(stk, f), Len(Append(stk, f)) + 1, base) = Level(stk, Len(stk) + 1, base)
<1> DEFINE more == Append(stk, f)
           n == Len(stk) + 1
<1>1. /\ n \in Nat \ {0} /\ Len(more) = n
      /\ \A i \in 1..n - 1 : more[i] = stk[i]
      /\ more[n] = f
  BY PushSeq
<1> HIDE DEF more, n
<1>2. Level(more, n + 1, base) = Level(more, n, base)
  BY <1>1, LevelStep
<1>3. Level(more, n, base) = Level(stk, n, base)
  BY <1>1, LevelPrefix
<1> QED BY <1>1, <1>2, <1>3 DEF more, n

\* The innermost settle returns, and its caller folds what it is told.
LEMMA ReturningOK ==
  ASSUME NEW base \in Nat, NEW recs, NEW next, StackOK(stack, base, recs, next),
         stack # <<>>, Top.call = "settle", NEW c
  PROVE  /\ StackOK(Returning(c), base, recs, next)
         /\ Level(Returning(c), Len(Returning(c)) + 1, base) = Level(stack, Len(stack), base)
<1> DEFINE rest == Front(stack)
           n == Len(stack) - 1
           f == Last(rest)
           g == [f EXCEPT !.currentness = Fold(@, c)]
           more == [rest EXCEPT ![Len(rest)] = g]
<1>1. /\ rest \in Seq(Range(rest))
      /\ Len(stack) \in Nat \ {0} /\ n \in Nat /\ Len(rest) = n
      /\ DOMAIN rest = 1..n
      /\ \A i \in DOMAIN rest : i \in DOMAIN stack /\ rest[i] = stack[i]
      /\ rest # <<>> => n \in DOMAIN rest
  BY PopSeq DEF StackOK
<1>2. ~IsEvaluation(Last(stack))
  BY DEF Top, IsEvaluation
<1>3. StackOK(rest, base, recs, next)
  BY <1>2, PopOK
<1>4. Level(rest, n + 1, base) = Level(stack, Len(stack), base)
  <2> HIDE DEF rest
  <2>1. \A j \in 1..n + 1 - 1 : rest[j] = stack[j]
    BY <1>1
  <2>2. Level(rest, n + 1, base) = Level(stack, n + 1, base)
    BY <1>1, <2>1, LevelPrefix
  <2> QED BY <1>1, <2>2
<1>5. CASE ~(rest # <<>> /\ Last(rest).call = "settle")
  <2>1. Returning(c) = rest
    BY <1>5, Zenon DEF Returning
  <2> HIDE DEF rest, n
  <2> QED BY <1>1, <1>3, <1>4, <2>1
<1>6. CASE rest # <<>> /\ Last(rest).call = "settle"
  <2>1. Returning(c) = [rest EXCEPT ![Len(rest)].currentness = Fold(@, c)]
    BY <1>6, Zenon DEF Returning
  <2> HIDE DEF rest, n
  <2>2. Returning(c) = more
    BY <1>1, <2>1 DEF Last
  <2>3. FrameWF(f) /\ SettleWF(f) /\ f.call = "settle"
    BY <1>1, <1>3, <1>6 DEF StackOK, FrameWF, Last
  <2> HIDE DEF f
  <2>4. /\ DOMAIN g = DOMAIN f /\ g.call = f.call /\ g.selector = f.selector
        /\ g.session = f.session /\ g.reader = f.reader /\ g.at = f.at /\ g.todo = f.todo
        /\ g.owns = f.owns
    BY <2>3 DEF SettleWF, SettleFields
  <2> HIDE DEF g
  <2>5. SettleWF(g)
    BY <2>3, <2>4, Zenon DEF SettleWF
  <2>6. FrameWF(g) /\ Kept(f, g)
    BY <2>3, <2>4, <2>5 DEF FrameWF, Kept, Claims, IsEvaluation
  <2>7. Owner(g) <=> Owner(f)
    BY <2>4, Zenon DEF Owner
  <2>8. Waits(rest, g, recs)
    BY <2>3, <2>4 DEF Waits, IsEvaluation
  <2>9. /\ StackOK(more, base, recs, next)
        /\ Len(more) = Len(rest) /\ Len(rest) \in Nat \ {0} /\ Last(more) = g
        /\ Level(more, Len(rest), base) = Level(rest, Len(rest), base)
    BY <1>3, <1>6, <2>6, <2>8, TopOK DEF f
  <2> HIDE DEF more
  <2>10. Level(more, Len(rest) + 1, base) = Level(rest, Len(rest) + 1, base)
    BY <2>7, <2>9, LevelTop DEF f
  <2> QED BY <1>1, <1>4, <2>2, <2>9, <2>10 DEF f
<1> QED BY <1>5, <1>6

\* An evaluation that fails, with the cycle that makes it fail or without.
LEMMA FailedOK ==
  ASSUME NEW f, FrameWF(f), IsEvaluation(f),
         NEW x, x = None \/ x \in Seq(Selectors \ {f.selector})
  PROVE  LET g == [f EXCEPT !.cycle = x, !.at = "failed"] IN
         FrameWF(g) /\ IsEvaluation(g) /\ Kept(f, g) /\ g.at = "failed"
<1> DEFINE g == [f EXCEPT !.cycle = x, !.at = "failed"]
<1>1. EvaluationWF(f) /\ f.call = "evaluate"
  BY DEF FrameWF, IsEvaluation
<1>2. /\ DOMAIN g = DOMAIN f /\ g.call = f.call /\ g.selector = f.selector
      /\ g.session = f.session /\ g.at = "failed" /\ g.pending = f.pending
      /\ g.deps = f.deps /\ g.tokens = f.tokens /\ g.baseline = f.baseline /\ g.cycle = x
  BY <1>1 DEF EvaluationWF, EvaluationFields
<1> HIDE DEF g
<1>3. ReadsWF(g)
  BY <1>2 DEF ReadsWF
<1>4. EvaluationWF(g)
  BY <1>1, <1>2, <1>3 DEF EvaluationWF
<1>5. FrameWF(g) /\ IsEvaluation(g) /\ Kept(f, g)
  BY <1>1, <1>2, <1>4 DEF FrameWF, IsEvaluation, Kept, Claims
<1> QED BY <1>2, <1>5 DEF g

\* Failing without a cycle leaves the one there is.
LEMMA FailingOK ==
  ASSUME NEW f, FrameWF(f), IsEvaluation(f)
  PROVE  LET g == [f EXCEPT !.at = "failed"] IN
         FrameWF(g) /\ IsEvaluation(g) /\ Kept(f, g) /\ g.at = "failed"
<1> DEFINE g == [f EXCEPT !.at = "failed"]
<1>1. EvaluationWF(f) /\ f.call = "evaluate"
  BY DEF FrameWF, IsEvaluation
<1>2. /\ DOMAIN g = DOMAIN f /\ g.call = f.call /\ g.selector = f.selector
      /\ g.session = f.session /\ g.at = "failed" /\ g.pending = f.pending
      /\ g.deps = f.deps /\ g.tokens = f.tokens /\ g.baseline = f.baseline /\ g.cycle = f.cycle
  BY <1>1 DEF EvaluationWF, EvaluationFields
<1> HIDE DEF g
<1>3. ReadsWF(g)
  BY <1>2 DEF ReadsWF
<1>4. EvaluationWF(g)
  BY <1>1, <1>2, <1>3 DEF EvaluationWF
<1>5. FrameWF(g) /\ IsEvaluation(g) /\ Kept(f, g)
  BY <1>1, <1>2, <1>4 DEF FrameWF, IsEvaluation, Kept, Claims
<1> QED BY <1>2, <1>5 DEF g

\* A dependency is captured once, with its token.
LEMMA CapturedOK ==
  ASSUME NEW f, EvaluationWF(f), NEW d \in Nodes, NEW token \in Nat \cup {None}
  PROVE  LET tokens == IF Contains(f.deps, d) THEN f.tokens ELSE Append(f.tokens, token) IN
         /\ Captured(f, d) \in Seq(Nodes) /\ IsInjective(Captured(f, d))
         /\ tokens \in Seq(Nat \cup {None}) /\ Len(tokens) = Len(Captured(f, d))
<1>1. /\ f.deps \in Seq(Nodes) /\ IsInjective(f.deps) /\ DOMAIN f.deps = 1..Len(f.deps)
      /\ f.tokens \in Seq(Nat \cup {None}) /\ Len(f.tokens) = Len(f.deps)
      /\ Len(f.deps) \in Nat
  BY DEF EvaluationWF
<1>2. CASE Contains(f.deps, d)
  BY <1>1, <1>2 DEF Captured
<1>3. CASE ~Contains(f.deps, d)
  <2> DEFINE more == Append(f.deps, d)
             n == Len(f.deps) + 1
  <2>1. /\ more \in Seq(Nodes) /\ Len(more) = n /\ DOMAIN more = 1..n
        /\ more[n] = d /\ \A i \in 1..Len(f.deps) : more[i] = f.deps[i]
    BY <1>1
  <2>2. Append(f.tokens, token) \in Seq(Nat \cup {None}) /\ Len(Append(f.tokens, token)) = n
    <3>1. ASSUME NEW T, NEW s \in Seq(T), NEW x \in T
          PROVE  Append(s, x) \in Seq(T) /\ Len(Append(s, x)) = Len(s) + 1
      BY <3>1
    <3> QED BY <1>1, <3>1
  <2> HIDE DEF more
  <2>3. \A i \in 1..Len(f.deps) : f.deps[i] # d
    BY <1>3 DEF Contains
  <2>4. \A i \in 1..n : i \in 1..Len(f.deps) \/ i = n
    BY <1>1
  <2> HIDE DEF n
  <2>5. IsInjective(more)
    BY <1>1, <2>1, <2>3, <2>4 DEF IsInjective
  <2> QED BY <1>3, <2>1, <2>2, <2>5 DEF Captured, more
<1> QED BY <1>2, <1>3

\* What a read gets lets the getter run on or fail.
LEMMA AfterServeOK ==
  ASSUME NEW stk, NEW f, FrameWF(f), IsEvaluation(f), f.at = "served",
         NEW out \in Values \cup {Error}, NEW token \in Nat \cup {None}
  PROVE  LET g == AfterServe(stk, f, f.pending, out, token) IN
         FrameWF(g) /\ IsEvaluation(g) /\ Kept(f, g) /\ g.at \in {"running", "failed"}
<1> DEFINE d == f.pending
           g == AfterServe(stk, f, d, out, token)
           tokens == IF Contains(f.deps, d) THEN f.tokens ELSE Append(f.tokens, token)
           at == IF out = Error THEN "failed" ELSE "running"
           observed == IF f.observed = None /\ d \in Selectors THEN {} ELSE f.observed
           h == [f EXCEPT !.at = at, !.pending = None, !.deps = Captured(f, d),
                          !.tokens = tokens, !.reads = Append(f.reads, out), !.observed = observed]
           cycle == ClosingCycle(stk, f.session, d, f.selector)
<1>1. EvaluationWF(f) /\ f.call = "evaluate"
  BY DEF FrameWF, IsEvaluation
<1>2. d \in Nodes
  BY <1>1 DEF EvaluationWF, ReadsWF
<1>3. \/ g = [f EXCEPT !.at = "failed"]
      \/ PathExists(stk, f.session, d, f.selector) /\ g = [f EXCEPT !.cycle = cycle, !.at = "failed"]
      \/ g = Proved(h)
  BY Zenon DEF AfterServe, Latched
<1>4. CASE g = [f EXCEPT !.at = "failed"]
  <2> HIDE DEF g
  <2> QED BY <1>4, FailingOK DEF g
<1>5. CASE PathExists(stk, f.session, d, f.selector) /\ g = [f EXCEPT !.cycle = cycle, !.at = "failed"]
  <2>1. cycle \in Seq(Selectors \ {f.selector})
    BY <1>5, ClosingCycleOK
  <2> DEFINE z == [f EXCEPT !.cycle = cycle, !.at = "failed"]
  <2>2. FrameWF(z) /\ IsEvaluation(z) /\ Kept(f, z) /\ z.at = "failed"
    <3> HIDE DEF cycle
    <3> QED BY <2>1, FailedOK
  <2> HIDE DEF z, g
  <2>3. g = z
    BY <1>5 DEF z
  <2> QED BY <2>2, <2>3 DEF g
<1>6. CASE g = Proved(h)
  <2>1. /\ Captured(f, d) \in Seq(Nodes) /\ IsInjective(Captured(f, d))
        /\ tokens \in Seq(Nat \cup {None}) /\ Len(tokens) = Len(Captured(f, d))
    BY <1>1, <1>2, CapturedOK
  <2> HIDE DEF tokens, at, observed, d
  <2>2. /\ DOMAIN h = DOMAIN f /\ h.call = f.call /\ h.selector = f.selector
        /\ h.session = f.session /\ h.at = at /\ h.pending = None
        /\ h.deps = Captured(f, d) /\ h.tokens = tokens /\ h.baseline = f.baseline
        /\ h.reads = Append(f.reads, out) /\ h.cycle = f.cycle
    BY <1>1 DEF EvaluationWF, EvaluationFields
  <2> HIDE DEF h
  <2>3. at \in {"running", "failed"} /\ (at = "running" => out \in Values)
    BY DEF at
  <2>4. ReadsWF(h)
    <3>1. f.reads \in Seq(Values) /\ Len(f.reads) < MaxReads /\ MaxReads \in Nat
      BY <1>1, MaxReadsAssumption DEF EvaluationWF, ReadsWF
    <3>2. out \in Values => Append(f.reads, out) \in Seq(Values)
                              /\ Len(Append(f.reads, out)) = Len(f.reads) + 1
      BY <3>1
    <3>3. Len(f.reads) + 1 <= MaxReads
      BY <3>1
    <3> QED BY <2>2, <2>3, <3>2, <3>3 DEF ReadsWF
  <2>5. EvaluationWF(h)
    BY <1>1, <2>1, <2>2, <2>3, <2>4 DEF EvaluationWF
  <2>6. FrameWF(h) /\ IsEvaluation(h) /\ Kept(f, h)
    BY <1>1, <2>2, <2>5 DEF FrameWF, IsEvaluation, Kept, Claims
  <2>7. FrameWF(Proved(h)) /\ IsEvaluation(Proved(h)) /\ Kept(h, Proved(h)) /\ Quiet(h, Proved(h))
    BY <2>6, ProofChange DEF Proved
  <2>8. Kept(f, Proved(h)) /\ Proved(h).at = at
    BY <1>1, <2>2, <2>6, <2>7 DEF Kept, Quiet, Claims, IsEvaluation
  <2> HIDE DEF g
  <2> QED BY <1>6, <2>3, <2>7, <2>8 DEF g, d
<1> QED BY <1>3, <1>4, <1>5, <1>6

\* The evaluations that a cycle of active ones goes through.
LEMMA ActiveFromOK ==
  ASSUME StackOK(stack, Base, record, nextToken), stack # <<>>, IsEvaluation(Top), NEW s
  PROVE  ActiveFrom(Top.session, s) \in Seq(Selectors \ {Top.selector})
<1> DEFINE n == Len(stack) - 1
           id == Top.session
           T == Seq(Selectors \ {Top.selector})
           S(w, i) == IF IsEvaluation(stack[i]) /\ stack[i].session = id
                           /\ (stack[i].selector = s \/ w # <<>>)
                        THEN Append(w, stack[i].selector) ELSE w
           F == [i \in 1..n |-> [w \in T |-> S(w, i)]]
<1>1. stack \in Seq(Range(stack)) /\ Len(stack) \in Nat \ {0} /\ n \in Nat
      /\ DOMAIN stack = 1..Len(stack)
  BY DEF StackOK
<1>2. \A i \in 1..n : i \in DOMAIN stack /\ i < Len(stack) /\ Len(stack) \in DOMAIN stack
  BY <1>1
<1>3. ASSUME NEW w \in T, NEW i \in 1..n
      PROVE  S(w, i) \in T
  <2>1. CASE IsEvaluation(stack[i]) /\ stack[i].session = id
    <3>1. FrameWF(stack[i]) /\ Apart(stack)
      BY <1>2 DEF StackOK
    <3>2. stack[i].selector \in Selectors
      BY <2>1, <3>1 DEF FrameWF, IsEvaluation, EvaluationWF
    <3>3. stack[i].selector # Top.selector
      <4>1. Claims(stack[Len(stack)]) /\ stack[Len(stack)] = Top
        BY DEF Claims, Top, Last
      <4> QED BY <1>2, <2>1, <3>1, <4>1 DEF Apart
    <3> QED BY <3>2, <3>3
  <2>2. CASE ~(IsEvaluation(stack[i]) /\ stack[i].session = id)
    BY <2>2
  <2> QED BY <2>1, <2>2
<1>4. <<>> \in T
  OBVIOUS
<1> HIDE DEF T, n
<1>5. StepFunction(F, n, T)
  <2>1. F \in [1..n -> [T -> T]]
    BY <1>3
  <2> QED BY <2>1 DEF StepFunction
<1>6. PICK g : Run(g, F, <<>>, n, T)
  <2> HIDE DEF F
  <2> QED BY <1>1, <1>4, <1>5, Recursion
<1>7. \A i \in 1..n : g[i] = S(g[i - 1], i)
  <2>1. \A i \in 1..n : i - 1 \in 0..n
    BY <1>1
  <2>2. \A i \in 1..n : g[i - 1] \in T
    BY <1>6, <2>1 DEF Run
  <2> QED BY <1>6, <2>2 DEF Run
<1>8. g = [i \in 0..n |-> IF i = 0 THEN <<>> ELSE S(g[i - 1], i)]
  <2>1. g \in [0..n -> T] /\ g[0] = <<>>
    BY <1>6 DEF Run
  <2>2. \A i \in 0..n : i # 0 => i \in 1..n
    BY <1>1
  <2> HIDE DEF S
  <2> QED BY <1>7, <2>1, <2>2
<1>9. PICK v : /\ v = [i \in 0..n |-> IF i = 0 THEN <<>> ELSE S(v[i - 1], i)]
               /\ ActiveFrom(id, s) = v[n]
  BY <1>8, Zenon DEF n, ActiveFrom
<1>10. v[0] = <<>> /\ \A i \in 1..n : v[i] = S(v[i - 1], i)
  <2> DEFINE b == [i \in 1..n |-> S(v[i - 1], i)]
  <2>1. v = [i \in 0..n |-> IF i = 0 THEN <<>> ELSE b[i]]
    <3>1. \A i \in 0..n : i # 0 => i \in 1..n
      BY <1>1
    <3>2. \A i \in 0..n : i # 0 => b[i] = S(v[i - 1], i)
      <4> HIDE DEF S
      <4> QED BY <3>1
    <3> HIDE DEF b, S
    <3> QED BY <1>9, <3>2
  <2>2. \A i \in 1..n : b[i] = S(v[i - 1], i)
    OBVIOUS
  <2> HIDE DEF b, S
  <2>3. v[0] = <<>> /\ \A i \in 1..n : v[i] = b[i]
    BY <1>1, <2>1, Equations
  <2> QED BY <2>2, <2>3
<1> HIDE DEF S
<1>11. \A i \in 1..n : v[i - 1] \in T => v[i] \in T
  BY <1>3, <1>10
<1>12. \A i \in 0..n : v[i] \in T
  BY <1>1, <1>4, <1>10, <1>11, Stays
<1> QED BY <1>1, <1>9, <1>12 DEF T

\* The selectors among the recorded dependencies, collected one by one.
Collecting(v, s) ==
  LET deps == Deps(record, s) IN
  /\ v[0] = <<>>
  /\ \A i \in 1..Len(deps) :
       v[i] = IF deps[i] \in Selectors THEN Append(v[i - 1], deps[i]) ELSE v[i - 1]
  /\ \A i \in 0..Len(deps) : v[i] \in Seq(Selectors)
LEMMA SelectorDepsSteps ==
  ASSUME RecordsOK, NEW s \in Selectors
  PROVE  /\ Deps(record, s) \in Seq(Nodes)
         /\ \E v : Collecting(v, s) /\ SelectorDeps(s) = v[Len(Deps(record, s))]
<1> DEFINE deps == Deps(record, s)
           n == Len(deps)
           T == Seq(Selectors)
           S(w, i) == IF deps[i] \in Selectors THEN Append(w, deps[i]) ELSE w
           F == [i \in 1..n |-> [w \in T |-> S(w, i)]]
<1>1. deps \in Seq(Nodes)
  BY DEF Deps, RecordsOK, RecordWF, Records
<1> HIDE DEF deps
<1>2. n \in Nat
  BY <1>1
<1>3. \A w \in T : \A i \in 1..n : S(w, i) \in T
  OBVIOUS
<1>4. <<>> \in T
  OBVIOUS
<1> HIDE DEF T, n
<1>5. StepFunction(F, n, T)
  <2>1. F \in [1..n -> [T -> T]]
    BY <1>3
  <2> QED BY <2>1 DEF StepFunction
<1>6. PICK g : Run(g, F, <<>>, n, T)
  <2> HIDE DEF F
  <2> QED BY <1>2, <1>4, <1>5, Recursion
<1>7. \A i \in 1..n : g[i] = S(g[i - 1], i)
  <2>1. \A i \in 1..n : i - 1 \in 0..n
    BY <1>2
  <2>2. \A i \in 1..n : g[i - 1] \in T
    BY <1>6, <2>1 DEF Run
  <2> QED BY <1>6, <2>2 DEF Run
<1>8. g = [i \in 0..n |-> IF i = 0 THEN <<>> ELSE S(g[i - 1], i)]
  <2>1. g \in [0..n -> T] /\ g[0] = <<>>
    BY <1>6 DEF Run
  <2>2. \A i \in 0..n : i # 0 => i \in 1..n
    BY <1>2
  <2> HIDE DEF S
  <2> QED BY <1>7, <2>1, <2>2
<1>9. PICK v : /\ v = [i \in 0..n |-> IF i = 0 THEN <<>> ELSE S(v[i - 1], i)]
               /\ SelectorDeps(s) = v[n]
  BY <1>8, Zenon DEF n, deps, SelectorDeps
<1>10. v[0] = <<>> /\ \A i \in 1..n : v[i] = S(v[i - 1], i)
  <2> DEFINE b == [i \in 1..n |-> S(v[i - 1], i)]
  <2>1. v = [i \in 0..n |-> IF i = 0 THEN <<>> ELSE b[i]]
    <3>1. \A i \in 0..n : i # 0 => i \in 1..n
      BY <1>2
    <3>2. \A i \in 0..n : i # 0 => b[i] = S(v[i - 1], i)
      <4> HIDE DEF S
      <4> QED BY <3>1
    <3> HIDE DEF b, S
    <3> QED BY <1>9, <3>2
  <2>2. \A i \in 1..n : b[i] = S(v[i - 1], i)
    OBVIOUS
  <2> HIDE DEF b, S
  <2>3. v[0] = <<>> /\ \A i \in 1..n : v[i] = b[i]
    BY <1>2, <2>1, Equations
  <2> QED BY <2>2, <2>3
<1>11. \A i \in 1..n : v[i - 1] \in T => v[i] \in T
  <2> HIDE DEF S
  <2> QED BY <1>3, <1>10
<1>12. \A i \in 0..n : v[i] \in T
  <2> HIDE DEF S
  <2> QED BY <1>2, <1>4, <1>10, <1>11, Stays
<1>13. Collecting(v, s)
  BY <1>10, <1>12 DEF Collecting, T, n, deps
<1> QED BY <1>1, <1>9, <1>13 DEF n, deps

\* They are selectors.
LEMMA SelectorDepsOK ==
  ASSUME RecordsOK, NEW s \in Selectors
  PROVE  SelectorDeps(s) \in Seq(Selectors)
<1> DEFINE n == Len(Deps(record, s))
<1>1. Deps(record, s) \in Seq(Nodes)
  BY SelectorDepsSteps
<1>2. n \in 0..n
  BY <1>1
<1>3. PICK v : Collecting(v, s) /\ SelectorDeps(s) = v[n]
  BY SelectorDepsSteps
<1>4. v[n] \in Seq(Selectors)
  BY <1>2, <1>3 DEF Collecting
<1> QED BY <1>3, <1>4

-----------------------------------------------------------------------------
(* Every action keeps the invariant *)

\* A step that leaves the records alone.
LEMMA StackStep ==
  ASSUME IInv, UNCHANGED <<body, value, record, routes, mode, nextToken, reached, before>>,
         dirty' \subseteq Selectors, queue' \in Seq(Selectors), status' \in [Selectors -> Statuses],
         graphVersion' \in Nat, provisional' \in Nat,
         SessionsWF', Len(sessions') = Level(stack', Len(stack') + 1, Base),
         StackOK(stack', Base, record, nextToken)
  PROVE  IInv'
<1>1. DataOK'
  BY DEF IInv, DataOK, RecordsOK, RoutesOK
<1>2. Base' = Base
  BY DEF Base
<1>3. SessionsCounted' /\ StackOK(stack, Base, record, nextToken)'
  BY <1>2 DEF SessionsCounted
<1>4. BeforeOK' /\ ReachesChanged'
  BY DEF IInv, BeforeOK, ReachesChanged, Changed
<1> QED BY <1>1, <1>3, <1>4 DEF IInv

\* One that leaves everything alone but the stack.
LEMMA OnlyStack ==
  ASSUME IInv, UNCHANGED <<body, value, graphVars, mode, nextToken, sessions, before>>,
         Level(stack', Len(stack') + 1, Base) = Level(stack, Len(stack) + 1, Base),
         StackOK(stack', Base, record, nextToken)
  PROVE  IInv'
<1>1. UNCHANGED <<body, value, record, routes, mode, nextToken, reached, before>>
      /\ UNCHANGED <<dirty, queue, status, graphVersion, provisional, sessions>>
  BY DEF graphVars
<1>2. dirty' \subseteq Selectors /\ queue' \in Seq(Selectors) /\ status' \in [Selectors -> Statuses]
      /\ graphVersion' \in Nat /\ provisional' \in Nat
  BY <1>1 DEF IInv, DataOK
<1>3. SessionsWF' /\ Len(sessions') = Level(stack', Len(stack') + 1, Base)
  BY <1>1 DEF IInv, SessionsWF, SessionsCounted
<1> QED BY <1>1, <1>2, <1>3, StackStep

\* What is known of the stack, its last frame and the levels.
LEMMA StackFacts ==
  ASSUME IInv
  PROVE  /\ StackOK(stack, Base, record, nextToken)
         /\ stack \in Seq(Range(stack)) /\ Len(stack) \in Nat /\ DOMAIN stack = 1..Len(stack)
         /\ Base \in Nat
         /\ Level(stack, Len(stack) + 1, Base) = Len(sessions)
         /\ RecordsOK
<1>1. stack \in Seq(Range(stack))
  BY DEF IInv, StackOK
<1>2. Len(stack) \in Nat /\ DOMAIN stack = 1..Len(stack)
  BY <1>1
<1> QED BY <1>1, <1>2 DEF IInv, Base, SessionsCounted, DataOK

LEMMA TopFacts ==
  ASSUME IInv, stack # <<>>
  PROVE  /\ Len(stack) \in Nat \ {0} /\ Len(stack) \in DOMAIN stack /\ Top = stack[Len(stack)]
         /\ Last(stack) = Top
         /\ FrameWF(Top)
         /\ IsEvaluation(Top) => EvaluationWF(Top)
         /\ Top.call = "settle" => SettleWF(Top) /\ ~IsEvaluation(Top)
         /\ Top.session \in Nat /\ Top.session <= Len(sessions)
         /\ Top.call = "settle" => Top.reader <= Len(sessions)
<1>1. stack \in Seq(Range(stack)) /\ Base \in Nat
      /\ Level(stack, Len(stack) + 1, Base) = Len(sessions)
  BY StackFacts
<1>2. Len(stack) \in Nat \ {0} /\ Len(stack) \in DOMAIN stack
  BY <1>1
<1>3. Top = stack[Len(stack)] /\ Last(stack) = Top
  BY DEF Top, Last
<1>4. FrameWF(Top)
  BY <1>2, <1>3 DEF IInv, StackOK
<1>5. /\ IsEvaluation(Top) => EvaluationWF(Top)
      /\ Top.call = "settle" => SettleWF(Top) /\ ~IsEvaluation(Top)
  BY <1>4 DEF FrameWF, IsEvaluation
<1>6. Top.session \in Nat
  BY <1>4, <1>5 DEF FrameWF, IsEvaluation, EvaluationWF, SettleWF
<1>7. Level(stack, Len(stack), Base) <= Len(sessions)
  BY <1>1, <1>2, LevelGrows
<1>8. Top.session <= Level(stack, Len(stack), Base)
      /\ (Top.call = "settle" => Top.reader <= Level(stack, Len(stack), Base))
  BY <1>2, <1>3 DEF IInv, StackOK, Numbered
<1>9. Level(stack, Len(stack), Base) \in Nat /\ Len(sessions) \in Nat
  <2>1. Len(stack) \in Nat /\ Len(stack) + 1 \in Nat
    BY <1>2
  <2>2. Level(stack, Len(stack), Base) \in Nat
    BY <1>1, <2>1, LevelNat
  <2>3. Level(stack, Len(stack) + 1, Base) \in Nat
    BY <1>1, <2>1, LevelNat
  <2> QED BY <1>1, <2>2, <2>3
<1>10. Top.call = "settle" => Top.reader \in Nat
  BY <1>5 DEF SettleWF
<1>11. Top.session <= Len(sessions)
  BY <1>6, <1>7, <1>8, <1>9
<1>12. Top.call = "settle" => Top.reader <= Len(sessions)
  BY <1>7, <1>8, <1>9, <1>10
<1> QED BY <1>2, <1>3, <1>4, <1>5, <1>6, <1>11, <1>12

\* The last frame moves on, without opening a session.
LEMMA TopStep ==
  ASSUME IInv, stack # <<>>, NEW g, FrameWF(g), Kept(Top, g), Waits(stack, g, record),
         Owner(g) <=> Owner(Top)
  PROVE  /\ StackOK(WithTop(g), Base, record, nextToken)
         /\ WithTop(g) # <<>> /\ Len(WithTop(g)) = Len(stack) /\ Last(WithTop(g)) = g
         /\ DOMAIN WithTop(g) = DOMAIN stack
         /\ \A i \in DOMAIN stack : Kept(stack[i], WithTop(g)[i])
         /\ Level(WithTop(g), Len(WithTop(g)) + 1, Base) = Len(sessions)
<1> DEFINE more == WithTop(g)
<1>1. StackOK(stack, Base, record, nextToken) /\ Base \in Nat
      /\ Level(stack, Len(stack) + 1, Base) = Len(sessions)
  BY StackFacts
<1>2. Last(stack) = Top
  BY DEF Top
<1>3. /\ StackOK(more, Base, record, nextToken)
      /\ more # <<>> /\ Len(more) = Len(stack) /\ Len(stack) \in Nat \ {0} /\ Last(more) = g
      /\ DOMAIN more = DOMAIN stack
      /\ \A i \in DOMAIN stack : Kept(stack[i], more[i])
      /\ Level(more, Len(stack), Base) = Level(stack, Len(stack), Base)
  BY <1>1, <1>2, TopOK DEF WithTop
<1> HIDE DEF more
<1>4. Level(more, Len(more) + 1, Base) = Level(stack, Len(stack) + 1, Base)
  BY <1>1, <1>2, <1>3, LevelTop
<1> QED BY <1>1, <1>3, <1>4 DEF more

\* ReadActive: the read of a selector in evaluation fails.
LEMMA ReadActiveInductive == IInv /\ ReadActive /\ UNCHANGED history => IInv'
<1> SUFFICES ASSUME IInv, ReadActive, UNCHANGED history PROVE IInv'
  OBVIOUS
<1> DEFINE x == ActiveFrom(Top.session, NextRead(Top))
           g == [Top EXCEPT !.cycle = x, !.at = "failed"]
<1>1. stack # <<>> /\ IsEvaluation(Top) /\ Top.at = "running"
      /\ stack' = WithTop(g)
      /\ UNCHANGED <<body, value, graphVars, mode, nextToken, sessions, before>>
  BY DEF ReadActive, EvaluationAt, history
<1>2. x \in Seq(Selectors \ {Top.selector})
  BY <1>1, StackFacts, ActiveFromOK
<1> HIDE DEF x
<1>3. FrameWF(g) /\ IsEvaluation(g) /\ Kept(Top, g) /\ g.at = "failed"
  <2>1. FrameWF(Top)
    BY <1>1, TopFacts
  <2> QED BY <1>1, <1>2, <2>1, FailedOK
<1> HIDE DEF g
<1>4. Waits(stack, g, record)
  BY <1>3 DEF Waits
<1>5. Owner(g) <=> Owner(Top)
  BY <1>1, <1>3 DEF Owner, IsEvaluation
<1>6. StackOK(WithTop(g), Base, record, nextToken)
      /\ Level(WithTop(g), Len(WithTop(g)) + 1, Base) = Len(sessions)
  BY <1>1, <1>3, <1>4, <1>5, TopStep
<1>7. Level(stack, Len(stack) + 1, Base) = Len(sessions)
  BY StackFacts
<1> QED BY <1>1, <1>6, <1>7, OnlyStack

\* What a getter reads next is a node, as long as it may read.
LEMMA NextReadOK ==
  ASSUME body \in Programs, NEW f, EvaluationWF(f), f.at = "running"
  PROVE  NextRead(f) \in Nodes \cup {None} /\ (NextRead(f) # None => Len(f.reads) < MaxReads)
<1>1. f.reads \in Seq(Values) /\ Len(f.reads) <= MaxReads /\ f.selector \in Selectors
  BY DEF EvaluationWF, ReadsWF
<1>2. Len(f.reads) \in Nat /\ MaxReads \in Nat \ {0}
  BY <1>1, MaxReadsAssumption
<1>3. CASE Len(f.reads) = MaxReads
  BY <1>3 DEF NextRead
<1>4. CASE Len(f.reads) # MaxReads
  <2>1. Len(f.reads) \in 0..MaxReads - 1 /\ Len(f.reads) < MaxReads
    BY <1>1, <1>2, <1>4
  <2>2. f.reads \in [1..Len(f.reads) -> Values]
    BY <1>1
  <2>3. f.reads \in Decisions
    BY <2>1, <2>2 DEF Decisions, BoundedSeq, SeqOf
  <2>4. body[f.selector] \in Bodies
    BY <1>1, ProgramsAssumption
  <2>5. body[f.selector].next \in [Decisions -> Nodes \cup {None}]
    BY <2>4 DEF Bodies
  <2> QED BY <1>4, <2>1, <2>3, <2>5 DEF NextRead
<1> QED BY <1>3, <1>4

\* Pushing no frame or one.
LEMMA PushCases ==
  ASSUME NEW stk, stk \in Seq(Range(stk)), NEW f
  PROVE  stk \o <<>> = stk /\ stk \o <<f>> = Append(stk, f)
<1>1. stk \o <<>> = stk
  OBVIOUS
<1> DEFINE S == Range(stk) \cup {f}
<1>2. stk \in Seq(S) /\ f \in S
  BY SeqMonotonic
<1>3. stk \o <<f>> = Append(stk, f)
  <2> HIDE DEF S
  <2> QED BY <1>2, AppendIsConcat
<1> QED BY <1>1, <1>3

\* The evaluation reads a node: it waits for it, unless it is an atom.
LEMMA ReadFrame ==
  ASSUME NEW f, FrameWF(f), IsEvaluation(f), f.at = "running", Len(f.reads) < MaxReads,
         NEW d \in Nodes
  PROVE  LET g == [f EXCEPT !.pending = d, !.at = IF d \in Atoms THEN "served" ELSE "serving"] IN
         /\ FrameWF(g) /\ IsEvaluation(g) /\ Kept(f, g)
         /\ g.pending = d /\ g.at = IF d \in Atoms THEN "served" ELSE "serving"
         /\ g.session = f.session /\ g.selector = f.selector
<1> DEFINE at == IF d \in Atoms THEN "served" ELSE "serving"
           g == [f EXCEPT !.pending = d, !.at = at]
<1>1. EvaluationWF(f) /\ f.call = "evaluate"
  BY DEF FrameWF, IsEvaluation
<1>2. at \in {"served", "serving"} /\ (at = "serving" => d \in Selectors) /\ d # None
  BY NoneAssumption DEF Nodes
<1> HIDE DEF at
<1>3. /\ DOMAIN g = DOMAIN f /\ g.call = f.call /\ g.selector = f.selector
      /\ g.session = f.session /\ g.at = at /\ g.pending = d /\ g.reads = f.reads
      /\ g.deps = f.deps /\ g.tokens = f.tokens /\ g.baseline = f.baseline /\ g.cycle = f.cycle
  BY <1>1 DEF EvaluationWF, EvaluationFields
<1> HIDE DEF g
<1>4. ReadsWF(g)
  BY <1>1, <1>2, <1>3 DEF ReadsWF, EvaluationWF
<1>5. EvaluationWF(g)
  BY <1>1, <1>2, <1>3, <1>4 DEF EvaluationWF
<1>6. FrameWF(g) /\ IsEvaluation(g) /\ Kept(f, g)
  BY <1>1, <1>3, <1>5 DEF FrameWF, IsEvaluation, Kept, Claims
<1> QED BY <1>3, <1>6 DEF g, at

\* Read: the evaluation waits for what it reads; a propagation settles it first.
LEMMA ReadInductive == IInv /\ Read(Serving) /\ UNCHANGED history => IInv'
<1> SUFFICES ASSUME IInv, Read(Serving), UNCHANGED history PROVE IInv'
  OBVIOUS
<1> DEFINE d == NextRead(Top)
           g == [Top EXCEPT !.pending = d, !.at = IF d \in Atoms THEN "served" ELSE "serving"]
           more == WithTop(g)
           f == Settling(d, Top.session, Top.session)
<1>1. stack # <<>> /\ IsEvaluation(Top) /\ Top.at = "running" /\ d # None
      /\ (d \in Atoms \/ ~IsActive(Top.session, d))
      /\ stack' = more \o (IF d \in Selectors THEN Serving ELSE <<>>)
      /\ UNCHANGED <<body, value, graphVars, mode, nextToken, sessions, before>>
  BY DEF Read, EvaluationAt, history
<1>2. FrameWF(Top) /\ EvaluationWF(Top) /\ Top.session \in Nat \ {0} /\ Top.session <= Len(sessions)
  <2>1. FrameWF(Top) /\ EvaluationWF(Top) /\ Top.session <= Len(sessions)
    BY <1>1, TopFacts
  <2> QED BY <2>1 DEF EvaluationWF
<1>3. d \in Nodes /\ Len(Top.reads) < MaxReads
  BY <1>1, <1>2, NextReadOK DEF IInv, DataOK
<1> HIDE DEF d
<1>4. /\ FrameWF(g) /\ IsEvaluation(g) /\ Kept(Top, g)
      /\ g.pending = d /\ g.at = (IF d \in Atoms THEN "served" ELSE "serving")
      /\ g.session = Top.session /\ g.selector = Top.selector
  BY <1>1, <1>2, <1>3, ReadFrame
<1> HIDE DEF g
<1>5. ASSUME d \notin Atoms, NEW i \in DOMAIN stack, IsEvaluation(stack[i]),
             stack[i].session = Top.session
      PROVE  stack[i].selector # d
  BY <1>1, <1>5 DEF IsActive
<1>6. Waits(stack, g, record)
  <2>1. d \in Atoms => d \notin Selectors
    BY NodesAssumption
  <2>2. CASE d \in Atoms
    BY <1>4, <2>1, <2>2 DEF Waits
  <2>3. CASE d \notin Atoms
    BY <1>4, <1>5, <2>3 DEF Waits
  <2> QED BY <2>2, <2>3
<1>7. Owner(g) <=> Owner(Top)
  BY <1>1, <1>4 DEF Owner, IsEvaluation
<1>8. /\ StackOK(more, Base, record, nextToken)
      /\ DOMAIN more = DOMAIN stack
      /\ \A i \in DOMAIN stack : Kept(stack[i], more[i])
      /\ Level(more, Len(more) + 1, Base) = Len(sessions)
  BY <1>1, <1>4, <1>6, <1>7, TopStep
<1>9. Level(stack, Len(stack) + 1, Base) = Len(sessions) /\ Base \in Nat
  BY StackFacts
<1> HIDE DEF more
<1>10. more \in Seq(Range(more))
  BY <1>8 DEF StackOK
<1>11. stack' = more \/ (d \in Selectors /\ stack' = Append(more, f))
  <2>1. more \o <<>> = more /\ more \o <<f>> = Append(more, f)
    BY <1>10, PushCases
  <2>2. Serving = <<>> \/ Serving = <<f>>
    BY DEF Serving, d
  <2> HIDE DEF f
  <2> QED BY <1>1, <2>1, <2>2
<1>12. CASE stack' = more
  BY <1>1, <1>8, <1>9, <1>12, OnlyStack
<1>13. CASE d \in Selectors /\ stack' = Append(more, f)
  <2>1. /\ FrameWF(f)
        /\ f.call = "settle" /\ f.selector = d /\ f.session = Top.session /\ f.reader = Top.session
        /\ ~Owner(f)
    BY <1>2, <1>13, SettlingOK
  <2> HIDE DEF f
  <2>2. d \notin Atoms
    BY <1>13, NodesAssumption
  <2>3. \A i \in DOMAIN more : IsEvaluation(more[i]) /\ more[i].session = f.session =>
                                 more[i].selector # f.selector
    BY <1>5, <1>8, <2>1, <2>2 DEF Kept, IsEvaluation
  <2>4. ~IsEvaluation(f) /\ TakesBaseline(f, record, nextToken)
    BY <2>1 DEF IsEvaluation, TakesBaseline, HasToken
  <2>5. StackOK(Append(more, f), Base, record, nextToken)
    BY <1>2, <1>8, <2>1, <2>3, <2>4, PushOK
  <2>6. Level(Append(more, f), Len(Append(more, f)) + 1, Base) = Len(sessions)
    BY <1>8, <1>9, <1>10, <2>1, LevelPush
  <2> QED BY <1>1, <1>9, <1>13, <2>5, <2>6, OnlyStack
<1> QED BY <1>11, <1>12, <1>13

\* The evaluation is about to be served what it waits for.
LEMMA ServedFrame ==
  ASSUME NEW f, FrameWF(f), IsEvaluation(f), f.at = "serving"
  PROVE  LET g == [f EXCEPT !.at = "served"] IN
         /\ FrameWF(g) /\ IsEvaluation(g) /\ Kept(f, g)
         /\ g.pending = f.pending /\ g.at = "served"
         /\ g.session = f.session /\ g.selector = f.selector
<1> DEFINE g == [f EXCEPT !.at = "served"]
<1>1. EvaluationWF(f) /\ f.call = "evaluate"
  BY DEF FrameWF, IsEvaluation
<1>2. /\ DOMAIN g = DOMAIN f /\ g.call = f.call /\ g.selector = f.selector
      /\ g.session = f.session /\ g.at = "served" /\ g.pending = f.pending /\ g.reads = f.reads
      /\ g.deps = f.deps /\ g.tokens = f.tokens /\ g.baseline = f.baseline /\ g.cycle = f.cycle
  BY <1>1 DEF EvaluationWF, EvaluationFields
<1> HIDE DEF g
<1>3. ReadsWF(g)
  BY <1>1, <1>2 DEF ReadsWF, EvaluationWF
<1>4. EvaluationWF(g)
  BY <1>1, <1>2, <1>3 DEF EvaluationWF
<1>5. FrameWF(g) /\ IsEvaluation(g) /\ Kept(f, g)
  BY <1>1, <1>2, <1>4 DEF FrameWF, IsEvaluation, Kept, Claims
<1> QED BY <1>2, <1>5 DEF g

\* An evaluation is pushed for the read of the one below, which is served by it.
LEMMA ServeOK ==
  ASSUME NEW base \in Nat, NEW stk, StackOK(stk, base, record, nextToken), stk # <<>>,
         IsEvaluation(Last(stk)), Last(stk).at = "serving",
         NEW g, FrameWF(g), IsEvaluation(g), Kept(Last(stk), g),
         g.at = "served", g.pending = Last(stk).pending,
         NEW f, FrameWF(f), IsEvaluation(f), f.at = "running", f.selector = g.pending,
         f.session = g.session, TakesBaseline(f, record, nextToken)
  PROVE  StackOK(Append([stk EXCEPT ![Len(stk)] = g], f), base, record, nextToken)
<1> DEFINE n == Len(stk)
           low == [stk EXCEPT ![n] = g]
           high == Append(stk, f)
           more == Append(low, f)
<1>1. /\ low \in Seq(Range(low))
      /\ n \in Nat \ {0} /\ Len(low) = n
      /\ DOMAIN stk = 1..n
      /\ \A i \in DOMAIN stk : i # n => low[i] = stk[i]
      /\ low[n] = g
  BY ReplaceSeq DEF StackOK
<1>2. /\ high \in Seq(Range(high)) /\ Len(high) = n + 1 /\ high # <<>>
      /\ DOMAIN high = 1..(n + 1)
      /\ \A i \in DOMAIN stk : high[i] = stk[i]
      /\ high[n + 1] = f
  BY PushSeq DEF StackOK
<1>3. Last(stk) = stk[n] /\ n \in DOMAIN stk
  BY <1>1 DEF Last
<1> HIDE DEF low, high, n
<1>4. /\ more \in Seq(Range(more)) /\ Len(more) = n + 1 /\ DOMAIN more = 1..(n + 1)
      /\ \A i \in DOMAIN low : more[i] = low[i]
      /\ more[n + 1] = f /\ DOMAIN low = 1..n
  BY <1>1, PushSeq
<1> HIDE DEF more
<1>5. f.session = stk[n].session /\ f.selector = stk[n].pending
  BY <1>3 DEF Kept
<1>6. StackOK(high, base, record, nextToken)
  <2>1. f.session <= Level(stk, n + 1, base)
    <3>1. stk[n].session <= Level(stk, n, base)
      BY <1>3 DEF StackOK, Numbered
    <3>2. Level(stk, n, base) <= Level(stk, n + 1, base)
      BY <1>1, LevelGrows
    <3>3. Level(stk, n, base) \in Nat
      BY <1>1, LevelNat
    <3>4. Level(stk, n + 1, base) \in Nat
      <4>1. n + 1 \in Nat
        BY <1>1
      <4> QED BY <4>1, LevelNat
    <3>5. f.session \in Nat
      BY DEF FrameWF, IsEvaluation, EvaluationWF
    <3> QED BY <1>5, <3>1, <3>2, <3>3, <3>4, <3>5
  <2>2. \A i \in DOMAIN stk : IsEvaluation(stk[i]) /\ stk[i].session = f.session =>
                                stk[i].selector # f.selector
    <3>1. Serveable(stk) /\ \A i \in DOMAIN stk : i <= n
      BY <1>1 DEF StackOK
    <3> QED BY <1>3, <1>5, <3>1 DEF Serveable
  <2>3. f.call # "settle"
    BY DEF IsEvaluation
  <2> QED BY <2>1, <2>2, <2>3, PushOK DEF high, n
<1>7. \A i \in 1..(n + 1) : i \in 1..n \/ i = n + 1
  BY <1>1
<1>8. \A i \in 1..n : i # n => more[i] = stk[i] /\ high[i] = stk[i]
  BY <1>1, <1>2, <1>4
<1>9. more[n] = g /\ high[n] = stk[n] /\ n \in 1..n
  BY <1>1, <1>2, <1>3, <1>4
<1>10. \A i \in 1..(n + 1) : FrameWF(more[i]) /\ Kept(high[i], more[i])
  <2> TAKE i \in 1..(n + 1)
  <2>1. CASE i = n
    BY <1>3, <1>9, <2>1
  <2>2. CASE i # n
    <3>1. more[i] = high[i]
      BY <1>2, <1>4, <1>7, <1>8, <2>2
    <3>2. FrameWF(high[i])
      BY <1>2, <1>6 DEF StackOK
    <3> QED BY <3>1, <3>2 DEF Kept
  <2> QED BY <2>1, <2>2
<1>11. \A i \in 1..(n + 1) : i # n + 1 => (Owner(more[i]) <=> Owner(high[i]))
  <2> TAKE i \in 1..(n + 1)
  <2>1. CASE i = n
    BY <1>3, <1>9, <2>1 DEF Owner, IsEvaluation
  <2>2. CASE i # n
    BY <1>2, <1>4, <1>7, <1>8, <2>2
  <2> QED BY <2>1, <2>2
<1>12. Moved(high, more)
  BY <1>2, <1>4, <1>10, <1>11 DEF Moved
<1>13. \A i \in 1..(n + 1) : /\ IsEvaluation(more[i]) <=> IsEvaluation(high[i])
                             /\ more[i].selector = high[i].selector
                             /\ more[i].session = high[i].session
                             /\ i # n => more[i] = high[i]
  BY <1>2, <1>4, <1>7, <1>8, <1>10 DEF Kept, IsEvaluation
<1>14. Serveable(more)
  <2> SUFFICES ASSUME NEW i \in 1..(n + 1), NEW j \in 1..(n + 1),
                      IsEvaluation(more[i]), more[i].session = more[j].session,
                      i <= j, IsEvaluation(more[j]), more[j].at = "serving"
               PROVE  more[i].selector # more[j].pending
    BY <1>4 DEF Serveable
  <2>1. j # n
    BY <1>9
  <2>2. Serveable(high) /\ more[j] = high[j]
    BY <1>6, <1>13, <2>1 DEF StackOK
  <2> QED BY <1>2, <1>13, <2>2 DEF Serveable
<1>15. Awaits(more, record)
  <2> SUFFICES ASSUME NEW i \in 1..(n + 1), IsEvaluation(more[i]), more[i].at = "served",
                      more[i].pending \in Selectors, record[more[i].pending] = None
               PROVE  /\ i + 1 \in 1..(n + 1)
                      /\ IsEvaluation(more[i + 1])
                      /\ more[i + 1].selector = more[i].pending
    BY <1>4 DEF Awaits
  <2>1. CASE i = n
    BY <1>1, <1>4, <1>9, <2>1
  <2>2. CASE i # n
    <3>1. Awaits(high, record) /\ more[i] = high[i]
      BY <1>6, <1>13, <2>2 DEF StackOK
    <3> QED BY <1>2, <1>13, <3>1 DEF Awaits
  <2> QED BY <2>1, <2>2
<1>16. StackOK(more, base, record, nextToken)
  BY <1>6, <1>12, <1>14, <1>15, MovedOK
<1> QED BY <1>16 DEF more, low, n

\* Serve: what has a current record is served, what has not is evaluated.
LEMMA ServeInductive == IInv /\ Serve /\ UNCHANGED history => IInv'
<1> SUFFICES ASSUME IInv, Serve, UNCHANGED history PROVE IInv'
  OBVIOUS
<1> DEFINE d == Top.pending
           g == [Top EXCEPT !.at = "served"]
           more == WithTop(g)
           f == Evaluation(d, Top.session, Publications(Top.session))
           current == record[d] # None /\ d \notin dirty
<1>1. stack # <<>> /\ IsEvaluation(Top) /\ Top.at = "serving"
      /\ stack' = more \o (IF current THEN <<>> ELSE <<f>>)
      /\ UNCHANGED <<body, value, graphVars, mode, nextToken, sessions, before>>
  BY DEF Serve, EvaluationAt, history
<1>2. FrameWF(Top) /\ EvaluationWF(Top) /\ Top.session \in Nat \ {0} /\ d \in Selectors
  <2>1. FrameWF(Top) /\ EvaluationWF(Top)
    BY <1>1, TopFacts
  <2> QED BY <1>1, <2>1 DEF EvaluationWF, ReadsWF
<1>3. /\ FrameWF(g) /\ IsEvaluation(g) /\ Kept(Top, g)
      /\ g.pending = d /\ g.at = "served"
      /\ g.session = Top.session /\ g.selector = Top.selector
  BY <1>1, <1>2, ServedFrame
<1>4. Owner(g) <=> Owner(Top)
  BY <1>1, <1>3 DEF Owner, IsEvaluation
<1>5. Level(stack, Len(stack) + 1, Base) = Len(sessions) /\ Base \in Nat
      /\ StackOK(stack, Base, record, nextToken) /\ RecordsOK
      /\ stack \in Seq(Range(stack))
  BY StackFacts
<1>6. Last(stack) = Top
  BY DEF Top
<1> HIDE DEF g, d
<1>7. CASE current
  <2>1. Waits(stack, g, record)
    BY <1>3, <1>7 DEF Waits
  <2>2. StackOK(more, Base, record, nextToken)
        /\ Level(more, Len(more) + 1, Base) = Len(sessions)
    BY <1>1, <1>3, <1>4, <2>1, TopStep
  <2> HIDE DEF more
  <2>3. more \in Seq(Range(more))
    BY <2>2 DEF StackOK
  <2>4. stack' = more
    <3>1. more \o <<>> = more
      BY <2>3, PushCases
    <3> QED BY <1>1, <1>7, <3>1
  <2> QED BY <1>1, <1>5, <2>2, <2>4, OnlyStack
<1>8. CASE ~current
  <2>1. /\ FrameWF(f)
        /\ f.call = "evaluate" /\ f.at = "running" /\ f.selector = d /\ f.session = Top.session
        /\ TakesBaseline(f, record, nextToken)
    BY <1>2, <1>5, EvaluationOK DEF d
  <2> HIDE DEF f
  <2>2. IsEvaluation(f) /\ ~Owner(f)
    BY <2>1 DEF IsEvaluation, Owner
  <2>3. StackOK(Append(more, f), Base, record, nextToken)
    BY <1>1, <1>3, <1>5, <1>6, <2>1, <2>2, ServeOK DEF WithTop, d
  <2>4. /\ more \in Seq(Range(more)) /\ Len(more) = Len(stack) /\ Len(stack) \in Nat \ {0}
        /\ more[Len(stack)] = g
        /\ DOMAIN stack = 1..Len(stack)
        /\ \A i \in DOMAIN stack : i # Len(stack) => more[i] = stack[i]
    BY <1>1, <1>5, ReplaceSeq DEF WithTop
  <2> HIDE DEF more
  <2>5. Level(more, Len(more) + 1, Base) = Len(sessions)
    <3> DEFINE n == Len(stack)
    <3>1. n \in Nat \ {0} /\ \A j \in 1..n - 1 : j \in 1..n /\ j # n
      BY <2>4
    <3>2. \A j \in 1..n - 1 : more[j] = stack[j]
      BY <2>4, <3>1
    <3>3. Level(more, n, Base) = Level(stack, n, Base)
      BY <3>1, <3>2, LevelPrefix
    <3>4. Last(more) = g
      BY <2>4 DEF Last
    <3>5. ~Owner(g) /\ ~Owner(Top)
      BY <1>1, <1>4 DEF Owner, IsEvaluation
    <3>6. Level(more, n + 1, Base) = Level(more, n, Base)
      BY <1>5, <2>4, <3>1, <3>4, <3>5, LevelTop
    <3>7. Level(stack, n + 1, Base) = Level(stack, n, Base)
      BY <1>5, <1>6, <3>1, <3>5, LevelTop
    <3> QED BY <1>5, <2>4, <3>3, <3>6, <3>7
  <2>6. Level(Append(more, f), Len(Append(more, f)) + 1, Base) = Len(sessions)
    BY <1>5, <2>2, <2>4, <2>5, LevelPush
  <2>7. stack' = Append(more, f)
    <3>1. more \o <<f>> = Append(more, f)
      BY <2>4, PushCases
    <3> QED BY <1>1, <1>8, <3>1
  <2> QED BY <1>1, <1>5, <2>3, <2>6, <2>7, OnlyStack
<1> QED BY <1>7, <1>8

\* Accept: the prefix is proved again, and the getter runs on or fails.
LEMMA AcceptInductive == IInv /\ Accept /\ UNCHANGED history => IInv'
<1> SUFFICES ASSUME IInv, Accept, UNCHANGED history PROVE IInv'
  OBVIOUS
<1> DEFINE d == Top.pending
           stk == Revalidated(stack)
           out == IF d \in Atoms THEN value[d] ELSE record[d].out
           token == IF d \in Atoms THEN None ELSE record[d].token
           g == AfterServe(stk, Last(stk), d, out, token)
           more == [stk EXCEPT ![Len(stk)] = g]
<1>1. stack # <<>> /\ IsEvaluation(Top) /\ Top.at = "served"
      /\ stack' = more
      /\ UNCHANGED <<body, value, graphVars, mode, nextToken, sessions, before>>
  BY DEF Accept, EvaluationAt, history
<1>2. Level(stack, Len(stack) + 1, Base) = Len(sessions) /\ Base \in Nat
      /\ StackOK(stack, Base, record, nextToken) /\ RecordsOK
      /\ stack \in Seq(Range(stack)) /\ DOMAIN stack = 1..Len(stack)
  BY StackFacts
<1>3. FrameWF(Top) /\ EvaluationWF(Top) /\ Top = Last(stack) /\ Len(stack) \in Nat \ {0}
      /\ Len(stack) \in DOMAIN stack /\ Top = stack[Len(stack)]
  BY <1>1, TopFacts
<1>4. d \in Nodes
  BY <1>1, <1>3 DEF EvaluationWF, ReadsWF
<1>5. out \in Values \cup {Error} /\ token \in Nat \cup {None}
  <2>1. CASE d \in Atoms
    BY <2>1 DEF IInv, DataOK
  <2>2. CASE d \notin Atoms
    <3>1. d \in Selectors
      BY <1>4, <2>2 DEF Nodes
    <3>2. Len(stack) + 1 \notin DOMAIN stack
      BY <1>2, <1>3
    <3>3. record[d] # None
      BY <1>1, <1>2, <1>3, <3>1, <3>2 DEF StackOK, Awaits
    <3> QED BY <1>2, <2>2, <3>1, <3>3 DEF RecordsOK, RecordWF, Records
  <2> QED BY <2>1, <2>2
<1> HIDE DEF out, token, d
<1>6. Moved(stack, stk) /\ \A i \in DOMAIN stack : Quiet(stack[i], stk[i])
  <2>1. \A i \in DOMAIN stack : FrameWF(stack[i])
    BY <1>2 DEF StackOK
  <2> QED BY <1>1, <1>2, <1>3, <2>1, RevalidatedOK
<1> HIDE DEF stk
<1>7. StackOK(stk, Base, record, nextToken)
  BY <1>2, <1>6, QuietOK
<1>8. /\ Len(stk) = Len(stack) /\ Last(stk) = stk[Len(stack)] /\ stk # <<>>
      /\ FrameWF(Last(stk)) /\ Kept(Top, Last(stk)) /\ Quiet(Top, Last(stk))
  <2>1. Len(stk) = Len(stack) /\ Last(stk) = stk[Len(stack)]
    BY <1>6 DEF Moved, Last
  <2>2. stk # <<>>
    BY <1>3, <1>7, <2>1 DEF StackOK
  <2> QED BY <1>3, <1>6, <2>1, <2>2 DEF Moved
<1>9. IsEvaluation(Last(stk)) /\ Last(stk).at = "served" /\ Last(stk).pending = d
  BY <1>1, <1>8 DEF Kept, Quiet, IsEvaluation, d
<1>10. FrameWF(g) /\ IsEvaluation(g) /\ Kept(Last(stk), g) /\ g.at \in {"running", "failed"}
  BY <1>5, <1>8, <1>9, AfterServeOK
<1> HIDE DEF g
<1>11. Waits(stk, g, record)
  BY <1>10 DEF Waits
<1>12. /\ StackOK(more, Base, record, nextToken)
       /\ Len(more) = Len(stk) /\ Last(more) = g
       /\ Level(more, Len(stk), Base) = Level(stk, Len(stk), Base)
  BY <1>2, <1>7, <1>8, <1>10, <1>11, TopOK
<1>13. Level(more, Len(more) + 1, Base) = Level(stack, Len(stack) + 1, Base)
  <2> DEFINE n == Len(stack)
  <2> HIDE DEF more
  <2>1. n \in Nat \ {0}
    BY <1>3
  <2>2. ~Owner(g) /\ ~Owner(Top)
    BY <1>1, <1>10 DEF Owner, IsEvaluation
  <2>3. Level(more, n + 1, Base) = Level(more, n, Base)
    BY <1>2, <1>8, <1>12, <2>1, <2>2, LevelTop
  <2>4. Level(stack, n + 1, Base) = Level(stack, n, Base)
    BY <1>2, <1>3, <2>1, <2>2, LevelTop
  <2>5. Level(stk, n, Base) = Level(stack, n, Base)
    <3>1. \A j \in 1..n - 1 : Owner(stk[j]) <=> Owner(stack[j])
      <4>1. ASSUME NEW k \in Nat \ {0}, NEW j \in 1..k - 1
            PROVE  j \in 1..k /\ j # k
        BY <4>1
      <4>2. \A j \in 1..n - 1 : j \in DOMAIN stack /\ j # Len(stack)
        BY <1>2, <2>1, <4>1
      <4> QED BY <1>6, <4>2 DEF Moved
    <3>2. Owners(stk, n) = Owners(stack, n)
      BY <3>1 DEF Owners
    <3> QED BY <3>2 DEF Level
  <2> QED BY <1>8, <1>12, <2>3, <2>4, <2>5
<1> QED BY <1>1, <1>12, <1>13, OnlyStack

\* A step may put what it marks into the queue in any order.
LEMMA SetToSeqsOK ==
  ASSUME NEW E \in SUBSET Selectors, NEW some \in SetToSeqs(E)
  PROVE  some \in Seq(Selectors)
<1>1. IsFiniteSet(E)
  BY NodesAssumption, FS_Subset
<1>2. Cardinality(E) \in Nat
  BY <1>1, FS_CardinalityType
<1>3. some \in [1..Cardinality(E) -> E]
  BY DEF SetToSeqs
<1> QED BY <1>2, <1>3

\* An empty stack waits for nothing, and one of a single frame opened nothing.
LEMMA EmptyOK ==
  ASSUME NEW base, NEW recs, NEW next
  PROVE  StackOK(<<>>, base, recs, next)
<1>1. <<>> \in Seq(Range(<<>>)) /\ DOMAIN <<>> = {}
  BY SeqOfRange
<1> QED BY <1>1 DEF StackOK, Numbered, Apart, Serveable, Awaits, Baselines

LEMMA LevelSingle ==
  ASSUME NEW base \in Nat, NEW f, ~Owner(f)
  PROVE  Level(<<f>>, Len(<<f>>) + 1, base) = base
<1>1. <<>> \in Seq(Range(<<>>)) /\ Len(<<>>) + 1 = 1
  BY SeqOfRange
<1>2. Level(Append(<<>>, f), Len(Append(<<>>, f)) + 1, base) = Level(<<>>, Len(<<>>) + 1, base)
  BY <1>1, LevelPush
<1>3. Level(<<>>, Len(<<>>) + 1, base) = base
  BY <1>1, LevelEmpty
<1>4. Append(<<>>, f) = <<f>>
  OBVIOUS
<1> QED BY <1>2, <1>3, <1>4

\* SettleNext: the next selector of the queue, in no session.
LEMMA SettleNextInductive == IInv /\ SettleNext => IInv'
<1> SUFFICES ASSUME IInv, SettleNext PROVE IInv'
  OBVIOUS
<1> DEFINE s == Head(queue)
           f == Settling(s, 0, 0)
<1>1. /\ stack = <<>> /\ queue # <<>> /\ queue' = Tail(queue) /\ stack' = <<f>>
      /\ UNCHANGED <<body, value, record, routes, mode, nextToken, reached, before>>
      /\ UNCHANGED <<dirty, status, graphVersion, provisional, sessions>>
  BY DEF SettleNext, history
<1>2. s \in Selectors /\ queue' \in Seq(Selectors)
  BY <1>1 DEF IInv, DataOK
<1>3. Base \in Nat /\ Level(stack, Len(stack) + 1, Base) = Len(sessions)
  BY StackFacts
<1>4. Len(sessions) = Base
  <2>1. Len(<<>>) + 1 = 1
    OBVIOUS
  <2> QED BY <1>1, <1>3, <2>1, LevelEmpty
<1>5. FrameWF(f) /\ f.call = "settle" /\ f.session = 0 /\ f.reader = 0 /\ ~Owner(f)
  BY <1>2, SettlingOK
<1> HIDE DEF f, s
<1>6. ~IsEvaluation(f) /\ TakesBaseline(f, record, nextToken)
  BY <1>5 DEF IsEvaluation, TakesBaseline, HasToken
<1>7. StackOK(<<f>>, Base, record, nextToken)
  BY <1>3, <1>5, <1>6, SingleOK
<1>8. Level(<<f>>, Len(<<f>>) + 1, Base) = Base
  BY <1>3, <1>5, LevelSingle
<1>9. SessionsWF' /\ Len(sessions') = Level(stack', Len(stack') + 1, Base)
  BY <1>1, <1>4, <1>8 DEF IInv, SessionsWF
<1>10. dirty' \subseteq Selectors /\ status' \in [Selectors -> Statuses]
       /\ graphVersion' \in Nat /\ provisional' \in Nat
  BY <1>1 DEF IInv, DataOK
<1> QED BY <1>1, <1>2, <1>7, <1>9, <1>10, StackStep

\* Get: a read opens the first session for its evaluation.
LEMMA GetInductive ==
  ASSUME IInv, NEW s \in Selectors, Get(s)
  PROVE  IInv'
<1> DEFINE f == Evaluation(s, 1, 0)
<1>1. /\ mode' = "reading" /\ sessions' = <<[outer |-> 0, publications |-> 0]>>
      /\ stack' = <<f>> /\ before' = Outcomes
      /\ UNCHANGED <<body, value, record, dirty, routes, queue, status, graphVersion, provisional,
                     reached, nextToken>>
  BY DEF Get, graphVars
<1>2. DataOK'
  BY <1>1 DEF IInv, DataOK, RecordsOK, RoutesOK
<1>3. SessionsWF' /\ Len(sessions') = 1
  <2> DEFINE first == [outer |-> 0, publications |-> 0]
  <2>1. DOMAIN first = {"outer", "publications"} /\ first.outer = 0 /\ first.publications = 0
    OBVIOUS
  <2> HIDE DEF first
  <2>2. sessions' = <<first>>
    BY <1>1 DEF first
  <2>3. <<first>> \in Seq({first}) /\ Len(<<first>>) = 1 /\ DOMAIN <<first>> = {1}
        /\ <<first>>[1] = first
    OBVIOUS
  <2>4. <<first>> \in Seq(Range(<<first>>))
    BY <2>3, SeqOfRange
  <2> QED BY <2>1, <2>2, <2>3, <2>4 DEF SessionsWF
<1>4. Base' = 1
  BY <1>1 DEF Base
<1>5. /\ FrameWF(f)
      /\ f.call = "evaluate" /\ f.at = "running" /\ f.session = 1
      /\ TakesBaseline(f, record, nextToken)
  BY EvaluationOK, StackFacts
<1> HIDE DEF f
<1>6. ~Owner(f) /\ f.call # "settle"
  BY <1>5 DEF Owner
<1>7. StackOK(<<f>>, 1, record, nextToken)
  BY <1>5, <1>6, SingleOK
<1>8. Level(<<f>>, Len(<<f>>) + 1, 1) = 1
  BY <1>6, LevelSingle
<1>9. SessionsCounted' /\ StackOK(stack, Base, record, nextToken)'
  BY <1>1, <1>3, <1>4, <1>7, <1>8 DEF SessionsCounted
<1>10. BeforeOK' /\ ReachesChanged'
  BY <1>1 DEF Outcomes, BeforeOK, ReachesChanged, Changed
<1> QED BY <1>2, <1>3, <1>9, <1>10 DEF IInv

\* Commit: the dependents of what was written are marked and queued.
LEMMA CommitInductive ==
  ASSUME IInv, NEW after \in [Atoms -> Values], Commit(after)
  PROVE  IInv'
<1> DEFINE E == UNION {Dependents(record, a) : a \in {a \in Atoms : after[a] # value[a]}}
<1>1. /\ mode = "idle" /\ value' = after /\ mode' = "propagating"
      /\ dirty' = dirty \cup E /\ queue' \in SetToSeqs(E)
      /\ status' = [s \in Selectors |-> IF s \in E THEN {"queued"} ELSE {}]
      /\ before' = Outcomes
      /\ UNCHANGED <<body, record, routes, graphVersion, provisional, nextToken, sessions, stack,
                     reached>>
  BY DEF Commit
<1>2. E \subseteq Selectors
  BY DEF Dependents
<1> HIDE DEF E
<1>3. queue' \in Seq(Selectors)
  BY <1>1, <1>2, SetToSeqsOK
<1>4. status' \in [Selectors -> Statuses]
  BY <1>1 DEF Statuses
<1>5. DataOK'
  BY <1>1, <1>2, <1>3, <1>4 DEF IInv, DataOK, RecordsOK, RoutesOK
<1>6. Base' = Base
  BY <1>1 DEF Base
<1>7. SessionsWF' /\ SessionsCounted' /\ StackOK(stack, Base, record, nextToken)'
  BY <1>1, <1>6 DEF IInv, SessionsWF, SessionsCounted
<1>8. BeforeOK' /\ ReachesChanged'
  BY <1>1 DEF Outcomes, BeforeOK, ReachesChanged, Changed
<1> QED BY <1>5, <1>7, <1>8 DEF IInv

\* Done: tokens are numbered anew.
LEMMA DoneInductive == IInv /\ Done => IInv'
<1> SUFFICES ASSUME IInv, Done PROVE IInv'
  OBVIOUS
<1>1. /\ stack = <<>> /\ stack' = <<>> /\ mode' = "idle" /\ sessions' = <<>>
      /\ status' = [s \in Selectors |-> {}]
      /\ record' = [s \in Selectors |->
                      IF record[s] = None THEN None ELSE [record[s] EXCEPT !.token = 0]]
      /\ graphVersion' = 0 /\ provisional' = 0 /\ nextToken' = 1 /\ reached' = {}
      /\ before' = [s \in Selectors |-> None]
      /\ UNCHANGED <<body, value, dirty, routes, queue>>
  BY DEF Done
<1>2. ASSUME NEW s \in Selectors, record'[s] # None
      PROVE  RecordWF(record'[s], 1)
  <2> DEFINE old == record[s]
             new == [old EXCEPT !.token = 0]
  <2>1. old # None /\ record'[s] = new
    BY <1>1, <1>2
  <2>2. RecordWF(old, nextToken)
    BY <2>1 DEF IInv, DataOK, RecordsOK
  <2> HIDE DEF old
  <2>3. new \in Records /\ new.token = 0 /\ new.deps = old.deps /\ new.out = old.out
        /\ new.success = old.success
    BY <2>2 DEF RecordWF, Records
  <2> HIDE DEF new
  <2> QED BY <2>1, <2>2, <2>3 DEF RecordWF
<1>3. RecordsOK' /\ RoutesOK' /\ DOMAIN record' = Selectors
  BY <1>1, <1>2 DEF IInv, DataOK, RecordsOK, RoutesOK
<1>4. status' \in [Selectors -> Statuses]
  BY <1>1 DEF Statuses
<1>5. DataOK'
  BY <1>1, <1>3, <1>4 DEF IInv, DataOK
<1>6. SessionsWF'
  <2>1. <<>> \in Seq(Range(<<>>)) /\ DOMAIN <<>> = {}
    BY SeqOfRange
  <2> QED BY <1>1, <2>1 DEF SessionsWF
<1>7. SessionsCounted'
  <2>1. Base' = 0 /\ Len(<<>>) + 1 = 1 /\ Len(<<>>) = 0
    BY <1>1 DEF Base
  <2> QED BY <1>1, <2>1, LevelEmpty DEF SessionsCounted
<1>8. StackOK(stack, Base, record, nextToken)'
  BY <1>1, EmptyOK
<1>9. BeforeOK' /\ ReachesChanged'
  BY <1>1 DEF BeforeOK, ReachesChanged, Changed
<1> QED BY <1>5, <1>6, <1>7, <1>8, <1>9 DEF IInv

\* The innermost settle returns without having opened a session, or closes its own.
LEMMA ReturnStep ==
  ASSUME IInv, UNCHANGED <<body, value, record, routes, mode, nextToken, reached, before>>,
         dirty' \subseteq Selectors, queue' \in Seq(Selectors), status' \in [Selectors -> Statuses],
         graphVersion' \in Nat, provisional' \in Nat,
         stack # <<>>, Top.call = "settle", NEW c, stack' = Returning(c),
         \/ ~Owner(Top) /\ sessions' = sessions
         \/ Owner(Top) /\ sessions' = Front(sessions)
  PROVE  IInv'
<1> DEFINE n == Len(stack)
<1>1. Level(stack, n + 1, Base) = Len(sessions) /\ Base \in Nat
      /\ StackOK(stack, Base, record, nextToken)
  BY StackFacts
<1>2. n \in Nat \ {0} /\ Last(stack) = Top
  BY TopFacts
<1>3. /\ StackOK(stack', Base, record, nextToken)
      /\ Level(stack', Len(stack') + 1, Base) = Level(stack, n, Base)
  BY <1>1, ReturningOK
<1>4. Level(stack, n, Base) \in Nat
  <2>1. n \in Nat
    BY <1>2
  <2> HIDE DEF n
  <2> QED BY <1>1, <2>1, LevelNat
<1>5. CASE ~Owner(Top) /\ sessions' = sessions
  <2>1. Level(stack, n, Base) = Len(sessions)
    BY <1>1, <1>2, <1>5, LevelTop
  <2>2. SessionsWF' /\ Len(sessions') = Level(stack', Len(stack') + 1, Base)
    BY <1>3, <1>5, <2>1 DEF IInv, SessionsWF
  <2> QED BY <1>3, <2>2, StackStep
<1>6. CASE Owner(Top) /\ sessions' = Front(sessions)
  <2>1. Len(sessions) = Level(stack, n, Base) + 1
    BY <1>1, <1>2, <1>6, LevelTop
  <2>2. SessionsWF
    BY DEF IInv
  <2>3. sessions \in Seq(Range(sessions)) /\ sessions # <<>>
    BY <1>4, <2>1, <2>2 DEF SessionsWF
  <2>4. LET rest == Front(sessions) IN
        /\ rest \in Seq(Range(rest))
        /\ Len(rest) = Len(sessions) - 1
        /\ \A i \in DOMAIN rest : i \in DOMAIN sessions /\ rest[i] = sessions[i]
    BY <2>3, PopSeq
  <2>5. SessionsWF'
    BY <1>6, <2>2, <2>4 DEF SessionsWF
  <2>6. Len(sessions') = Level(stack', Len(stack') + 1, Base)
    BY <1>3, <1>4, <1>6, <2>1, <2>4
  <2> QED BY <1>3, <2>5, <2>6, StackStep
<1> QED BY <1>5, <1>6

\* EnterKnown: the caller is told what is known.
LEMMA EnterKnownInductive == IInv /\ EnterKnown => IInv'
<1> SUFFICES ASSUME IInv, EnterKnown PROVE IInv'
  OBVIOUS
<1>1. /\ stack # <<>> /\ Top.call = "settle" /\ Top.at = "entered"
      /\ provisional' \in {provisional, provisional + 1}
      /\ stack' = Returning(Known(Top))
      /\ UNCHANGED <<body, value, record, routes, mode, nextToken, reached, before>>
      /\ UNCHANGED <<dirty, queue, status, graphVersion, sessions>>
  BY DEF EnterKnown, SettleAt, history
<1>2. SettleWF(Top)
  BY <1>1, TopFacts
<1>3. ~Owner(Top)
  BY <1>1, <1>2 DEF SettleWF, Owner
<1>4. dirty' \subseteq Selectors /\ queue' \in Seq(Selectors) /\ status' \in [Selectors -> Statuses]
      /\ graphVersion' \in Nat /\ provisional' \in Nat
  BY <1>1 DEF IInv, DataOK
<1> QED BY <1>1, <1>3, <1>4, ReturnStep

\* What a settle leaves is a status.
LEMMA LeftOK ==
  ASSUME IInv, NEW f, f.selector \in Selectors, NEW c
  PROVE  Left(f, c) \in [Selectors -> Statuses]
<1> DEFINE x == (status[f.selector] \ ({"walking", "settling"} \ f.entered))
                  \cup (IF c = "settled" THEN {"settled"} ELSE {})
<1>1. status \in [Selectors -> Statuses]
  BY DEF IInv, DataOK
<1>2. x \in Statuses
  BY <1>1 DEF Statuses
<1>3. Left(f, c) = [status EXCEPT ![f.selector] = x]
  BY <1>1 DEF Left
<1> HIDE DEF x
<1> QED BY <1>1, <1>2, <1>3

\* LeaveClean: a selector that is not dirty is as current as its reads.
LEMMA LeaveCleanInductive == IInv /\ LeaveClean => IInv'
<1> SUFFICES ASSUME IInv, LeaveClean PROVE IInv'
  OBVIOUS
<1>1. /\ stack # <<>> /\ Top.call = "settle" /\ Top.at = "walking"
      /\ provisional' \in {provisional, provisional + 1}
      /\ stack' = Returning(Top.currentness) /\ status' = Left(Top, Top.currentness)
      /\ UNCHANGED <<body, value, record, routes, mode, nextToken, reached, before>>
      /\ UNCHANGED <<dirty, queue, graphVersion, sessions>>
  BY DEF LeaveClean, SettleAt, history
<1>2. SettleWF(Top)
  BY <1>1, TopFacts
<1>3. ~Owner(Top)
  BY <1>1, <1>2 DEF SettleWF, Owner
<1>4. status' \in [Selectors -> Statuses]
  BY <1>1, <1>2, LeftOK DEF SettleWF
<1>5. dirty' \subseteq Selectors /\ queue' \in Seq(Selectors)
      /\ graphVersion' \in Nat /\ provisional' \in Nat
  BY <1>1 DEF IInv, DataOK
<1> QED BY <1>1, <1>3, <1>4, <1>5, ReturnStep

\* LeaveEvaluated: the session that was opened is closed.
LEMMA LeaveEvaluatedInductive == IInv /\ LeaveEvaluated => IInv'
<1> SUFFICES ASSUME IInv, LeaveEvaluated PROVE IInv'
  OBVIOUS
<1>1. PICK c : /\ stack # <<>> /\ Top.call = "settle" /\ Top.at = "evaluated"
               /\ stack' = Returning(c) /\ status' = Left(Top, c)
  BY DEF LeaveEvaluated, SettleAt
<1>2. /\ sessions' = IF Top.owns THEN Front(sessions) ELSE sessions
      /\ UNCHANGED <<body, value, record, routes, mode, nextToken, reached, before>>
      /\ UNCHANGED <<dirty, queue, graphVersion, provisional>>
  BY DEF LeaveEvaluated, history
<1>3. SettleWF(Top)
  BY <1>1, TopFacts
<1>4. \/ ~Owner(Top) /\ sessions' = sessions
      \/ Owner(Top) /\ sessions' = Front(sessions)
  BY <1>1, <1>2, Zenon DEF Owner
<1>5. status' \in [Selectors -> Statuses]
  BY <1>1, <1>3, LeftOK DEF SettleWF
<1>6. dirty' \subseteq Selectors /\ queue' \in Seq(Selectors)
      /\ graphVersion' \in Nat /\ provisional' \in Nat
  BY <1>2 DEF IInv, DataOK
<1> QED BY <1>1, <1>2, <1>4, <1>5, <1>6, ReturnStep

\* A settle frame that walks its dependencies.
LEMMA WalkingOK ==
  ASSUME NEW f, SettleWF(f), f.call = "settle", f.at \in {"entered", "walking"},
         NEW g, DOMAIN g = DOMAIN f, g.call = f.call, g.selector = f.selector,
         g.session = f.session, g.reader = f.reader, g.at = "walking", g.owns = f.owns,
         g.todo \in Seq(Selectors), NEW stk, NEW recs
  PROVE  FrameWF(g) /\ Kept(f, g) /\ Waits(stk, g, recs) /\ ~Owner(g) /\ ~Owner(f)
<1>1. ~f.owns
  BY DEF SettleWF
<1>2. ~Owner(g) /\ ~Owner(f)
  BY <1>1, Zenon DEF Owner
<1>3. g.owns \in BOOLEAN /\ (g.owns => g.at = "evaluated")
  BY <1>1, Zenon DEF SettleWF
<1>4. SettleWF(g)
  BY <1>3 DEF SettleWF
<1>5. FrameWF(g) /\ Kept(f, g) /\ Waits(stk, g, recs)
  BY <1>4 DEF FrameWF, Kept, Claims, Waits, IsEvaluation
<1> QED BY <1>2, <1>5

\* EnterWalk: the recorded dependencies are to be settled.
LEMMA EnterWalkInductive == IInv /\ EnterWalk => IInv'
<1> SUFFICES ASSUME IInv, EnterWalk PROVE IInv'
  OBVIOUS
<1> DEFINE s == Top.selector
           todo == IF "walking" \in Top.entered THEN <<>> ELSE SelectorDeps(s)
           g == [Top EXCEPT !.at = "walking", !.version = graphVersion, !.todo = todo]
<1>1. /\ stack # <<>> /\ Top.call = "settle" /\ Top.at = "entered"
      /\ dirty' \in {dirty, dirty \cup {s}}
      /\ status' = [status EXCEPT ![s] = @ \cup {"walking"}]
      /\ stack' = WithTop(g)
      /\ UNCHANGED <<body, value, record, routes, mode, nextToken, reached, before>>
      /\ UNCHANGED <<queue, graphVersion, provisional, sessions>>
  BY DEF EnterWalk, SettleAt, history
<1>2. SettleWF(Top) /\ s \in Selectors
  <2>1. SettleWF(Top)
    BY <1>1, TopFacts
  <2> QED BY <2>1 DEF SettleWF
<1>3. todo \in Seq(Selectors)
  <2>1. SelectorDeps(s) \in Seq(Selectors)
    BY <1>2, StackFacts, SelectorDepsOK
  <2> QED BY <2>1
<1> HIDE DEF todo
<1>4. /\ DOMAIN g = DOMAIN Top /\ g.call = Top.call /\ g.selector = Top.selector
      /\ g.session = Top.session /\ g.reader = Top.reader /\ g.at = "walking"
      /\ g.todo = todo /\ g.owns = Top.owns
  BY <1>2 DEF SettleWF, SettleFields
<1> HIDE DEF g
<1>5. FrameWF(g) /\ Kept(Top, g) /\ Waits(stack, g, record) /\ ~Owner(g) /\ ~Owner(Top)
  BY <1>1, <1>2, <1>3, <1>4, WalkingOK
<1>6. StackOK(stack', Base, record, nextToken) /\ Level(stack', Len(stack') + 1, Base) = Len(sessions)
  BY <1>1, <1>5, TopStep
<1>7. status' \in [Selectors -> Statuses]
  BY <1>1, <1>2 DEF IInv, DataOK, Statuses
<1>8. dirty' \subseteq Selectors /\ queue' \in Seq(Selectors)
      /\ graphVersion' \in Nat /\ provisional' \in Nat
  BY <1>1, <1>2 DEF IInv, DataOK
<1>9. SessionsWF' /\ Len(sessions') = Level(stack', Len(stack') + 1, Base)
  BY <1>1, <1>6 DEF IInv, SessionsWF
<1> QED BY <1>1, <1>6, <1>7, <1>8, <1>9, StackStep

\* Walk: the next recorded dependency is settled, in no session.
LEMMA WalkInductive == IInv /\ Walk => IInv'
<1> SUFFICES ASSUME IInv, Walk PROVE IInv'
  OBVIOUS
<1> DEFINE todo == Top.todo
           g == [Top EXCEPT !.todo = Tail(@)]
           more == WithTop(g)
           f == Settling(Head(todo), 0, Top.reader)
<1>1. /\ stack # <<>> /\ Top.call = "settle" /\ Top.at = "walking" /\ todo # <<>>
      /\ stack' = Append(more, f)
      /\ UNCHANGED <<body, value, graphVars, mode, nextToken, sessions, before>>
  BY DEF Walk, SettleAt, history
<1>2. SettleWF(Top) /\ Top.reader <= Len(sessions)
  BY <1>1, TopFacts
<1>3. Head(todo) \in Selectors /\ Tail(todo) \in Seq(Selectors) /\ Top.reader \in Nat
  BY <1>1, <1>2 DEF SettleWF
<1>4. /\ DOMAIN g = DOMAIN Top /\ g.call = Top.call /\ g.selector = Top.selector
      /\ g.session = Top.session /\ g.reader = Top.reader /\ g.at = "walking"
      /\ g.todo = Tail(todo) /\ g.owns = Top.owns
  BY <1>1, <1>2 DEF SettleWF, SettleFields
<1>5. /\ FrameWF(f) /\ f.call = "settle" /\ f.session = 0 /\ f.reader = Top.reader
      /\ ~Owner(f)
  BY <1>3, SettlingOK
<1> HIDE DEF f, g, todo
<1>6. FrameWF(g) /\ Kept(Top, g) /\ Waits(stack, g, record) /\ ~Owner(g) /\ ~Owner(Top)
  BY <1>1, <1>2, <1>3, <1>4, WalkingOK
<1>7. /\ StackOK(more, Base, record, nextToken)
      /\ Level(more, Len(more) + 1, Base) = Len(sessions)
  BY <1>1, <1>6, TopStep
<1> HIDE DEF more
<1>8. \A i \in DOMAIN more : IsEvaluation(more[i]) /\ more[i].session = f.session =>
                               more[i].selector # f.selector
  BY <1>5, <1>7 DEF StackOK, FrameWF, EvaluationWF, IsEvaluation
<1>9. ~IsEvaluation(f) /\ TakesBaseline(f, record, nextToken)
  BY <1>5 DEF IsEvaluation, TakesBaseline, HasToken
<1>10. Len(sessions) \in Nat
  BY DEF IInv, SessionsWF
<1>11. StackOK(Append(more, f), Base, record, nextToken)
  BY <1>2, <1>5, <1>7, <1>8, <1>9, <1>10, PushOK
<1>12. Level(stack, Len(stack) + 1, Base) = Len(sessions) /\ Base \in Nat
  BY StackFacts
<1>13. Level(Append(more, f), Len(Append(more, f)) + 1, Base) = Len(sessions)
  <2>1. more \in Seq(Range(more))
    BY <1>7 DEF StackOK
  <2> QED BY <1>5, <1>7, <1>12, <2>1, LevelPush
<1> QED BY <1>1, <1>11, <1>12, <1>13, OnlyStack

\* A session is opened inside those there are.
LEMMA OpenedOK ==
  ASSUME SessionsWF, NEW reader \in Nat, reader <= Len(sessions)
  PROVE  LET opened == Append(sessions, [outer |-> reader, publications |-> 0]) IN
         /\ opened \in Seq(Range(opened))
         /\ Len(opened) = Len(sessions) + 1 /\ Len(sessions) \in Nat
         /\ \A i \in DOMAIN opened :
              /\ opened[i].outer \in 0..i - 1
              /\ opened[i].publications \in Nat
              /\ DOMAIN opened[i] = {"outer", "publications"}
<1> DEFINE x == [outer |-> reader, publications |-> 0]
           opened == Append(sessions, x)
<1>1. x.outer = reader /\ x.publications = 0 /\ DOMAIN x = {"outer", "publications"}
  OBVIOUS
<1> HIDE DEF x
<1>2. sessions \in Seq(Range(sessions)) /\ Len(sessions) \in Nat
      /\ DOMAIN sessions = 1..Len(sessions)
  BY DEF SessionsWF
<1>3. /\ opened \in Seq(Range(opened)) /\ Len(opened) = Len(sessions) + 1
      /\ DOMAIN opened = 1..(Len(sessions) + 1)
      /\ \A i \in DOMAIN sessions : opened[i] = sessions[i]
      /\ opened[Len(sessions) + 1] = x
  BY <1>2, PushSeq
<1> HIDE DEF opened
<1>4. ASSUME NEW i \in DOMAIN opened
      PROVE  /\ opened[i].outer \in 0..i - 1
             /\ opened[i].publications \in Nat
             /\ DOMAIN opened[i] = {"outer", "publications"}
  <2>1. CASE i \in DOMAIN sessions
    BY <1>3, <2>1 DEF SessionsWF
  <2>2. CASE i \notin DOMAIN sessions
    <3>1. i = Len(sessions) + 1
      BY <1>2, <1>3, <2>2
    <3>2. opened[i] = x /\ reader \in 0..i - 1
      BY <1>2, <1>3, <3>1
    <3> QED BY <1>1, <3>2
  <2> QED BY <2>1, <2>2
<1> QED BY <1>2, <1>3, <1>4 DEF opened, x

\* The frame that has its selector evaluated.
LEMMA EvaluatingFrame ==
  ASSUME NEW f, SettleWF(f), f.call = "settle", f.at = "walking", NEW owns \in BOOLEAN,
         NEW stk, NEW recs
  PROVE  LET g == [f EXCEPT !.at = "evaluated", !.provisional = provisional, !.owns = owns] IN
         /\ FrameWF(g) /\ Kept(f, g) /\ Waits(stk, g, recs)
         /\ g.session = f.session /\ g.selector = f.selector
         /\ Owner(g) <=> owns
<1> DEFINE g == [f EXCEPT !.at = "evaluated", !.provisional = provisional, !.owns = owns]
<1>1. /\ DOMAIN g = DOMAIN f /\ g.call = "settle" /\ g.selector = f.selector
      /\ g.session = f.session /\ g.reader = f.reader /\ g.at = "evaluated"
      /\ g.todo = f.todo /\ g.owns = owns
  BY DEF SettleWF, SettleFields
<1> HIDE DEF g
<1>2. Owner(g) <=> owns
  BY <1>1, Zenon DEF Owner
<1>3. g.owns \in BOOLEAN /\ (g.owns => g.at = "evaluated")
  BY <1>1, Zenon
<1>4. SettleWF(g)
  BY <1>1, <1>3 DEF SettleWF
<1>5. FrameWF(g) /\ Kept(f, g) /\ Waits(stk, g, recs)
  BY <1>1, <1>4 DEF FrameWF, Kept, Claims, Waits, IsEvaluation
<1> QED BY <1>1, <1>2, <1>5 DEF g

\* Evaluate: in the session of the reader, which is not evaluating the selector, or in
\* one opened for it, in which nothing is evaluated.
LEMMA EvaluateInductive == IInv /\ Evaluate => IInv'
<1> SUFFICES ASSUME IInv, Evaluate PROVE IInv'
  OBVIOUS
<1> DEFINE s == Top.selector
           n == Len(stack)
           reuse == Top.session # 0 /\ Top.version = graphVersion
           opened == Append(sessions, [outer |-> Top.reader, publications |-> 0])
           owns == ~reuse
           g == [Top EXCEPT !.at = "evaluated", !.provisional = provisional, !.owns = owns]
           more == WithTop(g)
           id == IF reuse THEN Top.session ELSE Len(opened)
           since == IF reuse THEN Publications(Top.session) ELSE 0
           f == Evaluation(s, id, since)
<1>1. /\ stack # <<>> /\ Top.call = "settle" /\ Top.at = "walking"
      /\ dirty' = dirty \cup {s}
      /\ status' = [status EXCEPT ![s] = @ \cup {"settling"}]
      /\ sessions' = IF reuse THEN sessions ELSE opened
      /\ stack' = Append(more, f)
      /\ UNCHANGED <<body, value, record, routes, mode, nextToken, reached, before>>
      /\ UNCHANGED <<queue, graphVersion, provisional>>
  <2>1. stack' = Append(WithTop([Top EXCEPT !.at = "evaluated", !.provisional = provisional,
                                            !.owns = ~reuse]),
                   IF reuse THEN Evaluation(s, Top.session, Publications(Top.session))
                   ELSE Evaluation(s, Len(opened), 0))
    BY Zenon DEF Evaluate
  <2>2. f = IF reuse THEN Evaluation(s, Top.session, Publications(Top.session))
            ELSE Evaluation(s, Len(opened), 0)
    <3>1. CASE reuse
      BY <3>1, Zenon
    <3>2. CASE ~reuse
      BY <3>2, Zenon
    <3> QED BY <3>1, <3>2
  <2>3. stack' = Append(more, f)
    BY <2>1, <2>2, Zenon
  <2> QED BY <2>3, Zenon DEF Evaluate, SettleAt, history
<1>2. SettleWF(Top) /\ Top.reader <= Len(sessions) /\ Top.session <= Len(sessions)
      /\ n \in Nat \ {0} /\ n \in DOMAIN stack /\ Top = stack[n] /\ Last(stack) = Top
  BY <1>1, TopFacts
<1>3. s \in Selectors /\ Top.session \in Nat /\ Top.reader \in Nat
  BY <1>2 DEF SettleWF
<1>4. /\ opened \in Seq(Range(opened))
      /\ Len(opened) = Len(sessions) + 1 /\ Len(sessions) \in Nat
      /\ \A i \in DOMAIN opened :
           /\ opened[i].outer \in 0..i - 1
           /\ opened[i].publications \in Nat
           /\ DOMAIN opened[i] = {"outer", "publications"}
  <2>1. SessionsWF
    BY DEF IInv
  <2>2. sessions \in Seq(Range(sessions))
    BY <2>1 DEF SessionsWF
  <2> QED BY <1>2, <1>3, <2>1, <2>2, OpenedOK
<1> HIDE DEF opened
<1>5. Level(stack, n + 1, Base) = Len(sessions) /\ Base \in Nat
      /\ StackOK(stack, Base, record, nextToken) /\ RecordsOK /\ DOMAIN stack = 1..n
  BY StackFacts
<1>6. owns \in BOOLEAN
  OBVIOUS
<1>7. /\ FrameWF(g) /\ Kept(Top, g) /\ Waits(stack, g, record)
      /\ g.session = Top.session /\ g.selector = s
      /\ Owner(g) <=> owns
  <2> HIDE DEF owns
  <2> QED BY <1>1, <1>2, <1>6, EvaluatingFrame
<1> HIDE DEF g
<1>8. ~Owner(Top)
  BY <1>1, <1>2 DEF SettleWF, Owner
<1>9. /\ StackOK(more, Base, record, nextToken)
      /\ Len(more) = n /\ Last(more) = g
      /\ DOMAIN more = DOMAIN stack
      /\ \A i \in DOMAIN stack : Kept(stack[i], more[i])
      /\ Level(more, n, Base) = Level(stack, n, Base)
  <2>1. Kept(Last(stack), g) /\ stack # <<>>
    BY <1>1, <1>2, <1>7
  <2>2. /\ StackOK(stack, Base, record, nextToken) /\ Base \in Nat
        /\ FrameWF(g) /\ Waits(stack, g, record)
    BY <1>5, <1>7
  <2> QED BY <2>1, <2>2, TopOK DEF WithTop
<1> HIDE DEF more
<1>10. Level(stack, n, Base) = Len(sessions)
  BY <1>2, <1>5, <1>8, LevelTop
<1>11. /\ owns => Level(more, n + 1, Base) = Len(sessions) + 1
       /\ ~owns => Level(more, n + 1, Base) = Len(sessions)
  BY <1>2, <1>5, <1>7, <1>9, <1>10, LevelTop
<1>12. id \in Nat \ {0} /\ id <= Level(more, n + 1, Base)
       /\ Len(sessions') = Level(more, n + 1, Base)
  <2>1. CASE reuse
    <3>1. id = Top.session /\ Top.session # 0 /\ sessions' = sessions /\ ~owns
      BY <1>1, <2>1, Zenon
    <3> QED BY <1>2, <1>3, <1>11, <3>1
  <2>2. CASE ~reuse
    <3>1. id = Len(opened) /\ sessions' = opened /\ owns
      BY <1>1, <2>2, Zenon
    <3> QED BY <1>4, <1>11, <3>1
  <2> QED BY <2>1, <2>2
<1>13. \A i \in DOMAIN stack : IsEvaluation(stack[i]) /\ stack[i].session = id =>
                                 stack[i].selector # s
  <2>1. CASE reuse
    <3>1. id = Top.session
      BY <2>1, Zenon
    <3>2. Apart(stack) /\ Claims(Top)
      BY <1>1, <1>5 DEF StackOK, Claims
    <3>3. \A i \in DOMAIN stack : IsEvaluation(stack[i]) => i < n
      <4>1. ~IsEvaluation(Top)
        BY <1>1 DEF IsEvaluation
      <4>2. \A i \in 1..n : i # n => i < n
        BY <1>2
      <4> HIDE DEF n
      <4> QED BY <1>2, <1>5, <4>1, <4>2
    <3> HIDE DEF n
    <3> QED BY <1>2, <3>1, <3>2, <3>3 DEF Apart
  <2>2. CASE ~reuse
    <3>1. id = Len(sessions) + 1
      BY <1>4, <2>2, Zenon
    <3>2. ASSUME NEW i \in DOMAIN stack, IsEvaluation(stack[i])
          PROVE  stack[i].session # id
      <4>1. stack[i].session <= Level(stack, i, Base) /\ stack[i].session \in Nat
        BY <1>5, <3>2 DEF StackOK, Numbered, FrameWF, EvaluationWF, IsEvaluation
      <4>2. i \in Nat /\ n + 1 \in Nat /\ i <= n + 1
        BY <1>2, <1>5
      <4> HIDE DEF n, id
      <4>3. Level(stack, i, Base) <= Level(stack, n + 1, Base)
        BY <1>5, <4>2, LevelGrows
      <4>4. Level(stack, i, Base) \in Nat
        BY <1>5, <4>2, LevelNat
      <4> QED BY <1>4, <1>5, <3>1, <4>1, <4>3, <4>4
    <3> QED BY <3>2
  <2> QED BY <2>1, <2>2
<1> HIDE DEF id, since
<1>14. /\ FrameWF(f)
       /\ f.call = "evaluate" /\ f.at = "running" /\ f.selector = s /\ f.session = id
       /\ TakesBaseline(f, record, nextToken)
  BY <1>3, <1>5, <1>12, EvaluationOK
<1> HIDE DEF f
<1>15. f.call # "settle" /\ ~Owner(f)
  BY <1>14 DEF Owner
<1>16. \A i \in DOMAIN more : IsEvaluation(more[i]) /\ more[i].session = f.session =>
                                more[i].selector # f.selector
  BY <1>9, <1>13, <1>14 DEF Kept, IsEvaluation
<1>17. StackOK(Append(more, f), Base, record, nextToken)
  <2>1. f.session <= Level(more, Len(more) + 1, Base)
    BY <1>9, <1>12, <1>14
  <2> QED BY <1>9, <1>14, <1>15, <1>16, <2>1, PushOK
<1>18. Len(sessions') = Level(stack', Len(stack') + 1, Base)
  <2>1. more \in Seq(Range(more))
    BY <1>9 DEF StackOK
  <2>2. Level(Append(more, f), Len(Append(more, f)) + 1, Base) = Level(more, Len(more) + 1, Base)
    BY <1>5, <1>15, <2>1, LevelPush
  <2> QED BY <1>1, <1>9, <1>12, <2>2
<1>19. SessionsWF'
  <2>1. CASE reuse
    BY <1>1, <2>1 DEF IInv, SessionsWF
  <2>2. CASE ~reuse
    BY <1>1, <1>4, <2>2 DEF SessionsWF
  <2> QED BY <2>1, <2>2
<1>20. status' \in [Selectors -> Statuses]
  BY <1>1, <1>3 DEF IInv, DataOK, Statuses
<1>21. dirty' \subseteq Selectors /\ queue' \in Seq(Selectors)
       /\ graphVersion' \in Nat /\ provisional' \in Nat
  BY <1>1, <1>3 DEF IInv, DataOK
<1> QED BY <1>1, <1>17, <1>18, <1>19, <1>20, <1>21, StackStep

\* An evaluation that is over has a value or has failed.
LEMMA OutcomeOK ==
  ASSUME body \in Programs, NEW f, EvaluationWF(f),
         f.at = "failed" \/ (f.at = "running" /\ NextRead(f) = None)
  PROVE  Outcome(f) \in Values \cup {Error}
<1>1. CASE f.at = "failed"
  BY <1>1 DEF Outcome
<1>2. CASE f.at = "running" /\ NextRead(f) = None
  <2>1. f.reads \in Seq(Values) /\ f.selector \in Selectors
    BY <1>2 DEF EvaluationWF, ReadsWF
  <2>2. body[f.selector] \in Bodies
    BY <2>1, ProgramsAssumption
  <2>3. /\ body[f.selector].next[<<>>] # None
        /\ body[f.selector].gives \in [Values -> Values \cup {Error}]
    BY <2>2 DEF Bodies
  <2>4. f.reads # <<>>
    <3>1. Len(<<>>) # MaxReads
      BY MaxReadsAssumption
    <3>2. f.reads = <<>> => NextRead(f) = body[f.selector].next[<<>>]
      BY <3>1, Zenon DEF NextRead
    <3> QED BY <1>2, <2>3, <3>2
  <2>5. Last(f.reads) \in Values
    BY <2>1, <2>4 DEF Last
  <2>6. Outcome(f) = body[f.selector].gives[Last(f.reads)]
    BY <1>2 DEF Outcome, Returned
  <2> QED BY <2>3, <2>5, <2>6
<1> QED BY <1>1, <1>2

\* The token of an outcome: a new one, or that of the same outcome earlier.
LEMMA TokenOfOK ==
  ASSUME NEW f, IsEvaluation(f), NEW out
  PROVE  \/ TokenOf(f, out) = nextToken
         \/ HasToken(f) /\ f.baseline.value = out /\ TokenOf(f, out) = f.baseline.token
BY DEF TokenOf, HasToken

\* What Install makes of the evaluation f.
Installed(f, new) ==
  /\ RecordWF(new, IF new.token = nextToken THEN nextToken + 1 ELSE nextToken)
  /\ \/ new.token = nextToken
     \/ HasToken(f) /\ f.baseline.value = new.out /\ new.token = f.baseline.token

\* The record that Install writes.
LEMMA InstalledOK ==
  ASSUME IInv, stack # <<>>, IsEvaluation(Top),
         Top.at = "failed" \/ (Top.at = "running" /\ NextRead(Top) = None)
  PROVE  LET f == Top
             old == record[f.selector]
             out == Outcome(f)
             new == [out |-> out, token |-> TokenOf(f, out), deps |-> f.deps,
                     success |-> IF out # Error THEN out ELSE IF old = None THEN None ELSE old.success]
         IN Installed(f, new)
<1> DEFINE f == Top
           old == record[f.selector]
           out == Outcome(f)
           token == TokenOf(f, out)
           success == IF out # Error THEN out ELSE IF old = None THEN None ELSE old.success
           new == [out |-> out, token |-> token, deps |-> f.deps, success |-> success]
           next == IF token = nextToken THEN nextToken + 1 ELSE nextToken
<1>1. EvaluationWF(f) /\ f.selector \in Selectors /\ f.deps \in Seq(Nodes) /\ IsInjective(f.deps)
  <2>1. EvaluationWF(f)
    BY TopFacts
  <2> QED BY <2>1 DEF EvaluationWF
<1>2. body \in Programs /\ RecordsOK /\ nextToken \in Nat
  BY DEF IInv, DataOK
<1>3. out \in Values \cup {Error}
  BY <1>1, <1>2, OutcomeOK
<1>4. \/ token = nextToken
      \/ HasToken(f) /\ f.baseline.value = out /\ token = f.baseline.token
  BY TokenOfOK
<1>5. HasToken(f) => f.baseline.token \in Nat /\ f.baseline.token < nextToken
  <2>1. Len(stack) \in DOMAIN stack /\ Top = stack[Len(stack)]
    BY TopFacts
  <2>2. Baselines(stack, record, nextToken)
    BY DEF IInv, StackOK
  <2> QED BY <2>1, <2>2 DEF Baselines
<1> HIDE DEF token, out, f
<1>6. token \in Nat /\ token < next
  BY <1>2, <1>4, <1>5
<1>7. success \in Values \cup {None} /\ (out # Error => success = out)
  <2>1. old # None => old.success \in Values \cup {None}
    BY <1>1, <1>2 DEF RecordsOK, RecordWF, Records
  <2> QED BY <1>3, <2>1
<1> HIDE DEF success, next
<1>8. new \in Records /\ new.token = token /\ new.out = out /\ new.deps = f.deps
      /\ new.success = success
  BY <1>1, <1>3, <1>6, <1>7 DEF Records
<1> HIDE DEF new
<1>9. RecordWF(new, next)
  BY <1>1, <1>6, <1>7, <1>8 DEF RecordWF
<1>10. Installed(f, new)
  BY <1>4, <1>8, <1>9 DEF Installed, next
<1> QED BY <1>10 DEF new, success, token, out, f

\* The stack with the outcome of its last frame recorded.
LEMMA RecordedOK ==
  ASSUME IInv, stack # <<>>, IsEvaluation(Top), NEW new, Installed(Top, new)
  PROVE  LET recs == [record EXCEPT ![Top.selector] = new]
             next == IF new.token = nextToken THEN nextToken + 1 ELSE nextToken
         IN StackOK(stack, Base, recs, next)
<1> DEFINE s == Top.selector
           n == Len(stack)
           recs == [record EXCEPT ![s] = new]
           next == IF new.token = nextToken THEN nextToken + 1 ELSE nextToken
<1>1. n \in DOMAIN stack /\ Top = stack[n]
  BY TopFacts
<1>2. s \in Selectors
  <2>1. EvaluationWF(Top)
    BY TopFacts
  <2> QED BY <2>1 DEF EvaluationWF
<1>3. StackOK(stack, Base, record, nextToken) /\ DOMAIN record = Selectors /\ nextToken \in Nat
  BY DEF IInv, DataOK
<1>4. new # None /\ new.token \in Nat
  BY NoneAssumption DEF Installed, RecordWF, Records
<1>5. recs[s] = new /\ \A x : x # s => recs[x] = record[x]
  BY <1>2, <1>3
<1>6. nextToken <= next
  BY <1>3
<1>7. next \in Nat
  BY <1>3
<1> HIDE DEF recs, next, n
<1>8. Awaits(stack, recs)
  <2>1. \A x : record[x] # None => recs[x] # None
    BY <1>4, <1>5
  <2>2. Awaits(stack, record)
    BY <1>3 DEF StackOK
  <2> QED BY <2>1, <2>2 DEF Awaits
<1>9. Baselines(stack, record, nextToken)
  BY <1>3 DEF StackOK
<1>10. ASSUME NEW i \in DOMAIN stack, HasToken(stack[i])
       PROVE  /\ stack[i].baseline.token \in Nat /\ stack[i].baseline.token < next
              /\ LET x == stack[i].selector IN
                 recs[x] # None /\ recs[x].token = stack[i].baseline.token
                   => recs[x].out = stack[i].baseline.value
  <2>1. stack[i].baseline.token \in Nat /\ stack[i].baseline.token < nextToken
    BY <1>9, <1>10 DEF Baselines
  <2>2. stack[i].baseline.token < next
    BY <1>3, <1>6, <1>7, <2>1
  <2>3. CASE stack[i].selector # s
    BY <1>5, <1>9, <1>10, <2>1, <2>2, <2>3 DEF Baselines
  <2>4. CASE stack[i].selector = s
    <3> SUFFICES ASSUME new.token = stack[i].baseline.token
                 PROVE  new.out = stack[i].baseline.value
      BY <1>5, <2>1, <2>2, <2>4
    <3>1. new.token # nextToken
      BY <1>3, <2>1
    <3>2. HasToken(stack[n]) /\ stack[n].baseline.value = new.out
          /\ new.token = stack[n].baseline.token
      BY <1>1, <3>1 DEF Installed
    <3> QED BY <1>1, <1>9, <1>10, <2>4, <3>2 DEF Baselines
  <2> QED BY <2>3, <2>4
<1>11. Baselines(stack, recs, next)
  BY <1>9, <1>10 DEF Baselines
<1>12. StackOK(stack, Base, recs, next)
  BY <1>3, <1>8, <1>11 DEF StackOK
<1> QED BY <1>12 DEF recs, next

\* What is observed does not move a frame.
LEMMA ObservedMoved ==
  ASSUME NEW stk, stk \in Seq(Range(stk)), \A i \in DOMAIN stk : FrameWF(stk[i]), NEW edges
  PROVE  LET more == Observed(stk, edges) IN
         /\ Moved(stk, more)
         /\ \A i \in DOMAIN stk :
              /\ Quiet(stk[i], more[i])
              /\ Owner(more[i]) <=> Owner(stk[i])
              /\ more[i] = IF IsEvaluation(stk[i]) /\ stk[i].observed # None
                             THEN [stk[i] EXCEPT !.observed = @ \cup edges] ELSE stk[i]
<1> DEFINE n == Len(stk)
           New(i) == IF IsEvaluation(stk[i]) /\ stk[i].observed # None
                       THEN [stk[i] EXCEPT !.observed = @ \cup edges] ELSE stk[i]
           more == Observed(stk, edges)
<1>1. n \in Nat /\ DOMAIN stk = 1..n
  OBVIOUS
<1>2. ASSUME NEW i \in 1..n
      PROVE  /\ FrameWF(New(i)) /\ Kept(stk[i], New(i)) /\ Quiet(stk[i], New(i))
             /\ Owner(New(i)) <=> Owner(stk[i])
  <2>1. CASE IsEvaluation(stk[i]) /\ stk[i].observed # None
    <3> DEFINE x == stk[i].observed \cup edges
               g == [stk[i] EXCEPT !.observed = x]
    <3>1. FrameWF(g) /\ IsEvaluation(g) /\ Kept(stk[i], g) /\ Quiet(stk[i], g)
      <4> HIDE DEF x
      <4> QED BY <1>1, <2>1, ObservedChange
    <3>2. New(i) = g
      <4>1. New(i) = [stk[i] EXCEPT !.observed = @ \cup edges]
        BY <2>1, Zenon
      <4>2. DOMAIN stk[i] = EvaluationFields
        BY <1>1, <2>1 DEF FrameWF, EvaluationWF, IsEvaluation
      <4> HIDE DEF New
      <4> QED BY <4>1, <4>2
    <3> HIDE DEF g, New
    <3> QED BY <2>1, <3>1, <3>2 DEF Owner, IsEvaluation
  <2>2. CASE ~(IsEvaluation(stk[i]) /\ stk[i].observed # None)
    <3>1. New(i) = stk[i]
      BY <2>2, Zenon
    <3> HIDE DEF New
    <3> QED BY <1>1, <3>1 DEF Kept, Quiet
  <2> QED BY <2>1, <2>2
<1>3. more = [i \in 1..n |-> New(i)]
  BY <1>1, Zenon DEF Observed
<1> HIDE DEF New
<1>4. DOMAIN more = 1..n /\ \A i \in 1..n : more[i] = New(i)
  BY <1>3
<1>5. more \in Seq(Range(more)) /\ Len(more) = n
  <2> DEFINE S == {New(i) : i \in 1..n}
  <2>1. more \in [1..n -> S]
    BY <1>3
  <2> HIDE DEF S, more, n
  <2>2. more \in Seq(S)
    BY <1>1, <2>1
  <2>3. Len(more) = n
    BY <1>1, <1>4, <2>2
  <2> QED BY <2>2, <2>3, SeqOfRange
<1> HIDE DEF more, n
<1>6. Moved(stk, more)
  BY <1>1, <1>2, <1>4, <1>5 DEF Moved, n
<1>7. \A i \in DOMAIN stk : /\ Quiet(stk[i], more[i])
                            /\ Owner(more[i]) <=> Owner(stk[i])
                            /\ more[i] = New(i)
  BY <1>1, <1>2, <1>4
<1> QED BY <1>6, <1>7 DEF more, New

LEMMA ObservedOK ==
  ASSUME NEW base, NEW recs, NEW next, NEW stk, StackOK(stk, base, recs, next), NEW edges
  PROVE  LET more == Observed(stk, edges) IN
         /\ StackOK(more, base, recs, next)
         /\ Len(more) = Len(stk)
         /\ Level(more, Len(more) + 1, base) = Level(stk, Len(stk) + 1, base)
<1> DEFINE n == Len(stk)
           more == Observed(stk, edges)
<1>1. /\ Moved(stk, more)
      /\ \A i \in DOMAIN stk : Quiet(stk[i], more[i]) /\ (Owner(more[i]) <=> Owner(stk[i]))
  BY ObservedMoved DEF StackOK
<1> HIDE DEF more
<1>2. StackOK(more, base, recs, next)
  BY <1>1, QuietOK
<1>3. n \in Nat /\ DOMAIN stk = 1..n /\ Len(more) = n
  BY <1>1 DEF StackOK, Moved
<1>4. Level(more, n + 1, base) = Level(stk, n + 1, base)
  <2> DEFINE i == n + 1
  <2>1. \A j \in 1..i - 1 : Owner(stk[j]) <=> Owner(more[j])
    BY <1>1, <1>3
  <2> HIDE DEF i
  <2>2. Level(stk, i, base) = Level(more, i, base)
    BY <2>1, LevelSame
  <2> QED BY <2>2 DEF i
<1> QED BY <1>2, <1>3, <1>4 DEF more, n

\* Rerouted latches have a path back that does not come to them on its way.
LEMMA RoutesInstalledOK ==
  ASSUME RoutesOK, DOMAIN routes = Selectors, NEW s \in Selectors, NEW new,
         NEW own, own # None => RouteWF(own, s)
  PROVE  LET rts == [routes EXCEPT ![s] = own]
             after == Routes(s, new, rts)
         IN DOMAIN after = Selectors /\ \A l \in Selectors : after[l] # None => RouteWF(after[l], l)
<1> DEFINE rts == [routes EXCEPT ![s] = own]
           after == Routes(s, new, rts)
           edges == Edges([record EXCEPT ![s] = new])
           New(l) == [rts[l] EXCEPT !.path = Front(PathOf(edges, rts[l].path[1], l))]
<1>1. \A l \in Selectors : rts[l] # None => RouteWF(rts[l], l)
  BY DEF RoutesOK
<1> HIDE DEF rts, edges
<1>2. after = [l \in Selectors |-> IF l \in Rerouted(s, new, rts) THEN New(l) ELSE rts[l]]
  BY Zenon DEF Routes, edges
<1>3. ASSUME NEW l \in Selectors, l \in Rerouted(s, new, rts)
      PROVE  RouteWF(New(l), l)
  <2> DEFINE a == rts[l].path[1]
             z == Front(PathOf(edges, a, l))
  <2>1. l \in ReachableFrom(edges, a) /\ s \in Watched(rts[l])
    BY <1>3 DEF Rerouted, Shaken, edges
  <2>2. rts[l] # None
    BY <2>1 DEF Watched
  <2>3. RouteWF(rts[l], l)
    BY <1>1, <2>2
  <2>4. a \in Selectors \ {l}
    BY <2>3 DEF RouteWF
  <2> HIDE DEF a
  <2>5. z \in Seq(Selectors \ {l}) /\ z # <<>>
    BY <2>1, <2>4, FrontOfPath
  <2>6. New(l) = [rts[l] EXCEPT !.path = z]
    BY DEF a
  <2> HIDE DEF z, New
  <2>7. /\ DOMAIN New(l) = {"reported", "path"}
        /\ New(l).path = z /\ New(l).reported = rts[l].reported
    BY <2>3, <2>6 DEF RouteWF
  <2> QED BY <2>3, <2>5, <2>7 DEF RouteWF
<1> HIDE DEF New, after
<1>4. DOMAIN after = Selectors
  BY <1>2
<1>5. ASSUME NEW l \in Selectors, after[l] # None
      PROVE  RouteWF(after[l], l)
  <2>1. CASE l \in Rerouted(s, new, rts)
    BY <1>2, <1>3, <2>1
  <2>2. CASE l \notin Rerouted(s, new, rts)
    BY <1>1, <1>2, <1>5, <2>2
  <2> QED BY <2>1, <2>2
<1> QED BY <1>4, <1>5 DEF rts, after

\* An outcome that differs has another token.
LEMMA ChangedToken ==
  ASSUME IInv, stack # <<>>, IsEvaluation(Top), NEW new, Installed(Top, new),
         record[Top.selector] # None, record[Top.selector].out # new.out
  PROVE  record[Top.selector].token # new.token
<1> DEFINE s == Top.selector
<1>1. EvaluationWF(Top) /\ Len(stack) \in DOMAIN stack /\ Top = stack[Len(stack)]
  BY TopFacts
<1>2. s \in Selectors
  BY <1>1 DEF EvaluationWF
<1>3. record[s].token \in Nat /\ record[s].token < nextToken /\ nextToken \in Nat
  BY <1>2 DEF IInv, DataOK, RecordsOK, RecordWF, Records
<1>4. CASE new.token = nextToken
  BY <1>3, <1>4
<1>5. CASE HasToken(Top) /\ Top.baseline.value = new.out /\ new.token = Top.baseline.token
  <2>1. Baselines(stack, record, nextToken)
    BY DEF IInv, StackOK
  <2> QED BY <1>1, <1>5, <2>1 DEF Baselines
<1> QED BY <1>4, <1>5 DEF Installed

\* Install: the outcome is recorded, published, and whatever it concerns is marked.
LEMMA InstallInductive == IInv /\ Install /\ UNCHANGED before => IInv'
<1> SUFFICES ASSUME IInv, Install, UNCHANGED before PROVE IInv'
  OBVIOUS
<1> DEFINE f == Top
           s == f.selector
           old == record[s]
           out == Outcome(f)
           new == [out |-> out, token |-> TokenOf(f, out), deps |-> f.deps,
                   success |-> IF out # Error THEN out ELSE IF old = None THEN None ELSE old.success]
           recs == [record EXCEPT ![s] = new]
           own == IF f.cycle \in {None, <<>>} THEN None ELSE [reported |-> f.cycle, path |-> f.cycle]
           rts == [routes EXCEPT ![s] = own]
           changed == Republished(old, new)
           opened == IF mode = "propagating" THEN Reopened(s, new, rts) ELSE {}
           marked == IF mode = "propagating" /\ changed THEN Dependents(recs, s) ELSE {}
           E == opened \cup marked
           serves == provisional + Cardinality({d \in E : "settled" \in status[d]})
           again == f.provisional # serves /\ Superseded(f, recs)
           next == IF new.token = nextToken THEN nextToken + 1 ELSE nextToken
           rest == Front(stack)
           edges == {s} \X ((Range(f.deps) \ Range(Deps(record, s))) \cap Selectors)
<1>1. /\ stack # <<>> /\ IsEvaluation(Top)
      /\ Top.at = "failed" \/ (Top.at = "running" /\ NextRead(Top) = None)
      /\ body' = body /\ value' = value /\ mode' = mode /\ before' = before
      /\ record' = recs
      /\ routes' = Routes(s, new, rts)
      /\ graphVersion' = graphVersion + 1
      /\ provisional' = serves
      /\ nextToken' = next
      /\ sessions' = [sessions EXCEPT ![f.session].publications = @ + 1]
      /\ stack' = Observed(rest, edges)
  BY Zenon DEF Install, EvaluationAt
<1>2. /\ dirty' = (dirty \ {s}) \cup E \cup (IF again THEN {s} ELSE {})
      /\ reached' = IF changed THEN reached \cup {s} ELSE reached
      /\ status' = [d \in Selectors |->
           IF d \in E \/ (d = s /\ again /\ mode = "propagating")
             THEN (status[d] \ {"settled"}) \cup {"queued"} ELSE status[d]]
  BY Zenon DEF Install
<1>3. \E first \in SetToSeqs(Enqueueable(opened)), last \in SetToSeqs(Enqueueable(marked \ opened)) :
        queue' = queue \o first \o last \o (IF again /\ mode = "propagating" THEN <<s>> ELSE <<>>)
  BY Zenon DEF Install
<1>4. /\ EvaluationWF(f) /\ s \in Selectors /\ f.session \in Nat \ {0}
      /\ f.session <= Len(sessions) /\ Last(stack) = f
  <2>1. EvaluationWF(f) /\ f.session <= Len(sessions) /\ Last(stack) = f
    BY <1>1, TopFacts
  <2> QED BY <2>1 DEF EvaluationWF
<1>5. Installed(f, new)
  BY <1>1, InstalledOK
<1>6. opened \subseteq Selectors /\ marked \subseteq Selectors
  BY DEF Reopened, Shaken, Dependents
<1>7. own # None => RouteWF(own, s)
  <2> DEFINE route == [reported |-> f.cycle, path |-> f.cycle]
  <2>1. own # None => own = route /\ f.cycle # None /\ f.cycle # <<>>
    OBVIOUS
  <2>2. f.cycle # None => f.cycle \in Seq(Selectors \ {s})
    BY <1>4 DEF EvaluationWF
  <2>3. DOMAIN route = {"reported", "path"} /\ route.reported = f.cycle /\ route.path = f.cycle
    OBVIOUS
  <2> HIDE DEF route, own
  <2> QED BY <2>1, <2>2, <2>3 DEF RouteWF
<1> HIDE DEF own
<1>8. DOMAIN routes' = Selectors /\ RoutesOK'
  <2>1. RoutesOK /\ DOMAIN routes = Selectors
    BY DEF IInv, DataOK
  <2> HIDE DEF new
  <2>2. LET after == Routes(s, new, rts)
        IN DOMAIN after = Selectors /\ \A l \in Selectors : after[l] # None => RouteWF(after[l], l)
    BY <1>4, <1>7, <2>1, RoutesInstalledOK
  <2> QED BY <1>1, <2>2 DEF RoutesOK
<1> HIDE DEF new, rts, opened, marked, again, changed
<1>9. DataOK /\ SessionsWF /\ BeforeOK /\ ReachesChanged
  BY DEF IInv
<1>10. new # None
  BY <1>5, NoneAssumption DEF Installed, RecordWF
<1>11. /\ DOMAIN record' = Selectors /\ record'[s] = new
       /\ \A x \in Selectors : x # s => record'[x] = record[x]
  BY <1>1, <1>4, <1>9 DEF DataOK
<1>12. next \in Nat /\ nextToken \in Nat /\ nextToken <= next
  BY <1>9 DEF DataOK
<1>13. RecordsOK'
  <2> SUFFICES ASSUME NEW x \in Selectors, record'[x] # None PROVE RecordWF(record'[x], next)
    BY <1>1 DEF RecordsOK
  <2>1. CASE x = s
    BY <1>5, <1>11, <2>1 DEF Installed
  <2>2. CASE x # s
    <3>1. RecordWF(record[x], nextToken) /\ record'[x] = record[x]
      BY <1>9, <1>11, <2>2 DEF DataOK, RecordsOK
    <3> HIDE DEF next
    <3> QED BY <1>12, <3>1 DEF RecordWF, Records
  <2> QED BY <2>1, <2>2
<1>14. queue' \in Seq(Selectors)
  <2>1. Enqueueable(opened) \in SUBSET Selectors /\ Enqueueable(marked \ opened) \in SUBSET Selectors
    BY <1>6 DEF Enqueueable
  <2>2. PICK first \in SetToSeqs(Enqueueable(opened)),
             last \in SetToSeqs(Enqueueable(marked \ opened)) :
          queue' = queue \o first \o last \o (IF again /\ mode = "propagating" THEN <<s>> ELSE <<>>)
    BY <1>3
  <2>3. first \in Seq(Selectors) /\ last \in Seq(Selectors)
    BY <2>1, SetToSeqsOK
  <2> DEFINE more == IF again /\ mode = "propagating" THEN <<s>> ELSE <<>>
  <2>4. more \in Seq(Selectors)
    BY <1>4
  <2>5. queue \in Seq(Selectors)
    BY <1>9 DEF DataOK
  <2> HIDE DEF more
  <2>6. queue \o first \o last \o more \in Seq(Selectors)
    BY <2>3, <2>4, <2>5
  <2> QED BY <2>2, <2>6 DEF more
<1>15. serves \in Nat
  <2> DEFINE D == {d \in E : "settled" \in status[d]}
  <2>1. D \in SUBSET Selectors
    BY <1>6
  <2> HIDE DEF D
  <2>2. Cardinality(D) \in Nat
    BY <2>1, NodesAssumption, FS_Subset, FS_CardinalityType
  <2> QED BY <1>9, <2>2 DEF DataOK, D
<1>16. dirty' \subseteq Selectors /\ reached' \subseteq Selectors
  BY <1>2, <1>4, <1>6, <1>9 DEF DataOK
<1>17. status' \in [Selectors -> Statuses]
  <2>1. \A d \in Selectors : status[d] \in Statuses
    BY <1>9 DEF DataOK
  <2>2. \A x \in Statuses : (x \ {"settled"}) \cup {"queued"} \in Statuses
    BY DEF Statuses
  <2> HIDE DEF E
  <2> QED BY <1>2, <2>1, <2>2
<1>18. DataOK'
  BY <1>1, <1>8, <1>9, <1>11, <1>12, <1>13, <1>14, <1>15, <1>16, <1>17 DEF DataOK
<1>19. SessionsWF' /\ Len(sessions') = Len(sessions)
  <2> DEFINE id == f.session
             x == [sessions[id] EXCEPT !.publications = @ + 1]
  <2>1. id \in DOMAIN sessions /\ sessions \in Seq(Range(sessions)) /\ sessions # <<>>
    BY <1>4, <1>9 DEF SessionsWF
  <2>2. /\ DOMAIN x = {"outer", "publications"} /\ x.outer = sessions[id].outer
        /\ x.publications \in Nat
    BY <1>9, <2>1 DEF SessionsWF
  <2>3. sessions' = [sessions EXCEPT ![id] = x]
    BY <1>1
  <2> HIDE DEF x, id
  <2> DEFINE S == Range(sessions) \cup {x}
  <2>4. sessions \in Seq(S) /\ x \in S
    BY <2>1, SeqMonotonic
  <2> HIDE DEF S
  <2>5. /\ sessions' \in Seq(S) /\ Len(sessions') = Len(sessions)
        /\ DOMAIN sessions' = DOMAIN sessions /\ sessions'[id] = x
        /\ \A i \in DOMAIN sessions : i # id => sessions'[i] = sessions[i]
    BY <2>1, <2>3, <2>4
  <2>6. sessions' \in Seq(Range(sessions'))
    BY <2>5, SeqOfRange
  <2>7. \A i \in DOMAIN sessions' :
          /\ sessions'[i].outer \in 0..i - 1
          /\ sessions'[i].publications \in Nat
          /\ DOMAIN sessions'[i] = {"outer", "publications"}
    <3> TAKE i \in DOMAIN sessions'
    <3>1. CASE i = id
      BY <1>9, <2>1, <2>2, <2>5, <3>1 DEF SessionsWF
    <3>2. CASE i # id
      BY <1>9, <2>5, <3>2 DEF SessionsWF
    <3> QED BY <3>1, <3>2
  <2> QED BY <2>5, <2>6, <2>7 DEF SessionsWF
<1>20. Base' = Base /\ Base \in Nat
  BY <1>1 DEF Base
<1>21. StackOK(rest, Base, recs, next)
  <2>1. StackOK(stack, Base, recs, next)
    BY <1>1, <1>5, RecordedOK
  <2>2. recs[Last(stack).selector] # None
    BY <1>1, <1>4, <1>10, <1>11
  <2> HIDE DEF recs, next, rest
  <2> QED BY <1>1, <2>1, <2>2, PopOK DEF rest
<1> HIDE DEF edges, recs, next
<1>22. /\ StackOK(stack', Base, recs, next)
       /\ Level(stack', Len(stack') + 1, Base) = Level(rest, Len(rest) + 1, Base)
  <2> HIDE DEF rest
  <2> QED BY <1>1, <1>21, ObservedOK
<1>23. Level(rest, Len(rest) + 1, Base) = Len(sessions)
  <2> DEFINE n == Len(stack)
  <2>1. Level(stack, n + 1, Base) = Len(sessions) /\ StackOK(stack, Base, record, nextToken)
    BY StackFacts
  <2>2. /\ n \in Nat \ {0} /\ Len(rest) = n - 1 /\ DOMAIN rest = 1..(n - 1)
        /\ \A i \in DOMAIN rest : rest[i] = stack[i]
    BY <1>1, <2>1, PopSeq DEF StackOK
  <2>3. ~Owner(Last(stack))
    BY <1>1, <1>4 DEF Owner, IsEvaluation
  <2>4. Level(stack, n + 1, Base) = Level(stack, n, Base)
    BY <1>20, <2>2, <2>3, LevelTop
  <2> HIDE DEF n, rest
  <2>5. Level(rest, n, Base) = Level(stack, n, Base)
    BY <2>2, LevelPrefix
  <2>6. Len(rest) + 1 = n
    BY <2>2
  <2> QED BY <2>1, <2>4, <2>5, <2>6
<1>24. SessionsCounted' /\ StackOK(stack, Base, record, nextToken)'
  BY <1>1, <1>19, <1>20, <1>22, <1>23 DEF SessionsCounted
<1>25. BeforeOK'
  BY <1>1, <1>9, <1>10, <1>11 DEF BeforeOK
<1>26. ReachesChanged'
  <2> SUFFICES ASSUME NEW x \in Selectors, before[x] # None, record'[x].out # before[x]
               PROVE  x \in reached'
    BY <1>1 DEF ReachesChanged, Changed
  <2>1. CASE x # s
    <3>1. x \in reached
      BY <1>9, <1>11, <2>1 DEF ReachesChanged, Changed
    <3> QED BY <1>2, <3>1
  <2>2. CASE x = s
    <3>1. old # None
      BY <1>9, <2>2 DEF BeforeOK
    <3>2. CASE old.out # before[s]
      <4>1. s \in reached
        BY <1>4, <1>9, <2>2, <3>2 DEF ReachesChanged, Changed
      <4> QED BY <1>2, <2>2, <4>1
    <3>3. CASE old.out = before[s]
      <4>1. old.out # new.out
        BY <1>11, <2>2, <3>3
      <4>2. old.token # new.token
        BY <1>1, <1>5, <3>1, <4>1, ChangedToken
      <4>3. changed
        BY <3>1, <4>2 DEF Republished, changed
      <4> QED BY <1>2, <2>2, <4>3
    <3> QED BY <3>2, <3>3
  <2> QED BY <2>1, <2>2
<1> QED BY <1>18, <1>19, <1>24, <1>25, <1>26 DEF IInv

-----------------------------------------------------------------------------
(* The specification *)

LEMMA InitInvariant == Init => IInv
<1> SUFFICES ASSUME Init PROVE IInv
  OBVIOUS
<1>1. /\ body \in Programs /\ value \in [Atoms -> Values]
      /\ record = [s \in Selectors |-> None] /\ routes = [s \in Selectors |-> None]
      /\ dirty = {} /\ mode = "idle" /\ queue = <<>> /\ status = [s \in Selectors |-> {}]
      /\ graphVersion = 0 /\ provisional = 0 /\ nextToken = 1
      /\ sessions = <<>> /\ stack = <<>> /\ reached = {} /\ before = Outcomes
  BY DEF Init
<1>2. RecordsOK /\ RoutesOK
  BY <1>1 DEF RecordsOK, RoutesOK
<1>3. status \in [Selectors -> Statuses] /\ queue \in Seq(Selectors)
  BY <1>1 DEF Statuses
<1>4. DataOK
  BY <1>1, <1>2, <1>3 DEF DataOK
<1>5. SessionsWF
  <2>1. <<>> \in Seq(Range(<<>>)) /\ DOMAIN <<>> = {}
    BY SeqOfRange
  <2> QED BY <1>1, <2>1 DEF SessionsWF
<1>6. SessionsCounted
  <2>1. Base = 0 /\ Len(<<>>) + 1 = 1 /\ Len(<<>>) = 0
    BY <1>1 DEF Base
  <2> QED BY <1>1, <2>1, LevelEmpty DEF SessionsCounted
<1>7. StackOK(stack, Base, record, nextToken)
  BY <1>1, EmptyOK
<1>8. BeforeOK /\ ReachesChanged
  BY <1>1 DEF Outcomes, BeforeOK, ReachesChanged, Changed
<1> QED BY <1>4, <1>5, <1>6, <1>7, <1>8 DEF IInv

LEMMA StutterInvariant == IInv /\ UNCHANGED settlementVars => IInv'
<1> SUFFICES ASSUME IInv, UNCHANGED settlementVars PROVE IInv'
  OBVIOUS
<1>1. UNCHANGED <<body, value, graphVars, mode, nextToken, sessions, stack, before>>
  BY DEF settlementVars, vars, history
<1>2. StackOK(stack, Base, record, nextToken)
  BY DEF IInv
<1> QED BY <1>1, <1>2, OnlyStack

LEMMA NextInvariant == IInv /\ [Next]_settlementVars => IInv'
<1> SUFFICES ASSUME IInv, [Next]_settlementVars PROVE IInv'
  OBVIOUS
<1>1. ASSUME NEW s \in Selectors, Get(s) PROVE IInv'
  BY <1>1, GetInductive
<1>2. ASSUME NEW after \in [Atoms -> Values], Commit(after) PROVE IInv'
  BY <1>2, CommitInductive
<1>3. CASE SettleNext
  BY <1>3, SettleNextInductive
<1>4. CASE Done
  BY <1>4, DoneInductive
<1>5. CASE ReadActive /\ UNCHANGED history
  BY <1>5, ReadActiveInductive
<1>6. CASE Read(Serving) /\ UNCHANGED history
  BY <1>6, ReadInductive
<1>7. CASE Serve /\ UNCHANGED history
  BY <1>7, ServeInductive
<1>8. CASE Accept /\ UNCHANGED history
  BY <1>8, AcceptInductive
<1>9. CASE Install /\ UNCHANGED before
  BY <1>9, InstallInductive
<1>10. CASE EnterKnown
  BY <1>10, EnterKnownInductive
<1>11. CASE EnterWalk
  BY <1>11, EnterWalkInductive
<1>12. CASE Walk
  BY <1>12, WalkInductive
<1>13. CASE Evaluate
  BY <1>13, EvaluateInductive
<1>14. CASE LeaveClean
  BY <1>14, LeaveCleanInductive
<1>15. CASE LeaveEvaluated
  BY <1>15, LeaveEvaluatedInductive
<1>16. CASE UNCHANGED settlementVars
  BY <1>16, StutterInvariant
<1> QED BY <1>1, <1>2, <1>3, <1>4, <1>5, <1>6, <1>7, <1>8, <1>9, <1>10, <1>11, <1>12, <1>13,
           <1>14, <1>15, <1>16 DEF Next

\* In every reachable state the invariant holds: the frames, the sessions and the
\* records of reads and propagations, however they nest, are as described above.
THEOREM Invariant == Spec => []IInv
<1>1. Init => IInv
  BY InitInvariant
<1>2. IInv /\ [Next]_settlementVars => IInv'
  BY NextInvariant
<1> QED BY <1>1, <1>2, PTL DEF Spec

\* Everything has its type: no path, however it was cut or rerouted, comes to the
\* selector it belongs to, and no selector is recorded as read twice.
THEOREM TypeCorrect == Spec => []TypeOK
<1>1. IInv => TypeOK
  <2> SUFFICES ASSUME IInv PROVE TypeOK
    OBVIOUS
  <2>1. DataOK /\ SessionsWF
    BY DEF IInv
  <2>2. ASSUME NEW s \in Selectors, record[s] # None
        PROVE  /\ record[s].out \in Values \cup {Error}
               /\ record[s].token \in 0..nextToken
               /\ record[s].deps \in Seq(Nodes) /\ IsInjective(record[s].deps)
               /\ record[s].success \in Values \cup {None}
    <3>1. RecordWF(record[s], nextToken) /\ nextToken \in Nat
      BY <2>1, <2>2 DEF DataOK, RecordsOK
    <3> QED BY <3>1 DEF RecordWF, Records
  <2>3. ASSUME NEW s \in Selectors, routes[s] # None
        PROVE  {routes[s].reported, routes[s].path} \subseteq Seq(Selectors \ {s})
    BY <2>1, <2>3 DEF DataOK, RoutesOK, RouteWF
  <2>4. ASSUME NEW i \in DOMAIN stack
        PROVE  stack[i].call \in {"settle", "evaluate"} /\ stack[i].selector \in Selectors
    BY <2>4 DEF IInv, StackOK, FrameWF, EvaluationWF, SettleWF
  <2>5. \A i \in DOMAIN sessions : sessions[i].outer \in 0..i - 1 /\ sessions[i].publications \in Nat
    BY <2>1 DEF SessionsWF
  <2>6. {graphVersion, provisional, nextToken} \subseteq Nat
    BY <2>1 DEF DataOK
  <2> QED BY <2>1, <2>2, <2>3, <2>4, <2>5, <2>6 DEF DataOK, TypeOK, Statuses
<1> QED BY <1>1, Invariant, PTL

\* No read or propagation, at any point and in whatever nesting it settles selectors,
\* changes an outcome without reaching the subscriptions of its selector: equal tokens
\* never hide a different outcome.
THEOREM ChangesReached == Spec => []ReachesChanged
<1>1. IInv => ReachesChanged
  BY DEF IInv
<1> QED BY <1>1, Invariant, PTL

\* No selector is in evaluation twice in one session, and none that is waits to be
\* evaluated for a read of the same session: a getter that comes back to itself gets a
\* cycle, never a second run inside the first.
THEOREM NoReentrance == Spec => [](Apart(stack) /\ Serveable(stack))
<1>1. IInv => Apart(stack) /\ Serveable(stack)
  BY DEF IInv, StackOK
<1> QED BY <1>1, Invariant, PTL

\* Settles that open sessions close them in turn: when no call is in flight, the
\* sessions that are open are those of the read.
THEOREM SessionsClosed == Spec => [](stack = <<>> => Len(sessions) = Base)
<1>1. IInv => (stack = <<>> => Len(sessions) = Base)
  <2> SUFFICES ASSUME IInv, stack = <<>> PROVE Len(sessions) = Base
    OBVIOUS
  <2>1. Base \in Nat /\ Level(stack, Len(stack) + 1, Base) = Len(sessions)
    BY StackFacts
  <2>2. Len(<<>>) + 1 = 1
    OBVIOUS
  <2> QED BY <2>1, <2>2, LevelEmpty
<1> QED BY <1>1, Invariant, PTL

-----------------------------------------------------------------------------
(* Graphs *)

\* What is reachable from a contains a, and all that its edges lead to.
LEMMA ReachableClosed ==
  ASSUME NEW edges, NEW a \in Selectors
  PROVE  /\ a \in ReachableFrom(edges, a)
         /\ \A x \in ReachableFrom(edges, a), y \in Selectors :
              <<x, y>> \in edges => y \in ReachableFrom(edges, a)
<1> DEFINE N == Cardinality(Selectors)
<1>1. N \in Nat
  BY NodesAssumption, FS_CardinalityType
<1>2. PICK v : Spreads(v, edges, a) /\ ReachableFrom(edges, a) = v[N]
  BY ReachableSteps
<1> DEFINE Final == {n \in 0..N : v[n] \subseteq v[N]}
<1>3. \A n \in 0..N : v[n] \subseteq v[N]
  <2> DEFINE D == {k \in 0..N : v[N - k] \subseteq v[N]}
  <2>1. 0 \in D
    BY <1>1
  <2>2. ASSUME NEW k \in 1..N, k - 1 \in D PROVE k \in D
    <3>1. N - k \in 0..N /\ (N - k) + 1 \in 1..N /\ N - (k - 1) = (N - k) + 1
          /\ ((N - k) + 1) - 1 = N - k /\ k \in 0..N
      BY <1>1
    <3>2. v[N - k] \subseteq v[(N - k) + 1]
      BY <1>2, <3>1 DEF Spreads, N
    <3> HIDE DEF N
    <3>3. v[(N - k) + 1] \subseteq v[N]
      BY <2>2, <3>1
    <3> QED BY <3>1, <3>2, <3>3
  <2>3. \A k \in 0..N : k \in D
    <3> HIDE DEF D, N
    <3> QED BY <1>1, <2>1, <2>2, IntervalInduction
  <2>4. ASSUME NEW n \in 0..N PROVE v[n] \subseteq v[N]
    <3>1. N - n \in 0..N /\ N - (N - n) = n
      BY <1>1
    <3> HIDE DEF N
    <3>2. v[N - (N - n)] \subseteq v[N]
      BY <2>3, <3>1
    <3> QED BY <3>1, <3>2
  <2> QED BY <2>4
<1>4. a \in v[N]
  BY <1>1, <1>2, <1>3 DEF Spreads
<1>5. ASSUME NEW x \in v[N], NEW y \in Selectors, <<x, y>> \in edges
      PROVE  y \in v[N]
  <2>1. PICK w \in Walks(edges, a, x) : TRUE
    BY <1>2, ReachableWalk
  <2> DEFINE z == Append(w, y)
  <2>2. /\ w \in Seq(Selectors) /\ w # <<>> /\ w[1] = a /\ w[Len(w)] = x
        /\ \A i \in 1..Len(w) - 1 : <<w[i], w[i + 1]>> \in edges
    BY <2>1 DEF Walks
  <2>3. /\ z \in Seq(Selectors) /\ z # <<>> /\ Len(z) = Len(w) + 1 /\ Len(w) \in Nat \ {0}
        /\ z[Len(w) + 1] = y /\ \A i \in 1..Len(w) : z[i] = w[i]
    BY <2>2
  <2> HIDE DEF z
  <2>4. ASSUME NEW i \in 1..Len(z) - 1 PROVE <<z[i], z[i + 1]>> \in edges
    <3>1. CASE i = Len(w)
      <4>1. z[i] = x /\ z[i + 1] = y
        BY <2>2, <2>3, <3>1
      <4> QED BY <1>5, <4>1
    <3>2. CASE i # Len(w)
      <4>1. i \in 1..Len(w) - 1 /\ z[i] = w[i] /\ z[i + 1] = w[i + 1]
        BY <2>3, <3>2
      <4> QED BY <2>2, <4>1
    <3> QED BY <3>1, <3>2
  <2>5. z[1] = a /\ z[Len(z)] = y
    <3>1. 1 \in 1..Len(w)
      BY <2>3
    <3> QED BY <2>2, <2>3, <3>1
  <2>6. Walks(edges, a, y) # {}
    BY <2>3, <2>4, <2>5 DEF Walks
  <2>7. PICK p \in Walks(edges, a, y) : \A u \in Walks(edges, a, y) : Len(p) <= Len(u)
    BY <2>6, ShortestWalk
  <2>8. IsInjective(p)
    BY <2>7, ShortestInjective
  <2>9. p \in Seq(Selectors) /\ DOMAIN p = 1..Len(p) /\ Len(p) \in Nat \ {0}
        /\ p[1] = a /\ p[Len(p)] = y
        /\ \A i \in 1..Len(p) - 1 : <<p[i], p[i + 1]>> \in edges
    BY <2>7 DEF Walks
  <2>10. Len(p) <= N
    <3>1. p \in [1..Len(p) -> Selectors]
      BY <2>9
    <3>2. p \in Injection(1..Len(p), Selectors)
      BY <2>8, <3>1 DEF Injection, IsInjective
    <3>3. Cardinality(1..Len(p)) <= N
      BY <3>2, NodesAssumption, FS_Injection
    <3>4. Cardinality(1..Len(p)) = Len(p)
      BY <2>9, FS_Interval
    <3> QED BY <3>3, <3>4
  <2> HIDE DEF N
  <2> DEFINE m == Len(p) - 1
             D == {k \in 0..m : p[k + 1] \in v[k]}
  <2>11. m \in Nat /\ m \in 0..N /\ m + 1 = Len(p)
    BY <1>1, <2>9, <2>10
  <2>12. 0 \in D
    BY <1>2, <2>9, <2>11 DEF Spreads
  <2>13. ASSUME NEW k \in 1..m, k - 1 \in D PROVE k \in D
    <3>1. k \in 1..N /\ k \in 0..m /\ k \in 1..Len(p) - 1 /\ k + 1 \in 1..Len(p) /\ (k - 1) + 1 = k
      BY <1>1, <2>9, <2>11
    <3>2. p[k] \in v[k - 1]
      BY <2>13, <3>1
    <3>3. <<p[k], p[k + 1]>> \in edges /\ p[k + 1] \in Selectors
      BY <2>9, <3>1
    <3>4. p[k + 1] \in v[k]
      BY <1>2, <3>1, <3>2, <3>3 DEF Spreads, N
    <3> QED BY <3>1, <3>4
  <2>14. \A k \in 0..m : k \in D
    <3> HIDE DEF D, m
    <3> QED BY <2>11, <2>12, <2>13, IntervalInduction
  <2>15. p[m + 1] \in v[m]
    <3>1. m \in 0..m
      BY <2>11
    <3> HIDE DEF m
    <3> QED BY <2>14, <3>1
  <2> HIDE DEF m
  <2> QED BY <1>3, <2>9, <2>11, <2>15
<1> QED BY <1>2, <1>4, <1>5

\* It is the least such set.
LEMMA ReachableLeast ==
  ASSUME NEW edges, NEW a \in Selectors, NEW S, a \in S,
         \A x \in S, y \in Selectors : <<x, y>> \in edges => y \in S
  PROVE  ReachableFrom(edges, a) \subseteq S
<1> DEFINE N == Cardinality(Selectors)
           T == SUBSET S
<1>1. N \in Nat
  BY NodesAssumption, FS_CardinalityType
<1>2. PICK v : Spreads(v, edges, a) /\ ReachableFrom(edges, a) = v[N]
  BY ReachableSteps
<1>3. v[0] \in T
  BY <1>2 DEF Spreads
<1>4. \A n \in 1..N : v[n - 1] \in T => v[n] \in T
  BY <1>2 DEF Spreads, N
<1>5. \A n \in 0..N : v[n] \in T
  <2> HIDE DEF N, T
  <2> QED BY <1>1, <1>3, <1>4, Stays
<1>6. v[N] \in T
  <2> HIDE DEF T
  <2> QED BY <1>1, <1>5
<1> QED BY <1>2, <1>6

\* Edges that are gone close no cycle.
LEMMA FewerEdges ==
  ASSUME NEW g, NEW h, \A x \in Selectors : h[x] \subseteq g[x],
         NEW a \in Selectors, OffCycle(g, a)
  PROVE  OffCycle(h, a)
BY DEF OffCycle, Closed

\* A selector that leads nowhere is on no cycle.
LEMMA NoEdges ==
  ASSUME NEW g, NEW a \in Selectors, g[a] = {}
  PROVE  OffCycle(g, a)
<1>1. {} \in SUBSET Selectors /\ Closed(g, {}) /\ g[a] \subseteq {} /\ a \notin {}
  BY DEF Closed
<1> QED BY <1>1, Zenon DEF OffCycle

\* Whatever a selector that is on no cycle leads to, it closes none through another.
LEMMA OtherEdges ==
  ASSUME NEW g, NEW h, NEW t \in Selectors, NEW a \in Selectors, a # t,
         \A x \in Selectors : x # t => h[x] \subseteq g[x],
         OffCycle(g, a), OffCycle(h, t)
  PROVE  OffCycle(h, a)
<1>1. PICK S \in SUBSET Selectors : Closed(g, S) /\ g[a] \subseteq S /\ a \notin S
  BY DEF OffCycle
<1>2. PICK T \in SUBSET Selectors : Closed(h, T) /\ h[t] \subseteq T /\ t \notin T
  BY DEF OffCycle
<1>3. CASE t \notin S
  <2>1. Closed(h, S) /\ h[a] \subseteq S
    BY <1>1, <1>3 DEF Closed
  <2> QED BY <1>1, <2>1 DEF OffCycle
<1>4. CASE t \in S /\ a \notin T
  <2> DEFINE U == S \cup T
  <2>1. Closed(h, U) /\ h[a] \subseteq U /\ a \notin U /\ U \in SUBSET Selectors
    BY <1>1, <1>2, <1>4 DEF Closed
  <2> QED BY <2>1 DEF OffCycle
<1>5. CASE t \in S /\ a \in T
  <2> DEFINE U == S \cap T
  <2>1. Closed(h, U) /\ h[a] \subseteq U /\ a \notin U /\ U \in SUBSET Selectors
    BY <1>1, <1>2, <1>5 DEF Closed
  <2> QED BY <2>1 DEF OffCycle
<1> QED BY <1>3, <1>4, <1>5

\* An edge from t to d closes no cycle if d does not lead to t.
LEMMA OneEdge ==
  ASSUME NEW g, NEW h, NEW t \in Selectors, NEW d \in Selectors, NEW a \in Selectors,
         \A x \in Selectors : x # t => h[x] \subseteq g[x], h[t] \subseteq g[t] \cup {d},
         OffCycle(g, a), NEW R \in SUBSET Selectors, Closed(g, R), d \in R, t \notin R
  PROVE  OffCycle(h, a)
<1>1. PICK S \in SUBSET Selectors : Closed(g, S) /\ g[a] \subseteq S /\ a \notin S
  BY DEF OffCycle
<1>2. CASE t \notin S /\ a # t
  <2>1. Closed(h, S) /\ h[a] \subseteq S
    BY <1>1, <1>2 DEF Closed
  <2> QED BY <1>1, <2>1 DEF OffCycle
<1>3. CASE a \notin R /\ (t \in S \/ a = t)
  <2> DEFINE U == S \cup R
  <2>1. Closed(h, U)
    BY <1>1, <1>3 DEF Closed
  <2>2. h[a] \subseteq U /\ a \notin U /\ U \in SUBSET Selectors
    BY <1>1, <1>3
  <2> QED BY <2>1, <2>2 DEF OffCycle
<1>4. CASE a \in R /\ a # t
  <2> DEFINE U == S \cap R
  <2>1. Closed(h, U) /\ h[a] \subseteq U /\ a \notin U /\ U \in SUBSET Selectors
    BY <1>1, <1>4 DEF Closed
  <2> QED BY <2>1 DEF OffCycle
<1> QED BY <1>2, <1>3, <1>4

\* The selectors that have no path to t along `edges`, and those that a has one to.
Away(edges, t) == {x \in Selectors : t \notin ReachableFrom(edges, x)}

\* The edges do not lead out of them.
LEMMA AwayClosed ==
  ASSUME NEW edges, NEW t \in Selectors
  PROVE  /\ t \notin Away(edges, t)
         /\ \A x \in Away(edges, t), y \in Selectors : <<x, y>> \in edges => y \in Away(edges, t)
<1>1. t \in ReachableFrom(edges, t)
  BY ReachableClosed
<1>2. ASSUME NEW x \in Away(edges, t), NEW y \in Selectors, <<x, y>> \in edges
      PROVE  y \in Away(edges, t)
  <2> SUFFICES ASSUME t \in ReachableFrom(edges, y) PROVE FALSE
    BY DEF Away
  <2>1. x \in Selectors /\ t \notin ReachableFrom(edges, x)
    BY DEF Away
  <2>2. y \in ReachableFrom(edges, x)
    BY <1>2, <2>1, ReachableClosed
  <2>3. ReachableFrom(edges, y) \subseteq ReachableFrom(edges, x)
    BY <2>1, <2>2, ReachableClosed, ReachableLeast
  <2> QED BY <2>1, <2>3
<1> QED BY <1>1, <1>2 DEF Away

\* If the edges in X close no cycle, there is none with them if there is none without.
LEMMA HarmlessEdges ==
  ASSUME NEW g \in [Selectors -> SUBSET Selectors], NEW edges,
         \A x \in Selectors : \A y \in g[x] : <<x, y>> \in edges,
         NEW X, \A x, y \in Selectors : <<x, y>> \in X => x \notin ReachableFrom(edges, y),
         NEW a \in Selectors, OffCycle(Without(g, X), a)
  PROVE  OffCycle(g, a)
<1>1. PICK S \in SUBSET Selectors :
         Closed(Without(g, X), S) /\ Without(g, X)[a] \subseteq S /\ a \notin S
  BY DEF OffCycle
<1> DEFINE R == ReachableFrom(edges, a) \cap Selectors
           T == Away(edges, a)
           U == (S \cap R) \cup T
<1>2. \A x \in R : \A y \in g[x] : y \in R
  BY ReachableClosed
<1>3. a \in R
  BY ReachableClosed
<1>4. \A x \in T : \A y \in g[x] : y \in T
  BY AwayClosed DEF Away
<1>5. a \notin T /\ T \subseteq Selectors
  BY AwayClosed DEF Away
<1>6. ASSUME NEW x \in R, NEW y \in g[x], <<x, y>> \in X
      PROVE  y \in T
  <2> SUFFICES ASSUME a \in ReachableFrom(edges, y) PROVE FALSE
    BY DEF Away
  <2>1. y \in Selectors /\ x \in Selectors
    OBVIOUS
  <2>2. ReachableFrom(edges, a) \subseteq ReachableFrom(edges, y)
    BY <2>1, ReachableClosed, ReachableLeast
  <2> QED BY <1>6, <2>1, <2>2
<1>7. ASSUME NEW x \in R, x \in S \/ x = a, NEW y \in g[x]
      PROVE  y \in U
  <2>1. CASE <<x, y>> \in X
    BY <1>6, <2>1
  <2>2. CASE <<x, y>> \notin X
    <3>1. y \in Without(g, X)[x]
      BY <2>2 DEF Without
    <3>2. y \in S
      BY <1>1, <1>7, <3>1 DEF Closed
    <3> QED BY <1>2, <3>2
  <2> QED BY <2>1, <2>2
<1> HIDE DEF R, T
<1>8. Closed(g, U)
  BY <1>4, <1>7 DEF Closed
<1>9. g[a] \subseteq U /\ a \notin U /\ U \in SUBSET Selectors
  BY <1>1, <1>3, <1>5, <1>7
<1> QED BY <1>8, <1>9 DEF OffCycle

-----------------------------------------------------------------------------
(* Evaluations in flight, and what they have proved *)

\* fl with an evaluation more.
Pushed(fl, n, v) == [i \in DOMAIN fl \cup {n} |-> IF i = n THEN v ELSE fl[i]]

\* Publications of other sessions are of no concern.
LEMMA SamePublications ==
  ASSUME NEW fl, NEW G, NEW has, NEW gv, NEW P, GraphOK(fl, G, has, gv, P),
         NEW Q, \A j \in DOMAIN fl : Q[fl[j].session] = P[fl[j].session]
  PROVE  GraphOK(fl, G, has, gv, Q)
<1>1. VersionsOK(fl, gv, Q)
  BY DEF GraphOK, VersionsOK, VersionOK
<1>2. KnownOK(fl, G, has, gv, Q)
  BY DEF GraphOK, KnownOK, Alone
<1>3. \A j \in DOMAIN fl : Trusted(fl, G, gv, Q, j) = Trusted(fl, G, gv, P, j)
  BY DEF Trusted, Suspect, Alone
<1>4. ProvenOK(fl, G, gv, Q)
  BY <1>3 DEF GraphOK, ProvenOK
<1> QED BY <1>1, <1>2, <1>4 DEF GraphOK

\* A new evaluation of t, which starts from the record of t.
Starts(v, G, has, gv, P) ==
  /\ v.selector \in Selectors /\ v.session \in Nat \ {0} /\ P[v.session] \in Nat
  /\ ReadBy(v) = {} /\ KnownTo(v) = G[v.selector] /\ v.observed = None
  /\ v.known = None => v.selector \notin has
  /\ v.entry = <<gv, P[v.session]>> /\ v.proof = <<gv, P[v.session]>>

\* To push one keeps the proofs of those below, and it has nothing to prove yet.
LEMMA PushGraph ==
  ASSUME NEW fl, NEW G, NEW has, NEW gv, NEW P, GraphOK(fl, G, has, gv, P),
         NEW v, Starts(v, G, has, gv, P), NEW n \in Nat,
         \A j \in DOMAIN fl :
           /\ j < n /\ fl[j].session <= v.session
           /\ fl[j].session = v.session => fl[j].selector # v.selector
  PROVE  GraphOK(Pushed(fl, n, v), G, has, gv, P)
<1> DEFINE more == Pushed(fl, n, v)
           t == v.selector
<1>0. FramesOK(fl) /\ VersionsOK(fl, gv, P) /\ KnownOK(fl, G, has, gv, P)
      /\ ProvenOK(fl, G, gv, P) /\ RestingOK(fl, G)
  BY DEF GraphOK
<1>1. /\ DOMAIN more = DOMAIN fl \cup {n} /\ n \notin DOMAIN fl /\ DOMAIN fl \subseteq Nat
      /\ more[n] = v /\ \A j \in DOMAIN fl : more[j] = fl[j] /\ j # n
  BY <1>0 DEF Pushed, FramesOK
<1> HIDE DEF more
<1>2. FramesOK(more)
  <2>1. \A j \in DOMAIN more :
          /\ more[j].selector \in Selectors
          /\ more[j].session \in Nat \ {0}
          /\ more[j].observed = None \/ more[j].observed \in SUBSET (Selectors \X Selectors)
    BY <1>0, <1>1 DEF FramesOK, Starts
  <2>2. \A i, j \in DOMAIN more : i < j => more[i].session <= more[j].session
    BY <1>0, <1>1 DEF FramesOK
  <2>3. \A i, j \in DOMAIN more :
          more[i].session = more[j].session /\ more[i].selector = more[j].selector => i = j
    BY <1>0, <1>1 DEF FramesOK
  <2> QED BY <1>1, <2>1, <2>2, <2>3 DEF FramesOK
<1>3. VersionsOK(more, gv, P)
  <2>1. VersionOK(v, gv, P)
    BY <1>0 DEF Starts, VersionOK, VersionsOK
  <2> QED BY <1>0, <1>1, <2>1 DEF VersionsOK
<1>4. KnownOK(more, G, has, gv, P)
  BY <1>0, <1>1 DEF KnownOK, Starts
<1>5. ASSUME NEW j \in DOMAIN fl, NEW s \in Selectors
      PROVE  Seen(more, G, gv, j)[s] \subseteq Seen(fl, G, gv, j)[s]
  <2>1. Below(more, j, s) <=> Below(fl, j, s)
    BY <1>0, <1>1 DEF Below, FramesOK
  <2>2. \A h \in DOMAIN fl : Reading(more, gv, h) \subseteq Reading(fl, gv, h)
    BY <1>1 DEF Reading
  <2>3. CASE s = t /\ fl[j].session = v.session
    <3>1. Again(fl, j, s) = {}
      BY <2>3 DEF Again
    <3>2. Again(more, j, s) \subseteq {n}
      BY <1>1, <2>3 DEF Again
    <3>3. Reading(more, gv, n) \subseteq G[s]
      BY <1>1, <2>3 DEF Reading, Starts
    <3> QED BY <2>1, <3>1, <3>2, <3>3 DEF Seen
  <2>4. CASE ~(s = t /\ fl[j].session = v.session)
    <3>1. Again(more, j, s) = Again(fl, j, s)
      BY <1>1, <2>4 DEF Again
    <3>2. Again(fl, j, s) \subseteq DOMAIN fl
      BY DEF Again
    <3> QED BY <2>1, <2>2, <3>1, <3>2 DEF Seen
  <2> QED BY <2>3, <2>4
<1>6. ASSUME NEW j \in DOMAIN fl, ~Below(more, j, more[j].selector)
      PROVE  OffCycle(Trusted(more, G, gv, P, j), more[j].selector)
  <2>1. ~Below(fl, j, fl[j].selector)
    BY <1>1, <1>6 DEF Below
  <2>2. OffCycle(Trusted(fl, G, gv, P, j), fl[j].selector) /\ fl[j].selector \in Selectors
    BY <1>0, <2>1 DEF ProvenOK, FramesOK
  <2>3. Suspect(more[j], gv, P) = Suspect(fl[j], gv, P)
    BY <1>1
  <2>4. \A s \in Selectors : Trusted(more, G, gv, P, j)[s] \subseteq Trusted(fl, G, gv, P, j)[s]
    BY <1>5, <2>3 DEF Trusted, Without
  <2> QED BY <1>1, <2>2, <2>4, FewerEdges
<1>7. ASSUME ~Below(more, n, t)
      PROVE  OffCycle(Trusted(more, G, gv, P, n), t)
  <2>1. ASSUME NEW s \in Selectors
        PROVE  Seen(more, G, gv, n)[s] \subseteq Resting(fl, G)[s]
    <3>1. Again(more, n, s) \subseteq {n} /\ (s = t => Again(more, n, s) = {n}) /\ (s # t => Again(more, n, s) = {})
      BY <1>0, <1>1 DEF Again, FramesOK
    <3>2. Reading(more, gv, n) \subseteq G[t]
      BY <1>1 DEF Reading, Starts
    <3>3. ASSUME NEW d \in Seen(more, G, gv, n)[s] PROVE d \in G[s]
      BY <3>1, <3>2 DEF Seen
    <3>4. ASSUME NEW d \in Seen(more, G, gv, n)[s], NEW i \in DOMAIN fl PROVE fl[i].selector # s
      BY <1>1 DEF Seen, Below
    <3> QED BY <3>3, <3>4 DEF Resting
  <2>2. \A s \in Selectors : Trusted(more, G, gv, P, n)[s] \subseteq Resting(fl, G)[s]
    BY <2>1 DEF Trusted, Without
  <2>3. t \in Selectors /\ OffCycle(Resting(fl, G), t)
    BY <1>0 DEF RestingOK, Starts
  <2> QED BY <2>2, <2>3, FewerEdges
<1>8. ProvenOK(more, G, gv, P)
  BY <1>1, <1>6, <1>7 DEF ProvenOK
<1>9. RestingOK(more, G)
  <2>1. \A s \in Selectors : Resting(more, G)[s] \subseteq Resting(fl, G)[s]
    BY <1>1 DEF Resting
  <2> QED BY <1>0, <2>1, FewerEdges DEF RestingOK
<1> QED BY <1>2, <1>3, <1>4, <1>8, <1>9 DEF GraphOK, more

\* w is the evaluation v, with the edges to look at if it looks at any.
Marking(v, w, edges) ==
  /\ w.selector = v.selector /\ w.session = v.session /\ w.deps = v.deps
  /\ w.known = v.known /\ w.entry = v.entry /\ w.proof = v.proof
  /\ v.observed = None => w.observed = None
  /\ v.observed # None => w.observed = v.observed \cup edges

\* The record of the top evaluation becomes what it has read, which is announced to the
\* others.
Publishes(v, G, H, gv, P, Q, edges) ==
  /\ H[v.selector] = ReadBy(v)
  /\ \A s \in Selectors : s # v.selector => H[s] = G[s]
  /\ Q[v.session] = P[v.session] + 1
  /\ edges \in SUBSET (Selectors \X Selectors)
  /\ \A d \in ReadBy(v) : d \in G[v.selector] \/ <<v.selector, d>> \in edges

\* Installing an evaluation without suspect edges keeps what the others have proved:
\* those of its session have seen its reads, the others are told.
LEMMA PopGraph ==
  ASSUME NEW fl, NEW G, NEW has, NEW gv, NEW P, GraphOK(fl, G, has, gv, P),
         NEW n \in DOMAIN fl, \A j \in DOMAIN fl : j <= n,
         Suspect(fl[n], gv, P) = {},
         NEW H, NEW Q, NEW edges, Publishes(fl[n], G, H, gv, P, Q, edges),
         \A j \in DOMAIN fl : fl[j].session # fl[n].session => Q[fl[j].session] = P[fl[j].session],
         NEW less, DOMAIN less = DOMAIN fl \ {n},
         \A j \in DOMAIN less : Marking(fl[j], less[j], edges)
  PROVE  GraphOK(less, H, has \cup {fl[n].selector}, gv + 1, Q)
<1> DEFINE v == fl[n]
           t == v.selector
<1>0. FramesOK(fl) /\ VersionsOK(fl, gv, P) /\ KnownOK(fl, G, has, gv, P)
      /\ ProvenOK(fl, G, gv, P) /\ RestingOK(fl, G)
  BY DEF GraphOK
<1>1. /\ DOMAIN fl \subseteq Nat /\ gv \in Nat
      /\ v.selector \in Selectors /\ v.session \in Nat \ {0}
      /\ \A j \in DOMAIN less : j \in DOMAIN fl /\ j < n
      /\ \A j \in DOMAIN fl : j \in DOMAIN less \/ j = n
  BY <1>0 DEF FramesOK, VersionsOK
<1>2. \A j \in DOMAIN less :
        /\ less[j].selector = fl[j].selector /\ less[j].session = fl[j].session
        /\ less[j].known = fl[j].known /\ less[j].deps = fl[j].deps
        /\ less[j].entry = fl[j].entry /\ less[j].proof = fl[j].proof
        /\ ReadBy(less[j]) = ReadBy(fl[j]) /\ KnownTo(less[j]) = KnownTo(fl[j])
  BY DEF Marking, ReadBy, KnownTo
<1>3. \A j \in DOMAIN less : /\ Marks(fl[j]) \subseteq Marks(less[j])
                             /\ fl[j].observed # None => edges \subseteq Marks(less[j])
                             /\ less[j].observed = None <=> fl[j].observed = None
  <2> TAKE j \in DOMAIN less
  <2>1. CASE fl[j].observed = None
    BY <2>1 DEF Marking, Marks
  <2>2. CASE fl[j].observed # None
    <3>1. fl[j].observed \in SUBSET (Selectors \X Selectors)
      BY <1>0, <1>1, <2>2 DEF FramesOK
    <3>2. fl[j].observed \cup edges \in SUBSET (Selectors \X Selectors)
      BY <3>1 DEF Publishes
    <3>3. less[j].observed = fl[j].observed \cup edges /\ less[j].observed # None
      BY <2>2, <3>2, UndefinedAssumption DEF Marking
    <3> QED BY <2>2, <3>3 DEF Marks
  <2> QED BY <2>1, <2>2
<1>4. FramesOK(less)
  <2>1. \A j \in DOMAIN less : less[j].observed = None \/ less[j].observed \in SUBSET (Selectors \X Selectors)
    BY <1>0, <1>1 DEF FramesOK, Marking, Publishes
  <2> QED BY <1>0, <1>1, <1>2, <2>1 DEF FramesOK
<1>5. ASSUME NEW j \in DOMAIN less
      PROVE  /\ VersionOK(less[j], gv + 1, Q)
             /\ fl[j].session # v.session => ~Alone(less[j], less[j].proof, gv + 1, Q)
             /\ fl[j].session # v.session => ~Alone(less[j], less[j].entry, gv + 1, Q)
             /\ fl[j].session = v.session =>
                  (Alone(less[j], less[j].proof, gv + 1, Q) <=> Alone(fl[j], fl[j].proof, gv, P))
             /\ fl[j].session = v.session =>
                  (Alone(less[j], less[j].entry, gv + 1, Q) <=> Alone(fl[j], fl[j].entry, gv, P))
             /\ fl[j].entry[1] <= gv /\ fl[j].entry[1] \in Nat
  <2>1. VersionOK(fl[j], gv, P)
    BY <1>0, <1>1 DEF VersionsOK
  <2>2. \/ fl[j].session # v.session /\ Q[fl[j].session] = P[fl[j].session]
        \/ fl[j].session = v.session /\ Q[fl[j].session] = P[fl[j].session] + 1
    BY <1>1 DEF Publishes
  <2> QED BY <1>1, <1>2, <2>1, <2>2 DEF VersionOK, Alone
<1>6. VersionsOK(less, gv + 1, Q)
  BY <1>1, <1>5 DEF VersionsOK
<1>7. KnownOK(less, H, has \cup {t}, gv + 1, Q)
  <2>1. \A s \in Selectors : H[s] \in SUBSET (Selectors \cap (has \cup {t}))
    <3>1. ReadBy(v) \subseteq has /\ ReadBy(v) \subseteq Selectors
      BY <1>0 DEF KnownOK, ReadBy
    <3> QED BY <1>0, <3>1 DEF KnownOK, Publishes
  <2>2. \A j \in DOMAIN less :
          /\ ReadBy(less[j]) \subseteq has \cup {t} /\ KnownTo(less[j]) \subseteq has \cup {t}
          /\ less[j].observed = None => ReadBy(less[j]) = {}
    BY <1>0, <1>1, <1>2, <1>3 DEF KnownOK
  <2>3. ASSUME NEW j \in DOMAIN less, less[j].known = None, Alone(less[j], less[j].entry, gv + 1, Q)
        PROVE  less[j].selector \notin has \cup {t}
    <3>1. fl[j].session = v.session /\ Alone(fl[j], fl[j].entry, gv, P)
      BY <1>5, <2>3
    <3>2. fl[j].selector \notin has
      BY <1>0, <1>1, <1>2, <2>3, <3>1 DEF KnownOK
    <3>3. fl[j].selector # t
      BY <1>0, <1>1, <3>1 DEF FramesOK
    <3> QED BY <1>2, <3>2, <3>3
  <2> QED BY <2>1, <2>2, <2>3 DEF KnownOK
<1>8. \A h \in DOMAIN less : Reading(less, gv + 1, h) \subseteq ReadBy(fl[h])
  <2> TAKE h \in DOMAIN less
  <2>1. gv + 1 # less[h].entry[1]
    BY <1>1, <1>2, <1>5
  <2> QED BY <1>2, <2>1 DEF Reading
<1>9. \A h \in DOMAIN fl : ReadBy(fl[h]) \subseteq Reading(fl, gv, h)
  BY DEF Reading
<1>10. ASSUME NEW j \in DOMAIN less, NEW s \in Selectors
       PROVE  /\ Below(less, j, s) <=> Below(fl, j, s)
              /\ Again(less, j, s) = Again(fl, j, s) \ {n}
              /\ n \in Again(fl, j, s) <=> s = t /\ fl[j].session = v.session
  BY <1>1, <1>2 DEF Below, Again
<1>11. ASSUME NEW j \in DOMAIN less, NEW s \in Selectors,
              NEW d \in Trusted(less, H, gv + 1, Q, j)[s], fl[j].observed # None
       PROVE  d \in Trusted(fl, G, gv, P, j)[s]
  <2>1. /\ d \in Selectors /\ ~Below(fl, j, s)
        /\ \/ Again(less, j, s) = {} /\ d \in H[s]
           \/ \E h \in Again(less, j, s) : d \in Reading(less, gv + 1, h)
        /\ <<s, d>> \notin Suspect(less[j], gv + 1, Q)
    BY <1>10, <1>11 DEF Trusted, Without, Seen
  <2>2. <<s, d>> \notin Suspect(fl[j], gv, P)
    BY <1>3, <1>5, <2>1 DEF Suspect
  <2>3. d \in Seen(fl, G, gv, j)[s]
    <3>1. CASE \E h \in Again(less, j, s) : d \in Reading(less, gv + 1, h)
      <4>1. PICK h \in Again(less, j, s) : d \in Reading(less, gv + 1, h)
        BY <3>1
      <4>2. h \in DOMAIN less
        BY DEF Again
      <4>3. h \in Again(fl, j, s) /\ d \in Reading(fl, gv, h)
        BY <1>1, <1>8, <1>9, <1>10, <4>1, <4>2
      <4> QED BY <2>1, <4>3 DEF Seen
    <3>2. CASE Again(less, j, s) = {} /\ d \in H[s] /\ n \in Again(fl, j, s)
      <4>1. d \in ReadBy(v)
        BY <1>10, <3>2 DEF Publishes
      <4>2. d \in Reading(fl, gv, n)
        BY <1>9, <4>1
      <4> QED BY <2>1, <3>2, <4>2 DEF Seen
    <3>3. CASE Again(less, j, s) = {} /\ d \in H[s] /\ n \notin Again(fl, j, s)
      <4>1. Again(fl, j, s) = {}
        BY <1>10, <3>3
      <4>2. CASE s # t
        BY <2>1, <3>3, <4>1, <4>2 DEF Publishes, Seen
      <4>3. CASE s = t
        <5>1. d \in ReadBy(v) /\ fl[j].session # v.session
          BY <1>10, <3>3, <4>3 DEF Publishes
        <5>2. <<s, d>> \notin edges
          BY <1>3, <1>5, <1>11, <2>1, <5>1 DEF Suspect
        <5>3. d \in G[s]
          BY <4>3, <5>1, <5>2 DEF Publishes
        <5> QED BY <2>1, <4>1, <5>3 DEF Seen
      <4> QED BY <4>2, <4>3
    <3> QED BY <2>1, <3>1, <3>2, <3>3
  <2> QED BY <2>2, <2>3 DEF Trusted, Without
<1>12. ASSUME NEW j \in DOMAIN less, ~Below(less, j, less[j].selector)
       PROVE  OffCycle(Trusted(less, H, gv + 1, Q, j), less[j].selector)
  <2> DEFINE a == fl[j].selector
  <2>1. a \in Selectors /\ less[j].selector = a
    BY <1>0, <1>1, <1>2 DEF FramesOK
  <2>2. CASE fl[j].observed # None
    <3>1. OffCycle(Trusted(fl, G, gv, P, j), a)
      BY <1>0, <1>1, <1>10, <1>12, <2>1 DEF ProvenOK
    <3>2. \A s \in Selectors : Trusted(less, H, gv + 1, Q, j)[s] \subseteq Trusted(fl, G, gv, P, j)[s]
      BY <1>11, <2>2
    <3> QED BY <2>1, <3>1, <3>2, FewerEdges
  <2>3. CASE fl[j].observed = None
    <3>1. Again(less, j, a) = {j}
      BY <1>1, <1>2, <1>4, <2>1 DEF Again, FramesOK
    <3>2. Reading(less, gv + 1, j) = {}
      BY <1>0, <1>1, <1>8, <2>3 DEF KnownOK
    <3>3. Trusted(less, H, gv + 1, Q, j)[a] = {}
      BY <2>1, <3>1, <3>2 DEF Trusted, Without, Seen
    <3> QED BY <2>1, <3>3, NoEdges
  <2> QED BY <2>2, <2>3
<1>13. RestingOK(less, H)
  <2>1. CASE \E j \in DOMAIN less : less[j].selector = t
    <3>1. \A s \in Selectors : Resting(less, H)[s] \subseteq Resting(fl, G)[s]
      BY <1>1, <1>2, <2>1 DEF Resting, Publishes
    <3> QED BY <1>0, <3>1, FewerEdges DEF RestingOK
  <2>2. CASE \A j \in DOMAIN less : less[j].selector # t
    <3>1. ~Below(fl, n, t)
      BY <1>1, <1>2, <2>2 DEF Below
    <3>2. OffCycle(Trusted(fl, G, gv, P, n), t)
      BY <1>0, <3>1 DEF ProvenOK
    <3>3. ASSUME NEW s \in Selectors, NEW d \in Resting(less, H)[s]
          PROVE  d \in Trusted(fl, G, gv, P, n)[s]
      <4>1. d \in H[s] /\ \A i \in DOMAIN less : fl[i].selector # s
        BY <1>2 DEF Resting
      <4>2. ~Below(fl, n, s)
        BY <1>1, <4>1 DEF Below
      <4>3. CASE s = t
        <5>1. n \in Again(fl, n, s) /\ d \in Reading(fl, gv, n)
          BY <1>1, <1>9, <4>1, <4>3 DEF Again, Publishes
        <5>2. d \in Selectors
          BY <4>1, <4>3 DEF Publishes, ReadBy
        <5> QED BY <4>2, <5>1, <5>2 DEF Trusted, Without, Seen
      <4>4. CASE s # t
        <5>1. Again(fl, n, s) = {}
          BY <1>1, <4>4 DEF Again
        <5>2. d \in G[s] /\ d \in Selectors
          BY <1>0, <4>1, <4>4 DEF Publishes, KnownOK
        <5> QED BY <4>2, <5>1, <5>2 DEF Trusted, Without, Seen
      <4> QED BY <4>3, <4>4
    <3>4. OffCycle(Resting(less, H), t)
      BY <1>1, <3>2, <3>3, FewerEdges
    <3>5. ASSUME NEW a \in Selectors, a # t
          PROVE  OffCycle(Resting(less, H), a)
      <4>1. \A s \in Selectors : s # t => Resting(less, H)[s] \subseteq Resting(fl, G)[s]
        BY <1>1, <1>2 DEF Resting, Publishes
      <4>2. OffCycle(Resting(fl, G), a)
        BY <1>0 DEF RestingOK
      <4> QED BY <1>1, <3>4, <3>5, <4>1, <4>2, OtherEdges
    <3> QED BY <3>4, <3>5 DEF RestingOK
  <2> QED BY <2>1, <2>2
<1>14. ProvenOK(less, H, gv + 1, Q)
  BY <1>12 DEF ProvenOK
<1> QED BY <1>4, <1>6, <1>7, <1>13, <1>14 DEF GraphOK

\* The effective graph: what the highest evaluation of a selector has read, its record
\* if there is none.
Effective(fl, G) ==
  {e \in Selectors \X Selectors :
     IF \A i \in DOMAIN fl : fl[i].selector # e[1]
       THEN e[2] \in G[e[1]]
       ELSE \E h \in DOMAIN fl :
              /\ fl[h].selector = e[1] /\ e[2] \in ReadBy(fl[h])
              /\ \A i \in DOMAIN fl : fl[i].selector = e[1] => i <= h}

\* What an evaluation of the innermost session has to answer for is effective, but for
\* what the innermost evaluation may read without asking.
LEMMA SeenEffective ==
  ASSUME NEW fl, NEW G, NEW gv, FramesOK(fl),
         NEW n \in DOMAIN fl, \A j \in DOMAIN fl : j <= n,
         NEW j \in DOMAIN fl, fl[j].session = fl[n].session,
         NEW s \in Selectors, s # fl[n].selector \/ gv # fl[n].entry[1],
         NEW d \in Seen(fl, G, gv, j)[s]
  PROVE  <<s, d>> \in Effective(fl, G)
<1>1. /\ d \in Selectors /\ ~Below(fl, j, s)
      /\ \/ Again(fl, j, s) = {} /\ d \in G[s]
         \/ \E h \in Again(fl, j, s) : d \in Reading(fl, gv, h)
  BY DEF Seen
<1>2. DOMAIN fl \subseteq Nat /\ \A i \in DOMAIN fl : fl[i].session \in Nat
  BY DEF FramesOK
<1>3. \A i \in DOMAIN fl : fl[i].selector = s => i \in Again(fl, j, s)
  <2> TAKE i \in DOMAIN fl
  <2> HAVE fl[i].selector = s
  <2>1. j <= i
    BY <1>1, <1>2 DEF Below
  <2>2. fl[i].session <= fl[n].session
    <3>1. i < n \/ i = n
      BY <1>2
    <3> QED BY <1>2, <3>1 DEF FramesOK
  <2>3. fl[j].session <= fl[i].session
    <3>1. j < i \/ j = i
      BY <1>2, <2>1
    <3> QED BY <1>2, <3>1 DEF FramesOK
  <2>4. fl[i].session = fl[j].session
    BY <1>2, <2>2, <2>3
  <2> QED BY <2>1, <2>4 DEF Again
<1>4. CASE Again(fl, j, s) = {} /\ d \in G[s]
  BY <1>1, <1>3, <1>4 DEF Effective
<1>5. CASE \E h \in Again(fl, j, s) : d \in Reading(fl, gv, h)
  <2>1. PICK h \in Again(fl, j, s) : d \in Reading(fl, gv, h)
    BY <1>5
  <2>2. h \in DOMAIN fl /\ fl[h].selector = s /\ fl[h].session = fl[j].session
    BY DEF Again
  <2>3. \A i \in DOMAIN fl : fl[i].selector = s => i = h
    <3>1. \A i \in Again(fl, j, s) : fl[i].selector = s /\ fl[i].session = fl[j].session
      BY DEF Again
    <3> QED BY <1>3, <2>2, <3>1 DEF FramesOK
  <2>4. d \in ReadBy(fl[h])
    <3>1. CASE h = n
      BY <2>1, <2>2, <3>1 DEF Reading
    <3>2. CASE h # n
      <4>1. ~(n <= h)
        BY <1>2, <2>2, <3>2
      <4> QED BY <2>1, <4>1 DEF Reading
    <3> QED BY <3>1, <3>2
  <2>5. \A i \in DOMAIN fl : fl[i].selector = s => i <= h
    BY <1>2, <2>2, <2>3
  <2> QED BY <1>1, <2>2, <2>4, <2>5 DEF Effective
<1> QED BY <1>1, <1>4, <1>5

\* fl with the evaluation at j replaced.
With(fl, j, w) == [i \in DOMAIN fl |-> IF i = j THEN w ELSE fl[i]]

\* w is v with its reads proved anew, or cut down to those that close no cycle.
Proves(v, w, edges, gv, P) ==
  /\ w.selector = v.selector /\ w.session = v.session
  /\ w.known = v.known /\ w.entry = v.entry
  /\ w.proof = v.proof \/ w.proof = <<gv, P[v.session]>>
  /\ \/ v.observed = None /\ w.observed = None /\ ReadBy(w) = ReadBy(v)
     \/ /\ v.observed # None /\ w.observed = {} /\ ReadBy(w) \subseteq ReadBy(v)
        /\ \/ \A e \in Suspect(v, gv, P) : e[1] \notin ReachableFrom(edges, e[2])
           \/ \A d \in ReadBy(w) : v.selector \notin ReachableFrom(edges, d)

\* To prove the reads of an evaluation of the innermost session keeps the proofs.
LEMMA ProveGraph ==
  ASSUME NEW fl, NEW G, NEW has, NEW gv, NEW P, GraphOK(fl, G, has, gv, P),
         NEW n \in DOMAIN fl, \A j \in DOMAIN fl : j <= n,
         NEW j \in DOMAIN fl, fl[j].session = fl[n].session, gv # fl[n].entry[1],
         NEW w, Proves(fl[j], w, Effective(fl, G), gv, P)
  PROVE  /\ GraphOK(With(fl, j, w), G, has, gv, P)
         /\ Suspect(w, gv, P) = {}
<1> DEFINE v == fl[j]
           z == With(fl, j, w)
           E == Effective(fl, G)
<1>0. FramesOK(fl) /\ VersionsOK(fl, gv, P) /\ KnownOK(fl, G, has, gv, P)
      /\ ProvenOK(fl, G, gv, P) /\ RestingOK(fl, G)
  BY DEF GraphOK
<1>1. /\ DOMAIN z = DOMAIN fl /\ z[j] = w /\ \A i \in DOMAIN fl : i # j => z[i] = fl[i]
      /\ DOMAIN fl \subseteq Nat
  BY <1>0 DEF With, FramesOK
<1> HIDE DEF z
<1>2. \A i \in DOMAIN fl : /\ z[i].selector = fl[i].selector /\ z[i].session = fl[i].session
                           /\ z[i].known = fl[i].known /\ z[i].entry = fl[i].entry
  BY <1>1 DEF Proves
<1>3. \A i \in DOMAIN fl : ReadBy(z[i]) \subseteq ReadBy(fl[i]) /\ KnownTo(z[i]) = KnownTo(fl[i])
  BY <1>1, <1>2 DEF Proves, KnownTo
<1>4. {} \in SUBSET (Selectors \X Selectors) /\ {} # None
  BY UndefinedAssumption
<1>5. Suspect(w, gv, P) = {}
  BY <1>4 DEF Proves, Suspect, Marks
<1>6. FramesOK(z)
  <2>1. w.observed = None \/ w.observed \in SUBSET (Selectors \X Selectors)
    BY <1>4 DEF Proves
  <2> QED BY <1>0, <1>1, <1>2, <2>1 DEF FramesOK
<1>7. VersionsOK(z, gv, P)
  <2>1. VersionOK(v, gv, P) /\ gv \in Nat
    BY <1>0 DEF VersionsOK
  <2>2. VersionOK(w, gv, P)
    <3>1. CASE w.proof = v.proof
      BY <2>1, <3>1 DEF VersionOK, Proves
    <3>2. CASE w.proof = <<gv, P[v.session]>>
      BY <2>1, <3>2 DEF VersionOK, Proves
    <3> QED BY <3>1, <3>2 DEF Proves
  <2> QED BY <1>0, <1>1, <2>2 DEF VersionsOK
<1>8. KnownOK(z, G, has, gv, P)
  <2>1. \A i \in DOMAIN fl : Alone(z[i], z[i].entry, gv, P) <=> Alone(fl[i], fl[i].entry, gv, P)
    BY <1>2 DEF Alone
  <2>2. \A i \in DOMAIN fl : z[i].observed = None => ReadBy(z[i]) = {}
    BY <1>0, <1>1, <1>4 DEF KnownOK, Proves
  <2> QED BY <1>0, <1>1, <1>2, <1>3, <2>1, <2>2 DEF KnownOK
<1>9. \A h \in DOMAIN fl : Reading(z, gv, h) \subseteq Reading(fl, gv, h)
  BY <1>1, <1>2, <1>3 DEF Reading
<1>10. \A k \in DOMAIN fl, s \in Selectors :
         (Below(z, k, s) <=> Below(fl, k, s)) /\ Again(z, k, s) = Again(fl, k, s)
  BY <1>1, <1>2 DEF Below, Again
<1>11. \A k \in DOMAIN fl, s \in Selectors : Seen(z, G, gv, k)[s] \subseteq Seen(fl, G, gv, k)[s]
  <2>1. \A k, s : Again(fl, k, s) \subseteq DOMAIN fl
    BY DEF Again
  <2> QED BY <1>9, <1>10, <2>1 DEF Seen
<1>12. ASSUME NEW k \in DOMAIN fl, ~Below(z, k, z[k].selector)
       PROVE  OffCycle(Trusted(z, G, gv, P, k), z[k].selector)
  <2> DEFINE a == fl[k].selector
  <2>1. a \in Selectors /\ z[k].selector = a
    BY <1>0, <1>2 DEF FramesOK
  <2>2. OffCycle(Trusted(fl, G, gv, P, k), a)
    BY <1>0, <1>10, <1>12, <2>1 DEF ProvenOK
  <2>3. CASE k # j \/ v.observed = None
    <3>1. Suspect(z[k], gv, P) = Suspect(fl[k], gv, P)
      BY <1>1, <1>5, <2>3 DEF Suspect, Marks
    <3>2. \A s \in Selectors : Trusted(z, G, gv, P, k)[s] \subseteq Trusted(fl, G, gv, P, k)[s]
      BY <1>11, <3>1 DEF Trusted, Without
    <3> QED BY <2>1, <2>2, <3>2, FewerEdges
  <2>4. \A s \in Selectors : \A d \in Seen(fl, G, gv, j)[s] : <<s, d>> \in E
    BY <1>0, SeenEffective
  <2>5. \A s \in Selectors : Trusted(z, G, gv, P, k)[s] \subseteq Seen(fl, G, gv, k)[s]
    BY <1>11 DEF Trusted, Without
  <2>6. CASE k = j /\ \A e \in Suspect(v, gv, P) : e[1] \notin ReachableFrom(E, e[2])
    <3> DEFINE g == Seen(fl, G, gv, j)
    <3>1. g \in [Selectors -> SUBSET Selectors]
      BY DEF Seen
    <3>2. OffCycle(Without(g, Suspect(v, gv, P)), a)
      BY <2>2, <2>6 DEF Trusted
    <3>3. \A x, y \in Selectors : <<x, y>> \in Suspect(v, gv, P) => x \notin ReachableFrom(E, y)
      BY <2>6
    <3> HIDE DEF g, E
    <3>4. OffCycle(g, a)
      BY <2>1, <2>4, <3>1, <3>2, <3>3, HarmlessEdges DEF g
    <3> QED BY <2>1, <2>5, <2>6, <3>4, FewerEdges DEF g
  <2>7. CASE k = j /\ v.observed # None /\ \A d \in ReadBy(w) : v.selector \notin ReachableFrom(E, d)
    <3> DEFINE S == Away(E, a)
               h == Trusted(z, G, gv, P, j)
    <3>1. S \in SUBSET Selectors /\ a \notin S
      BY <2>1, AwayClosed DEF Away
    <3>2. Closed(h, S)
      <4>1. \A x \in S : \A y \in h[x] : y \in Selectors /\ <<x, y>> \in E
        BY <2>4, <2>5, <2>7, <3>1 DEF Trusted, Without, Seen
      <4> HIDE DEF h, E
      <4> QED BY <2>1, <4>1, AwayClosed DEF Closed
    <3>3. h[a] \subseteq ReadBy(w)
      <4>1. Again(z, j, a) = {j}
        BY <1>1, <1>2, <1>6, <2>1, <2>7 DEF Again, FramesOK
      <4>2. Reading(z, gv, j) = ReadBy(w)
        <5>1. CASE j = n
          BY <1>1, <1>2, <5>1 DEF Reading
        <5>2. CASE j # n
          <6>1. n \in DOMAIN z /\ ~(n <= j)
            BY <1>1, <5>2
          <6> QED BY <1>1, <6>1 DEF Reading
        <5> QED BY <5>1, <5>2
      <4> QED BY <2>1, <4>1, <4>2 DEF Trusted, Without, Seen
    <3>4. h[a] \subseteq S
      <4>1. ReadBy(w) \subseteq Selectors
        BY DEF ReadBy
      <4> HIDE DEF h
      <4> QED BY <2>7, <3>3, <4>1 DEF Away
    <3> HIDE DEF h, S
    <3>5. OffCycle(h, a)
      BY <3>1, <3>2, <3>4 DEF OffCycle
    <3> QED BY <2>1, <2>7, <3>5 DEF h
  <2> HIDE DEF E
  <2> QED BY <2>3, <2>6, <2>7 DEF Proves, E
<1>13. ProvenOK(z, G, gv, P)
  BY <1>1, <1>12 DEF ProvenOK
<1>14. RestingOK(z, G)
  <2>1. Resting(z, G) = Resting(fl, G)
    BY <1>1, <1>2 DEF Resting
  <2> QED BY <1>0, <2>1 DEF RestingOK
<1> QED BY <1>5, <1>6, <1>7, <1>8, <1>13, <1>14 DEF GraphOK, z

\* w is v with a read of d more, proved up to now.
Accepts(v, w, d, gv, P) ==
  /\ w.selector = v.selector /\ w.session = v.session
  /\ w.known = v.known /\ w.entry = v.entry
  /\ w.proof = <<gv, P[v.session]>>
  /\ ReadBy(w) = ReadBy(v) \cup {d}
  /\ w.observed = IF v.observed = None THEN {} ELSE v.observed

\* No path leads from d back to v, because v has answered for d before, or nobody knows
\* v yet, or a search has found none.
Harmless(v, d, has, edges, gv, P) ==
  \/ d \in KnownTo(v) /\ gv = v.entry[1]
  \/ v.known = None /\ Alone(v, v.entry, gv, P)
  \/ v.selector \notin ReachableFrom(edges, d)

\* To accept such a read keeps the proofs.
LEMMA AcceptGraph ==
  ASSUME NEW fl, NEW G, NEW has, NEW gv, NEW P, GraphOK(fl, G, has, gv, P),
         NEW n \in DOMAIN fl, \A j \in DOMAIN fl : j <= n,
         Suspect(fl[n], gv, P) = {},
         NEW d \in Selectors, d \in has, NEW w, Accepts(fl[n], w, d, gv, P),
         Harmless(fl[n], d, has, Effective(fl, G), gv, P)
  PROVE  /\ GraphOK(With(fl, n, w), G, has, gv, P)
         /\ Suspect(w, gv, P) = {}
<1> DEFINE v == fl[n]
           t == v.selector
           z == With(fl, n, w)
           E == Effective(fl, G)
<1>0. FramesOK(fl) /\ VersionsOK(fl, gv, P) /\ KnownOK(fl, G, has, gv, P)
      /\ ProvenOK(fl, G, gv, P) /\ RestingOK(fl, G)
  BY DEF GraphOK
<1>1. /\ DOMAIN z = DOMAIN fl /\ z[n] = w /\ \A i \in DOMAIN fl : i # n => z[i] = fl[i]
      /\ DOMAIN fl \subseteq Nat /\ t \in Selectors
  BY <1>0 DEF With, FramesOK
<1> HIDE DEF z
<1>2. \A i \in DOMAIN fl : /\ z[i].selector = fl[i].selector /\ z[i].session = fl[i].session
                           /\ z[i].known = fl[i].known /\ z[i].entry = fl[i].entry
                           /\ KnownTo(z[i]) = KnownTo(fl[i])
  BY <1>1 DEF Accepts, KnownTo
<1>3. {} \in SUBSET (Selectors \X Selectors) /\ {} # None
  BY UndefinedAssumption
<1>4. VersionOK(v, gv, P) /\ gv \in Nat
  BY <1>0 DEF VersionsOK
<1>5. Suspect(w, gv, P) = {}
  <2>1. Alone(w, w.proof, gv, P)
    BY <1>4 DEF Accepts, Alone, VersionOK
  <2> QED BY <2>1 DEF Suspect
<1>6. FramesOK(z)
  <2>1. w.observed = None \/ w.observed \in SUBSET (Selectors \X Selectors)
    BY <1>0, <1>3 DEF Accepts, FramesOK
  <2> QED BY <1>0, <1>1, <1>2, <2>1 DEF FramesOK
<1>7. VersionsOK(z, gv, P)
  <2>1. VersionOK(w, gv, P)
    BY <1>4 DEF VersionOK, Accepts
  <2> QED BY <1>0, <1>1, <2>1 DEF VersionsOK
<1>8. KnownOK(z, G, has, gv, P)
  <2>1. \A i \in DOMAIN fl : Alone(z[i], z[i].entry, gv, P) <=> Alone(fl[i], fl[i].entry, gv, P)
    BY <1>2 DEF Alone
  <2>2. w.observed # None
    BY <1>3 DEF Accepts
  <2>3. ReadBy(w) \subseteq has
    BY <1>0 DEF Accepts, KnownOK
  <2> QED BY <1>0, <1>1, <1>2, <2>1, <2>2, <2>3 DEF KnownOK
<1>9. /\ \A h \in DOMAIN fl : h # n => Reading(z, gv, h) = Reading(fl, gv, h)
      /\ Reading(z, gv, n) = Reading(fl, gv, n) \cup {d}
  BY <1>1, <1>2 DEF Reading, Accepts
<1>10. \A k \in DOMAIN fl, s \in Selectors :
         (Below(z, k, s) <=> Below(fl, k, s)) /\ Again(z, k, s) = Again(fl, k, s)
  BY <1>1, <1>2 DEF Below, Again
<1>11. ASSUME NEW k \in DOMAIN fl, NEW s \in Selectors
       PROVE  /\ Seen(z, G, gv, k)[s] \subseteq Seen(fl, G, gv, k)[s] \cup {d}
              /\ ~(s = t /\ fl[k].session = v.session) =>
                   Seen(z, G, gv, k)[s] \subseteq Seen(fl, G, gv, k)[s]
  <2>1. Again(fl, k, s) \subseteq DOMAIN fl
    BY DEF Again
  <2>2. n \in Again(fl, k, s) => s = t /\ fl[k].session = v.session
    BY DEF Again
  <2> QED BY <1>9, <1>10, <2>1, <2>2 DEF Seen
<1>12. ASSUME NEW k \in DOMAIN fl, ~Below(z, k, z[k].selector)
       PROVE  OffCycle(Trusted(z, G, gv, P, k), z[k].selector)
  <2> DEFINE a == fl[k].selector
             g == Trusted(fl, G, gv, P, k)
             h == Trusted(z, G, gv, P, k)
  <2>1. a \in Selectors /\ z[k].selector = a
    BY <1>0, <1>2 DEF FramesOK
  <2>2. OffCycle(g, a)
    BY <1>0, <1>10, <1>12, <2>1 DEF ProvenOK
  <2>3. Suspect(z[k], gv, P) = Suspect(fl[k], gv, P)
    BY <1>1, <1>5
  <2>4. \A s \in Selectors :
          /\ h[s] \subseteq g[s] \cup {d}
          /\ ~(s = t /\ fl[k].session = v.session) => h[s] \subseteq g[s]
    BY <1>11, <2>3 DEF Trusted, Without
  <2>5. /\ t \in Selectors /\ d \in Selectors
        /\ \A x \in Selectors : x # t => h[x] \subseteq g[x]
        /\ h[t] \subseteq g[t] \cup {d}
    <3> HIDE DEF g, h
    <3> QED BY <1>1, <2>4
  <2>6. CASE fl[k].session # v.session
    <3> HIDE DEF g, h
    <3>1. OffCycle(h, a)
      BY <2>1, <2>2, <2>4, <2>6, FewerEdges
    <3> QED BY <2>1, <3>1 DEF h
  <2>7. CASE d \in KnownTo(v) /\ gv = v.entry[1]
    <3>1. Reading(z, gv, n) = Reading(fl, gv, n)
      BY <1>9, <2>7 DEF Reading
    <3>2. \A s \in Selectors : Seen(z, G, gv, k)[s] \subseteq Seen(fl, G, gv, k)[s]
      <4>1. \A s : Again(fl, k, s) \subseteq DOMAIN fl
        BY DEF Again
      <4> QED BY <1>9, <1>10, <3>1, <4>1 DEF Seen
    <3>3. \A s \in Selectors : h[s] \subseteq g[s]
      BY <2>3, <3>2 DEF Trusted, Without
    <3> HIDE DEF g, h
    <3>4. OffCycle(h, a)
      BY <2>1, <2>2, <3>3, FewerEdges
    <3> QED BY <2>1, <3>4 DEF h
  <2>8. CASE v.known = None /\ Alone(v, v.entry, gv, P)
    <3> DEFINE R == Selectors \ {t}
    <3>1. t \notin has
      BY <1>0, <2>8 DEF KnownOK
    <3>2. \A s \in Selectors : g[s] \subseteq has \cap Selectors
      <4>1. \A i \in DOMAIN fl : Reading(fl, gv, i) \subseteq has
        BY <1>0 DEF Reading, KnownOK
      <4>2. \A s \in Selectors : Seen(fl, G, gv, k)[s] \subseteq has \cap Selectors
        <5>1. \A s : Again(fl, k, s) \subseteq DOMAIN fl
          BY DEF Again
        <5> QED BY <1>0, <4>1, <5>1 DEF Seen, KnownOK
      <4> QED BY <4>2 DEF Trusted, Without
    <3> HIDE DEF g, h
    <3>3. Closed(g, R) /\ d \in R /\ t \notin R /\ R \in SUBSET Selectors
      BY <3>1, <3>2 DEF Closed
    <3> HIDE DEF R
    <3>4. OffCycle(h, a)
      BY <2>1, <2>2, <2>5, <3>3, OneEdge
    <3> QED BY <2>1, <3>4 DEF h
  <2>9. CASE fl[k].session = v.session /\ t \notin ReachableFrom(E, d)
    <3> DEFINE R == ReachableFrom(E, d) \cap Selectors
    <3>1. d \in R /\ t \notin R /\ R \in SUBSET Selectors
      BY <2>9, ReachableClosed
    <3>2. Closed(g, R)
      <4>1. \A s \in Selectors \ {t} : \A y \in g[s] : y \in Selectors /\ <<s, y>> \in E
        BY <1>0, <2>9, SeenEffective DEF Trusted, Without, Seen
      <4> HIDE DEF g, E
      <4>2. \A s \in R : \A y \in g[s] : y \in R
        BY <3>1, <4>1, ReachableClosed
      <4> HIDE DEF R
      <4> QED BY <4>2 DEF Closed
    <3> HIDE DEF g, h, R
    <3>3. OffCycle(h, a)
      BY <2>1, <2>2, <2>5, <3>1, <3>2, OneEdge
    <3> QED BY <2>1, <3>3 DEF h
  <2> QED BY <2>6, <2>7, <2>8, <2>9 DEF Harmless
<1>13. ProvenOK(z, G, gv, P)
  BY <1>1, <1>12 DEF ProvenOK
<1>14. RestingOK(z, G)
  <2>1. Resting(z, G) = Resting(fl, G)
    BY <1>1, <1>2 DEF Resting
  <2> QED BY <1>0, <2>1 DEF RestingOK
<1> QED BY <1>5, <1>6, <1>7, <1>8, <1>13, <1>14 DEF GraphOK, z

\* Without evaluations versions and publications are of no concern.
LEMMA EmptyGraph ==
  ASSUME NEW fl, NEW G, NEW has, NEW gv, NEW P, GraphOK(fl, G, has, gv, P), DOMAIN fl = {},
         NEW gv2 \in Nat, NEW Q
  PROVE  GraphOK(fl, G, has, gv2, Q)
BY DEF GraphOK, FramesOK, VersionsOK, KnownOK, ProvenOK, RestingOK

\* With no evaluation in flight the graph has no cycle.
LEMMA AcyclicGraph ==
  ASSUME NEW fl, NEW G, NEW has, NEW gv, NEW P, GraphOK(fl, G, has, gv, P), DOMAIN fl = {},
         NEW edges, \A x, y \in Selectors : <<x, y>> \in edges => y \in G[x],
         NEW e \in edges, e \in Selectors \X Selectors
  PROVE  e[1] \notin ReachableFrom(edges, e[2])
<1>1. \A s \in Selectors : Resting(fl, G)[s] = G[s]
  BY DEF Resting
<1>2. e[1] \in Selectors /\ e[2] \in Selectors /\ <<e[1], e[2]>> \in edges
  OBVIOUS
<1>3. PICK S \in SUBSET Selectors :
         Closed(Resting(fl, G), S) /\ Resting(fl, G)[e[1]] \subseteq S /\ e[1] \notin S
  BY <1>2 DEF GraphOK, RestingOK, OffCycle
<1>4. e[2] \in S
  BY <1>1, <1>2, <1>3
<1>5. \A x \in S, y \in Selectors : <<x, y>> \in edges => y \in S
  BY <1>1, <1>3 DEF Closed
<1>6. ReachableFrom(edges, e[2]) \subseteq S
  BY <1>2, <1>4, <1>5, ReachableLeast
<1> QED BY <1>3, <1>6

-----------------------------------------------------------------------------
(* The evaluations of the stack *)

\* The evaluations of stk, given what is recorded and published.
Sane(stk) ==
  GraphOK(Evaluated(stk), Graph(record), HasRecord(record), graphVersion, Published(sessions))

\* So the sessions around one are those opened before it.
LEMMA ChainOK ==
  ASSUME SessionsWF, Nested(sessions), NEW id \in 0..Len(sessions)
  PROVE  Chain(id) = 1..id
<1> DEFINE n == Len(sessions)
           F(w, i) == IF i = 0 THEN {} ELSE {i} \cup w[sessions[i].outer]
           c == [i \in 0..n |-> 1..i]
<1>1. n \in Nat /\ DOMAIN sessions = 1..n
  BY DEF SessionsWF
<1>2. \A i \in 1..n : sessions[i].outer = i - 1 /\ i - 1 \in 0..n /\ i \in 0..n
  BY <1>1 DEF Nested
<1>3. c = [i \in 0..n |-> F(c, i)]
  <2>1. \A i \in 0..n : 1..i = F(c, i)
    <3> TAKE i \in 0..n
    <3>1. CASE i = 0
      BY <3>1
    <3>2. CASE i # 0
      <4>1. i \in 1..n
        BY <1>1, <3>2
      <4>2. c[sessions[i].outer] = 1..i - 1
        BY <1>2, <4>1
      <4>3. 1..i = {i} \cup (1..i - 1)
        BY <4>1
      <4> QED BY <3>2, <4>2, <4>3
    <3> QED BY <3>1, <3>2
  <2> HIDE DEF F, n
  <2> QED BY <2>1
<1>4. \E v : v = [i \in 0..Len(sessions) |->
                    IF i = 0 THEN {} ELSE {i} \cup v[sessions[i].outer]]
  BY <1>3
<1>5. PICK v : /\ v = [i \in 0..Len(sessions) |->
                         IF i = 0 THEN {} ELSE {i} \cup v[sessions[i].outer]]
               /\ Chain(id) = v[id]
  BY <1>4, Zenon DEF Chain
<1>6. v[0] = {} /\ \A i \in 1..n : v[i] = {i} \cup v[i - 1]
  <2> DEFINE b == [i \in 1..n |-> {i} \cup v[sessions[i].outer]]
  <2>1. v = [i \in 0..n |-> IF i = 0 THEN {} ELSE b[i]]
    <3>1. \A i \in 0..n : i # 0 => i \in 1..n
      BY <1>1
    <3>2. \A i \in 0..n : i # 0 => b[i] = {i} \cup v[sessions[i].outer]
      BY <3>1
    <3> HIDE DEF b
    <3> QED BY <1>5, <3>2
  <2>2. \A i \in 1..n : b[i] = {i} \cup v[sessions[i].outer]
    OBVIOUS
  <2> HIDE DEF b, n
  <2>3. v[0] = {} /\ \A i \in 1..n : v[i] = b[i]
    BY <1>1, <2>1, Equations
  <2> QED BY <1>2, <2>2, <2>3
<1> DEFINE D == {i \in 0..n : v[i] = 1..i}
<1>7. 0 \in D
  BY <1>1, <1>6
<1>8. ASSUME NEW i \in 1..n, i - 1 \in D PROVE i \in D
  <2>1. 1..i = {i} \cup (1..i - 1)
    OBVIOUS
  <2>2. v[i - 1] = 1..i - 1
    BY <1>8
  <2>3. v[i] = {i} \cup v[i - 1]
    BY <1>6
  <2>4. v[i] = 1..i /\ i \in 0..n
    BY <1>1, <2>1, <2>2, <2>3
  <2> QED BY <2>4
<1>9. \A i \in 0..n : i \in D
  <2> HIDE DEF D, n
  <2> QED BY <1>1, <1>7, <1>8, IntervalInduction
<1> QED BY <1>5, <1>9

\* A set of numbers up to n has a greatest one, which Max finds.
LEMMA MaxOK ==
  ASSUME NEW n \in Nat, NEW S \in SUBSET (1..n), S # {}
  PROVE  Max(S) \in S /\ \A i \in S : i <= Max(S)
<1> DEFINE T == {n - i : i \in S}
<1>1. T \subseteq Nat /\ T # {}
  <2>1. \A i \in S : n - i \in Nat
    OBVIOUS
  <2>2. PICK i \in S : TRUE
    OBVIOUS
  <2>3. n - i \in T
    OBVIOUS
  <2> QED BY <2>1, <2>3
<1>2. PICK m \in T : \A k \in T : m <= k
  <2> HIDE DEF T
  <2> QED BY <1>1, LeastNatural
<1>3. PICK x \in S : m = n - x
  BY <1>2
<1>4. \A i \in S : n - i \in T
  OBVIOUS
<1>5. \A i \in S : x >= i
  <2> TAKE i \in S
  <2>1. m <= n - i
    BY <1>2, <1>4
  <2> QED BY <1>3, <2>1
<1>6. \E y \in S : \A i \in S : y >= i
  BY <1>5
<1>7. Max(S) \in S /\ \A i \in S : Max(S) >= i
  BY <1>6, Zenon DEF Max
<1> QED BY <1>7

\* Contains is membership.
LEMMA ContainsOK ==
  ASSUME NEW S, NEW q \in Seq(S), NEW d
  PROVE  Contains(q, d) <=> d \in Range(q)
BY DEF Contains, Range

\* The graph that searches run on.
LEMMA EffectiveIs ==
  ASSUME SessionsWF, Nested(sessions), RecordsOK,
         NEW stk, stk \in Seq(Range(stk)), \A i \in DOMAIN stk : FrameWF(stk[i]),
         NEW id \in 0..Len(sessions), \A i \in Evaluations(stk) : stk[i].session \in 1..id
  PROVE  EffectiveEdges(stk, id) = Effective(Evaluated(stk), Graph(record))
<1> DEFINE fl == Evaluated(stk)
           n == Len(stk)
<1>1. n \in Nat /\ DOMAIN stk = 1..n
  OBVIOUS
<1>2. /\ DOMAIN fl = Evaluations(stk) /\ DOMAIN fl \subseteq 1..n
      /\ \A i \in DOMAIN fl : fl[i].selector = stk[i].selector /\ fl[i].deps = stk[i].deps
  BY <1>1 DEF Evaluated, Evaluations, View
<1>3. \A i \in DOMAIN fl : stk[i].deps \in Seq(Nodes)
  BY <1>2 DEF Evaluations, IsEvaluation, FrameWF, EvaluationWF
<1> HIDE DEF fl
<1>4. \A s : Frames(stk, id, s) = {i \in DOMAIN fl : fl[i].selector = s}
  <2>1. Chain(id) = 1..id
    BY ChainOK
  <2> QED BY <1>2, <2>1 DEF Frames, Evaluations
<1>5. \A s \in Selectors, d \in Selectors : Contains(Deps(record, s), d) <=> d \in Graph(record)[s]
  <2> TAKE s \in Selectors, d \in Selectors
  <2>1. Deps(record, s) \in Seq(Nodes)
    BY DEF Deps, RecordsOK, RecordWF, Records
  <2> QED BY <2>1, ContainsOK DEF Graph
<1>6. ASSUME NEW s \in Selectors, NEW d \in Selectors
      PROVE  <<s, d>> \in EffectiveEdges(stk, id) <=> <<s, d>> \in Effective(fl, Graph(record))
  <2> DEFINE S == {i \in DOMAIN fl : fl[i].selector = s}
  <2>1. CASE S = {}
    BY <1>4, <1>5, <2>1 DEF EffectiveEdges, Effective
  <2>2. CASE S # {}
    <3>1. Max(S) \in S /\ \A i \in S : i <= Max(S)
      <4>1. S \in SUBSET (1..n)
        BY <1>2
      <4> HIDE DEF S, n
      <4> QED BY <1>1, <2>2, <4>1, MaxOK
    <3> DEFINE m == Max(S)
    <3> HIDE DEF m
    <3>2. m \in DOMAIN fl /\ fl[m].selector = s /\ \A i \in DOMAIN fl : fl[i].selector = s => i <= m
      BY <3>1 DEF m
    <3>3. <<s, d>> \in EffectiveEdges(stk, id) <=> Contains(stk[m].deps, d)
      BY <1>4, <2>2 DEF EffectiveEdges, m
    <3>4. Contains(stk[m].deps, d) <=> d \in ReadBy(fl[m])
      <4>1. Contains(stk[m].deps, d) <=> d \in Range(stk[m].deps)
        BY <1>3, <3>2, ContainsOK
      <4> QED BY <1>2, <3>2, <4>1 DEF ReadBy
    <3>5. \A h \in DOMAIN fl :
            fl[h].selector = s /\ (\A i \in DOMAIN fl : fl[i].selector = s => i <= h) => h = m
      BY <1>1, <1>2, <3>2
    <3>6. <<s, d>> \in Effective(fl, Graph(record)) <=> d \in ReadBy(fl[m])
      BY <3>2, <3>5 DEF Effective
    <3> QED BY <3>3, <3>4, <3>6
  <2> QED BY <2>1, <2>2
<1>7. EffectiveEdges(stk, id) \subseteq Selectors \X Selectors
      /\ Effective(fl, Graph(record)) \subseteq Selectors \X Selectors
  BY DEF EffectiveEdges, Effective
<1>8. \A e \in Selectors \X Selectors :
        e \in EffectiveEdges(stk, id) <=> e \in Effective(fl, Graph(record))
  <2> TAKE e \in Selectors \X Selectors
  <2>1. PICK s \in Selectors, d \in Selectors : e = <<s, d>>
    OBVIOUS
  <2> QED BY <1>6, <2>1
<1>9. EffectiveEdges(stk, id) = Effective(fl, Graph(record))
  BY <1>7, <1>8
<1> QED BY <1>9 DEF fl

\* A frame of the stack replaced.
LEMMA EvaluatedWith ==
  ASSUME NEW stk, NEW i \in Evaluations(stk), NEW g, IsEvaluation(g)
  PROVE  Evaluated([stk EXCEPT ![i] = g]) = With(Evaluated(stk), i, View(g))
<1> DEFINE z == [stk EXCEPT ![i] = g]
<1>1. DOMAIN z = DOMAIN stk /\ z[i] = g /\ \A j \in DOMAIN stk : j # i => z[j] = stk[j]
  BY DEF Evaluations
<1> HIDE DEF z
<1>2. Evaluations(z) = Evaluations(stk)
  BY <1>1 DEF Evaluations
<1>3. \A j \in Evaluations(stk) : j \in DOMAIN stk
  BY DEF Evaluations
<1>4. \A j \in Evaluations(stk) : View(z[j]) = IF j = i THEN View(g) ELSE View(stk[j])
  BY <1>1, <1>3
<1> HIDE DEF View
<1>5. Evaluated(z) = [j \in Evaluations(stk) |-> IF j = i THEN View(g) ELSE View(stk[j])]
  BY <1>2, <1>4 DEF Evaluated
<1>6. With(Evaluated(stk), i, View(g)) = [j \in Evaluations(stk) |-> IF j = i THEN View(g) ELSE View(stk[j])]
  BY DEF Evaluated, With
<1> QED BY <1>5, <1>6 DEF z

\* A well-formed stack with an evaluation on top, whose sessions are open.
Running(stk) ==
  /\ stk \in Seq(Range(stk)) /\ stk # <<>>
  /\ \A i \in DOMAIN stk : FrameWF(stk[i])
  /\ IsEvaluation(stk[Len(stk)])
  /\ \A i \in Evaluations(stk) : stk[i].session \in 1..Len(sessions)

RecordsStand == SessionsWF /\ Nested(sessions) /\ RecordsOK

\* Then the evaluations of the graph are those below and on the top.
LEMMA RunningOK ==
  ASSUME RecordsStand, NEW stk, Running(stk), FramesOK(Evaluated(stk))
  PROVE  LET n == Len(stk) IN
         /\ n \in Nat \ {0} /\ DOMAIN stk = 1..n /\ n \in Evaluations(stk)
         /\ DOMAIN Evaluated(stk) = Evaluations(stk) /\ \A j \in Evaluations(stk) : j \in 1..n /\ j <= n
         /\ \A j \in Evaluations(stk) : Evaluated(stk)[j] = View(stk[j])
         /\ EffectiveEdges(stk, stk[n].session) = Effective(Evaluated(stk), Graph(record))
<1> DEFINE n == Len(stk)
           fl == Evaluated(stk)
<1>1. n \in Nat \ {0} /\ DOMAIN stk = 1..n
  BY DEF Running
<1>2. n \in Evaluations(stk) /\ \A j \in Evaluations(stk) : j \in 1..n /\ j <= n
  BY <1>1 DEF Evaluations, Running
<1>3. DOMAIN fl = Evaluations(stk) /\ \A j \in Evaluations(stk) : fl[j] = View(stk[j])
  BY DEF Evaluated
<1>4. \A j \in Evaluations(stk) : fl[j].session = stk[j].session
  BY <1>3 DEF View
<1> HIDE DEF fl, n
<1>5. \A j \in Evaluations(stk) : fl[j].session <= fl[n].session
  <2> TAKE j \in Evaluations(stk)
  <2>1. fl[j].session \in Nat /\ fl[n].session \in Nat
    BY <1>2, <1>3 DEF FramesOK, fl
  <2>2. j < n \/ j = n
    BY <1>1, <1>2
  <2> QED BY <1>2, <1>3, <2>1, <2>2 DEF FramesOK, fl
<1>6. stk[n].session \in 0..Len(sessions)
      /\ \A j \in Evaluations(stk) : stk[j].session \in 1..stk[n].session
  <2>1. \A j \in Evaluations(stk) : stk[j].session \in 1..Len(sessions)
    BY DEF Running
  <2>2. Len(sessions) \in Nat
    BY DEF RecordsStand, SessionsWF
  <2> QED BY <1>2, <1>4, <1>5, <2>1, <2>2
<1>7. EffectiveEdges(stk, stk[n].session) = Effective(fl, Graph(record))
  BY <1>6, EffectiveIs DEF Running, RecordsStand, fl
<1> QED BY <1>1, <1>2, <1>3, <1>7 DEF fl, n

\* Versions count what other sessions published; who has just looked is alone.
LEMMA ProvedNow ==
  ASSUME NEW v, NEW gv, NEW P, VersionOK(v, gv, P), gv \in Nat, gv = v.proof[1]
  PROVE  Alone(v, v.proof, gv, P)
<1>1. /\ P[v.session] \in Nat /\ v.proof[1] \in Nat /\ v.proof[2] \in Nat
      /\ v.proof[2] <= P[v.session] /\ P[v.session] - v.proof[2] <= gv - v.proof[1]
  BY DEF VersionOK
<1>2. gv - v.proof[1] = 0 /\ P[v.session] - v.proof[2] = 0
  BY <1>1
<1> QED BY <1>2 DEF Alone

\* At the version of its entry an evaluation has proved nothing since.
LEMMA EnteredNow ==
  ASSUME NEW v, NEW gv, NEW P, VersionOK(v, gv, P), gv \in Nat, gv = v.entry[1]
  PROVE  gv = v.proof[1]
BY DEF VersionOK

\* What an evaluation keeps when its prefix is proved.
KeptView(f, g) ==
  /\ g.selector = f.selector /\ g.session = f.session
  /\ g.known = f.known /\ g.entry = f.entry

\* What OwnPrefix makes of an evaluation: the four cases of revalidateOwnPrefix.
LEMMA OwnPrefixProves ==
  ASSUME RecordsStand, graphVersion \in Nat,
         NEW stk, Running(stk), Sane(stk),
         NEW i \in Evaluations(stk), stk[i].session = stk[Len(stk)].session,
         graphVersion # stk[i].proof[1]
  PROVE  Proves(View(stk[i]), View(OwnPrefix(stk, i)), Effective(Evaluated(stk), Graph(record)),
                graphVersion, Published(sessions))
<1> DEFINE f == stk[i]
           g == OwnPrefix(stk, i)
           n == Len(stk)
           fl == Evaluated(stk)
           gv == graphVersion
           P == Published(sessions)
           E == Effective(fl, Graph(record))
           W(q, o) == [selector |-> f.selector, session |-> f.session, deps |-> q, known |-> f.known,
                       entry |-> f.entry, proof |-> <<gv, P[f.session]>>, observed |-> o]
<1>0. FramesOK(fl)
  BY DEF Sane, GraphOK
<1>1. /\ FrameWF(f) /\ IsEvaluation(f)
      /\ DOMAIN f = EvaluationFields /\ f.deps \in Seq(Nodes) /\ f.session \in Nat
      /\ f.selector \in Selectors
  BY DEF Running, Evaluations, FrameWF, EvaluationWF, IsEvaluation
<1>2. EffectiveEdges(stk, f.session) = E
  BY <1>0, RunningOK
<1>3. f.observed = None \/ f.observed \in SUBSET (Selectors \X Selectors)
  <2>1. i \in DOMAIN fl /\ fl[i] = View(f)
    BY DEF Evaluated
  <2> QED BY <1>0, <2>1 DEF FramesOK, View
<1>4. /\ View(f).selector = f.selector /\ View(f).session = f.session /\ View(f).known = f.known
      /\ View(f).entry = f.entry /\ View(f).proof = f.proof /\ View(f).observed = f.observed
      /\ View(f).deps = f.deps
  BY DEF View
<1>5. OnlyAttributed(f, f.proof) <=> Alone(View(f), View(f).proof, gv, P)
  BY <1>1, <1>4 DEF OnlyAttributed, Publications, Alone, Published
<1>6. \A q \in Selectors, s \in Selectors :
        PathExists(stk, f.session, q, s) <=> s \in ReachableFrom(E, q)
  BY <1>2 DEF PathExists
<1> HIDE DEF E, fl
<1> DEFINE Now(w, o) == /\ w.selector = f.selector /\ w.session = f.session /\ w.known = f.known
                        /\ w.entry = f.entry /\ w.proof = <<gv, P[f.session]>>
                        /\ w.observed = o /\ ReadBy(w) = ReadBy(View(f))
<1>7. Now(View(Proved(f)), f.observed)
  <2>1. View(Proved(f)) = W(f.deps, f.observed)
    <3> HIDE DEF f
    <3> QED BY <1>1 DEF View, Proved, EvaluationFields, Publications, Published
  <2> HIDE DEF f, P
  <2> QED BY <1>4, <2>1 DEF ReadBy
<1> DEFINE clear == Proved([f EXCEPT !.observed = {}])
<1>8. Now(View(clear), {})
  <2>1. View(clear) = W(f.deps, {})
    <3> HIDE DEF f
    <3> QED BY <1>1 DEF View, Proved, EvaluationFields, Publications, Published
  <2> HIDE DEF f, P, clear
  <2> QED BY <1>4, <2>1 DEF ReadBy
<1> DEFINE Goal == Proves(View(f), View(g), E, gv, P)
<1>9. ASSUME f.observed = None
       PROVE  Goal
  <2>1. g = Proved(f)
    BY <1>9 DEF OwnPrefix
  <2> HIDE DEF f, g, P, clear
  <2> QED BY <1>4, <1>7, <1>9, <2>1 DEF Proves
<1>10. ASSUME f.observed # None /\ OnlyAttributed(f, f.proof)
       PROVE  Goal
  <2>1. g = clear
    BY <1>10 DEF OwnPrefix
  <2>2. Suspect(View(f), gv, P) = {}
    BY <1>5, <1>10 DEF Suspect
  <2> HIDE DEF f, g, P, clear
  <2> QED BY <1>4, <1>8, <1>10, <2>1, <2>2 DEF Proves
<1>11. ASSUME /\ f.observed # None /\ ~OnlyAttributed(f, f.proof)
              /\ \A e \in f.observed : ~PathExists(stk, f.session, e[2], e[1])
       PROVE  Goal
  <2>1. g = clear
    BY <1>11, Zenon DEF OwnPrefix
  <2>2. \A e \in f.observed : e[1] \notin ReachableFrom(E, e[2])
    BY <1>3, <1>6, <1>11
  <2>3. Suspect(View(f), gv, P) \subseteq f.observed
    BY <1>4, <1>11 DEF Suspect, Marks
  <2> HIDE DEF f, g, P, clear
  <2> QED BY <1>4, <1>8, <1>11, <2>1, <2>2, <2>3 DEF Proves
<1>12. ASSUME f.observed # None /\ ~OnlyAttributed(f, f.proof) /\ ClosingReads(stk, i) = {}
       PROVE  Goal
  <2>1. g = clear
    BY <1>12, Zenon DEF OwnPrefix
  <2>2. \A d \in ReadBy(View(f)) : f.selector \notin ReachableFrom(E, d)
    <3>1. \A m \in DOMAIN f.deps : ~PathExists(stk, f.session, f.deps[m], f.selector)
      BY <1>12 DEF ClosingReads
    <3> QED BY <1>1, <1>4, <1>6, <3>1 DEF Range, ReadBy
  <2> HIDE DEF f, g, P, clear
  <2> QED BY <1>4, <1>8, <1>12, <2>1, <2>2 DEF Proves
<1>13. ASSUME /\ f.observed # None /\ ~OnlyAttributed(f, f.proof) /\ ClosingReads(stk, i) # {}
              /\ \E e \in f.observed : PathExists(stk, f.session, e[2], e[1])
       PROVE  Goal
  <2> DEFINE first == Min(ClosingReads(stk, i))
             q == SubSeq(f.deps, 1, first - 1)
  <2>1. g = Truncated(stk, i)
    BY <1>13, Zenon DEF OwnPrefix
  <2>2. /\ View(g) = [selector |-> f.selector, session |-> f.session, deps |-> q, known |-> f.known,
                      entry |-> f.entry, proof |-> f.proof, observed |-> {}]
    <3> HIDE DEF f, g, q
    <3>1. PICK c : g = [f EXCEPT !.deps = q, !.tokens = SubSeq(@, 1, first - 1),
                                 !.observed = {}, !.cycle = c]
      BY <2>1, Zenon DEF Truncated, f, q
    <3> HIDE DEF first
    <3> QED BY <1>1, <3>1 DEF View, EvaluationFields
  <2>3. ClosingReads(stk, i) \subseteq 1..Len(f.deps) /\ Len(f.deps) \in Nat
    BY <1>1 DEF ClosingReads
  <2>4. first \in ClosingReads(stk, i) /\ \A m \in ClosingReads(stk, i) : first <= m
    <3> DEFINE C == ClosingReads(stk, i)
    <3>1. C \subseteq Nat /\ C # {}
      BY <1>13, <2>3
    <3> HIDE DEF C
    <3>2. \E x \in C : \A y \in C : x <= y
      BY <3>1, LeastNatural
    <3>3. Min(C) \in C /\ \A y \in C : Min(C) <= y
      BY <3>2, Zenon DEF Min
    <3> QED BY <3>3 DEF C
  <2> HIDE DEF first
  <2>5. \A m \in 1..first - 1 : m \in 1..Len(f.deps) /\ m \notin ClosingReads(stk, i)
    BY <2>3, <2>4
  <2>6. q \in Seq(Nodes) /\ Len(q) = first - 1 /\ \A m \in 1..first - 1 : q[m] = f.deps[m]
    <3>1. first \in Nat \ {0}
      BY <2>3, <2>4
    <3>2. \A m \in 1..first - 1 : f.deps[m] \in Nodes
      BY <1>1, <2>5
    <3> HIDE DEF f
    <3>3. q \in Seq(Nodes) /\ Len(q) = first - 1
      BY <3>1, <3>2, SubSeqProperties
    <3>4. \A m \in 1..first - 1 - 1 + 1 : q[m] = f.deps[1 + m - 1]
      BY <3>1, <3>2, SubSeqProperties
    <3> HIDE DEF q
    <3> QED BY <3>1, <3>3, <3>4
  <2> HIDE DEF q
  <2>7. ASSUME NEW d \in Range(q) \cap Selectors
        PROVE  d \in Range(f.deps) /\ f.selector \notin ReachableFrom(E, d)
    <3>1. PICK m \in 1..first - 1 : d = f.deps[m]
      BY <2>6 DEF Range
    <3>2. m \in DOMAIN f.deps /\ m \notin ClosingReads(stk, i)
      BY <1>1, <2>5
    <3>3. ~PathExists(stk, f.session, f.deps[m], f.selector)
      BY <3>2 DEF ClosingReads
    <3> QED BY <1>1, <1>6, <3>1, <3>2, <3>3 DEF Range
  <2>8. ReadBy(View(g)) = Range(q) \cap Selectors /\ ReadBy(View(f)) = Range(f.deps) \cap Selectors
    BY <1>4, <2>2 DEF ReadBy
  <2> HIDE DEF f, g, P, clear
  <2>9. ReadBy(View(g)) \subseteq ReadBy(View(f))
        /\ \A d \in ReadBy(View(g)) : View(f).selector \notin ReachableFrom(E, d)
    BY <1>4, <2>7, <2>8
  <2>10. /\ View(g).selector = f.selector /\ View(g).session = f.session /\ View(g).known = f.known
         /\ View(g).entry = f.entry /\ View(g).proof = f.proof /\ View(g).observed = {}
    BY <2>2
  <2> QED BY <1>4, <1>13, <2>9, <2>10 DEF Proves
<1>14. Goal
  <2> HIDE DEF f, Goal
  <2> QED BY <1>9, <1>10, <1>11, <1>12, <1>13
<1> QED BY <1>14 DEF E, fl

\* z is the running stack stk, with other proofs; those above i are the same.
Reproved(stk, z) ==
  /\ Running(z) /\ Sane(z)
  /\ Len(z) = Len(stk) /\ Evaluations(z) = Evaluations(stk)
  /\ \A k \in Evaluations(stk) : KeptView(stk[k], z[k])

\* To look at the prefix of one evaluation of the innermost session.
LEMMA OwnPrefixGraph ==
  ASSUME RecordsStand, graphVersion \in Nat,
         NEW stk, Running(stk), Sane(stk),
         NEW i \in Evaluations(stk), stk[i].session = stk[Len(stk)].session,
         graphVersion # stk[i].proof[1] => graphVersion # stk[Len(stk)].entry[1]
  PROVE  LET z == [stk EXCEPT ![i] = OwnPrefix(stk, i)] IN
         /\ Reproved(stk, z)
         /\ \A k \in DOMAIN stk : k # i => z[k] = stk[k]
         /\ Suspect(View(z[i]), graphVersion, Published(sessions)) = {}
<1> DEFINE n == Len(stk)
           f == stk[i]
           g == OwnPrefix(stk, i)
           z == [stk EXCEPT ![i] = g]
           fl == Evaluated(stk)
           gv == graphVersion
           P == Published(sessions)
           X == Range(stk) \cup {g}
<1>0. FramesOK(fl) /\ VersionsOK(fl, gv, P)
  BY DEF Sane, GraphOK
<1>1. /\ n \in Nat \ {0} /\ DOMAIN stk = 1..n /\ n \in Evaluations(stk)
      /\ DOMAIN fl = Evaluations(stk) /\ \A j \in Evaluations(stk) : j \in 1..n /\ j <= n
      /\ \A j \in Evaluations(stk) : fl[j] = View(stk[j])
  BY <1>0, RunningOK
<1>2. FrameWF(f) /\ IsEvaluation(f)
  BY DEF Running, Evaluations
<1>3. FrameWF(g) /\ IsEvaluation(g)
  BY <1>2, OwnPrefixOK
<1>4. /\ View(f).selector = f.selector /\ View(f).session = f.session /\ View(f).known = f.known
      /\ View(f).entry = f.entry /\ View(f).proof = f.proof
      /\ View(g).selector = g.selector /\ View(g).session = g.session /\ View(g).known = g.known
      /\ View(g).entry = g.entry /\ View(stk[n]).session = stk[n].session
      /\ View(stk[n]).entry = stk[n].entry
  BY DEF View
<1>5. Evaluated(z) = With(fl, i, View(g))
  <2> HIDE DEF g
  <2> QED BY <1>3, EvaluatedWith
<1>6. /\ GraphOK(With(fl, i, View(g)), Graph(record), HasRecord(record), gv, P)
      /\ Suspect(View(g), gv, P) = {}
      /\ KeptView(f, g)
  <2>1. CASE gv = f.proof[1]
    <3>1. g = f
      BY <2>1 DEF OwnPrefix
    <3>2. Alone(View(f), View(f).proof, gv, P)
      <4>1. VersionOK(View(f), gv, P) /\ gv \in Nat
        BY <1>0, <1>1 DEF VersionsOK
      <4> QED BY <1>4, <2>1, <4>1, ProvedNow
    <3>3. Suspect(View(f), gv, P) = {}
      BY <3>2 DEF Suspect
    <3>4. With(fl, i, View(f)) = fl
      <4>1. With(fl, i, View(f)) = [j \in DOMAIN fl |-> fl[j]]
        BY <1>1 DEF With
      <4> QED BY <4>1 DEF Evaluated
    <3> HIDE DEF f, g, fl
    <3> QED BY <3>1, <3>3, <3>4 DEF Sane, KeptView, fl
  <2>2. CASE gv # f.proof[1]
    <3>1. Proves(View(f), View(g), Effective(fl, Graph(record)), gv, P)
      BY <2>2, OwnPrefixProves
    <3>2. fl[i] = View(f) /\ fl[n] = View(stk[n]) /\ gv # fl[n].entry[1] /\ fl[i].session = fl[n].session
      BY <1>1, <1>4, <2>2
    <3>3. KeptView(f, g)
      <4> HIDE DEF f, g
      <4> QED BY <1>4, <3>1 DEF Proves, KeptView
    <3>4. GraphOK(fl, Graph(record), HasRecord(record), gv, P)
      BY DEF Sane
    <3>5. /\ n \in DOMAIN fl /\ i \in DOMAIN fl /\ \A j \in DOMAIN fl : j <= n
          /\ fl[i].session = fl[n].session /\ gv # fl[n].entry[1]
      BY <1>1, <3>2
    <3> HIDE DEF f, g, fl, n, P, gv
    <3>6. Proves(fl[i], View(g), Effective(fl, Graph(record)), gv, P)
      BY <3>1, <3>2
    <3>7. GraphOK(With(fl, i, View(g)), Graph(record), HasRecord(record), gv, P)
          /\ Suspect(View(g), gv, P) = {}
      BY <3>4, <3>5, <3>6, ProveGraph
    <3> QED BY <3>3, <3>7
  <2> HIDE DEF f, g, fl, P
  <2> QED BY <2>1, <2>2
<1>7. Sane(z)
  BY <1>5, <1>6 DEF Sane
<1> HIDE DEF g
<1>8. stk \in Seq(X) /\ g \in X
  BY SeqMonotonic DEF Running
<1> HIDE DEF X
<1>9. /\ z \in Seq(X) /\ Len(z) = n /\ DOMAIN z = 1..n /\ z[i] = g
      /\ \A j \in 1..n : j # i => z[j] = stk[j]
  BY <1>1, <1>8
<1> HIDE DEF z
<1>10. z \in Seq(Range(z))
  BY <1>9, SeqOfRange
<1>11. Evaluations(z) = Evaluations(stk)
  BY <1>1, <1>2, <1>3, <1>9 DEF Evaluations
<1>12. \A k \in Evaluations(stk) : KeptView(stk[k], z[k])
  BY <1>1, <1>6, <1>9 DEF KeptView
<1>13. Running(z)
  <2>1. \A j \in DOMAIN z : FrameWF(z[j])
    BY <1>1, <1>3, <1>9 DEF Running
  <2>2. z # <<>>
    BY <1>1, <1>9
  <2>3. IsEvaluation(z[Len(z)])
    BY <1>3, <1>9 DEF Running
  <2>4. \A k \in Evaluations(z) : z[k].session \in 1..Len(sessions)
    BY <1>11, <1>12 DEF KeptView, Running
  <2> QED BY <1>10, <2>1, <2>2, <2>3, <2>4 DEF Running
<1>14. Reproved(stk, z)
  BY <1>7, <1>9, <1>11, <1>12, <1>13 DEF Reproved
<1> QED BY <1>1, <1>6, <1>9, <1>14 DEF z, g

\* To look at all of them that are due: the innermost evaluation has then nothing left
\* to look at.
LEMMA RevalidatedGraph ==
  ASSUME RecordsStand, graphVersion \in Nat, NEW stk, Running(stk), Sane(stk)
  PROVE  LET z == Revalidated(stk) IN
         /\ Reproved(stk, z)
         /\ Suspect(View(z[Len(stk)]), graphVersion, Published(sessions)) = {}
<1> DEFINE n == Len(stk)
           due == Due(stk)
           last == stk[n]
           fl == Evaluated(stk)
           gv == graphVersion
           P == Published(sessions)
           Good(w, i) == /\ Reproved(stk, w)
                         /\ \A k \in 1..n : k > i => w[k] = stk[k]
                         /\ i = n => Suspect(View(w[n]), gv, P) = {}
<1>0. FramesOK(fl) /\ VersionsOK(fl, gv, P)
  BY DEF Sane, GraphOK
<1>1. /\ n \in Nat \ {0} /\ DOMAIN stk = 1..n /\ n \in Evaluations(stk)
      /\ DOMAIN fl = Evaluations(stk) /\ \A j \in Evaluations(stk) : j \in 1..n /\ j <= n
      /\ \A j \in Evaluations(stk) : fl[j] = View(stk[j])
  BY <1>0, RunningOK
<1>2. /\ View(last).session = last.session /\ View(last).entry = last.entry
      /\ View(last).proof = last.proof
  BY DEF View
<1>3. OnlyAttributed(last, last.proof) <=> Alone(View(last), View(last).proof, gv, P)
  <2>1. last.session \in Nat
    BY <1>1 DEF Running, Evaluations
  <2> QED BY <1>2, <2>1 DEF OnlyAttributed, Publications, Alone, Published
<1>4. gv = last.entry[1] => gv = last.proof[1] /\ OnlyAttributed(last, last.proof)
  <2>1. VersionOK(View(last), gv, P) /\ gv \in Nat
    BY <1>0, <1>1 DEF VersionsOK
  <2> HIDE DEF last, P
  <2> QED BY <1>2, <1>3, <2>1, EnteredNow, ProvedNow
<1>5. /\ n \in due
      /\ \A i \in due : i \in Evaluations(stk) /\ stk[i].session = last.session
      /\ OnlyAttributed(last, last.proof) => due = {n}
  BY <1>1 DEF Due, Last, Evaluations
<1>6. PICK v : Revalidating(v, stk) /\ Revalidated(stk) = v[n]
  BY RevalidatedSteps DEF Running
<1> HIDE DEF due, fl, P
<1>7. /\ v[0] = stk
      /\ \A i \in 1..n :
           v[i] = IF i \in due THEN [v[i - 1] EXCEPT ![i] = OwnPrefix(v[i - 1], i)] ELSE v[i - 1]
  BY <1>6 DEF Revalidating, due
<1>8. Good(v[0], 0)
  BY <1>1, <1>7 DEF Reproved, KeptView
<1>9. ASSUME NEW i \in 1..n, Good(v[i - 1], i - 1)
      PROVE  Good(v[i], i)
  <2> DEFINE w == v[i - 1]
  <2>1. CASE i \notin due
    <3>1. v[i] = w /\ i # n
      BY <1>5, <1>7, <2>1
    <3> HIDE DEF w, n
    <3> QED BY <1>9, <3>1 DEF w
  <2>2. CASE i \in due
    <3> DEFINE z == [w EXCEPT ![i] = OwnPrefix(w, i)]
    <3>0. v[i] = z
      BY <1>7, <2>2
    <3> HIDE DEF w
    <3>1. Running(w) /\ Sane(w) /\ Len(w) = n /\ Evaluations(w) = Evaluations(stk)
          /\ (\A k \in Evaluations(stk) : KeptView(stk[k], w[k]))
          /\ (\A k \in 1..n : k > i - 1 => w[k] = stk[k])
      BY <1>9 DEF Reproved, w
    <3>2. i \in Evaluations(w) /\ w[i].session = w[Len(w)].session
      BY <1>1, <1>5, <2>2, <3>1 DEF KeptView
    <3>3. w[i] = stk[i]
      BY <3>1
    <3>4. w[n].entry = last.entry
      BY <1>1, <3>1 DEF KeptView
    <3>5. gv # w[i].proof[1] => gv # w[Len(w)].entry[1]
      <4> SUFFICES ASSUME gv = last.entry[1] PROVE gv = w[i].proof[1]
        BY <3>1, <3>4
      <4>1. i = n
        BY <1>4, <1>5, <2>2
      <4> QED BY <1>4, <3>3, <4>1
    <3>6. /\ Reproved(w, z) /\ \A k \in DOMAIN w : k # i => z[k] = w[k]
          /\ Suspect(View(z[i]), gv, P) = {}
      <4> HIDE DEF n
      <4> QED BY <3>1, <3>2, <3>5, OwnPrefixGraph DEF P
    <3>7. DOMAIN w = 1..n
      BY <1>1, <3>1 DEF Running
    <3> HIDE DEF z, n
    <3>8. Reproved(stk, z)
      BY <3>1, <3>6 DEF Reproved, KeptView, n
    <3>9. \A k \in 1..n : k > i => z[k] = stk[k]
      BY <1>1, <3>1, <3>6, <3>7
    <3> QED BY <3>0, <3>6, <3>8, <3>9
  <2> QED BY <2>1, <2>2
<1> DEFINE D == {i \in 0..n : Good(v[i], i)}
<1> HIDE DEF n, Good
<1>10. 0 \in D
  BY <1>1, <1>8
<1>11. \A i \in 1..n : i - 1 \in D => i \in D
  <2> TAKE i \in 1..n
  <2> HAVE i - 1 \in D
  <2>1. Good(v[i], i) /\ i \in 0..n
    BY <1>1, <1>9
  <2> QED BY <2>1
<1>12. \A i \in 0..n : i \in D
  <2> HIDE DEF D
  <2> QED BY <1>1, <1>10, <1>11, IntervalInduction
<1>13. Good(v[n], n)
  BY <1>1, <1>12
<1> QED BY <1>6, <1>13 DEF Good, n, P

\* w is v, proved up to now.
Touches(v, w, gv, P) ==
  /\ w.selector = v.selector /\ w.session = v.session
  /\ w.known = v.known /\ w.entry = v.entry /\ w.observed = v.observed
  /\ w.proof = <<gv, P[v.session]>>
  /\ ReadBy(w) = ReadBy(v)

\* To prove a prefix without suspect edges up to now keeps the proofs.
LEMMA TouchGraph ==
  ASSUME NEW fl, NEW G, NEW has, NEW gv, NEW P, GraphOK(fl, G, has, gv, P),
         NEW n \in DOMAIN fl, Suspect(fl[n], gv, P) = {}, NEW w, Touches(fl[n], w, gv, P)
  PROVE  GraphOK(With(fl, n, w), G, has, gv, P) /\ Suspect(w, gv, P) = {}
<1> DEFINE v == fl[n]
           z == With(fl, n, w)
<1>0. FramesOK(fl) /\ VersionsOK(fl, gv, P) /\ KnownOK(fl, G, has, gv, P)
      /\ ProvenOK(fl, G, gv, P) /\ RestingOK(fl, G)
  BY DEF GraphOK
<1>1. DOMAIN z = DOMAIN fl /\ z[n] = w /\ \A i \in DOMAIN fl : i # n => z[i] = fl[i]
  BY DEF With
<1> HIDE DEF z
<1>2. \A i \in DOMAIN fl : /\ z[i].selector = fl[i].selector /\ z[i].session = fl[i].session
                           /\ z[i].known = fl[i].known /\ z[i].entry = fl[i].entry
                           /\ z[i].observed = fl[i].observed
                           /\ ReadBy(z[i]) = ReadBy(fl[i]) /\ KnownTo(z[i]) = KnownTo(fl[i])
  BY <1>1 DEF Touches, KnownTo
<1>3. VersionOK(v, gv, P) /\ gv \in Nat
  BY <1>0 DEF VersionsOK
<1>4. VersionOK(w, gv, P)
  BY <1>3 DEF VersionOK, Touches
<1>5. Suspect(w, gv, P) = {}
  <2>1. Alone(w, w.proof, gv, P)
    BY <1>3 DEF Touches, Alone, VersionOK
  <2> QED BY <2>1 DEF Suspect
<1>6. FramesOK(z)
  BY <1>0, <1>1, <1>2 DEF FramesOK
<1>7. VersionsOK(z, gv, P)
  BY <1>0, <1>1, <1>4 DEF VersionsOK
<1>8. KnownOK(z, G, has, gv, P)
  <2>1. \A i \in DOMAIN fl : Alone(z[i], z[i].entry, gv, P) <=> Alone(fl[i], fl[i].entry, gv, P)
    BY <1>2 DEF Alone
  <2> QED BY <1>0, <1>1, <1>2, <2>1 DEF KnownOK
<1>9. \A h \in DOMAIN fl : Reading(z, gv, h) = Reading(fl, gv, h)
  BY <1>1, <1>2 DEF Reading
<1>10. \A k \in DOMAIN fl, s \in Selectors :
         (Below(z, k, s) <=> Below(fl, k, s)) /\ Again(z, k, s) = Again(fl, k, s)
  BY <1>1, <1>2 DEF Below, Again
<1>11. \A k \in DOMAIN fl, s \in Selectors :
         Trusted(z, G, gv, P, k)[s] \subseteq Trusted(fl, G, gv, P, k)[s]
  <2>1. \A k, s : Again(fl, k, s) \subseteq DOMAIN fl
    BY DEF Again
  <2>2. \A k \in DOMAIN fl, s \in Selectors : Seen(z, G, gv, k)[s] \subseteq Seen(fl, G, gv, k)[s]
    BY <1>9, <1>10, <2>1 DEF Seen
  <2>3. \A k \in DOMAIN fl : Suspect(z[k], gv, P) = Suspect(fl[k], gv, P)
    BY <1>1, <1>5
  <2> QED BY <2>2, <2>3 DEF Trusted, Without
<1>12. ProvenOK(z, G, gv, P)
  <2> SUFFICES ASSUME NEW k \in DOMAIN fl, ~Below(z, k, z[k].selector)
               PROVE  OffCycle(Trusted(z, G, gv, P, k), z[k].selector)
    BY <1>1 DEF ProvenOK
  <2>1. z[k].selector = fl[k].selector /\ fl[k].selector \in Selectors
    BY <1>0, <1>2 DEF FramesOK
  <2>2. OffCycle(Trusted(fl, G, gv, P, k), fl[k].selector)
    BY <1>0, <1>10, <2>1 DEF ProvenOK
  <2> QED BY <1>11, <2>1, <2>2, FewerEdges
<1>13. RestingOK(z, G)
  <2>1. Resting(z, G) = Resting(fl, G)
    BY <1>1, <1>2 DEF Resting
  <2> QED BY <1>0, <2>1 DEF RestingOK
<1> QED BY <1>5, <1>6, <1>7, <1>8, <1>12, <1>13 DEF GraphOK, z

\* An accepted read keeps the proofs, a rejected one changes none.
LEMMA AfterServeGraph ==
  ASSUME RecordsStand, graphVersion \in Nat,
         NEW stk, Running(stk), Sane(stk),
         Suspect(View(stk[Len(stk)]), graphVersion, Published(sessions)) = {},
         stk[Len(stk)].known = None \/ stk[Len(stk)].known \in Seq(Nodes),
         NEW d \in Nodes, d \in Selectors => record[d] # None, NEW out, NEW token
  PROVE  LET g == AfterServe(stk, stk[Len(stk)], d, out, token)
             z == [stk EXCEPT ![Len(stk)] = g]
         IN /\ IsEvaluation(g) /\ g.known = stk[Len(stk)].known
            /\ Sane(z)
            /\ Suspect(View(g), graphVersion, Published(sessions)) = {}
<1> DEFINE n == Len(stk)
           f == stk[n]
           g == AfterServe(stk, f, d, out, token)
           z == [stk EXCEPT ![n] = g]
           fl == Evaluated(stk)
           gv == graphVersion
           P == Published(sessions)
           E == Effective(fl, Graph(record))
           o == IF f.observed = None /\ d \in Selectors THEN {} ELSE f.observed
           has == HasRecord(record)
           Goal == /\ IsEvaluation(g) /\ g.known = f.known
                   /\ GraphOK(With(fl, n, View(g)), Graph(record), has, gv, P)
                   /\ Suspect(View(g), gv, P) = {}
<1>0. FramesOK(fl) /\ VersionsOK(fl, gv, P) /\ KnownOK(fl, Graph(record), has, gv, P)
      /\ GraphOK(fl, Graph(record), has, gv, P)
  BY DEF Sane, GraphOK
<1>1. /\ n \in Nat \ {0} /\ DOMAIN stk = 1..n /\ n \in Evaluations(stk)
      /\ DOMAIN fl = Evaluations(stk) /\ \A j \in Evaluations(stk) : j \in 1..n /\ j <= n
      /\ \A j \in Evaluations(stk) : fl[j] = View(stk[j])
  BY <1>0, RunningOK
<1>2. EffectiveEdges(stk, f.session) = E
  BY <1>0, RunningOK
<1>3. /\ FrameWF(f) /\ IsEvaluation(f)
      /\ DOMAIN f = EvaluationFields /\ f.deps \in Seq(Nodes) /\ f.session \in Nat
      /\ f.selector \in Selectors
  BY <1>1 DEF Running, Evaluations, FrameWF, EvaluationWF, IsEvaluation
<1>4. /\ View(f).selector = f.selector /\ View(f).session = f.session /\ View(f).known = f.known
      /\ View(f).entry = f.entry /\ View(f).proof = f.proof /\ View(f).observed = f.observed
      /\ View(f).deps = f.deps
  BY DEF View
<1>5. n \in DOMAIN fl /\ fl[n] = View(f) /\ Suspect(fl[n], gv, P) = {}
      /\ \A j \in DOMAIN fl : j <= n
  BY <1>1
<1>6. ASSUME View(g) = View(f), IsEvaluation(g), g.known = f.known PROVE Goal
  <2>1. With(fl, n, View(f)) = fl
    <3>1. With(fl, n, View(f)) = [j \in DOMAIN fl |-> fl[j]]
      BY <1>5 DEF With
    <3> QED BY <3>1 DEF Evaluated
  <2> HIDE DEF f, g, fl, P, n
  <2> QED BY <1>0, <1>5, <1>6, <2>1
<1>7. ASSUME f.cycle # None PROVE Goal
  <2>1. g = [f EXCEPT !.at = "failed"]
    BY <1>7 DEF AfterServe
  <2>2. View(g) = View(f) /\ IsEvaluation(g) /\ g.known = f.known
    <3> HIDE DEF f, g
    <3> QED BY <1>3, <2>1 DEF View, EvaluationFields, IsEvaluation
  <2> HIDE DEF Goal, f, g
  <2> QED BY <1>6, <2>2
<1>8. ASSUME f.cycle = None, ~NeedsNoProof(f, d), PathExists(stk, f.session, d, f.selector)
      PROVE  Goal
  <2>1. PICK c : g = [f EXCEPT !.cycle = c, !.at = "failed"]
    BY <1>8 DEF AfterServe, Latched
  <2>2. View(g) = View(f) /\ IsEvaluation(g) /\ g.known = f.known
    <3> HIDE DEF f, g
    <3> QED BY <1>3, <2>1 DEF View, EvaluationFields, IsEvaluation
  <2> HIDE DEF Goal, f, g
  <2> QED BY <1>6, <2>2
<1>9. ASSUME f.cycle = None, NeedsNoProof(f, d) \/ ~PathExists(stk, f.session, d, f.selector)
      PROVE  Goal
  <2> DEFINE q == Captured(f, d)
  <2>1. PICK a, p, t, r :
          g = [f EXCEPT !.at = a, !.pending = p, !.deps = q, !.tokens = t, !.reads = r,
                        !.observed = o, !.proof = <<gv, P[f.session]>>]
    <3>1. g = Proved([f EXCEPT
                 !.at = IF out = Error THEN "failed" ELSE "running",
                 !.pending = None,
                 !.deps = Captured(f, d),
                 !.tokens = IF Contains(f.deps, d) THEN @ ELSE Append(@, token),
                 !.reads = Append(@, out),
                 !.observed = IF @ = None /\ d \in Selectors THEN {} ELSE @])
      BY <1>9, Zenon DEF AfterServe
    <3>2. g = [f EXCEPT
                 !.at = IF out = Error THEN "failed" ELSE "running",
                 !.pending = None,
                 !.deps = Captured(f, d),
                 !.tokens = IF Contains(f.deps, d) THEN f.tokens ELSE Append(f.tokens, token),
                 !.reads = Append(f.reads, out),
                 !.observed = o,
                 !.proof = <<gv, P[f.session]>>]
      <4> HIDE DEF f, g
      <4> QED BY <1>3, <3>1 DEF Proved, EvaluationFields, Publications, Published
    <3> HIDE DEF f, g, o, q, P
    <3> QED BY <3>2 DEF q
  <2>2. /\ View(g).selector = f.selector /\ View(g).session = f.session /\ View(g).known = f.known
        /\ View(g).entry = f.entry /\ View(g).proof = <<gv, P[f.session]>> /\ View(g).observed = o
        /\ View(g).deps = q /\ IsEvaluation(g) /\ g.known = f.known
    <3> HIDE DEF f, g, o, q, P
    <3> QED BY <1>3, <2>1 DEF View, EvaluationFields, IsEvaluation
  <2>3. Contains(f.deps, d) => q = f.deps
    BY DEF Captured
  <2>4. ReadBy(View(g)) = ReadBy(View(f)) \cup ({d} \cap Selectors)
    <3>1. Contains(f.deps, d) <=> d \in Range(f.deps)
      BY <1>3, ContainsOK
    <3>2. ~Contains(f.deps, d) => Range(q) = Range(f.deps) \cup {d}
      <4>1. Range(Append(f.deps, d)) = Range(f.deps) \cup {d}
        <5> DEFINE less == f.deps
                   more == Append(less, d)
        <5>1. /\ less \in Seq(Nodes) /\ Len(less) \in Nat /\ DOMAIN less = 1..Len(less)
              /\ DOMAIN more = 1..Len(less) + 1 /\ more[Len(less) + 1] = d
              /\ \A m \in 1..Len(less) : more[m] = less[m]
          BY <1>3
        <5> HIDE DEF less, more
        <5>2. \A m : m \in DOMAIN more <=> m \in DOMAIN less \/ m = Len(less) + 1
          BY <5>1
        <5>3. Range(more) = Range(less) \cup {d}
          BY <5>1, <5>2 DEF Range
        <5> QED BY <5>3 DEF more, less
      <4> QED BY <4>1 DEF Captured
    <3> HIDE DEF f, g, q
    <3> QED BY <1>4, <2>2, <2>3, <3>1, <3>2 DEF ReadBy
  <2> HIDE DEF q
  <2>5. CASE d \notin Selectors \/ d \in ReadBy(View(f))
    <3>1. ReadBy(View(g)) = ReadBy(View(f))
      BY <2>4, <2>5
    <3>2. o = f.observed
      <4>1. f.observed = None => ReadBy(View(f)) = {}
        BY <1>0, <1>4, <1>5 DEF KnownOK
      <4> HIDE DEF f
      <4> QED BY <2>5, <4>1
    <3>3. Touches(View(f), View(g), gv, P)
      <4> HIDE DEF f, g, o, P
      <4> QED BY <1>4, <2>2, <3>1, <3>2 DEF Touches
    <3> HIDE DEF f, g, fl, P, n, gv, has
    <3>4. Touches(fl[n], View(g), gv, P)
      BY <1>5, <3>3
    <3> QED BY <1>0, <1>5, <2>2, <3>4, TouchGraph
  <2>6. CASE d \in Selectors /\ d \notin ReadBy(View(f))
    <3>1. ReadBy(View(g)) = ReadBy(View(f)) \cup {d}
      BY <2>4, <2>6
    <3>2. Accepts(View(f), View(g), d, gv, P)
      <4> HIDE DEF f, g, P
      <4> QED BY <1>4, <2>2, <2>6, <3>1 DEF Accepts
    <3>3. ~Contains(f.deps, d)
      <4>1. d \notin Range(f.deps)
        BY <1>4, <2>6 DEF ReadBy
      <4> QED BY <1>3, <4>1, ContainsOK
    <3>4. Harmless(View(f), d, has, E, gv, P)
      <4>1. CASE f.known # None /\ Contains(f.known, d) /\ graphVersion = f.entry[1]
        <5>1. f.known \in Seq(Nodes)
          BY <4>1
        <5>2. d \in Range(f.known)
          BY <4>1, <5>1, ContainsOK
        <5> HIDE DEF f
        <5> QED BY <1>4, <2>6, <4>1, <5>2 DEF Harmless, KnownTo
      <4>2. CASE f.known = None /\ OnlyAttributed(f, f.entry)
        <5>1. Alone(View(f), View(f).entry, gv, P)
          BY <1>3, <1>4, <4>2 DEF OnlyAttributed, Publications, Alone, Published
        <5> HIDE DEF f, P
        <5> QED BY <1>4, <4>2, <5>1 DEF Harmless
      <4>3. CASE ~PathExists(stk, f.session, d, f.selector)
        <5>1. f.selector \notin ReachableFrom(E, d)
          BY <1>2, <2>6, <4>3 DEF PathExists
        <5> HIDE DEF f, E, P
        <5> QED BY <1>4, <5>1 DEF Harmless
      <4> QED BY <1>9, <3>3, <4>1, <4>2, <4>3 DEF NeedsNoProof
    <3>5. d \in Selectors /\ d \in has
      BY <2>6 DEF HasRecord
    <3> HIDE DEF f, g, fl, P, n, gv, has, E
    <3>6. Accepts(fl[n], View(g), d, gv, P) /\ Harmless(fl[n], d, has, E, gv, P)
      BY <1>5, <3>2, <3>4
    <3>7. /\ GraphOK(With(fl, n, View(g)), Graph(record), has, gv, P)
          /\ Suspect(View(g), gv, P) = {}
      BY <1>0, <1>5, <3>5, <3>6, AcceptGraph DEF E
    <3> QED BY <2>2, <3>7
  <2> QED BY <2>5, <2>6
<1>10. Goal
  <2> HIDE DEF Goal, f
  <2> QED BY <1>7, <1>8, <1>9
<1>11. Sane(z)
  <2>1. Evaluated(z) = With(fl, n, View(g))
    <3> HIDE DEF g, n
    <3> QED BY <1>1, <1>10, EvaluatedWith
  <2> HIDE DEF g, fl, z
  <2> QED BY <1>10, <2>1 DEF Sane
<1> QED BY <1>10, <1>11

-----------------------------------------------------------------------------
(* The graph and the stack *)

\* A stack with another frame on top has moved on.
LEMMA TopMoved ==
  ASSUME NEW stk, Stacked(stk), stk # <<>>,
         NEW g, FrameWF(g), Kept(stk[Len(stk)], g)
  PROVE  Moved(stk, [stk EXCEPT ![Len(stk)] = g])
<1> DEFINE more == [stk EXCEPT ![Len(stk)] = g]
           n == Len(stk)
<1>1. /\ more \in Seq(Range(more))
      /\ n \in Nat \ {0} /\ Len(more) = n
      /\ DOMAIN stk = 1..n
      /\ \A i \in DOMAIN stk : i # n => more[i] = stk[i]
      /\ more[n] = g
  BY ReplaceSeq DEF Stacked
<1> HIDE DEF more, n
<1>2. \A i \in DOMAIN stk : FrameWF(more[i]) /\ Kept(stk[i], more[i])
  <2> TAKE i \in DOMAIN stk
  <2>1. CASE i = n
    BY <1>1, <2>1 DEF n
  <2>2. CASE i # n
    <3>1. more[i] = stk[i] /\ FrameWF(stk[i])
      BY <1>1, <2>2 DEF Stacked
    <3> QED BY <3>1 DEF Kept
  <2> QED BY <2>1, <2>2
<1>3. Moved(stk, more)
  BY <1>1, <1>2 DEF Moved, n
<1> QED BY <1>3 DEF more, n

\* Frames that move on, one more and one less keep the others in their places.
LEMMA PlacedMoved ==
  ASSUME NEW stk, Stacked(stk), NEW more, Moved(stk, more), NEW base, Placed(stk, base)
  PROVE  Placed(more, base)
<1> DEFINE n == Len(stk)
<1>1. n \in Nat /\ DOMAIN stk = 1..n /\ DOMAIN more = 1..n
  BY DEF Stacked, Moved
<1>2. ASSUME NEW i \in 1..n
      PROVE  Situated(more[i], Level(more, i, base))
  <2>0. ASSUME NEW m \in Nat, NEW k \in 1..m, NEW j \in 1..k - 1
        PROVE  j \in 1..m /\ j # m
    BY <2>0
  <2>1. \A j \in 1..i - 1 : j \in 1..n /\ j # n
    <3> HIDE DEF n
    <3> QED BY <1>1, <2>0
  <2>2. \A j \in 1..i - 1 : Owner(stk[j]) <=> Owner(more[j])
    BY <1>1, <2>1 DEF Moved
  <2>3. Level(stk, i, base) = Level(more, i, base)
    <3>1. Owners(stk, i) = Owners(more, i)
      BY <2>2 DEF Owners
    <3> QED BY <3>1 DEF Level
  <2>4. Situated(stk[i], Level(stk, i, base))
    BY <1>1 DEF Placed
  <2>5. Kept(stk[i], more[i]) /\ FrameWF(stk[i])
    BY <1>1 DEF Moved, Stacked
  <2> QED BY <2>3, <2>4, <2>5 DEF Situated, Kept, FrameWF, IsEvaluation
<1> QED BY <1>1, <1>2 DEF Placed

LEMMA PlacedPush ==
  ASSUME NEW stk, Stacked(stk), NEW base, Placed(stk, base),
         NEW f, Situated(f, Level(stk, Len(stk) + 1, base))
  PROVE  Placed(Append(stk, f), base)
<1> DEFINE n == Len(stk)
           more == Append(stk, f)
<1>1. /\ n \in Nat /\ DOMAIN stk = 1..n /\ DOMAIN more = 1..(n + 1)
      /\ \A i \in 1..n : more[i] = stk[i]
      /\ more[n + 1] = f
  BY PushSeq DEF Stacked
<1> HIDE DEF more
<1>2. ASSUME NEW i \in 1..(n + 1)
      PROVE  Situated(more[i], Level(more, i, base))
  <2>1. \A j \in 1..i - 1 : j \in 1..n
    BY <1>1
  <2>2. \A j \in 1..i - 1 : Owner(stk[j]) <=> Owner(more[j])
    BY <1>1, <2>1
  <2>3. Level(stk, i, base) = Level(more, i, base)
    <3>1. Owners(stk, i) = Owners(more, i)
      BY <2>2 DEF Owners
    <3> QED BY <3>1 DEF Level
  <2>4. CASE i \in 1..n
    BY <1>1, <2>3, <2>4 DEF Placed
  <2>5. CASE i = n + 1
    BY <1>1, <2>3, <2>5
  <2> QED BY <1>1, <2>4, <2>5
<1>3. Placed(more, base)
  BY <1>1, <1>2 DEF Placed
<1> QED BY <1>3 DEF more

LEMMA PlacedPop ==
  ASSUME NEW stk, Stacked(stk), stk # <<>>, NEW base, Placed(stk, base)
  PROVE  Placed(Front(stk), base)
<1> DEFINE n == Len(stk)
           rest == Front(stk)
<1>1. /\ n \in Nat \ {0} /\ DOMAIN stk = 1..n /\ DOMAIN rest = 1..(n - 1)
      /\ \A i \in 1..(n - 1) : i \in 1..n /\ rest[i] = stk[i]
  BY PopSeq DEF Stacked
<1> HIDE DEF rest
<1>2. ASSUME NEW i \in 1..(n - 1)
      PROVE  Situated(rest[i], Level(rest, i, base))
  <2>1. \A j \in 1..i - 1 : j \in 1..(n - 1)
    BY <1>1
  <2>2. \A j \in 1..i - 1 : Owner(stk[j]) <=> Owner(rest[j])
    BY <1>1, <2>1
  <2>3. Level(stk, i, base) = Level(rest, i, base)
    <3>1. Owners(stk, i) = Owners(rest, i)
      BY <2>2 DEF Owners
    <3> QED BY <3>1 DEF Level
  <2> QED BY <1>1, <2>3 DEF Placed
<1>3. Placed(rest, base)
  BY <1>1, <1>2 DEF Placed
<1> QED BY <1>3 DEF rest

\* Frames that look the same to the graph.
LEMMA EvaluatedSame ==
  ASSUME NEW stk, NEW more, Evaluations(more) = Evaluations(stk),
         \A i \in Evaluations(stk) : View(more[i]) = View(stk[i])
  PROVE  Evaluated(more) = Evaluated(stk)
BY DEF Evaluated

\* A step of the last frame that the graph does not see.
LEMMA StandsTop ==
  ASSUME NEW stk, Stacked(stk), stk # <<>>, NEW base, NEW G, NEW has, NEW gv, NEW P,
         Stands(stk, base, G, has, gv, P),
         NEW g, FrameWF(g), Kept(stk[Len(stk)], g),
         IsEvaluation(g) => /\ View(g) = View(stk[Len(stk)])
                            /\ Active(g) => Active(stk[Len(stk)])
  PROVE  Stands([stk EXCEPT ![Len(stk)] = g], base, G, has, gv, P)
<1> DEFINE n == Len(stk)
           more == [stk EXCEPT ![n] = g]
<1>1. Moved(stk, more)
  BY TopMoved
<1>2. Placed(more, base)
  BY <1>1, PlacedMoved DEF Stands
<1>3. /\ n \in Nat \ {0} /\ Len(more) = n
      /\ DOMAIN stk = 1..n /\ DOMAIN more = 1..n
      /\ \A i \in DOMAIN stk : i # n => more[i] = stk[i]
      /\ more[n] = g
  BY ReplaceSeq DEF Stacked
<1> HIDE DEF more, n
<1>4. Evaluations(more) = Evaluations(stk)
  BY <1>3 DEF Evaluations, Kept, IsEvaluation, n
<1>5. ASSUME NEW i \in Evaluations(stk)
      PROVE  /\ View(more[i]) = View(stk[i]) /\ more[i].known = stk[i].known
             /\ Active(more[i]) => Active(stk[i])
  <2>1. i \in 1..n /\ IsEvaluation(more[i])
    BY <1>3, <1>4 DEF Evaluations
  <2>2. CASE i = n
    <3>1. View(g) = View(stk[n]) /\ (Active(g) => Active(stk[n]))
      BY <1>3, <2>1, <2>2 DEF n
    <3>2. g.known = stk[n].known
      BY <3>1 DEF View
    <3> QED BY <1>3, <2>2, <3>1, <3>2
  <2>3. CASE i # n
    BY <1>3, <2>1, <2>3
  <2> QED BY <2>2, <2>3
<1>6. Evaluated(more) = Evaluated(stk)
  BY <1>4, <1>5, EvaluatedSame
<1>7. Prepared(more, gv, P)
  BY <1>3, <1>4, <1>5 DEF Stands, Prepared, n
<1>8. Stands(more, base, G, has, gv, P)
  BY <1>2, <1>6, <1>7 DEF Stands
<1> QED BY <1>8 DEF more, n

\* A settle more.
LEMMA StandsSettle ==
  ASSUME NEW stk, Stacked(stk), NEW base, NEW G, NEW has, NEW gv, NEW P,
         Stands(stk, base, G, has, gv, P), \A i \in Evaluations(stk) : ~Active(stk[i]),
         NEW f, ~IsEvaluation(f), Situated(f, Level(stk, Len(stk) + 1, base))
  PROVE  Stands(Append(stk, f), base, G, has, gv, P)
<1> DEFINE n == Len(stk)
           more == Append(stk, f)
<1>1. Placed(more, base)
  BY PlacedPush DEF Stands
<1>2. /\ n \in Nat /\ DOMAIN stk = 1..n /\ DOMAIN more = 1..(n + 1)
      /\ \A i \in 1..n : more[i] = stk[i]
      /\ more[n + 1] = f
  BY PushSeq DEF Stacked
<1> HIDE DEF more
<1>3. \A i \in 1..(n + 1) : i \in 1..n \/ i = n + 1
  BY <1>2
<1>4. Evaluations(more) = Evaluations(stk) /\ \A i \in Evaluations(stk) : more[i] = stk[i]
  BY <1>2, <1>3 DEF Evaluations
<1>5. Evaluated(more) = Evaluated(stk)
  BY <1>4, EvaluatedSame
<1>6. Prepared(more, gv, P)
  BY <1>4 DEF Stands, Prepared
<1>7. Stands(more, base, G, has, gv, P)
  BY <1>1, <1>5, <1>6 DEF Stands
<1> QED BY <1>7 DEF more

\* Levels grow, and evaluations are in the session of their level.
LEMMA SessionsGrow ==
  ASSUME NEW stk, Stacked(stk), NEW base \in Nat, Placed(stk, base)
  PROVE  \A i \in Evaluations(stk) :
           stk[i].session \in Nat /\ stk[i].session <= Level(stk, Len(stk) + 1, base)
<1> TAKE i \in Evaluations(stk)
<1>1. Len(stk) \in Nat /\ i \in 1..Len(stk) /\ IsEvaluation(stk[i])
  BY DEF Stacked, Evaluations
<1>2. stk[i].session = Level(stk, i, base)
  BY <1>1 DEF Placed, Evaluations, Situated
<1>3. i \in Nat /\ Len(stk) + 1 \in Nat /\ i <= Len(stk) + 1
  BY <1>1
<1>4. Level(stk, i, base) \in Nat
  BY <1>3, LevelNat
<1>5. Level(stk, i, base) <= Level(stk, Len(stk) + 1, base)
  BY <1>3, LevelGrows
<1> QED BY <1>2, <1>4, <1>5

\* An evaluation more.
LEMMA StandsEvaluation ==
  ASSUME NEW stk, Stacked(stk), NEW base \in Nat, NEW G, NEW has, NEW gv, NEW P,
         Stands(stk, base, G, has, gv, P), \A i \in Evaluations(stk) : ~Active(stk[i]),
         NEW f, IsEvaluation(f), f.session = Level(stk, Len(stk) + 1, base),
         f.known = None \/ f.known \in Seq(Nodes),
         Starts(View(f), G, has, gv, P), Apart(Append(stk, f))
  PROVE  Stands(Append(stk, f), base, G, has, gv, P)
<1> DEFINE n == Len(stk)
           more == Append(stk, f)
           fl == Evaluated(stk)
           v == View(f)
<1>1. Situated(f, Level(stk, n + 1, base))
  BY DEF Situated
<1>2. Placed(more, base)
  BY <1>1, PlacedPush DEF Stands
<1>3. /\ n \in Nat /\ DOMAIN stk = 1..n /\ DOMAIN more = 1..(n + 1) /\ Len(more) = n + 1
      /\ \A i \in 1..n : more[i] = stk[i]
      /\ more[n + 1] = f
  BY PushSeq DEF Stacked
<1>4. Apart(more)
  OBVIOUS
<1> HIDE DEF more
<1>5. \A i \in 1..(n + 1) : i \in 1..n \/ i = n + 1
  BY <1>3
<1>6. /\ Evaluations(more) = Evaluations(stk) \cup {n + 1}
      /\ \A i \in Evaluations(stk) : more[i] = stk[i] /\ i \in 1..n /\ i < n + 1
  <2>1. \A i \in 1..n : i < n + 1 /\ i \in 1..(n + 1)
    BY <1>3
  <2>2. n + 1 \in 1..(n + 1)
    BY <1>3
  <2> QED BY <1>3, <1>5, <2>1, <2>2 DEF Evaluations
<1>7. DOMAIN fl = Evaluations(stk) /\ \A i \in Evaluations(stk) : fl[i] = View(stk[i])
  BY DEF Evaluated
<1>8. Evaluated(more) = Pushed(fl, n + 1, v)
  <2>1. n + 1 \notin Evaluations(stk)
    BY <1>3, <1>6
  <2>2. \A i \in Evaluations(stk) \cup {n + 1} :
          View(more[i]) = IF i = n + 1 THEN v ELSE fl[i]
    BY <1>3, <1>6, <1>7, <2>1
  <2> HIDE DEF fl, v
  <2> QED BY <1>6, <1>7, <2>2 DEF Evaluated, Pushed
<1>9. ASSUME NEW j \in DOMAIN fl
      PROVE  /\ j < n + 1 /\ fl[j].session <= v.session
             /\ fl[j].session = v.session => fl[j].selector # v.selector
  <2>1. j \in Evaluations(stk) /\ j \in 1..n /\ j < n + 1 /\ fl[j] = View(stk[j]) /\ more[j] = stk[j]
    BY <1>6, <1>7
  <2>2. stk[j].session <= f.session
    BY <2>1, SessionsGrow DEF Stands
  <2>3. stk[j].session = f.session => stk[j].selector # f.selector
    <3>1. j \in DOMAIN more /\ n + 1 \in DOMAIN more
      BY <1>3, <2>1
    <3>2. IsEvaluation(more[j]) /\ Claims(more[n + 1])
      BY <1>3, <2>1 DEF Evaluations, Claims
    <3> QED BY <1>3, <1>4, <2>1, <3>1, <3>2 DEF Apart
  <2> QED BY <2>1, <2>2, <2>3 DEF View
<1>10. GraphOK(fl, G, has, gv, P)
  BY DEF Stands
<1>11. GraphOK(Pushed(fl, n + 1, v), G, has, gv, P)
  <2>1. Starts(v, G, has, gv, P) /\ n + 1 \in Nat
    BY <1>3
  <2> HIDE DEF fl, v
  <2> QED BY <1>9, <1>10, <2>1, PushGraph
<1>12. Suspect(v, gv, P) = {}
  <2>1. v.observed = None
    BY DEF Starts
  <2> QED BY <2>1 DEF Suspect, Marks
<1>13. Prepared(more, gv, P)
  BY <1>3, <1>6, <1>12 DEF Stands, Prepared
<1>14. Stands(more, base, G, has, gv, P)
  BY <1>2, <1>8, <1>11, <1>13 DEF Stands
<1> QED BY <1>14 DEF more

\* A settle less.
LEMMA StandsPop ==
  ASSUME NEW stk, Stacked(stk), stk # <<>>, NEW base, NEW G, NEW has, NEW gv, NEW P,
         Stands(stk, base, G, has, gv, P), ~IsEvaluation(stk[Len(stk)])
  PROVE  /\ Stands(Front(stk), base, G, has, gv, P)
         /\ \A i \in Evaluations(Front(stk)) : ~Active(Front(stk)[i])
         /\ Stacked(Front(stk))
<1> DEFINE n == Len(stk)
           rest == Front(stk)
<1>1. Placed(rest, base)
  BY PlacedPop DEF Stands
<1>2. /\ n \in Nat \ {0} /\ DOMAIN stk = 1..n /\ DOMAIN rest = 1..(n - 1)
      /\ \A i \in 1..(n - 1) : i \in 1..n /\ rest[i] = stk[i]
      /\ rest \in Seq(Range(rest))
  BY PopSeq DEF Stacked
<1>3. ~IsEvaluation(stk[n])
  OBVIOUS
<1> HIDE DEF rest
<1>4. \A i \in 1..n : i \in 1..(n - 1) \/ i = n
  <2> HIDE DEF n
  <2> QED BY <1>2
<1>5. Evaluations(rest) = Evaluations(stk) /\ \A i \in Evaluations(stk) : rest[i] = stk[i] /\ i # n
  BY <1>2, <1>3, <1>4 DEF Evaluations
<1>6. Evaluated(rest) = Evaluated(stk)
  BY <1>5, EvaluatedSame
<1>7. \A i \in Evaluations(rest) : ~Active(rest[i])
  BY <1>5 DEF Stands, Prepared
<1>8. Prepared(rest, gv, P)
  BY <1>5, <1>7 DEF Stands, Prepared
<1>9. Stands(rest, base, G, has, gv, P)
  BY <1>1, <1>6, <1>8 DEF Stands
<1>10. Stacked(rest)
  BY <1>2 DEF Stacked
<1> QED BY <1>7, <1>9, <1>10 DEF rest

\* Publications of other sessions are of no concern.
LEMMA StandsOther ==
  ASSUME NEW stk, NEW base, NEW G, NEW has, NEW gv, NEW P,
         Stands(stk, base, G, has, gv, P),
         NEW Q, \A i \in Evaluations(stk) : Q[stk[i].session] = P[stk[i].session]
  PROVE  Stands(stk, base, G, has, gv, Q)
<1> DEFINE fl == Evaluated(stk)
<1>1. DOMAIN fl = Evaluations(stk) /\ \A i \in Evaluations(stk) : fl[i].session = stk[i].session
  BY DEF Evaluated, View
<1>2. GraphOK(fl, G, has, gv, P)
  BY DEF Stands
<1>3. GraphOK(fl, G, has, gv, Q)
  <2> HIDE DEF fl
  <2> QED BY <1>1, <1>2, SamePublications
<1>4. \A i \in Evaluations(stk) : Suspect(View(stk[i]), gv, Q) = Suspect(View(stk[i]), gv, P)
  BY DEF Suspect, Alone, View
<1>5. Prepared(stk, gv, Q)
  BY <1>4 DEF Stands, Prepared
<1> QED BY <1>3, <1>5 DEF Stands

-----------------------------------------------------------------------------
(* Every action keeps the invariant of the graph *)

\* What is known of a stack with a call in flight.
LEMMA GraphFacts ==
  ASSUME IInv, GraphInv, stack # <<>>
  PROVE  /\ Stacked(stack) /\ Base \in Nat /\ mode # "idle"
         /\ RecordsStand /\ graphVersion \in Nat /\ Len(sessions) \in Nat
         /\ Top = stack[Len(stack)] /\ Len(stack) \in Nat \ {0}
         /\ Situated(Top, Level(stack, Len(stack), Base))
         /\ ~Owner(Top) => Situated(Top, Len(sessions)) /\ Level(stack, Len(stack), Base) = Len(sessions)
<1>1. Stacked(stack) /\ Base \in Nat /\ Level(stack, Len(stack) + 1, Base) = Len(sessions)
  BY StackFacts DEF StackOK, Stacked
<1>2. mode # "idle"
  BY DEF GraphInv
<1>3. RecordsStand /\ graphVersion \in Nat /\ Len(sessions) \in Nat
  BY DEF GraphInv, IInv, DataOK, RecordsStand, SessionsWF
<1>4. Top = stack[Len(stack)] /\ Len(stack) \in Nat \ {0} /\ Len(stack) \in DOMAIN stack
      /\ Last(stack) = Top
  BY TopFacts
<1>5. Situated(Top, Level(stack, Len(stack), Base))
  BY <1>4 DEF GraphInv, Steady, Stands, Placed
<1>6. ~Owner(Top) => Level(stack, Len(stack), Base) = Len(sessions)
  BY <1>1, <1>4, LevelTop
<1> QED BY <1>1, <1>2, <1>3, <1>4, <1>5, <1>6

\* Whoever is on the top runs, or waits.
LEMMA BelowTop ==
  ASSUME GraphInv, Stacked(stack), stack # <<>>,
         NEW g, FrameWF(g), Kept(stack[Len(stack)], g), IsEvaluation(g) => ~Active(g)
  PROVE  \A i \in Evaluations(WithTop(g)) : ~Active(WithTop(g)[i])
<1> DEFINE n == Len(stack)
           more == WithTop(g)
<1>1. /\ n \in Nat \ {0}
      /\ DOMAIN stack = 1..n /\ DOMAIN more = 1..n
      /\ \A i \in DOMAIN stack : i # n => more[i] = stack[i]
      /\ more[n] = g
  BY ReplaceSeq DEF Stacked, WithTop
<1> HIDE DEF more
<1>2. ASSUME NEW i \in Evaluations(more) PROVE ~Active(more[i])
  <2>1. i \in 1..n /\ IsEvaluation(more[i])
    BY <1>1 DEF Evaluations
  <2>2. CASE i = n
    BY <1>1, <2>1, <2>2
  <2>3. CASE i # n
    BY <1>1, <2>1, <2>3 DEF GraphInv, Steady, Stands, Prepared, Evaluations
  <2> QED BY <2>2, <2>3
<1> QED BY <1>2 DEF more

\* A step that leaves the records and the sessions alone.
LEMMA SteadyStep ==
  ASSUME GraphInv, UNCHANGED <<record, graphVersion, sessions, mode>>,
         mode # "idle", Steady(stack')
  PROVE  GraphInv'
<1>1. Base' = Base
  BY DEF Base
<1> QED BY <1>1 DEF GraphInv, Steady, Graph, HasRecord, Published, Deps

\* A new evaluation starts from the record.
LEMMA EvaluationStarts ==
  ASSUME RecordsOK, graphVersion \in Nat, NEW s \in Selectors, NEW id \in Nat \ {0},
         NEW P, P[id] \in Nat
  PROVE  LET f == Evaluation(s, id, P[id]) IN
         /\ f.known = None \/ f.known \in Seq(Nodes)
         /\ Starts(View(f), Graph(record), HasRecord(record), graphVersion, P)
<1> DEFINE f == Evaluation(s, id, P[id])
<1>1. /\ f.selector = s /\ f.session = id /\ f.deps = <<>> /\ f.observed = None
      /\ f.known = (IF record[s] = None THEN None ELSE record[s].deps)
      /\ f.entry = <<graphVersion, P[id]>> /\ f.proof = <<graphVersion, P[id]>>
  BY DEF Evaluation
<1> HIDE DEF f
<1>2. record[s] # None => record[s].deps \in Seq(Nodes) /\ record[s].deps # None
  BY UndefinedAssumption DEF RecordsOK, RecordWF, Records
<1>3. f.known = None \/ f.known \in Seq(Nodes)
  BY <1>1, <1>2
<1>4. Range(<<>>) = {}
  BY DEF Range
<1>5. ReadBy(View(f)) = {}
  BY <1>1, <1>4 DEF ReadBy, View
<1>6. KnownTo(View(f)) = Graph(record)[s] /\ (f.known = None => s \notin HasRecord(record))
  <2>1. CASE record[s] = None
    BY <1>1, <1>4, <2>1 DEF KnownTo, View, Graph, Deps, HasRecord
  <2>2. CASE record[s] # None
    BY <1>1, <1>2, <2>2 DEF KnownTo, View, Graph, Deps, HasRecord
  <2> QED BY <2>1, <2>2
<1>7. Starts(View(f), Graph(record), HasRecord(record), graphVersion, P)
  BY <1>1, <1>5, <1>6 DEF Starts, View
<1> QED BY <1>3, <1>7 DEF f

\* What the sessions have published.
LEMMA PublishedIs ==
  ASSUME SessionsWF, NEW id \in 1..Len(sessions)
  PROVE  Published(sessions)[id] = Publications(id) /\ Publications(id) \in Nat
<1>1. id \in Nat /\ id \in DOMAIN sessions
  BY DEF SessionsWF
<1> QED BY <1>1 DEF Published, Publications, SessionsWF

\* The last frame moves on, unseen by the graph.
LEMMA TopSteady ==
  ASSUME IInv, GraphInv, stack # <<>>, ~Owner(Top),
         NEW g, FrameWF(g), Kept(Top, g),
         IsEvaluation(g) => View(g) = View(Top) /\ (Active(g) => Active(Top))
  PROVE  /\ Steady(WithTop(g)) /\ Stacked(WithTop(g))
         /\ Owner(g) => Level(WithTop(g), Len(WithTop(g)) + 1, Base) = Len(sessions) + 1
         /\ ~Owner(g) => Level(WithTop(g), Len(WithTop(g)) + 1, Base) = Len(sessions)
         /\ (IsEvaluation(g) => ~Active(g)) =>
              \A i \in Evaluations(WithTop(g)) : ~Active(WithTop(g)[i])
<1> DEFINE more == WithTop(g)
<1>1. Stacked(stack) /\ Top = stack[Len(stack)] /\ Len(stack) \in Nat \ {0}
      /\ Base \in Nat /\ Len(sessions) \in Nat
      /\ Level(stack, Len(stack), Base) = Len(sessions)
  BY GraphFacts
<1>2. Steady(more)
  BY <1>1, StandsTop DEF Steady, WithTop, GraphInv
<1>3. (IsEvaluation(g) => ~Active(g)) => \A i \in Evaluations(more) : ~Active(more[i])
  BY <1>1, BelowTop
<1>4. Moved(stack, more) /\ Len(more) = Len(stack) /\ Last(more) = g
  <2>1. Moved(stack, more)
    BY <1>1, TopMoved DEF WithTop
  <2>2. Len(more) = Len(stack) /\ more[Len(stack)] = g
    BY <1>1, ReplaceSeq DEF Stacked, WithTop
  <2> QED BY <2>1, <2>2 DEF Last
<1> HIDE DEF more
<1>5. Stacked(more)
  <2>1. DOMAIN more = DOMAIN stack
    BY <1>1, <1>4 DEF Moved, Stacked
  <2> QED BY <1>4, <2>1 DEF Moved, Stacked
<1>6. Level(more, Len(stack), Base) = Len(sessions)
  <2>1. ASSUME NEW m \in Nat \ {0}, NEW j \in 1..m - 1
        PROVE  j \in 1..m /\ j # m
    BY <2>1
  <2>2. \A j \in 1..Len(stack) - 1 : j \in DOMAIN stack /\ j # Len(stack)
    BY <1>1, <2>1 DEF Stacked
  <2>3. \A j \in 1..Len(stack) - 1 : Owner(stack[j]) <=> Owner(more[j])
    BY <1>4, <2>2 DEF Moved
  <2>4. Owners(stack, Len(stack)) = Owners(more, Len(stack))
    BY <2>3 DEF Owners
  <2> QED BY <1>1, <2>4 DEF Level
<1>7. /\ Owner(g) => Level(more, Len(more) + 1, Base) = Len(sessions) + 1
      /\ ~Owner(g) => Level(more, Len(more) + 1, Base) = Len(sessions)
  BY <1>1, <1>4, <1>6, LevelTop
<1> QED BY <1>2, <1>3, <1>5, <1>7 DEF more

LEMMA ReadActiveSteady == IInv /\ GraphInv /\ ReadActive /\ UNCHANGED history => GraphInv'
<1> SUFFICES ASSUME IInv, GraphInv, ReadActive PROVE GraphInv'
  OBVIOUS
<1> DEFINE x == ActiveFrom(Top.session, NextRead(Top))
           g == [Top EXCEPT !.cycle = x, !.at = "failed"]
<1>1. stack # <<>> /\ IsEvaluation(Top) /\ Top.at = "running"
      /\ stack' = WithTop(g)
      /\ UNCHANGED <<record, graphVersion, sessions, mode>>
  BY DEF ReadActive, EvaluationAt, graphVars
<1>2. x \in Seq(Selectors \ {Top.selector})
  BY <1>1, StackFacts, ActiveFromOK
<1> HIDE DEF x
<1>3. FrameWF(Top) /\ EvaluationWF(Top)
  BY <1>1, TopFacts
<1>4. FrameWF(g) /\ IsEvaluation(g) /\ Kept(Top, g)
  BY <1>1, <1>2, <1>3, FailedOK
<1>5. View(g) = View(Top)
  BY <1>3 DEF View, EvaluationWF, EvaluationFields
<1> HIDE DEF g
<1>6. Active(Top) /\ ~Owner(Top)
  BY <1>1 DEF Active, Owner, IsEvaluation
<1>7. Steady(stack')
  BY <1>1, <1>4, <1>5, <1>6, TopSteady
<1>8. mode # "idle"
  BY <1>1, GraphFacts
<1> QED BY <1>1, <1>7, <1>8, SteadyStep

LEMMA ReadSteady == IInv /\ GraphInv /\ Read(Serving) /\ UNCHANGED history => GraphInv'
<1> SUFFICES ASSUME IInv, GraphInv, Read(Serving) PROVE GraphInv'
  OBVIOUS
<1> DEFINE d == NextRead(Top)
           g == [Top EXCEPT !.pending = d, !.at = IF d \in Atoms THEN "served" ELSE "serving"]
           more == WithTop(g)
           f == Settling(d, Top.session, Top.session)
<1>1. stack # <<>> /\ IsEvaluation(Top) /\ Top.at = "running" /\ d # None
      /\ (d \in Atoms \/ ~IsActive(Top.session, d))
      /\ stack' = more \o (IF d \in Selectors THEN Serving ELSE <<>>)
      /\ UNCHANGED <<record, graphVersion, sessions, mode>>
  BY DEF Read, EvaluationAt, graphVars
<1>2. FrameWF(Top) /\ EvaluationWF(Top) /\ Top.session \in Nat \ {0}
  <2>1. FrameWF(Top) /\ EvaluationWF(Top)
    BY <1>1, TopFacts
  <2> QED BY <2>1 DEF EvaluationWF
<1>3. d \in Nodes /\ Len(Top.reads) < MaxReads
  BY <1>1, <1>2, NextReadOK DEF IInv, DataOK
<1>4. View(g) = View(Top)
  BY <1>2 DEF View, EvaluationWF, EvaluationFields
<1> HIDE DEF d
<1>5. /\ FrameWF(g) /\ IsEvaluation(g) /\ Kept(Top, g)
      /\ g.at = (IF d \in Atoms THEN "served" ELSE "serving")
  BY <1>1, <1>2, <1>3, ReadFrame
<1> HIDE DEF g
<1>6. ~Active(g)
  BY <1>5 DEF Active
<1>7. mode # "idle"
  BY <1>1, GraphFacts
<1>8. ~Owner(Top) /\ ~Owner(g)
  BY <1>1, <1>5 DEF Owner, IsEvaluation
<1>9. Top.session = Len(sessions)
  BY <1>1, <1>8, GraphFacts DEF Situated
<1>10. /\ Steady(more) /\ Stacked(more)
       /\ Level(more, Len(more) + 1, Base) = Len(sessions)
       /\ \A i \in Evaluations(more) : ~Active(more[i])
  BY <1>1, <1>4, <1>5, <1>6, <1>8, TopSteady
<1> HIDE DEF more
<1>11. stack' = more \/ (d \in Selectors /\ stack' = Append(more, f))
  <2>1. more \o <<>> = more /\ more \o <<f>> = Append(more, f)
    BY <1>10, PushCases DEF Stacked
  <2>2. Serving = <<>> \/ Serving = <<f>>
    BY DEF Serving, d
  <2> HIDE DEF f
  <2> QED BY <1>1, <2>1, <2>2
<1>12. CASE stack' = more
  BY <1>1, <1>7, <1>10, <1>12, SteadyStep
<1>13. CASE d \in Selectors /\ stack' = Append(more, f)
  <2>1. f.call = "settle" /\ f.session = Top.session /\ f.reader = Top.session
    BY <1>2, <1>13, SettlingOK
  <2> HIDE DEF f
  <2>2. ~IsEvaluation(f) /\ Situated(f, Len(sessions))
    BY <1>9, <2>1 DEF IsEvaluation, Situated
  <2>3. Steady(Append(more, f))
    BY <1>10, <2>2, StandsSettle DEF Steady
  <2> QED BY <1>1, <1>7, <1>13, <2>3, SteadyStep
<1> QED BY <1>11, <1>12, <1>13

LEMMA ServeSteady == IInv /\ GraphInv /\ Serve /\ UNCHANGED history => GraphInv'
<1> SUFFICES ASSUME IInv, GraphInv, Serve, UNCHANGED history PROVE GraphInv'
  OBVIOUS
<1> DEFINE d == Top.pending
           g == [Top EXCEPT !.at = "served"]
           more == WithTop(g)
           P == Published(sessions)
           f == Evaluation(d, Top.session, Publications(Top.session))
           current == record[d] # None /\ d \notin dirty
<1>1. stack # <<>> /\ IsEvaluation(Top) /\ Top.at = "serving"
      /\ stack' = more \o (IF current THEN <<>> ELSE <<f>>)
      /\ UNCHANGED <<record, graphVersion, sessions, mode>>
  BY DEF Serve, EvaluationAt, graphVars
<1>2. FrameWF(Top) /\ EvaluationWF(Top) /\ Top.session \in Nat \ {0} /\ d \in Selectors
  <2>1. FrameWF(Top) /\ EvaluationWF(Top)
    BY <1>1, TopFacts
  <2> QED BY <1>1, <2>1 DEF EvaluationWF, ReadsWF
<1>3. View(g) = View(Top)
  BY <1>2 DEF View, EvaluationWF, EvaluationFields
<1>4. FrameWF(g) /\ IsEvaluation(g) /\ Kept(Top, g) /\ g.at = "served"
  BY <1>1, <1>2, ServedFrame
<1>5. ~Owner(g) /\ ~Owner(Top)
  BY <1>1, <1>4 DEF Owner, IsEvaluation
<1> HIDE DEF g, d
<1>6. ~Active(g)
  BY <1>4 DEF Active
<1>7. mode # "idle" /\ Base \in Nat /\ RecordsStand /\ graphVersion \in Nat /\ Len(sessions) \in Nat
  BY <1>1, GraphFacts
<1>8. Top.session = Len(sessions)
  BY <1>1, <1>5, GraphFacts DEF Situated
<1>9. /\ Steady(more) /\ Stacked(more)
      /\ Level(more, Len(more) + 1, Base) = Len(sessions)
      /\ \A i \in Evaluations(more) : ~Active(more[i])
  BY <1>1, <1>3, <1>4, <1>5, <1>6, TopSteady
<1> HIDE DEF more
<1>10. stack' = more \/ stack' = Append(more, f)
  <2>1. more \o <<>> = more /\ more \o <<f>> = Append(more, f)
    BY <1>9, PushCases DEF Stacked
  <2> HIDE DEF f, current
  <2> QED BY <1>1, <2>1
<1>11. CASE stack' = more
  BY <1>1, <1>7, <1>9, <1>11, SteadyStep
<1>12. CASE stack' = Append(more, f)
  <2>1. Top.session \in 1..Len(sessions) /\ SessionsWF /\ RecordsOK
    BY <1>2, <1>7, <1>8 DEF RecordsStand
  <2>2. P[Top.session] = Publications(Top.session) /\ P[Top.session] \in Nat
    BY <2>1, PublishedIs
  <2>3. f.session = Top.session /\ IsEvaluation(f)
    BY <1>2, <2>1, EvaluationOK DEF IsEvaluation
  <2>4. f = Evaluation(d, Top.session, P[Top.session])
    BY <2>2
  <2> HIDE DEF f, P
  <2>5. /\ f.known = None \/ f.known \in Seq(Nodes)
        /\ Starts(View(f), Graph(record), HasRecord(record), graphVersion, P)
    BY <1>2, <1>7, <2>1, <2>2, <2>4, EvaluationStarts
  <2>6. Apart(Append(more, f))
    <3>1. IInv'
      BY ServeInductive
    <3>2. Apart(stack)'
      BY <3>1 DEF IInv, StackOK
    <3> QED BY <1>12, <3>2 DEF Apart
  <2>7. Steady(Append(more, f))
    BY <1>7, <1>8, <1>9, <2>3, <2>5, <2>6, StandsEvaluation DEF Steady, P
  <2> QED BY <1>1, <1>7, <1>12, <2>7, SteadyStep
<1> QED BY <1>10, <1>11, <1>12

LEMMA AcceptSteady == IInv /\ GraphInv /\ Accept /\ UNCHANGED history => GraphInv'
<1> SUFFICES ASSUME IInv, GraphInv, Accept PROVE GraphInv'
  OBVIOUS
<1> DEFINE n == Len(stack)
           d == Top.pending
           stk == Revalidated(stack)
           out == IF d \in Atoms THEN value[d] ELSE record[d].out
           token == IF d \in Atoms THEN None ELSE record[d].token
           g == AfterServe(stk, stk[n], d, out, token)
           more == [stk EXCEPT ![n] = g]
           P == Published(sessions)
<1>1. stack # <<>> /\ IsEvaluation(Top) /\ Top.at = "served"
      /\ stack' = [stk EXCEPT ![Len(stk)] = AfterServe(stk, Last(stk), d, out, token)]
      /\ UNCHANGED <<record, graphVersion, sessions, mode>>
  BY DEF Accept, EvaluationAt, graphVars
<1>2. /\ Stacked(stack) /\ Base \in Nat /\ mode # "idle"
      /\ RecordsStand /\ graphVersion \in Nat /\ Len(sessions) \in Nat
      /\ Top = stack[n] /\ n \in Nat \ {0} /\ DOMAIN stack = 1..n
  BY <1>1, GraphFacts DEF Stacked
<1>3. FrameWF(Top) /\ EvaluationWF(Top)
  BY <1>1, TopFacts
<1>4. d \in Nodes
  BY <1>1, <1>3 DEF EvaluationWF, ReadsWF
<1>5. out \in Values \cup {Error} /\ token \in Nat \cup {None}
      /\ (d \in Selectors => record[d] # None)
  <2>1. d \in Selectors => record[d] # None
    <3>1. StackOK(stack, Base, record, nextToken) /\ n + 1 \notin DOMAIN stack /\ n \in DOMAIN stack
      BY <1>2, StackFacts
    <3> QED BY <1>1, <1>2, <3>1 DEF StackOK, Awaits
  <2>2. CASE d \in Atoms
    BY <2>1, <2>2 DEF IInv, DataOK
  <2>3. CASE d \notin Atoms
    <3>1. d \in Selectors
      BY <1>4, <2>3 DEF Nodes
    <3> QED BY <1>2, <2>1, <2>3, <3>1 DEF RecordsStand, RecordsOK, RecordWF, Records
  <2> QED BY <2>2, <2>3
<1> HIDE DEF out, token, d
<1>6. Moved(stack, stk) /\ \A i \in DOMAIN stack : Quiet(stack[i], stk[i])
  BY <1>1, <1>2, <1>3, RevalidatedOK DEF Stacked, Last
<1>7. Running(stack) /\ Sane(stack)
  <2>1. Sane(stack)
    BY DEF GraphInv, Steady, Stands, Sane
  <2>2. \A i \in Evaluations(stack) : stack[i].session \in 1..Len(sessions)
    <3> TAKE i \in Evaluations(stack)
    <3>1. i \in DOMAIN stack /\ IsEvaluation(stack[i])
      BY DEF Evaluations
    <3>2. stack[i].session \in Nat \ {0}
      BY <1>2, <3>1 DEF Stacked, FrameWF, EvaluationWF, IsEvaluation
    <3>3. stack[i].session <= Level(stack, n + 1, Base)
      BY <1>2, SessionsGrow DEF GraphInv, Steady, Stands
    <3>4. Level(stack, n + 1, Base) = Len(sessions)
      BY StackFacts
    <3> QED BY <1>2, <3>2, <3>3, <3>4
  <2> QED BY <1>1, <1>2, <2>1, <2>2 DEF Running, Stacked
<1>8. /\ Reproved(stack, stk)
      /\ Suspect(View(stk[n]), graphVersion, P) = {}
  BY <1>2, <1>7, RevalidatedGraph
<1> HIDE DEF stk, P, n
<1>9. /\ Running(stk) /\ Sane(stk) /\ Len(stk) = n /\ Evaluations(stk) = Evaluations(stack)
      /\ \A k \in Evaluations(stack) : KeptView(stack[k], stk[k])
  BY <1>8 DEF Reproved, n
<1>10. Last(stk) = stk[n] /\ stack' = more
  BY <1>1, <1>9 DEF Last
<1>11. n \in Evaluations(stack) /\ \A k \in Evaluations(stack) : k \in 1..n
  BY <1>1, <1>2 DEF Evaluations
<1>12. \A k \in Evaluations(stack) : stk[k].known = stack[k].known
                                     /\ (stk[k].known = None \/ stk[k].known \in Seq(Nodes))
  BY <1>9 DEF KeptView, GraphInv, Steady, Stands, Prepared
<1>13. /\ IsEvaluation(g) /\ g.known = stk[n].known
       /\ Sane(more)
       /\ Suspect(View(g), graphVersion, P) = {}
  <2>1. Suspect(View(stk[Len(stk)]), graphVersion, Published(sessions)) = {}
        /\ (stk[Len(stk)].known = None \/ stk[Len(stk)].known \in Seq(Nodes))
    BY <1>8, <1>9, <1>11, <1>12 DEF P
  <2>2. RecordsStand /\ graphVersion \in Nat /\ d \in Nodes /\ (d \in Selectors => record[d] # None)
    BY <1>2, <1>4, <1>5
  <2>3. LET h == AfterServe(stk, stk[Len(stk)], d, out, token)
        IN /\ IsEvaluation(h) /\ h.known = stk[Len(stk)].known
           /\ Sane([stk EXCEPT ![Len(stk)] = h])
           /\ Suspect(View(h), graphVersion, Published(sessions)) = {}
    BY <1>9, <2>1, <2>2, AfterServeGraph
  <2> QED BY <1>9, <2>3 DEF P
<1>14. FrameWF(stk[n]) /\ IsEvaluation(stk[n]) /\ stk[n].at = "served" /\ stk[n].pending = d
       /\ stk # <<>> /\ Stacked(stk)
  <2>1. FrameWF(stk[n]) /\ IsEvaluation(stk[n]) /\ stk # <<>> /\ Stacked(stk)
    <3>1. DOMAIN stk = 1..n
      BY <1>2, <1>9 DEF Running
    <3> QED BY <1>2, <1>9, <3>1 DEF Running, Stacked
  <2>2. Quiet(Top, stk[n]) /\ Top.call = "evaluate"
    BY <1>1, <1>2, <1>6, <1>11 DEF IsEvaluation
  <2> QED BY <1>1, <2>1, <2>2 DEF Quiet, d
<1>15. FrameWF(g) /\ Kept(stk[n], g)
  BY <1>5, <1>14, AfterServeOK
<1> HIDE DEF g
<1>16. Placed(more, Base)
  <2>1. Placed(stack, Base)
    BY DEF GraphInv, Steady, Stands
  <2>2. Placed(stk, Base)
    BY <1>2, <1>6, <2>1, PlacedMoved
  <2>3. Moved(stk, more)
    BY <1>9, <1>14, <1>15, TopMoved
  <2> QED BY <1>14, <2>2, <2>3, PlacedMoved
<1>17. /\ Len(more) = n /\ more[n] = g
       /\ Evaluations(more) = Evaluations(stack)
       /\ \A k \in Evaluations(stack) : k # n => more[k] = stk[k]
  <2>1. /\ Len(more) = n /\ more[n] = g /\ DOMAIN stk = 1..n /\ DOMAIN more = 1..n
        /\ \A k \in 1..n : k # n => more[k] = stk[k]
    BY <1>9, <1>14, ReplaceSeq DEF Stacked
  <2> HIDE DEF more
  <2>2. Evaluations(more) = Evaluations(stk)
    BY <1>2, <1>13, <1>14, <2>1 DEF Evaluations
  <2> QED BY <1>9, <1>11, <2>1, <2>2
<1> HIDE DEF more
<1>18. Prepared(more, graphVersion, P)
  <2>1. ASSUME NEW k \in Evaluations(stack), k # n
        PROVE  ~Active(more[k])
    <3>1. ~Active(stack[k])
      BY <2>1 DEF GraphInv, Steady, Stands, Prepared, n
    <3>2. Quiet(stack[k], stk[k]) /\ stack[k].call = "evaluate"
      BY <1>2, <1>6, <1>11 DEF Evaluations, IsEvaluation
    <3> QED BY <1>17, <2>1, <3>1, <3>2 DEF Quiet, Active
  <2> QED BY <1>11, <1>12, <1>13, <1>17, <2>1 DEF Prepared
<1>19. Steady(more)
  BY <1>13, <1>16, <1>18 DEF Steady, Stands, Sane, P
<1> QED BY <1>1, <1>2, <1>10, <1>19, SteadyStep

LEMMA InstallSteady == IInv /\ GraphInv /\ Install => GraphInv'
<1> SUFFICES ASSUME IInv, GraphInv, Install PROVE GraphInv'
  OBVIOUS
<1> DEFINE n == Len(stack)
           f == Top
           s == f.selector
           old == record[s]
           out == Outcome(f)
           new == [out |-> out, token |-> TokenOf(f, out), deps |-> f.deps,
                   success |-> IF out # Error THEN out ELSE IF old = None THEN None ELSE old.success]
           recs == [record EXCEPT ![s] = new]
           ses == [sessions EXCEPT ![f.session].publications = @ + 1]
           rest == Front(stack)
           edges == {s} \X ((Range(f.deps) \ Range(Deps(record, s))) \cap Selectors)
           more == Observed(rest, edges)
           fl == Evaluated(stack)
           v == View(f)
           G == Graph(record)
           H == Graph(recs)
           has == HasRecord(record)
           P == Published(sessions)
           Q == Published(ses)
<1>1. /\ stack # <<>> /\ IsEvaluation(Top)
      /\ Top.at = "failed" \/ (Top.at = "running" /\ NextRead(Top) = None)
      /\ mode' = mode
      /\ record' = recs
      /\ graphVersion' = graphVersion + 1
      /\ sessions' = ses
      /\ stack' = more
  BY Zenon DEF Install, EvaluationAt
<1>2. /\ Stacked(stack) /\ Base \in Nat /\ mode # "idle"
      /\ RecordsStand /\ graphVersion \in Nat /\ Len(sessions) \in Nat
      /\ f = stack[n] /\ n \in Nat \ {0} /\ DOMAIN stack = 1..n
  BY <1>1, GraphFacts DEF Stacked
<1>3. /\ EvaluationWF(f) /\ s \in Selectors /\ f.session \in Nat \ {0} /\ f.session <= Len(sessions)
      /\ f.deps \in Seq(Nodes)
  <2>1. EvaluationWF(f) /\ f.session <= Len(sessions)
    BY <1>1, TopFacts
  <2> QED BY <2>1 DEF EvaluationWF
<1>4. new # None /\ new.deps = f.deps
  <2>1. Installed(f, new)
    BY <1>1, InstalledOK
  <2> QED BY <2>1, NoneAssumption DEF Installed, RecordWF
<1>5. DOMAIN record = Selectors
  BY DEF IInv, DataOK
<1> HIDE DEF new
<1>6. recs[s] = new /\ \A x \in Selectors : x # s => recs[x] = record[x]
  BY <1>3, <1>5
<1> HIDE DEF recs
<1>7. ses = [sessions EXCEPT ![f.session].publications = @ + 1]
  OBVIOUS
<1>8. /\ DOMAIN ses = DOMAIN sessions /\ DOMAIN sessions = 1..Len(sessions)
      /\ ses[f.session].publications = sessions[f.session].publications + 1
      /\ sessions[f.session].publications \in Nat
      /\ \A id \in DOMAIN sessions : /\ ses[id].outer = sessions[id].outer
                                     /\ id # f.session => ses[id] = sessions[id]
  BY <1>2, <1>3 DEF RecordsStand, SessionsWF
<1> HIDE DEF ses
<1>9. Nested(ses)
  BY <1>8 DEF GraphInv, Nested
<1> HIDE DEF f, n, edges
<1>10. /\ rest \in Seq(Range(rest)) /\ Len(rest) = n - 1 /\ DOMAIN rest = 1..(n - 1)
       /\ \A i \in DOMAIN rest : i \in 1..n /\ rest[i] = stack[i]
  BY <1>1, <1>2, PopSeq DEF Stacked, n
<1>11. Placed(rest, Base)
  BY <1>1, <1>2, PlacedPop DEF GraphInv, Steady, Stands
<1> HIDE DEF rest
<1>12. \A i \in DOMAIN rest : FrameWF(rest[i])
  BY <1>2, <1>10 DEF Stacked
<1>13. /\ Moved(rest, more)
       /\ \A i \in DOMAIN rest :
            /\ Quiet(rest[i], more[i])
            /\ more[i] = IF IsEvaluation(rest[i]) /\ rest[i].observed # None
                           THEN [rest[i] EXCEPT !.observed = @ \cup edges] ELSE rest[i]
  BY <1>10, <1>12, ObservedMoved
<1> HIDE DEF more
<1>14. Placed(more, Base)
  BY <1>10, <1>11, <1>12, <1>13, PlacedMoved DEF Stacked
<1>15. DOMAIN more = 1..(n - 1)
  BY <1>2, <1>10, <1>13 DEF Moved
<1>16. n \in Evaluations(stack) /\ (\A i \in 1..n : i \in 1..(n - 1) \/ i = n)
       /\ \A i \in 1..(n - 1) : i \in 1..n /\ i # n
  <2>1. n \in Evaluations(stack)
    BY <1>1, <1>2 DEF Evaluations, f
  <2> QED BY <1>2, <2>1
<1>17. Evaluations(more) = Evaluations(stack) \ {n}
  <2>1. \A i \in 1..(n - 1) : IsEvaluation(more[i]) <=> IsEvaluation(stack[i])
    BY <1>10, <1>13 DEF Moved, Kept, IsEvaluation
  <2> QED BY <1>2, <1>15, <1>16, <2>1 DEF Evaluations
<1>18. ASSUME NEW i \in Evaluations(more)
       PROVE  /\ Marking(View(stack[i]), View(more[i]), edges)
              /\ ~Active(more[i]) /\ more[i].known = stack[i].known
  <2>1. /\ i \in 1..(n - 1) /\ i \in DOMAIN rest /\ rest[i] = stack[i] /\ IsEvaluation(stack[i])
        /\ i \in Evaluations(stack) /\ i # n
    BY <1>10, <1>15, <1>17 DEF Evaluations
  <2>2. DOMAIN stack[i] = EvaluationFields
    BY <1>12, <2>1 DEF FrameWF, EvaluationWF, IsEvaluation
  <2>3. /\ Quiet(stack[i], more[i])
        /\ more[i] = IF stack[i].observed # None
                       THEN [stack[i] EXCEPT !.observed = @ \cup edges] ELSE stack[i]
    BY <1>13, <2>1
  <2>4. /\ more[i].selector = stack[i].selector /\ more[i].session = stack[i].session
        /\ more[i].deps = stack[i].deps /\ more[i].known = stack[i].known
        /\ more[i].entry = stack[i].entry /\ more[i].proof = stack[i].proof
        /\ more[i].at = stack[i].at
        /\ stack[i].observed = None => more[i].observed = None
        /\ stack[i].observed # None => more[i].observed = stack[i].observed \cup edges
    BY <2>2, <2>3 DEF EvaluationFields
  <2>5. ~Active(stack[i])
    BY <2>1 DEF GraphInv, Steady, Stands, Prepared, n
  <2> QED BY <2>4, <2>5 DEF Marking, View, Active
<1>19. /\ fl[n] = v /\ n \in DOMAIN fl /\ DOMAIN fl = Evaluations(stack)
       /\ \A i \in DOMAIN fl : i \in 1..n /\ i <= n /\ fl[i] = View(stack[i])
  <2>1. \A i \in Evaluations(stack) : i \in 1..n
    BY <1>2 DEF Evaluations
  <2> QED BY <1>2, <1>16, <2>1 DEF Evaluated
<1>20. GraphOK(fl, G, has, graphVersion, P)
  BY DEF GraphInv, Steady, Stands
<1>21. Suspect(v, graphVersion, P) = {}
  <2>1. Active(stack[n])
    BY <1>1, <1>2 DEF Active, f
  <2> QED BY <1>2, <1>16, <2>1 DEF GraphInv, Steady, Stands, Prepared
<1>22. /\ v.selector = s /\ v.session = f.session /\ v.deps = f.deps
  BY DEF View
<1>23. /\ H[s] = ReadBy(v) /\ \A x \in Selectors : x # s => H[x] = G[x]
  BY <1>3, <1>4, <1>6, <1>22 DEF Graph, Deps, ReadBy
<1>24. HasRecord(recs) = has \cup {s}
  BY <1>3, <1>4, <1>6 DEF HasRecord
<1>25. Q[v.session] = P[v.session] + 1
  BY <1>3, <1>8, <1>22 DEF Published
<1>26. edges \in SUBSET (Selectors \X Selectors)
       /\ \A d \in ReadBy(v) : d \in G[s] \/ <<s, d>> \in edges
  BY <1>3, <1>22 DEF edges, ReadBy, Graph
<1>27. \A i \in Evaluations(stack) : stack[i].session # f.session => Q[stack[i].session] = P[stack[i].session]
  <2> TAKE i \in Evaluations(stack)
  <2>1. i \in DOMAIN stack /\ IsEvaluation(stack[i])
    BY DEF Evaluations
  <2>2. stack[i].session \in Nat \ {0}
    BY <1>2, <2>1 DEF Stacked, FrameWF, EvaluationWF, IsEvaluation
  <2>3. stack[i].session <= Level(stack, n + 1, Base)
    BY <1>2, SessionsGrow DEF GraphInv, Steady, Stands, n
  <2>4. Level(stack, n + 1, Base) = Len(sessions)
    BY StackFacts DEF n
  <2>5. stack[i].session \in DOMAIN sessions
    BY <1>2, <1>8, <2>2, <2>3, <2>4
  <2> QED BY <1>8, <2>2, <2>5 DEF Published
<1>28. Publishes(v, G, H, graphVersion, P, Q, edges)
  BY <1>22, <1>23, <1>25, <1>26 DEF Publishes
<1> DEFINE less == Evaluated(more)
<1>29. /\ DOMAIN less = DOMAIN fl \ {n}
       /\ \A j \in DOMAIN less : less[j] = View(more[j]) /\ Marking(fl[j], less[j], edges)
  <2>1. DOMAIN less = Evaluations(more) /\ \A j \in Evaluations(more) : less[j] = View(more[j])
    BY DEF Evaluated
  <2> HIDE DEF less, fl
  <2>2. \A j \in Evaluations(more) : fl[j] = View(stack[j])
    BY <1>17, <1>19
  <2> QED BY <1>17, <1>18, <1>19, <2>1, <2>2
<1>30. \A j \in DOMAIN fl : fl[j].session # fl[n].session => Q[fl[j].session] = P[fl[j].session]
  BY <1>19, <1>22, <1>27 DEF View
<1> HIDE DEF fl, less, G, H, has, P, Q, v
<1>31. GraphOK(less, H, has \cup {s}, graphVersion + 1, Q)
  <2>1. Suspect(fl[n], graphVersion, P) = {} /\ Publishes(fl[n], G, H, graphVersion, P, Q, edges)
        /\ fl[n].selector = s
    BY <1>19, <1>21, <1>22, <1>28
  <2>2. GraphOK(less, H, has \cup {fl[n].selector}, graphVersion + 1, Q)
    <3>1. n \in DOMAIN fl /\ \A j \in DOMAIN fl : j <= n
      BY <1>19
    <3>2. DOMAIN less = DOMAIN fl \ {n} /\ \A j \in DOMAIN less : Marking(fl[j], less[j], edges)
      BY <1>29
    <3> HIDE DEF n, edges, s
    <3> QED BY <1>20, <1>30, <2>1, <3>1, <3>2, PopGraph
  <2> QED BY <2>1, <2>2
<1>32. Prepared(more, graphVersion + 1, Q)
  BY <1>17, <1>18 DEF GraphInv, Steady, Stands, Prepared
<1>33. Stands(more, Base, H, HasRecord(recs), graphVersion + 1, Q)
  BY <1>14, <1>24, <1>31, <1>32 DEF Stands, less
<1>34. Base' = Base
  BY <1>1 DEF Base
<1>35. /\ Graph(record)' = H /\ HasRecord(record)' = HasRecord(recs) /\ Published(sessions)' = Q
  BY <1>1 DEF Graph, HasRecord, Published, Deps, H, Q
<1>36. Steady(stack)'
  BY <1>1, <1>33, <1>34, <1>35 DEF Steady
<1>37. Nested(sessions)' /\ mode' # "idle"
  BY <1>1, <1>2, <1>9
<1> QED BY <1>36, <1>37 DEF GraphInv

\* The innermost settle returns: no evaluation is concerned.
LEMMA ReturningSteady ==
  ASSUME IInv, GraphInv, stack # <<>>, Top.call = "settle", NEW c
  PROVE  Steady(Returning(c)) /\ Stacked(Returning(c))
<1> DEFINE rest == Front(stack)
           f == Last(rest)
           g == [f EXCEPT !.currentness = Fold(@, c)]
           more == [rest EXCEPT ![Len(rest)] = g]
<1>1. Stacked(stack) /\ ~IsEvaluation(stack[Len(stack)])
  BY GraphFacts DEF IsEvaluation
<1>2. Steady(rest) /\ Stacked(rest)
  BY <1>1, StandsPop DEF GraphInv, Steady
<1>3. Returning(c) = IF rest # <<>> /\ f.call = "settle"
                       THEN [rest EXCEPT ![Len(rest)].currentness = Fold(@, c)] ELSE rest
  BY Zenon DEF Returning
<1> HIDE DEF rest
<1>4. CASE ~(rest # <<>> /\ f.call = "settle")
  BY <1>2, <1>3, <1>4
<1>5. CASE rest # <<>> /\ f.call = "settle"
  <2>1. Len(rest) \in DOMAIN rest /\ f = rest[Len(rest)]
    BY <1>2, <1>5 DEF Stacked, Last
  <2>2. Returning(c) = more
    BY <1>3, <1>5, <2>1
  <2>3. FrameWF(f) /\ SettleWF(f)
    BY <1>2, <1>5, <2>1 DEF Stacked, FrameWF
  <2>4. /\ DOMAIN g = DOMAIN f /\ g.call = f.call /\ g.selector = f.selector
        /\ g.session = f.session /\ g.reader = f.reader /\ g.at = f.at /\ g.todo = f.todo
        /\ g.owns = f.owns
    BY <2>3 DEF SettleWF, SettleFields
  <2> HIDE DEF g, f
  <2>5. SettleWF(g)
    BY <2>3, <2>4, Zenon DEF SettleWF
  <2>6. FrameWF(g) /\ Kept(f, g) /\ ~IsEvaluation(g)
    BY <1>5, <2>4, <2>5 DEF FrameWF, Kept, Claims, IsEvaluation
  <2>7. Steady(more)
    BY <1>2, <1>5, <2>1, <2>6, StandsTop DEF Steady
  <2>8. Stacked(more)
    <3>1. Moved(rest, more)
      BY <1>2, <1>5, <2>1, <2>6, TopMoved
    <3> HIDE DEF more
    <3>2. DOMAIN more = DOMAIN rest
      BY <1>2, <3>1 DEF Moved, Stacked
    <3> QED BY <3>1, <3>2 DEF Moved, Stacked
  <2> QED BY <2>2, <2>7, <2>8
<1> QED BY <1>4, <1>5

LEMMA EnterKnownSteady == IInv /\ GraphInv /\ EnterKnown => GraphInv'
<1> SUFFICES ASSUME IInv, GraphInv, EnterKnown PROVE GraphInv'
  OBVIOUS
<1>1. /\ stack # <<>> /\ Top.call = "settle"
      /\ stack' = Returning(Known(Top))
      /\ UNCHANGED <<record, graphVersion, sessions, mode>>
  BY DEF EnterKnown, SettleAt
<1>2. mode # "idle" /\ Steady(stack')
  BY <1>1, GraphFacts, ReturningSteady
<1> QED BY <1>1, <1>2, SteadyStep

LEMMA LeaveCleanSteady == IInv /\ GraphInv /\ LeaveClean => GraphInv'
<1> SUFFICES ASSUME IInv, GraphInv, LeaveClean PROVE GraphInv'
  OBVIOUS
<1>1. /\ stack # <<>> /\ Top.call = "settle"
      /\ stack' = Returning(Top.currentness)
      /\ UNCHANGED <<record, graphVersion, sessions, mode>>
  BY DEF LeaveClean, SettleAt
<1>2. mode # "idle" /\ Steady(stack')
  BY <1>1, GraphFacts, ReturningSteady
<1> QED BY <1>1, <1>2, SteadyStep

\* The sessions of the evaluations are open.
LEMMA SessionsOpen ==
  ASSUME IInv, GraphInv
  PROVE  \A i \in Evaluations(stack) : stack[i].session \in 1..Len(sessions)
<1> TAKE i \in Evaluations(stack)
<1>1. Stacked(stack) /\ Base \in Nat /\ Level(stack, Len(stack) + 1, Base) = Len(sessions)
  BY StackFacts DEF StackOK, Stacked
<1>2. i \in DOMAIN stack /\ IsEvaluation(stack[i])
  BY DEF Evaluations
<1>3. stack[i].session \in Nat \ {0}
  BY <1>1, <1>2 DEF Stacked, FrameWF, EvaluationWF, IsEvaluation
<1>4. stack[i].session <= Level(stack, Len(stack) + 1, Base)
  BY <1>1, SessionsGrow DEF GraphInv, Steady, Stands
<1>5. Len(sessions) \in Nat
  BY DEF IInv, SessionsWF
<1> QED BY <1>1, <1>3, <1>4, <1>5

\* LeaveEvaluated: the session that is closed has no evaluation left.
LEMMA LeaveEvaluatedSteady == IInv /\ GraphInv /\ LeaveEvaluated => GraphInv'
<1> SUFFICES ASSUME IInv, GraphInv, LeaveEvaluated PROVE GraphInv'
  OBVIOUS
<1>1. PICK c : /\ stack # <<>> /\ Top.call = "settle" /\ stack' = Returning(c)
  BY DEF LeaveEvaluated, SettleAt
<1>2. /\ sessions' = IF Top.owns THEN Front(sessions) ELSE sessions
      /\ UNCHANGED <<record, graphVersion, mode>>
  BY DEF LeaveEvaluated
<1>3. mode # "idle" /\ Steady(stack') /\ Stacked(stack') /\ Base \in Nat
  BY <1>1, GraphFacts, ReturningSteady
<1>4. CASE ~Top.owns
  <2>1. sessions' = sessions
    BY <1>2, <1>4, Zenon
  <2> QED BY <1>2, <1>3, <2>1, SteadyStep
<1>5. CASE Top.owns
  <2>1. sessions' = Front(sessions)
    BY <1>2, <1>5, Zenon
  <2>2. IInv'
    BY LeaveEvaluatedInductive
  <2>3. Base' = Base
    BY <1>2 DEF Base
  <2>4. Len(sessions') = Level(stack', Len(stack') + 1, Base) /\ Len(sessions') \in Nat
    BY <2>2, <2>3 DEF IInv, SessionsCounted, SessionsWF
  <2>5. \A i \in Evaluations(stack') : stack'[i].session <= Len(sessions') /\ stack'[i].session \in Nat
    BY <1>3, <2>4, SessionsGrow DEF Steady, Stands
  <2>6. \A i \in Evaluations(stack') : stack'[i].session \in 1..Len(sessions')
    <3> TAKE i \in Evaluations(stack')
    <3>1. stack'[i].session # 0
      BY <1>3 DEF Stacked, Evaluations, FrameWF, EvaluationWF, IsEvaluation
    <3> QED BY <2>4, <2>5, <3>1
  <2>7. sessions # <<>> /\ sessions \in Seq(Range(sessions))
    <3>1. Level(stack, Len(stack) + 1, Base) = Len(sessions) /\ Owner(Last(stack))
      BY <1>1, <1>5, StackFacts, Zenon DEF Owner, Top
    <3>2. Len(stack) \in Nat \ {0} /\ Level(stack, Len(stack), Base) \in Nat
      <4>1. Len(stack) \in Nat \ {0} /\ Len(stack) \in Nat
        BY <1>1, GraphFacts
      <4> QED BY <1>3, <4>1, LevelNat
    <3>3. Len(sessions) = Level(stack, Len(stack), Base) + 1
      BY <1>3, <3>1, <3>2, LevelTop
    <3>4. sessions \in Seq(Range(sessions))
      BY DEF IInv, SessionsWF
    <3> QED BY <3>2, <3>3, <3>4
  <2>8. /\ DOMAIN sessions' = 1..Len(sessions')
        /\ \A i \in DOMAIN sessions' : i \in DOMAIN sessions /\ sessions'[i] = sessions[i]
    BY <2>1, <2>7, PopSeq
  <2>9. \A i \in Evaluations(stack') :
          Published(sessions)'[stack'[i].session] = Published(sessions)[stack'[i].session]
    BY <2>5, <2>6, <2>8 DEF Published
  <2>10. Stands(stack', Base, Graph(record), HasRecord(record), graphVersion, Published(sessions)')
    <3> DEFINE Q == Published(sessions)'
    <3>1. \A i \in Evaluations(stack') : Q[stack'[i].session] = Published(sessions)[stack'[i].session]
      BY <2>9
    <3> HIDE DEF Q
    <3>2. Stands(stack', Base, Graph(record), HasRecord(record), graphVersion, Q)
      BY <1>3, <3>1, StandsOther DEF Steady
    <3> QED BY <3>2 DEF Q
  <2>11. Nested(sessions)'
    BY <2>8 DEF GraphInv, Nested
  <2>12. Graph(record)' = Graph(record) /\ HasRecord(record)' = HasRecord(record)
    BY <1>2 DEF Graph, HasRecord, Deps
  <2>13. Steady(stack)'
    BY <1>2, <2>3, <2>10, <2>12 DEF Steady
  <2> QED BY <1>2, <1>3, <2>11, <2>13 DEF GraphInv
<1> QED BY <1>4, <1>5

LEMMA EnterWalkSteady == IInv /\ GraphInv /\ EnterWalk => GraphInv'
<1> SUFFICES ASSUME IInv, GraphInv, EnterWalk PROVE GraphInv'
  OBVIOUS
<1> DEFINE s == Top.selector
           todo == IF "walking" \in Top.entered THEN <<>> ELSE SelectorDeps(s)
           g == [Top EXCEPT !.at = "walking", !.version = graphVersion, !.todo = todo]
<1>1. /\ stack # <<>> /\ Top.call = "settle" /\ Top.at = "entered"
      /\ stack' = WithTop(g)
      /\ UNCHANGED <<record, graphVersion, sessions, mode>>
  BY DEF EnterWalk, SettleAt
<1>2. SettleWF(Top) /\ s \in Selectors
  <2>1. SettleWF(Top)
    BY <1>1, TopFacts
  <2> QED BY <2>1 DEF SettleWF
<1>3. todo \in Seq(Selectors)
  <2>1. SelectorDeps(s) \in Seq(Selectors)
    BY <1>2, StackFacts, SelectorDepsOK
  <2> QED BY <2>1
<1> HIDE DEF todo
<1>4. /\ DOMAIN g = DOMAIN Top /\ g.call = Top.call /\ g.selector = Top.selector
      /\ g.session = Top.session /\ g.reader = Top.reader /\ g.at = "walking"
      /\ g.todo = todo /\ g.owns = Top.owns
  BY <1>2 DEF SettleWF, SettleFields
<1> HIDE DEF g
<1>5. FrameWF(g) /\ Kept(Top, g) /\ ~Owner(Top) /\ ~IsEvaluation(g)
  <2>1. FrameWF(g) /\ Kept(Top, g) /\ ~Owner(Top)
    BY <1>1, <1>2, <1>3, <1>4, WalkingOK
  <2> QED BY <1>1, <1>4, <2>1 DEF IsEvaluation
<1>6. mode # "idle" /\ Steady(stack')
  BY <1>1, <1>5, GraphFacts, TopSteady
<1> QED BY <1>1, <1>6, SteadyStep

LEMMA WalkSteady == IInv /\ GraphInv /\ Walk => GraphInv'
<1> SUFFICES ASSUME IInv, GraphInv, Walk PROVE GraphInv'
  OBVIOUS
<1> DEFINE todo == Top.todo
           g == [Top EXCEPT !.todo = Tail(@)]
           more == WithTop(g)
           f == Settling(Head(todo), 0, Top.reader)
<1>1. /\ stack # <<>> /\ Top.call = "settle" /\ Top.at = "walking" /\ todo # <<>>
      /\ stack' = Append(more, f)
      /\ UNCHANGED <<record, graphVersion, sessions, mode>>
  BY DEF Walk, SettleAt, graphVars
<1>2. SettleWF(Top)
  BY <1>1, TopFacts
<1>3. Head(todo) \in Selectors /\ Tail(todo) \in Seq(Selectors) /\ Top.reader \in Nat
  BY <1>1, <1>2 DEF SettleWF
<1>4. /\ DOMAIN g = DOMAIN Top /\ g.call = Top.call /\ g.selector = Top.selector
      /\ g.session = Top.session /\ g.reader = Top.reader /\ g.at = "walking"
      /\ g.todo = Tail(todo) /\ g.owns = Top.owns
  BY <1>1, <1>2 DEF SettleWF, SettleFields
<1>5. f.call = "settle" /\ f.session = 0 /\ f.reader = Top.reader
  BY <1>3, SettlingOK
<1> HIDE DEF f, g, todo
<1>6. FrameWF(g) /\ Kept(Top, g) /\ ~Owner(g) /\ ~Owner(Top) /\ ~IsEvaluation(g)
  <2>1. FrameWF(g) /\ Kept(Top, g) /\ ~Owner(g) /\ ~Owner(Top)
    BY <1>1, <1>2, <1>3, <1>4, WalkingOK
  <2> QED BY <1>1, <1>4, <2>1 DEF IsEvaluation
<1>7. /\ Steady(more) /\ Stacked(more)
      /\ Level(more, Len(more) + 1, Base) = Len(sessions)
      /\ \A i \in Evaluations(more) : ~Active(more[i])
  BY <1>1, <1>6, TopSteady
<1> HIDE DEF more
<1>8. mode # "idle" /\ Top.reader = Len(sessions)
  BY <1>1, <1>6, GraphFacts DEF Situated, IsEvaluation
<1>9. ~IsEvaluation(f) /\ Situated(f, Len(sessions))
  BY <1>5, <1>8 DEF IsEvaluation, Situated
<1>10. Steady(stack')
  BY <1>1, <1>7, <1>9, StandsSettle DEF Steady
<1> QED BY <1>1, <1>8, <1>10, SteadyStep

\* Evaluate: in the innermost session, or in one opened inside it.
LEMMA EvaluateSteady == IInv /\ GraphInv /\ Evaluate => GraphInv'
<1> SUFFICES ASSUME IInv, GraphInv, Evaluate PROVE GraphInv'
  OBVIOUS
<1> DEFINE s == Top.selector
           reuse == Top.session # 0 /\ Top.version = graphVersion
           opened == Append(sessions, [outer |-> Top.reader, publications |-> 0])
           owns == ~reuse
           g == [Top EXCEPT !.at = "evaluated", !.provisional = provisional, !.owns = owns]
           more == WithTop(g)
           m == Len(sessions)
           P == Published(sessions)
           Q == Published(sessions)'
           id == IF reuse THEN m ELSE m + 1
           f == Evaluation(s, id, Q[id])
<1>1. /\ stack # <<>> /\ Top.call = "settle" /\ Top.at = "walking"
      /\ sessions' = IF reuse THEN sessions ELSE opened
      /\ stack' = Append(more, IF reuse THEN Evaluation(s, Top.session, Publications(Top.session))
                               ELSE Evaluation(s, Len(opened), 0))
      /\ UNCHANGED <<record, graphVersion, mode>>
  BY Zenon DEF Evaluate, SettleAt
<1>2. SettleWF(Top) /\ s \in Selectors /\ Top.session \in Nat
  <2>1. SettleWF(Top)
    BY <1>1, TopFacts
  <2> QED BY <2>1 DEF SettleWF
<1>3. ~Owner(Top)
  BY <1>1, <1>2 DEF SettleWF, Owner
<1>4. /\ mode # "idle" /\ Base \in Nat /\ RecordsStand /\ graphVersion \in Nat /\ m \in Nat
      /\ Top.reader = m /\ Top.session \in {0, m}
  BY <1>1, <1>3, GraphFacts DEF Situated, IsEvaluation
<1>5. IInv' /\ Base' = Base
  <2>1. IInv'
    BY EvaluateInductive
  <2> QED BY <1>1, <2>1 DEF Base
<1>6. FrameWF(g) /\ Kept(Top, g) /\ ~IsEvaluation(g) /\ (Owner(g) <=> owns)
  <2>1. owns \in BOOLEAN
    OBVIOUS
  <2> HIDE DEF owns
  <2>2. FrameWF(g) /\ Kept(Top, g) /\ (Owner(g) <=> owns)
    BY <1>1, <1>2, <2>1, EvaluatingFrame
  <2>3. g.call = Top.call
    BY <2>2 DEF Kept
  <2> QED BY <1>1, <2>2, <2>3 DEF IsEvaluation
<1> HIDE DEF g
<1>7. /\ Steady(more) /\ Stacked(more)
      /\ owns => Level(more, Len(more) + 1, Base) = m + 1
      /\ ~owns => Level(more, Len(more) + 1, Base) = m
      /\ \A i \in Evaluations(more) : ~Active(more[i])
  BY <1>1, <1>3, <1>6, TopSteady
<1> HIDE DEF more
<1>8. m = Len(sessions) /\ sessions \in Seq(Range(sessions)) /\ DOMAIN sessions = 1..m
  BY <1>4 DEF RecordsStand, SessionsWF
<1>9. /\ Len(opened) = m + 1 /\ DOMAIN opened = 1..(m + 1)
      /\ \A i \in 1..m : opened[i] = sessions[i]
      /\ opened[m + 1].outer = m /\ opened[m + 1].publications = 0
  <2> DEFINE x == [outer |-> Top.reader, publications |-> 0]
  <2>1. x.outer = m /\ x.publications = 0
    BY <1>4
  <2> HIDE DEF x
  <2>2. opened = Append(sessions, x)
    BY DEF x
  <2>3. /\ Len(opened) = m + 1 /\ DOMAIN opened = 1..(m + 1)
        /\ \A i \in 1..m : opened[i] = sessions[i]
        /\ opened[m + 1] = x
    BY <1>8, <2>2, PushSeq
  <2> QED BY <2>1, <2>3
<1> HIDE DEF opened
<1>10. /\ \A i \in 1..m : sessions'[i] = sessions[i]
       /\ DOMAIN sessions' = 1..id /\ id \in Nat \ {0} /\ m <= id
       /\ \A i \in DOMAIN sessions' : i \in 1..m \/ (i = m + 1 /\ sessions'[i].outer = m)
       /\ stack' = Append(more, f)
       /\ Q[id] \in Nat
       /\ Level(more, Len(more) + 1, Base) = id
  <2>1. CASE reuse
    <3>1. sessions' = sessions /\ id = m /\ ~owns
          /\ stack' = Append(more, Evaluation(s, Top.session, Publications(Top.session)))
      BY <1>1, <2>1, Zenon
    <3>2. Top.session = m /\ m \in 1..m /\ m \in Nat \ {0}
      BY <1>2, <1>4, <2>1
    <3>3. Q[id] = Publications(Top.session) /\ Q[id] \in Nat
      <4>1. P[m] = Publications(m) /\ Publications(m) \in Nat
        BY <1>4, <3>2, PublishedIs DEF RecordsStand
      <4>2. Q = P
        BY <3>1 DEF Published
      <4> QED BY <3>1, <3>2, <4>1, <4>2
    <3>4. stack' = Append(more, f)
      BY <3>1, <3>2, <3>3
    <3> HIDE DEF f, Q, id, m, reuse
    <3> QED BY <1>7, <1>8, <3>1, <3>2, <3>3, <3>4
  <2>2. CASE ~reuse
    <3>1. sessions' = opened /\ id = m + 1 /\ owns
          /\ stack' = Append(more, Evaluation(s, Len(opened), 0))
      BY <1>1, <2>2, Zenon
    <3>2. m + 1 \in 1..(m + 1) /\ m + 1 \in Nat \ {0} /\ (\A i \in 1..(m + 1) : i \in 1..m \/ i = m + 1)
      BY <1>4
    <3>3. Q[id] = 0
      <4>1. Q[m + 1] = opened[m + 1].publications
        BY <3>1, <3>2 DEF Published
      <4> QED BY <1>9, <3>1, <4>1
    <3>4. stack' = Append(more, f)
      BY <1>9, <3>1, <3>3
    <3> HIDE DEF f, Q, id, m, reuse
    <3> QED BY <1>4, <1>7, <1>9, <3>1, <3>2, <3>3, <3>4
  <2> QED BY <2>1, <2>2
<1>11. Nested(sessions)'
  BY <1>8, <1>10 DEF GraphInv, Nested
<1>12. \A i \in Evaluations(more) : more[i].session \in 1..m
  <2>1. Evaluations(more) = Evaluations(stack) /\ \A i \in Evaluations(stack) : more[i] = stack[i]
    <3>1. /\ DOMAIN more = DOMAIN stack /\ more[Len(stack)] = g
          /\ \A i \in DOMAIN stack : i # Len(stack) => more[i] = stack[i]
      BY <1>1, GraphFacts, ReplaceSeq DEF Stacked, WithTop, more
    <3>2. ~IsEvaluation(stack[Len(stack)])
      BY <1>1, GraphFacts DEF IsEvaluation
    <3> QED BY <1>6, <3>1, <3>2 DEF Evaluations
  <2> QED BY <2>1, SessionsOpen
<1> HIDE DEF f
<1>13. Stands(more, Base, Graph(record), HasRecord(record), graphVersion, Q)
  <2>1. \A i \in Evaluations(more) : Q[more[i].session] = P[more[i].session]
    <3> TAKE i \in Evaluations(more)
    <3>1. more[i].session \in 1..m /\ more[i].session \in Nat
      BY <1>4, <1>12
    <3> QED BY <1>10, <3>1 DEF Published
  <2> HIDE DEF Q
  <2> QED BY <1>7, <2>1, StandsOther DEF Steady
<1>14. /\ f.session = id /\ IsEvaluation(f)
       /\ f.known = None \/ f.known \in Seq(Nodes)
       /\ Starts(View(f), Graph(record), HasRecord(record), graphVersion, Q)
  <2>1. RecordsOK
    BY <1>4 DEF RecordsStand
  <2>2. id \in Nat \ {0} /\ Q[id] \in Nat
    BY <1>10
  <2> HIDE DEF id, Q
  <2>3. f.session = id /\ IsEvaluation(f)
    BY <1>2, <2>1, <2>2, EvaluationOK DEF f, IsEvaluation
  <2>4. /\ f.known = None \/ f.known \in Seq(Nodes)
        /\ Starts(View(f), Graph(record), HasRecord(record), graphVersion, Q)
    BY <1>2, <1>4, <2>1, <2>2, EvaluationStarts DEF f
  <2> QED BY <2>3, <2>4
<1>15. Apart(Append(more, f))
  <2>1. Apart(stack)'
    BY <1>5 DEF IInv, StackOK
  <2> QED BY <1>10, <2>1 DEF Apart
<1> HIDE DEF id
<1>16. Stands(stack', Base, Graph(record), HasRecord(record), graphVersion, Q)
  <2> HIDE DEF Q
  <2>1. f.session = Level(more, Len(more) + 1, Base)
    BY <1>10, <1>14
  <2> QED BY <1>4, <1>7, <1>10, <1>13, <1>14, <1>15, <2>1, StandsEvaluation
<1>17. Graph(record)' = Graph(record) /\ HasRecord(record)' = HasRecord(record)
  BY <1>1 DEF Graph, HasRecord, Deps
<1>18. Steady(stack)'
  BY <1>1, <1>5, <1>16, <1>17 DEF Steady
<1> QED BY <1>1, <1>4, <1>11, <1>18 DEF GraphInv

\* No call is in flight: versions, sessions and the level are of no concern.
LEMMA EmptyFrames ==
  /\ Stacked(<<>>) /\ Len(<<>>) = 0 /\ Len(<<>>) + 1 = 1
  /\ Evaluations(<<>>) = {} /\ DOMAIN Evaluated(<<>>) = {}
<1>1. <<>> \in Seq(Range(<<>>)) /\ DOMAIN <<>> = {}
  BY SeqOfRange
<1>2. Evaluations(<<>>) = {}
  BY <1>1 DEF Evaluations
<1>3. DOMAIN Evaluated(<<>>) = {}
  BY <1>2 DEF Evaluated
<1> QED BY <1>1, <1>2, <1>3 DEF Stacked

LEMMA StandsEmpty ==
  ASSUME NEW base, NEW base2, NEW G, NEW has, NEW gv, NEW P, Stands(<<>>, base, G, has, gv, P),
         NEW gv2 \in Nat, NEW Q
  PROVE  Stands(<<>>, base2, G, has, gv2, Q)
<1>1. DOMAIN <<>> = {}
  BY SeqOfRange
<1>2. Placed(<<>>, base2) /\ Prepared(<<>>, gv2, Q)
  BY <1>1, EmptyFrames DEF Placed, Prepared
<1>3. GraphOK(Evaluated(<<>>), G, has, gv2, Q)
  BY EmptyFrames, EmptyGraph DEF Stands
<1> QED BY <1>2, <1>3 DEF Stands

LEMMA InitGraph == Init => GraphInv
<1> SUFFICES ASSUME Init PROVE GraphInv
  OBVIOUS
<1> DEFINE G == Graph(record)
           P == Published(sessions)
           fl == Evaluated(stack)
<1>1. /\ stack = <<>> /\ sessions = <<>> /\ graphVersion = 0
      /\ record = [s \in Selectors |-> None]
  BY DEF Init
<1>2. DOMAIN <<>> = {} /\ Range(<<>>) = {}
  BY SeqOfRange DEF Range
<1>3. \A s \in Selectors : G[s] = {}
  BY <1>1, <1>2 DEF Graph, Deps
<1>4. DOMAIN fl = {} /\ Evaluations(stack) = {}
  BY <1>1, EmptyFrames
<1>5. Placed(stack, Base) /\ Prepared(stack, graphVersion, P)
  BY <1>1, <1>2, <1>4 DEF Placed, Prepared
<1>6. GraphOK(fl, G, HasRecord(record), graphVersion, P)
  <2> HIDE DEF fl, G, P
  <2>1. FramesOK(fl)
    BY <1>4 DEF FramesOK
  <2>2. VersionsOK(fl, graphVersion, P)
    BY <1>1, <1>4 DEF VersionsOK
  <2>3. KnownOK(fl, G, HasRecord(record), graphVersion, P)
    BY <1>3, <1>4 DEF KnownOK
  <2>4. ProvenOK(fl, G, graphVersion, P)
    BY <1>4 DEF ProvenOK
  <2>5. \A s \in Selectors : Resting(fl, G)[s] = {}
    BY <1>3 DEF Resting
  <2>6. RestingOK(fl, G)
    BY <2>5, NoEdges DEF RestingOK
  <2> QED BY <2>1, <2>2, <2>3, <2>4, <2>6 DEF GraphOK
<1>7. Nested(sessions)
  BY <1>1, <1>2 DEF Nested
<1> QED BY <1>1, <1>5, <1>6, <1>7 DEF GraphInv, Steady, Stands

LEMMA GetSteady ==
  ASSUME IInv, GraphInv, NEW s \in Selectors, Get(s)
  PROVE  GraphInv'
<1> DEFINE Q == Published(sessions)'
           first == [outer |-> 0, publications |-> 0]
           f == Evaluation(s, 1, Q[1])
<1>1. /\ stack = <<>> /\ mode' = "reading" /\ sessions' = <<first>>
      /\ stack' = <<Evaluation(s, 1, 0)>>
      /\ UNCHANGED <<record, graphVersion>>
  BY DEF Get, graphVars, GraphInv
<1>2. first.outer = 0 /\ first.publications = 0
  OBVIOUS
<1> HIDE DEF first
<1>3. DOMAIN sessions' = {1} /\ sessions'[1] = first
  BY <1>1
<1>4. Q[1] = 0
  BY <1>2, <1>3 DEF Published
<1>5. Nested(sessions)'
  BY <1>2, <1>3 DEF Nested
<1> HIDE DEF Q
<1>6. stack' = Append(<<>>, f)
  <2> HIDE DEF f
  <2>1. Append(<<>>, f) = <<f>>
    OBVIOUS
  <2> QED BY <1>1, <1>4, <2>1 DEF f
<1>7. Base' = 1
  BY <1>1 DEF Base
<1>8. RecordsOK /\ graphVersion \in Nat /\ 1 \in Nat \ {0} /\ Q[1] \in Nat
  BY <1>4 DEF IInv, DataOK
<1>9. /\ f.session = 1 /\ IsEvaluation(f)
      /\ f.known = None \/ f.known \in Seq(Nodes)
      /\ Starts(View(f), Graph(record), HasRecord(record), graphVersion, Q)
  <2>1. f.session = 1 /\ IsEvaluation(f)
    BY <1>8, EvaluationOK DEF IsEvaluation
  <2>2. /\ f.known = None \/ f.known \in Seq(Nodes)
        /\ Starts(View(f), Graph(record), HasRecord(record), graphVersion, Q)
    BY <1>8, EvaluationStarts
  <2> QED BY <2>1, <2>2
<1> HIDE DEF f
<1>10. Apart(Append(<<>>, f))
  <2>1. IInv'
    BY GetInductive
  <2>2. Apart(stack)'
    BY <2>1 DEF IInv, StackOK
  <2> QED BY <1>6, <2>2 DEF Apart
<1>11. Stands(<<>>, 1, Graph(record), HasRecord(record), graphVersion, Q)
  BY <1>1, <1>8, StandsEmpty DEF GraphInv, Steady
<1>12. Stands(Append(<<>>, f), 1, Graph(record), HasRecord(record), graphVersion, Q)
  <2>1. f.session = Level(<<>>, Len(<<>>) + 1, 1) /\ 1 \in Nat
    BY <1>9, LevelEmpty, EmptyFrames
  <2>2. \A i \in Evaluations(<<>>) : ~Active((<<>>)[i])
    BY EmptyFrames
  <2> QED BY <1>9, <1>10, <1>11, <2>1, <2>2, EmptyFrames, StandsEvaluation
<1>13. Graph(record)' = Graph(record) /\ HasRecord(record)' = HasRecord(record)
  BY <1>1 DEF Graph, HasRecord, Deps
<1>14. Steady(stack)'
  BY <1>1, <1>6, <1>7, <1>12, <1>13 DEF Steady, Q
<1> QED BY <1>1, <1>5, <1>14 DEF GraphInv

LEMMA CommitSteady ==
  ASSUME IInv, GraphInv, NEW after \in [Atoms -> Values], Commit(after)
  PROVE  GraphInv'
<1>1. /\ stack = <<>> /\ stack' = <<>> /\ mode' = "propagating"
      /\ UNCHANGED <<record, graphVersion, sessions>>
  BY DEF Commit, GraphInv
<1>2. graphVersion \in Nat
  BY DEF IInv, DataOK
<1>3. Stands(<<>>, Base', Graph(record), HasRecord(record), graphVersion, Published(sessions))
  BY <1>1, <1>2, StandsEmpty DEF GraphInv, Steady
<1>4. /\ Graph(record)' = Graph(record) /\ HasRecord(record)' = HasRecord(record)
      /\ Published(sessions)' = Published(sessions)
  BY <1>1 DEF Graph, HasRecord, Deps, Published
<1>5. Steady(stack)'
  BY <1>1, <1>3, <1>4 DEF Steady
<1> QED BY <1>1, <1>5 DEF GraphInv, Nested

LEMMA SettleNextSteady == IInv /\ GraphInv /\ SettleNext => GraphInv'
<1> SUFFICES ASSUME IInv, GraphInv, SettleNext PROVE GraphInv'
  OBVIOUS
<1> DEFINE s == Head(queue)
           f == Settling(s, 0, 0)
<1>1. /\ mode = "propagating" /\ stack = <<>> /\ queue # <<>> /\ stack' = <<f>>
      /\ UNCHANGED <<record, graphVersion, sessions, mode>>
  BY DEF SettleNext
<1>2. s \in Selectors
  BY <1>1 DEF IInv, DataOK
<1>3. f.call = "settle" /\ f.session = 0 /\ f.reader = 0
  BY <1>2, SettlingOK
<1> HIDE DEF f
<1>4. Base = 0
  BY <1>1 DEF Base
<1>5. ~IsEvaluation(f) /\ Situated(f, 0)
  BY <1>3 DEF IsEvaluation, Situated
<1>6. Situated(f, Level(<<>>, Len(<<>>) + 1, Base))
  BY <1>4, <1>5, LevelEmpty, EmptyFrames
<1>7. Stands(<<>>, Base, Graph(record), HasRecord(record), graphVersion, Published(sessions))
  BY <1>1 DEF GraphInv, Steady
<1>8. \A i \in Evaluations(<<>>) : ~Active((<<>>)[i])
  BY EmptyFrames
<1>9. Steady(Append(<<>>, f))
  BY <1>5, <1>6, <1>7, <1>8, EmptyFrames, StandsSettle DEF Steady
<1>10. stack' = Append(<<>>, f)
  BY <1>1
<1>11. Steady(stack')
  BY <1>9, <1>10
<1>12. mode # "idle"
  BY <1>1
<1> QED BY <1>1, <1>11, <1>12, SteadyStep

LEMMA DoneSteady == IInv /\ GraphInv /\ Done => GraphInv'
<1> SUFFICES ASSUME IInv, GraphInv, Done PROVE GraphInv'
  OBVIOUS
<1>1. /\ stack = <<>> /\ stack' = <<>> /\ sessions' = <<>> /\ graphVersion' = 0
      /\ record' = [s \in Selectors |->
                      IF record[s] = None THEN None ELSE [record[s] EXCEPT !.token = 0]]
  BY DEF Done
<1>2. ASSUME NEW s \in Selectors
      PROVE  (record'[s] = None <=> record[s] = None) /\ Deps(record', s) = Deps(record, s)
  <2> DEFINE old == record[s]
             new == [old EXCEPT !.token = 0]
  <2>1. CASE old = None
    BY <1>1, <2>1 DEF Deps
  <2>2. CASE old # None
    <3>1. record'[s] = new
      BY <1>1, <2>2
    <3>2. old \in Records
      BY <2>2 DEF IInv, DataOK, RecordsOK, RecordWF
    <3> HIDE DEF old
    <3>3. new \in Records /\ new.deps = old.deps
      BY <3>2 DEF Records
    <3>4. new # None
      BY <3>3, NoneAssumption
    <3> HIDE DEF new
    <3> QED BY <2>2, <3>1, <3>3, <3>4 DEF Deps, old
  <2> QED BY <2>1, <2>2
<1>3. Graph(record)' = Graph(record) /\ HasRecord(record)' = HasRecord(record)
  <2>1. Graph(record') = Graph(record)
    BY <1>2 DEF Graph
  <2>2. HasRecord(record') = HasRecord(record)
    BY <1>2 DEF HasRecord
  <2> QED BY <2>1, <2>2 DEF Graph, HasRecord, Deps
<1>4. Stands(<<>>, Base', Graph(record), HasRecord(record), 0, Published(sessions)')
  BY <1>1, StandsEmpty DEF GraphInv, Steady
<1>5. Steady(stack)'
  BY <1>1, <1>3, <1>4 DEF Steady
<1>6. Nested(sessions)'
  <2>1. DOMAIN <<>> = {}
    BY SeqOfRange
  <2> QED BY <1>1, <2>1 DEF Nested
<1> QED BY <1>1, <1>5, <1>6 DEF GraphInv

LEMMA StutterGraph == GraphInv /\ UNCHANGED settlementVars => GraphInv'
<1> SUFFICES ASSUME GraphInv, UNCHANGED settlementVars PROVE GraphInv'
  OBVIOUS
<1>1. UNCHANGED <<record, graphVersion, sessions, mode, stack>>
  BY DEF settlementVars, vars, graphVars
<1>2. Base' = Base
  BY <1>1 DEF Base
<1>3. /\ Graph(record)' = Graph(record) /\ HasRecord(record)' = HasRecord(record)
      /\ Published(sessions)' = Published(sessions)
  BY <1>1 DEF Graph, HasRecord, Deps, Published
<1>4. Steady(stack)'
  BY <1>1, <1>2, <1>3 DEF GraphInv, Steady
<1> QED BY <1>1, <1>4 DEF GraphInv, Nested

LEMMA NextGraph == IInv /\ GraphInv /\ [Next]_settlementVars => GraphInv'
<1> SUFFICES ASSUME IInv, GraphInv, [Next]_settlementVars PROVE GraphInv'
  OBVIOUS
<1>1. ASSUME NEW s \in Selectors, Get(s) PROVE GraphInv'
  BY <1>1, GetSteady
<1>2. ASSUME NEW after \in [Atoms -> Values], Commit(after) PROVE GraphInv'
  BY <1>2, CommitSteady
<1>3. CASE SettleNext
  BY <1>3, SettleNextSteady
<1>4. CASE Done
  BY <1>4, DoneSteady
<1>5. CASE ReadActive /\ UNCHANGED history
  BY <1>5, ReadActiveSteady
<1>6. CASE Read(Serving) /\ UNCHANGED history
  BY <1>6, ReadSteady
<1>7. CASE Serve /\ UNCHANGED history
  BY <1>7, ServeSteady
<1>8. CASE Accept /\ UNCHANGED history
  BY <1>8, AcceptSteady
<1>9. CASE Install
  BY <1>9, InstallSteady
<1>10. CASE EnterKnown
  BY <1>10, EnterKnownSteady
<1>11. CASE EnterWalk
  BY <1>11, EnterWalkSteady
<1>12. CASE Walk
  BY <1>12, WalkSteady
<1>13. CASE Evaluate
  BY <1>13, EvaluateSteady
<1>14. CASE LeaveClean
  BY <1>14, LeaveCleanSteady
<1>15. CASE LeaveEvaluated
  BY <1>15, LeaveEvaluatedSteady
<1>16. CASE UNCHANGED settlementVars
  BY <1>16, StutterGraph
<1> QED BY <1>1, <1>2, <1>3, <1>4, <1>5, <1>6, <1>7, <1>8, <1>9, <1>10, <1>11, <1>12, <1>13,
           <1>14, <1>15, <1>16 DEF Next

\* However reads, propagations and evaluations nest, and whichever searches they skip
\* because of what they have proved before, the graph that is recorded when no call is in
\* flight has no cycle.
THEOREM GraphAcyclic == Spec => []RecordedAcyclic
<1>1. Init => IInv /\ GraphInv
  BY InitInvariant, InitGraph
<1>2. IInv /\ GraphInv /\ [Next]_settlementVars => (IInv /\ GraphInv)'
  BY NextInvariant, NextGraph
<1>3. IInv /\ GraphInv => RecordedAcyclic
  <2> SUFFICES ASSUME IInv, GraphInv, stack = <<>>, NEW e \in Edges(record)
               PROVE  e[1] \notin ReachableFrom(Edges(record), e[2])
    BY DEF RecordedAcyclic
  <2>1. ASSUME NEW x \in Selectors, NEW y \in Selectors, <<x, y>> \in Edges(record)
        PROVE  y \in Graph(record)[x]
    <3>1. Contains(Deps(record, x), y)
      BY <2>1 DEF Edges
    <3>2. Deps(record, x) \in Seq(Nodes)
      BY DEF IInv, DataOK, RecordsOK, RecordWF, Records, Deps
    <3>3. y \in Range(Deps(record, x))
      BY <3>1, <3>2, ContainsOK
    <3> QED BY <3>3 DEF Graph
  <2>2. e \in Selectors \X Selectors
    BY DEF Edges
  <2>3. /\ GraphOK(Evaluated(<<>>), Graph(record), HasRecord(record), graphVersion,
                   Published(sessions))
        /\ DOMAIN Evaluated(<<>>) = {}
    BY EmptyFrames DEF GraphInv, Steady, Stands
  <2> QED BY <2>1, <2>2, <2>3, AcyclicGraph
<1> QED BY <1>1, <1>2, <1>3, PTL DEF Spec

=============================================================================
