-------------------------- MODULE GlitchFreeProofs --------------------------
(***************************************************************************)
(* Proofs about what the selectors serve.                                  *)
(*                                                                         *)
(* A getter is a function of the answers it gets, and where none can come  *)
(* to read itself the selectors are ranked along their reads.  There the   *)
(* selectors that are up to date are, at any time, recorded as their       *)
(* getters make them of one another, and an evaluation gets only what      *)
(* those and the atoms answer.  This invariant rests on the one of         *)
(* SettlementProofs, and recomputing gives the same.                       *)
(***************************************************************************)
EXTENDS SettlementProofs

-----------------------------------------------------------------------------
(* What getters return *)

\* What a node answers when it is read.
Answers == Values \cup {Error}

\* One more read of the getter b, the i-th, after it got g, when d answers out[d].
ReadOn(b, out, i, g) ==
  IF Len(g) < i - 1 \/ (i > 1 /\ Last(g) = Error) \/ b.next[g] = None
    THEN g ELSE Append(g, out[b.next[g]])

\* The node the getter b reads after the first i - 1 answers of `got`.
ReadAt(b, got, i) == b.next[SubSeq(got, 1, i - 1)]
ReadNodes(b, got) == {ReadAt(b, got, i) : i \in 1..Len(got)}

\* The answers a getter can have got so far when d answers out[d], and all of them.
Gets(b, out, got) ==
  /\ got \in Seq(Answers) /\ Len(got) <= MaxReads
  /\ \A i \in 1..Len(got) :
       /\ SubSeq(got, 1, i - 1) \in Seq(Values)
       /\ ReadAt(b, got, i) \in Nodes
       /\ got[i] = out[ReadAt(b, got, i)]
Ended(b, got) ==
  got # <<>> /\ (Last(got) = Error \/ Len(got) = MaxReads \/ b.next[got] = None)

\* The answers a getter may have got after i reads, and one read more.
GotBy(i) ==
  {g \in Seq(Answers) : Len(g) <= i /\ SubSeq(g, 1, Len(g) - 1) \in Seq(Values) /\ (i > 0 => g # <<>>)}

\* Few answers without a failure are something a getter decides by.
LEMMA DecisionOK ==
  ASSUME NEW g \in Seq(Values), Len(g) < MaxReads
  PROVE  g \in Decisions
<1>1. Len(g) \in 0..MaxReads - 1 /\ g \in [1..Len(g) -> Values]
  BY MaxReadsAssumption
<1> QED BY <1>1 DEF Decisions, BoundedSeq, SeqOf

LEMMA ReadOnOK ==
  ASSUME NEW b \in Bodies, NEW out \in [Nodes -> Answers],
         NEW i \in 1..MaxReads, NEW g \in GotBy(i - 1)
  PROVE  ReadOn(b, out, i, g) \in GotBy(i)
<1>1. /\ g \in Seq(Answers) /\ Len(g) \in Nat /\ Len(g) <= i - 1
      /\ SubSeq(g, 1, Len(g) - 1) \in Seq(Values) /\ (i - 1 > 0 => g # <<>>)
      /\ i \in Nat \ {0} /\ MaxReads \in Nat /\ i <= MaxReads
  BY MaxReadsAssumption DEF GotBy
<1>2. b.next \in [Decisions -> Nodes \cup {None}] /\ b.next[<<>>] # None
  BY DEF Bodies
<1>3. CASE Len(g) < i - 1 \/ (i > 1 /\ Last(g) = Error) \/ b.next[g] = None
  <2>1. ReadOn(b, out, i, g) = g
    BY <1>3 DEF ReadOn
  <2>2. g # <<>>
    <3>1. CASE i = 1
      <4>1. b.next[g] = None
        BY <1>1, <1>3, <3>1
      <4> QED BY <1>2, <4>1
    <3>2. CASE i # 1
      BY <1>1, <3>2
    <3> QED BY <3>1, <3>2
  <2> QED BY <1>1, <2>1, <2>2 DEF GotBy
<1>4. CASE ~(Len(g) < i - 1 \/ (i > 1 /\ Last(g) = Error) \/ b.next[g] = None)
  <2>1. ReadOn(b, out, i, g) = Append(g, out[b.next[g]])
    BY <1>4 DEF ReadOn
  <2>2. g \in Seq(Values)
    <3>1. \A m \in 1..Len(g) : g[m] \in Values
      <4> SUFFICES ASSUME NEW m \in 1..Len(g) PROVE g[m] \in Values
        OBVIOUS
      <4>1. CASE m = Len(g)
        <5>1. i > 1 /\ Last(g) # Error /\ Last(g) = g[m]
          BY <1>1, <1>4, <4>1 DEF Last
        <5> QED BY <1>1, <5>1 DEF Answers
      <4>2. CASE m # Len(g)
        <5>1. m \in 1..Len(g) - 1 /\ \A n \in 1..Len(g) - 1 : g[n] \in Answers
          BY <1>1, <4>2
        <5>2. Len(SubSeq(g, 1, Len(g) - 1)) = Len(g) - 1 /\ SubSeq(g, 1, Len(g) - 1)[m] = g[m]
          BY <1>1, <5>1
        <5> QED BY <1>1, <5>1, <5>2, ElementOfSeq
      <4> QED BY <4>1, <4>2
    <3> QED BY <1>1, <3>1
  <2>3. g \in Decisions
    BY <1>1, <2>2, DecisionOK
  <2>4. out[b.next[g]] \in Answers
    BY <1>2, <1>4, <2>3
  <2> DEFINE h == Append(g, out[b.next[g]])
  <2>5. h \in Seq(Answers) /\ Len(h) = Len(g) + 1 /\ h # <<>>
    BY <1>1, <2>4
  <2>6. SubSeq(h, 1, Len(h) - 1) = g
    BY <1>1, <2>4
  <2> HIDE DEF h
  <2>7. Len(h) <= i
    BY <1>1, <2>5
  <2>8. h \in GotBy(i)
    BY <2>2, <2>5, <2>6, <2>7 DEF GotBy
  <2> QED BY <2>1, <2>8 DEF h
<1> QED BY <1>3, <1>4

\* A run reads on until the getter ends.
LEMMA RunOfSteps ==
  ASSUME NEW b \in Bodies, NEW out \in [Nodes -> Answers]
  PROVE  \E v : /\ RunOf(b, out) = v[MaxReads]
                /\ v[0] = <<>>
                /\ \A i \in 1..MaxReads : v[i] = ReadOn(b, out, i, v[i - 1])
                /\ \A i \in 0..MaxReads : v[i] \in GotBy(i)
<1> DEFINE n == MaxReads
           T == Seq(Answers)
           S(g, i) == ReadOn(b, out, i, g)
           F == [i \in 1..n |-> [g \in T |-> IF S(g, i) \in T THEN S(g, i) ELSE g]]
<1>1. n \in Nat /\ <<>> \in T
  BY MaxReadsAssumption
<1>2. StepFunction(F, n, T)
  <2> HIDE DEF T, n, S
  <2>1. F \in [1..n -> [T -> T]]
    OBVIOUS
  <2> QED BY <2>1 DEF StepFunction
<1> HIDE DEF T, n, S
<1>3. PICK w : Run(w, F, <<>>, n, T)
  <2> HIDE DEF F
  <2> QED BY <1>1, <1>2, Recursion
<1>4. \A i \in 1..n : w[i] = IF S(w[i - 1], i) \in T THEN S(w[i - 1], i) ELSE w[i - 1]
  <2>1. \A i \in 1..n : i - 1 \in 0..n
    BY <1>1
  <2>2. \A i \in 1..n : w[i - 1] \in T
    BY <1>3, <2>1 DEF Run
  <2> QED BY <1>3, <2>2 DEF Run
<1>5. \A i \in 0..n : w[i] \in GotBy(i)
  <2> DEFINE D == {i \in 0..n : w[i] \in GotBy(i)}
  <2>1. 0 \in D
    <3>1. <<>> \in GotBy(0)
      BY DEF GotBy
    <3> QED BY <1>1, <1>3, <3>1 DEF Run
  <2>2. ASSUME NEW i \in 1..n, i - 1 \in D PROVE i \in D
    <3>1. S(w[i - 1], i) \in GotBy(i)
      BY <2>2, ReadOnOK DEF n, S
    <3>2. GotBy(i) \subseteq T
      BY DEF GotBy, T
    <3>3. i \in 0..n
      BY <1>1
    <3> QED BY <1>4, <3>1, <3>2, <3>3
  <2>3. \A i \in 0..n : i \in D
    <3> HIDE DEF D
    <3> QED BY <1>1, <2>1, <2>2, IntervalInduction
  <2> QED BY <2>3
<1>6. \A i \in 1..n : w[i] = S(w[i - 1], i)
  <2> SUFFICES ASSUME NEW i \in 1..n PROVE w[i] = S(w[i - 1], i)
    OBVIOUS
  <2>1. i - 1 \in 0..n
    BY <1>1
  <2>2. S(w[i - 1], i) \in GotBy(i)
    BY <1>5, <2>1, ReadOnOK DEF n, S
  <2>3. GotBy(i) \subseteq T
    BY DEF GotBy, T
  <2> QED BY <1>4, <2>2, <2>3
<1>7. w = [i \in 0..n |-> IF i = 0 THEN <<>> ELSE S(w[i - 1], i)]
  <2>1. w \in [0..n -> T] /\ w[0] = <<>>
    BY <1>3 DEF Run
  <2>2. \A i \in 0..n : i # 0 => i \in 1..n
    BY <1>1
  <2> QED BY <1>6, <2>1, <2>2
<1> DEFINE Body(v) == [i \in 0..n |-> IF i = 0 THEN <<>>
                         ELSE LET g == v[i - 1] IN
                              IF Len(g) < i - 1 \/ (i > 1 /\ Last(g) = Error) \/ b.next[g] = None
                                THEN g ELSE Append(g, out[b.next[g]])]
<1>8. \A v : Body(v) = [i \in 0..n |-> IF i = 0 THEN <<>> ELSE S(v[i - 1], i)]
  BY DEF S, ReadOn
<1>9. RunOf(b, out) = (CHOOSE v : v = Body(v))[n]
  BY DEF RunOf, n
<1> HIDE DEF Body
<1>10. PICK v : v = Body(v) /\ RunOf(b, out) = v[n]
  BY <1>7, <1>8, <1>9
<1>11. v = [i \in 0..n |-> IF i = 0 THEN <<>> ELSE S(v[i - 1], i)]
  BY <1>8, <1>10
<1>12. v[0] = <<>> /\ \A i \in 1..n : v[i] = S(v[i - 1], i)
  <2> DEFINE c == [i \in 1..n |-> S(v[i - 1], i)]
  <2>1. v = [i \in 0..n |-> IF i = 0 THEN <<>> ELSE c[i]]
    <3>1. \A i \in 0..n : i # 0 => i \in 1..n
      BY <1>1
    <3>2. \A i \in 0..n : i # 0 => c[i] = S(v[i - 1], i)
      BY <3>1
    <3> HIDE DEF c
    <3> QED BY <1>11, <3>2
  <2>2. \A i \in 1..n : c[i] = S(v[i - 1], i)
    OBVIOUS
  <2> HIDE DEF c
  <2>3. v[0] = <<>> /\ \A i \in 1..n : v[i] = c[i]
    BY <1>1, <2>1, Equations
  <2> QED BY <2>2, <2>3
<1>13. \A i \in 0..n : v[i] \in GotBy(i)
  <2> DEFINE D == {i \in 0..n : v[i] \in GotBy(i)}
  <2>1. 0 \in D
    <3>1. <<>> \in GotBy(0)
      BY DEF GotBy
    <3> QED BY <1>1, <1>12, <3>1
  <2>2. ASSUME NEW i \in 1..n, i - 1 \in D PROVE i \in D
    <3>1. S(v[i - 1], i) \in GotBy(i)
      BY <2>2, ReadOnOK DEF n, S
    <3>2. i \in 0..n
      BY <1>1
    <3> QED BY <1>12, <3>1, <3>2
  <2>3. \A i \in 0..n : i \in D
    <3> HIDE DEF D
    <3> QED BY <1>1, <2>1, <2>2, IntervalInduction
  <2> QED BY <2>3
<1> QED BY <1>10, <1>12, <1>13 DEF n, S

\* The run of a getter starts with whatever answers it can have got, and is those
\* after which it ended.
LEMMA RunOfGets ==
  ASSUME NEW b \in Bodies, NEW out \in [Nodes -> Answers], NEW got, Gets(b, out, got)
  PROVE  /\ IsPrefix(got, RunOf(b, out))
         /\ Ended(b, got) => RunOf(b, out) = got
<1> DEFINE n == MaxReads
           l == Len(got)
<1>1. PICK v : /\ RunOf(b, out) = v[n]
               /\ v[0] = <<>>
               /\ \A i \in 1..n : v[i] = ReadOn(b, out, i, v[i - 1])
               /\ \A i \in 0..n : v[i] \in GotBy(i)
  BY RunOfSteps
<1>2. got \in Seq(Answers) /\ l \in 0..n /\ l \in Nat /\ n \in Nat /\ SubSeq(got, 1, l) = got
  BY MaxReadsAssumption DEF Gets
<1>3. \A i \in 0..n : v[i] \in Seq(Answers)
  BY <1>1 DEF GotBy
<1>4. \A i \in 0..l : v[i] = SubSeq(got, 1, i)
  <2> DEFINE D == {i \in 0..l : v[i] = SubSeq(got, 1, i)}
  <2>1. 0 \in D
    <3>1. SubSeq(got, 1, 0) = <<>>
      BY <1>2, SubSeqEmpty
    <3>2. 0 \in 0..l
      BY <1>2
    <3> QED BY <1>1, <3>1, <3>2
  <2>2. ASSUME NEW i \in 1..l, i - 1 \in D PROVE i \in D
    <3> DEFINE g == SubSeq(got, 1, i - 1)
    <3>1. i \in 1..n /\ i \in 0..l /\ i \in Nat /\ v[i - 1] = g
      BY <1>2, <2>2
    <3>2. g \in Seq(Values) /\ b.next[g] \in Nodes /\ got[i] = out[b.next[g]]
      BY DEF Gets, ReadAt
    <3>3. Len(g) = i - 1 /\ Append(g, got[i]) = SubSeq(got, 1, i)
      BY <1>2
    <3> HIDE DEF g
    <3>4. ~(Len(g) < i - 1)
      BY <3>1, <3>3
    <3>5. ~(i > 1 /\ Last(g) = Error)
      <4>1. i > 1 => Last(g) \in Values
        BY <3>1, <3>2, <3>3 DEF Last
      <4> QED BY <4>1, NoneAssumption
    <3>6. b.next[g] # None
      BY <3>2, NoneAssumption
    <3>7. ReadOn(b, out, i, g) = Append(g, got[i])
      BY <3>2, <3>4, <3>5, <3>6 DEF ReadOn
    <3> QED BY <1>1, <3>1, <3>3, <3>7
  <2>3. \A i \in 0..l : i \in D
    <3> HIDE DEF D
    <3> QED BY <1>2, <2>1, <2>2, IntervalInduction
  <2> QED BY <2>3
<1> DEFINE P(g) == IsPrefix(got, g) /\ (Ended(b, got) => g = got)
<1>5. P(got)
  BY <1>2 DEF IsPrefix
<1>6. ASSUME NEW i \in 1..n, i > l, P(v[i - 1]) PROVE P(v[i])
  <2> DEFINE g == v[i - 1]
  <2>0. i - 1 \in 0..n /\ i \in Nat
    BY <1>2
  <2>1. g \in Seq(Answers) /\ v[i] = ReadOn(b, out, i, g)
    BY <1>1, <1>3, <2>0
  <2> HIDE DEF g
  <2>2. P(g)
    BY <1>6 DEF g
  <2>3. CASE v[i] = g
    BY <2>2, <2>3
  <2>4. CASE v[i] # g
    <3>1. /\ v[i] = Append(g, out[b.next[g]])
          /\ ~(Len(g) < i - 1) /\ ~(i > 1 /\ Last(g) = Error) /\ b.next[g] # None
      BY <2>1, <2>4 DEF ReadOn
    <3>2. IsPrefix(got, Append(g, out[b.next[g]]))
      <4> DEFINE x == out[b.next[g]]
      <4>1. Len(got) <= Len(g) /\ SubSeq(got, 1, l) = SubSeq(g, 1, l) /\ Len(g) \in Nat
        BY <2>1, <2>2 DEF IsPrefix
      <4> HIDE DEF x
      <4>2. Len(Append(g, x)) = Len(g) + 1 /\ SubSeq(Append(g, x), 1, l) = SubSeq(g, 1, l)
        BY <1>2, <2>1, <4>1
      <4>3. Len(got) <= Len(Append(g, x))
        BY <1>2, <4>1, <4>2
      <4> QED BY <4>1, <4>2, <4>3 DEF IsPrefix, x
    <3>3. ~Ended(b, got)
      <4> SUFFICES ASSUME Ended(b, got) PROVE FALSE
        OBVIOUS
      <4>1. g = got
        BY <2>2
      <4>2. Last(got) = Error \/ Len(got) = n \/ b.next[got] = None
        BY DEF Ended
      <4>3. Len(got) # n /\ Len(got) \in Nat \ {0} /\ Len(got) >= i - 1
        BY <1>2, <1>6, <2>0, <3>1, <4>1 DEF Ended
      <4>4. i > 1
        BY <1>6, <2>0, <4>3
      <4> QED BY <3>1, <4>1, <4>2, <4>3, <4>4
    <3> QED BY <3>1, <3>2, <3>3
  <2> QED BY <2>3, <2>4
<1>7. P(v[n])
  <2> DEFINE D == {i \in 0..n : i >= l => P(v[i])}
  <2> HIDE DEF P
  <2>1. 0 \in D
    <3>1. l = 0 => v[0] = got
      <4>1. l \in 0..l
        BY <1>2
      <4>2. v[l] = got
        BY <1>2, <1>4, <4>1
      <4> QED BY <4>2
    <3>2. 0 \in 0..n /\ (0 >= l => l = 0)
      BY <1>2
    <3> QED BY <1>5, <3>1, <3>2
  <2>2. ASSUME NEW i \in 1..n, i - 1 \in D PROVE i \in D
    <3>0. i \in 0..n /\ i - 1 \in 0..n
      BY <1>2
    <3>1. CASE i < l
      BY <1>2, <3>0, <3>1
    <3>2. CASE i = l
      <4>1. v[l] = got
        BY <1>2, <1>4
      <4> QED BY <1>5, <3>0, <3>2, <4>1
    <3>3. CASE i > l
      <4>1. i - 1 >= l
        BY <1>2, <3>3
      <4> QED BY <1>6, <2>2, <3>0, <3>3, <4>1
    <3> HIDE DEF l, n, D
    <3> QED BY <1>2, <3>0, <3>1, <3>2, <3>3
  <2>3. \A i \in 0..n : i \in D
    <3> HIDE DEF D
    <3> QED BY <1>2, <2>1, <2>2, IntervalInduction
  <2> HIDE DEF l, n
  <2>4. n \in 0..n /\ n >= l
    BY <1>2
  <2> QED BY <2>3, <2>4
<1> QED BY <1>1, <1>7

\* A run is not empty, and its last answer is a value or a failure.
LEMMA RunOfLast ==
  ASSUME NEW b \in Bodies, NEW out \in [Nodes -> Answers]
  PROVE  Last(RunOf(b, out)) \in Answers
<1>1. PICK v : /\ RunOf(b, out) = v[MaxReads]
               /\ \A i \in 0..MaxReads : v[i] \in GotBy(i)
  BY RunOfSteps
<1>2. MaxReads \in 0..MaxReads /\ MaxReads > 0
  BY MaxReadsAssumption
<1>3. v[MaxReads] \in GotBy(MaxReads)
  BY <1>1, <1>2
<1>4. v[MaxReads] \in Seq(Answers) /\ v[MaxReads] # <<>>
  BY <1>2, <1>3 DEF GotBy
<1> QED BY <1>1, <1>4 DEF Last

\* The outcomes by depth: eval[n] is what getters return by chains of n reads.
Returns(b, out) ==
  LET last == Last(RunOf(b, out)) IN IF last = Error THEN Error ELSE b.gives[last]
Recomputing(v) ==
  /\ v[0] \in [Nodes -> Answers] /\ \A a \in Atoms : v[0][a] = value[a]
  /\ \A n \in 1..Cardinality(Selectors) :
       /\ v[n] \in [Nodes -> Answers]
       /\ \A a \in Atoms : v[n][a] = value[a]
       /\ \A s \in Selectors : v[n][s] = Returns(body[s], v[n - 1])

LEMMA RecomputedSteps ==
  ASSUME body \in Programs, value \in [Atoms -> Values]
  PROVE  \E v : Recomputing(v) /\ Recomputed = v[Cardinality(Selectors)]
<1> DEFINE N == Cardinality(Selectors)
           T == [Nodes -> Answers]
           x == [d \in Nodes |-> IF d \in Atoms THEN value[d] ELSE Error]
           S(w) == [d \in Nodes |-> IF d \in Atoms THEN value[d] ELSE Returns(body[d], w)]
           F == [i \in 1..N |-> [w \in T |-> S(w)]]
<1>1. N \in Nat
  BY NodesAssumption, FS_CardinalityType
<1>2. x \in T
  BY DEF Answers
<1>3. ASSUME NEW w \in T PROVE S(w) \in T
  <2>1. ASSUME NEW s \in Selectors PROVE Returns(body[s], w) \in Answers
    <3>1. body[s] \in Bodies
      BY ProgramsAssumption
    <3>2. Last(RunOf(body[s], w)) \in Answers
      BY <3>1, RunOfLast
    <3>3. body[s].gives \in [Values -> Answers]
      BY <3>1 DEF Bodies, Answers
    <3> QED BY <3>2, <3>3 DEF Returns, Answers
  <2> QED BY <2>1 DEF Nodes, Answers
<1> HIDE DEF T, N
<1>4. StepFunction(F, N, T)
  <2> HIDE DEF S
  <2>1. F \in [1..N -> [T -> T]]
    BY <1>3
  <2> QED BY <2>1 DEF StepFunction
<1> HIDE DEF x, S
<1>5. PICK g : Run(g, F, x, N, T)
  <2> HIDE DEF F
  <2> QED BY <1>1, <1>2, <1>4, Recursion
<1>6. \A i \in 1..N : g[i] = S(g[i - 1])
  <2>1. \A i \in 1..N : i - 1 \in 0..N
    BY <1>1
  <2>2. \A i \in 1..N : g[i - 1] \in T
    BY <1>5, <2>1 DEF Run
  <2> QED BY <1>5, <2>2 DEF Run
<1>7. g = [i \in 0..N |-> IF i = 0 THEN x ELSE S(g[i - 1])]
  <2>1. g \in [0..N -> T] /\ g[0] = x
    BY <1>5 DEF Run
  <2>2. \A i \in 0..N : i # 0 => i \in 1..N
    BY <1>1
  <2> QED BY <1>6, <2>1, <2>2
<1> DEFINE Body(v) ==
      [n \in 0..N |->
        LET shorter == v[n - 1]
            of(s) == IF n = 0 THEN Error ELSE
                     LET last == Last(RunOf(body[s], shorter))
                     IN IF last = Error THEN Error ELSE body[s].gives[last]
        IN [d \in Nodes |-> IF d \in Atoms THEN value[d] ELSE of(d)]]
<1>8. \A v : Body(v) = [n \in 0..N |-> IF n = 0 THEN x ELSE S(v[n - 1])]
  <2> SUFFICES ASSUME NEW v PROVE Body(v) = [n \in 0..N |-> IF n = 0 THEN x ELSE S(v[n - 1])]
    OBVIOUS
  <2> DEFINE B(n) == [d \in Nodes |-> IF d \in Atoms THEN value[d] ELSE
                        IF n = 0 THEN Error ELSE
                        IF Last(RunOf(body[d], v[n - 1])) = Error THEN Error
                        ELSE body[d].gives[Last(RunOf(body[d], v[n - 1]))]]
  <2>1. Body(v) = [n \in 0..N |-> B(n)]
    OBVIOUS
  <2>2. \A n : B(n) = IF n = 0 THEN x ELSE S(v[n - 1])
    <3> SUFFICES ASSUME NEW n PROVE B(n) = IF n = 0 THEN x ELSE S(v[n - 1])
      OBVIOUS
    <3>1. CASE n = 0
      BY <3>1 DEF x
    <3>2. CASE n # 0
      BY <3>2 DEF S, Returns
    <3> QED BY <3>1, <3>2
  <2> HIDE DEF Body, B
  <2> QED BY <2>1, <2>2
<1>9. Recomputed = (CHOOSE v : v = Body(v))[N]
  BY DEF Recomputed, N
<1> HIDE DEF Body
<1>10. PICK v : v = Body(v) /\ Recomputed = v[N]
  BY <1>7, <1>8, <1>9
<1>11. v = [n \in 0..N |-> IF n = 0 THEN x ELSE S(v[n - 1])]
  BY <1>8, <1>10
<1>12. v[0] = x /\ \A n \in 1..N : v[n] = S(v[n - 1])
  <2> DEFINE c == [n \in 1..N |-> S(v[n - 1])]
  <2>1. v = [n \in 0..N |-> IF n = 0 THEN x ELSE c[n]]
    <3>1. \A n \in 0..N : n # 0 => n \in 1..N
      BY <1>1
    <3>2. \A n \in 0..N : n # 0 => c[n] = S(v[n - 1])
      BY <3>1
    <3> HIDE DEF c
    <3> QED BY <1>11, <3>2
  <2>2. \A n \in 1..N : c[n] = S(v[n - 1])
    OBVIOUS
  <2> HIDE DEF c
  <2>3. v[0] = x /\ \A n \in 1..N : v[n] = c[n]
    BY <1>1, <2>1, Equations
  <2> QED BY <2>2, <2>3
<1>13. \A n \in 0..N : v[n] \in T
  <2>1. v[0] \in T
    BY <1>2, <1>12
  <2>2. \A n \in 1..N : v[n - 1] \in T => v[n] \in T
    BY <1>3, <1>12
  <2> QED BY <1>1, <2>1, <2>2, Stays
<1>14. Recomputing(v)
  <2>1. v[0] \in [Nodes -> Answers] /\ \A a \in Atoms : v[0][a] = value[a]
    <3>1. v[0] \in T
      BY <1>2, <1>12
    <3> QED BY <1>12, <3>1 DEF x, T, Nodes
  <2>2. ASSUME NEW n \in 1..N
        PROVE  /\ v[n] \in [Nodes -> Answers]
               /\ \A a \in Atoms : v[n][a] = value[a]
               /\ \A s \in Selectors : v[n][s] = Returns(body[s], v[n - 1])
    <3>1. v[n] \in T
      <4>1. n \in 0..N
        BY <1>1
      <4> QED BY <1>13, <4>1
    <3>2. v[n] = S(v[n - 1])
      BY <1>12
    <3> DEFINE w == v[n - 1]
    <3> HIDE DEF w
    <3>3. \A a \in Atoms : S(w)[a] = value[a]
      BY DEF S, Nodes
    <3>4. \A s \in Selectors : S(w)[s] = Returns(body[s], w)
      BY NodesAssumption DEF S, Nodes
    <3> QED BY <3>1, <3>2, <3>3, <3>4 DEF T, w
  <2> QED BY <2>1, <2>2 DEF Recomputing, N
<1> QED BY <1>10, <1>14 DEF N

\* The same answers are got when the nodes read answer the same.
LEMMA GetsSame ==
  ASSUME NEW b, NEW out, NEW other, NEW got, Gets(b, out, got),
         \A d \in ReadNodes(b, got) : other[d] = out[d]
  PROVE  Gets(b, other, got)
<1>1. ASSUME NEW i \in 1..Len(got)
      PROVE  got[i] = other[ReadAt(b, got, i)]
  <2>1. ReadAt(b, got, i) \in ReadNodes(b, got)
    BY DEF ReadNodes
  <2> QED BY <2>1 DEF Gets
<1> QED BY <1>1 DEF Gets

\* What is reachable from what is reachable is reachable.
LEMMA ReachableOnwards ==
  ASSUME NEW edges, NEW a \in Selectors, NEW b \in Selectors, b \in ReachableFrom(edges, a)
  PROVE  ReachableFrom(edges, b) \subseteq ReachableFrom(edges, a)
<1>1. \A x \in ReachableFrom(edges, a), y \in Selectors :
        <<x, y>> \in edges => y \in ReachableFrom(edges, a)
  BY ReachableClosed
<1> DEFINE S == ReachableFrom(edges, a)
<1> HIDE DEF S
<1> QED BY <1>1, ReachableLeast DEF S

LEMMA ReachableSelectors ==
  ASSUME NEW edges, NEW a \in Selectors
  PROVE  ReachableFrom(edges, a) \subseteq Selectors
BY ReachableLeast

\* How many selectors the getter of s, and those it may read, may come to read.
Rank(s) == Cardinality(ReachableFrom(MayRead, s))

LEMMA RankLess ==
  ASSUME CannotCycle, NEW e \in MayRead
  PROVE  /\ e[1] \in Selectors /\ e[2] \in Selectors
         /\ Rank(e[1]) \in Nat /\ Rank(e[2]) \in Nat /\ Rank(e[2]) < Rank(e[1])
<1> DEFINE A == ReachableFrom(MayRead, e[1])
           B == ReachableFrom(MayRead, e[2])
<1>1. e[1] \in Selectors /\ e[2] \in Selectors /\ e = <<e[1], e[2]>>
  BY DEF MayRead
<1>2. e[1] \in A /\ e[2] \in A
  BY <1>1, ReachableClosed
<1>3. B \subseteq A /\ e[1] \notin B
  BY <1>1, <1>2, ReachableOnwards DEF CannotCycle
<1>4. A \subseteq Selectors
  BY <1>1, ReachableSelectors
<1>5. IsFiniteSet(A)
  BY <1>4, NodesAssumption, FS_Subset
<1> HIDE DEF A, B
<1>6. Cardinality(B) \in Nat /\ Cardinality(A) \in Nat /\ Cardinality(B) < Cardinality(A)
  <2>1. IsFiniteSet(B)
    BY <1>3, <1>5, FS_Subset
  <2>2. Cardinality(B) <= Cardinality(A) /\ (Cardinality(B) = Cardinality(A) => B = A)
    BY <1>3, <1>5, FS_Subset
  <2> QED BY <1>2, <1>3, <1>5, <2>1, <2>2, FS_CardinalityType
<1> QED BY <1>1, <1>6 DEF Rank, A, B

LEMMA RankBound ==
  ASSUME NEW s \in Selectors
  PROVE  Rank(s) \in 1..Cardinality(Selectors)
<1> DEFINE A == ReachableFrom(MayRead, s)
<1>1. s \in A /\ A \subseteq Selectors
  BY ReachableClosed, ReachableSelectors
<1> HIDE DEF A
<1>2. IsFiniteSet(A) /\ Cardinality(A) <= Cardinality(Selectors)
  BY <1>1, NodesAssumption, FS_Subset
<1>3. Cardinality(A) \in Nat /\ Cardinality(Selectors) \in Nat /\ Cardinality(A) # 0
  BY <1>1, <1>2, NodesAssumption, FS_CardinalityType, FS_EmptySet
<1> QED BY <1>2, <1>3 DEF Rank, A

\* What every node answers from its record.
Serves(val, recs) ==
  [d \in Nodes |-> IF d \in Atoms THEN val[d] ELSE IF recs[d] = None THEN None ELSE recs[d].out]

\* The record is what the getter makes of what it read, when d answers out[d].
Result(b, got) == IF Last(got) = Error THEN Error ELSE b.gives[Last(got)]
Explained(b, out, rec) ==
  \E got : /\ Gets(b, out, got) /\ Ended(b, got)
           /\ Range(rec.deps) = ReadNodes(b, got)
           /\ rec.out = Result(b, got)

\* Records that can be explained by one another are what recomputing them gives.
LEMMA ExplainedRecomputed ==
  ASSUME body \in Programs, value \in [Atoms -> Values], CannotCycle,
         NEW C \in SUBSET Selectors,
         \A x \in C :
           /\ record[x] # None
           /\ Explained(body[x], Serves(value, record), record[x])
           /\ \A d \in Range(record[x].deps) \cap Selectors : d \in C /\ <<x, d>> \in MayRead
  PROVE  \A x \in C : record[x].out = Recomputed[x]
<1> DEFINE N == Cardinality(Selectors)
           out == Serves(value, record)
<1>1. N \in Nat
  BY NodesAssumption, FS_CardinalityType
<1>2. PICK v : Recomputing(v) /\ Recomputed = v[N]
  BY RecomputedSteps
<1> DEFINE D == {n \in 0..N : \A x \in C : Rank(x) <= n => v[n][x] = record[x].out}
<1>3. 0 \in D
  <2>1. \A x \in C : ~(Rank(x) <= 0)
    BY RankBound
  <2>2. 0 \in 0..N
    BY <1>1
  <2> HIDE DEF N
  <2> QED BY <2>1, <2>2
<1>4. ASSUME NEW n \in 1..N, n - 1 \in D PROVE n \in D
  <2>0. n \in 0..N /\ n - 1 \in 0..N /\ n \in Nat
    BY <1>1
  <2>1. ASSUME NEW x \in C, Rank(x) <= n PROVE v[n][x] = record[x].out
    <3> DEFINE b == body[x]
               w == v[n - 1]
    <3>1. b \in Bodies
      BY ProgramsAssumption
    <3>2. w \in [Nodes -> Answers] /\ \A a \in Atoms : w[a] = value[a]
      <4>1. CASE n = 1
        BY <1>2, <4>1 DEF Recomputing
      <4>2. CASE n # 1
        <5>1. n - 1 \in 1..N
          BY <2>0, <4>2
        <5> QED BY <1>2, <5>1 DEF Recomputing, N
      <4> QED BY <4>1, <4>2
    <3>3. PICK got : /\ Gets(b, out, got) /\ Ended(b, got)
                     /\ Range(record[x].deps) = ReadNodes(b, got)
                     /\ record[x].out = Result(b, got)
      BY DEF Explained
    <3>4. ASSUME NEW d \in ReadNodes(b, got) PROVE w[d] = out[d]
      <4>1. d \in Nodes
        <5>1. PICK i \in 1..Len(got) : d = ReadAt(b, got, i)
          BY DEF ReadNodes
        <5> QED BY <3>3, <5>1 DEF Gets
      <4>2. CASE d \in Atoms
        BY <3>2, <4>1, <4>2 DEF Serves
      <4>3. CASE d \in Selectors
        <5>1. d \in C /\ <<x, d>> \in MayRead
          BY <3>3, <4>3
        <5>2. Rank(d) < Rank(x) /\ Rank(d) \in Nat /\ Rank(x) \in Nat
          <6> DEFINE e == <<x, d>>
          <6>1. e \in MayRead /\ e[1] = x /\ e[2] = d
            BY <5>1
          <6> HIDE DEF e
          <6> QED BY <6>1, RankLess
        <5>3. Rank(d) <= n - 1
          BY <2>0, <2>1, <5>2
        <5>4. w[d] = record[d].out
          BY <1>4, <5>1, <5>3
        <5>5. out[d] = record[d].out
          <6>1. d \notin Atoms /\ record[d] # None
            BY <4>3, <5>1, NodesAssumption
          <6> QED BY <4>1, <6>1 DEF Serves
        <5> QED BY <5>4, <5>5
      <4> QED BY <4>1, <4>2, <4>3 DEF Nodes
    <3>5. Gets(b, w, got)
      <4> HIDE DEF b, w, out
      <4> QED BY <3>3, <3>4, GetsSame
    <3>6. RunOf(b, w) = got
      <4> HIDE DEF b, w
      <4> QED BY <3>1, <3>2, <3>3, <3>5, RunOfGets
    <3>7. v[n][x] = Returns(b, w)
      BY <1>2 DEF Recomputing, N
    <3> HIDE DEF b, w
    <3> QED BY <3>3, <3>6, <3>7 DEF Returns, Result
  <2> QED BY <2>0, <2>1
<1>5. \A n \in 0..N : n \in D
  <2> HIDE DEF D, N
  <2> QED BY <1>1, <1>3, <1>4, IntervalInduction
<1>6. N \in D
  <2> HIDE DEF D, N
  <2> QED BY <1>1, <1>5
<1>7. ASSUME NEW x \in C PROVE Rank(x) <= N
  BY RankBound, <1>1
<1> HIDE DEF N
<1> QED BY <1>2, <1>6, <1>7

\* What was got from such records and from atoms is the start of the run.
LEMMA GotRecomputed ==
  ASSUME body \in Programs, value \in [Atoms -> Values],
         NEW s \in Selectors, NEW got, Gets(body[s], Serves(value, record), got),
         \A d \in ReadNodes(body[s], got) \cap Selectors :
            record[d] # None /\ record[d].out = Recomputed[d]
  PROVE  IsPrefix(got, RunOf(body[s], Recomputed))
<1> DEFINE N == Cardinality(Selectors)
           out == Serves(value, record)
           b == body[s]
           w == Recomputed
<1>1. N \in Nat
  BY NodesAssumption, FS_CardinalityType
<1>2. PICK v : Recomputing(v) /\ w = v[N]
  BY RecomputedSteps
<1>3. w \in [Nodes -> Answers] /\ \A a \in Atoms : w[a] = value[a]
  <2>1. N = 0 \/ N \in 1..N
    BY <1>1
  <2> QED BY <1>2, <2>1 DEF Recomputing, N
<1>4. b \in Bodies
  BY ProgramsAssumption
<1>5. ASSUME NEW d \in ReadNodes(b, got) PROVE w[d] = out[d]
  <2>1. d \in Nodes
    <3>1. PICK i \in 1..Len(got) : d = ReadAt(b, got, i)
      BY DEF ReadNodes
    <3> QED BY <3>1 DEF Gets
  <2>2. CASE d \in Atoms
    BY <1>3, <2>1, <2>2 DEF Serves
  <2>3. CASE d \in Selectors
    BY <2>1, <2>3, NodesAssumption DEF Serves
  <2> QED BY <2>1, <2>2, <2>3 DEF Nodes
<1> HIDE DEF b, w, out
<1>6. Gets(b, w, got)
  <2>1. Gets(b, out, got)
    BY DEF b, out
  <2> QED BY <1>5, <2>1, GetsSame
<1>7. IsPrefix(got, RunOf(b, w))
  BY <1>3, <1>4, <1>6, RunOfGets
<1> QED BY <1>7 DEF b, w

-----------------------------------------------------------------------------
(* Settlement where no getter can come to read itself *)

\* The selectors that are up to date: in a propagation those that were evaluated
\* in it or found to be settled, else all that have a record.
Current ==
  {s \in Selectors : record[s] # None /\ (mode # "propagating" \/ evaluations[s] > 0 \/ "settled" \in status[s])}

\* What an evaluation knows of the outcome its selector has.
BaselineOf(rec) ==
  IF rec = None \/ rec.success = None THEN None
  ELSE [value |-> rec.success, token |-> IF rec.out = Error THEN None ELSE rec.token]

\* An evaluation has got what the nodes answer now, from selectors that are up to date
\* as its own is not, and knows of no cycle.
EvaluationCalm(f, cur, out) ==
  /\ Gets(body[f.selector], out, f.reads)
  /\ Range(f.deps) = ReadNodes(body[f.selector], f.reads)
  /\ Range(f.deps) \cap Selectors \subseteq cur
  /\ f.selector \notin cur
  /\ f.cycle = None /\ f.provisional = 0
  /\ f.at \in {"serving", "served"} => f.pending = body[f.selector].next[f.reads]
  /\ f.at = "failed" => f.reads # <<>> /\ Last(f.reads) = Error

\* A settle has found nothing unsettled, and was not reentered.
SettleCalm(f, recs, sts) ==
  /\ recs[f.selector] # None
  /\ f.provisional = 0 /\ f.currentness = "settled"
  /\ f.at = "entered" => f.entered = sts[f.selector]
  /\ f.at # "entered" => {"walking", "settling"} \cap f.entered = {}

FrameCalm(f, cur, out, recs, sts) ==
  /\ IsEvaluation(f) => EvaluationCalm(f, cur, out) /\ f.baseline = BaselineOf(recs[f.selector])
  /\ f.call = "settle" => SettleCalm(f, recs, sts)

\* What a frame waits for when the next is g.
LinkCalm(f, g, G) ==
  \/ IsEvaluation(f) /\ f.at = "serving" /\ g.call = "settle" /\ g.selector = f.pending
  \/ IsEvaluation(f) /\ f.at = "served" /\ IsEvaluation(g) /\ g.selector = f.pending
  \/ f.call = "settle" /\ f.at = "walking" /\ g.call = "settle" /\ g.selector \in G[f.selector]
  \/ f.call = "settle" /\ f.at = "evaluated" /\ IsEvaluation(g) /\ g.selector = f.selector

\* A walk has settled its dependencies but for those to do and perhaps one more.
WalkCalm(f, more, cur, G) ==
  f.call = "settle" /\ f.at = "walking" =>
    G[f.selector] \subseteq cur \cup Range(f.todo) \cup more /\ Range(f.todo) \subseteq G[f.selector]

\* The last frame: what it waited for is up to date.
TopCalm(f, cur, recs) ==
  /\ WalkCalm(f, {}, cur, Graph(recs))
  /\ IsEvaluation(f) /\ f.at = "serving" => recs[f.pending] = None \/ f.pending \in cur
  /\ IsEvaluation(f) /\ f.at = "served" => f.pending \in cur \cup Atoms
  /\ f.call = "settle" /\ f.at = "evaluated" => f.selector \in cur

\* Each frame works for a selector that those below may come to read; twice only
\* when it is settled and evaluated.
Descends(stk) ==
  \A i, j \in DOMAIN stk : i < j =>
    /\ stk[j].selector \in ReachableFrom(MayRead, stk[i].selector)
    /\ stk[i].selector = stk[j].selector =>
         j = i + 1 /\ stk[i].call = "settle" /\ stk[i].at = "evaluated"

\* A selector that has a record is evaluated only to settle it.
Resettles(stk, recs) ==
  \A i \in DOMAIN stk : IsEvaluation(stk[i]) /\ recs[stk[i].selector] # None =>
    i > 1 /\ stk[i - 1].selector = stk[i].selector

StackCalm(stk, cur, out, recs, sts) ==
  /\ \A i \in DOMAIN stk : FrameCalm(stk[i], cur, out, recs, sts)
  /\ \A i \in DOMAIN stk : i + 1 \in DOMAIN stk =>
       /\ LinkCalm(stk[i], stk[i + 1], Graph(recs))
       /\ WalkCalm(stk[i], {stk[i + 1].selector}, cur, Graph(recs))
  /\ Descends(stk)
  /\ Resettles(stk, recs)

\* What is marked as being walked or settled is.
InProgress(stk, sts) ==
  \A s \in Selectors : {"walking", "settling"} \cap sts[s] # {} =>
    \E i \in DOMAIN stk : stk[i].call = "settle" /\ stk[i].at # "entered" /\ stk[i].selector = s

Calls(stk) == {stk[i].selector : i \in DOMAIN stk}

-----------------------------------------------------------------------------
\* An edge of MayRead leads nowhere back.
LEMMA NoWayBack ==
  ASSUME CannotCycle, NEW s, NEW d, <<s, d>> \in MayRead
  PROVE  s \in Selectors /\ d \in Selectors /\ s # d /\ s \notin ReachableFrom(MayRead, d)
         /\ d \in ReachableFrom(MayRead, s)
<1> DEFINE e == <<s, d>>
<1>1. e \in MayRead /\ e[1] = s /\ e[2] = d
  OBVIOUS
<1>2. e[1] \in Selectors /\ e[2] \in Selectors /\ e[1] \notin ReachableFrom(MayRead, e[2])
  BY <1>1 DEF MayRead, CannotCycle
<1> HIDE DEF e
<1>3. s \in Selectors /\ d \in Selectors /\ s \notin ReachableFrom(MayRead, d)
  BY <1>1, <1>2
<1>4. s \in ReachableFrom(MayRead, s) /\ d \in ReachableFrom(MayRead, d)
  BY <1>3, ReachableClosed
<1>5. d \in ReachableFrom(MayRead, s)
  BY <1>3, <1>4, ReachableClosed
<1> QED BY <1>3, <1>4, <1>5

LEMMA MoreEdges ==
  ASSUME NEW edges, NEW more, edges \subseteq more, NEW a \in Selectors
  PROVE  ReachableFrom(edges, a) \subseteq ReachableFrom(more, a)
<1> DEFINE S == ReachableFrom(more, a)
<1>1. a \in S /\ \A x \in S, y \in Selectors : <<x, y>> \in more => y \in S
  BY ReachableClosed
<1> HIDE DEF S
<1>2. \A x \in S, y \in Selectors : <<x, y>> \in edges => y \in S
  BY <1>1
<1> QED BY <1>1, <1>2, ReachableLeast DEF S

\* The last frame moves on.
LEMMA CalmTop ==
  ASSUME NEW stk, Stacked(stk), stk # <<>>, NEW cur, NEW out, NEW recs, NEW sts,
         StackCalm(stk, cur, out, recs, sts),
         NEW g, g.call = Last(stk).call, g.selector = Last(stk).selector,
         FrameCalm(g, cur, out, recs, sts)
  PROVE  StackCalm([stk EXCEPT ![Len(stk)] = g], cur, out, recs, sts)
<1> DEFINE n == Len(stk)
           more == [stk EXCEPT ![n] = g]
<1>1. /\ n \in Nat \ {0} /\ Len(more) = n
      /\ DOMAIN stk = 1..n /\ DOMAIN more = 1..n
      /\ \A i \in 1..n : i # n => more[i] = stk[i]
      /\ more[n] = g /\ stk[n] = Last(stk)
  BY ReplaceSeq DEF Stacked, Last
<1> HIDE DEF more, n
<1>2. \A i \in 1..n : more[i].selector = stk[i].selector /\ more[i].call = stk[i].call
                      /\ (IsEvaluation(more[i]) <=> IsEvaluation(stk[i]))
  BY <1>1 DEF IsEvaluation
<1>3. \A i \in 1..n : FrameCalm(more[i], cur, out, recs, sts)
  BY <1>1 DEF StackCalm
<1>4. ASSUME NEW i \in 1..n, i + 1 \in 1..n
      PROVE  /\ LinkCalm(more[i], more[i + 1], Graph(recs))
             /\ WalkCalm(more[i], {more[i + 1].selector}, cur, Graph(recs))
  <2>1. more[i] = stk[i]
    BY <1>1, <1>4
  <2>2. LinkCalm(stk[i], stk[i + 1], Graph(recs)) /\ WalkCalm(stk[i], {stk[i + 1].selector}, cur, Graph(recs))
    BY <1>1, <1>4 DEF StackCalm
  <2>3. more[i + 1].selector = stk[i + 1].selector /\ more[i + 1].call = stk[i + 1].call
        /\ (IsEvaluation(more[i + 1]) <=> IsEvaluation(stk[i + 1]))
    BY <1>2, <1>4
  <2> QED BY <2>1, <2>2, <2>3 DEF LinkCalm
<1>5. Descends(more)
  <2> SUFFICES ASSUME NEW i \in 1..n, NEW j \in 1..n, i < j
               PROVE  /\ more[j].selector \in ReachableFrom(MayRead, more[i].selector)
                      /\ more[i].selector = more[j].selector =>
                           j = i + 1 /\ more[i].call = "settle" /\ more[i].at = "evaluated"
    BY <1>1 DEF Descends
  <2>1. more[i] = stk[i] /\ more[j].selector = stk[j].selector
    <3>1. i # n
      BY <1>1
    <3> QED BY <1>1, <1>2, <3>1
  <2>2. Descends(stk)
    BY DEF StackCalm
  <2> QED BY <1>1, <2>1, <2>2 DEF Descends
<1>6. Resettles(more, recs)
  <2> SUFFICES ASSUME NEW i \in 1..n, IsEvaluation(more[i]), recs[more[i].selector] # None
               PROVE  i > 1 /\ more[i - 1].selector = more[i].selector
    BY <1>1 DEF Resettles
  <2>1. i > 1 /\ stk[i - 1].selector = stk[i].selector
    BY <1>1, <1>2 DEF StackCalm, Resettles
  <2>2. i - 1 \in 1..n
    BY <1>1, <2>1
  <2> QED BY <1>2, <2>1, <2>2
<1>7. StackCalm(more, cur, out, recs, sts)
  BY <1>1, <1>3, <1>4, <1>5, <1>6 DEF StackCalm
<1> QED BY <1>7 DEF more, n

\* A frame is pushed for what the last one waits for.
LEMMA CalmPush ==
  ASSUME CannotCycle, NEW stk, Stacked(stk), stk # <<>>, NEW cur, NEW out, NEW recs, NEW sts,
         StackCalm(stk, cur, out, recs, sts),
         NEW h, FrameCalm(h, cur, out, recs, sts),
         LinkCalm(Last(stk), h, Graph(recs)),
         WalkCalm(Last(stk), {h.selector}, cur, Graph(recs)),
         \/ <<Last(stk).selector, h.selector>> \in MayRead
         \/ /\ Last(stk).call = "settle" /\ Last(stk).at = "evaluated"
            /\ h.selector = Last(stk).selector,
         IsEvaluation(h) => recs[h.selector] = None \/ h.selector = Last(stk).selector
  PROVE  StackCalm(Append(stk, h), cur, out, recs, sts)
<1> DEFINE n == Len(stk)
           more == Append(stk, h)
           f == Last(stk)
<1>1. /\ n \in Nat \ {0} /\ Len(more) = n + 1
      /\ DOMAIN stk = 1..n /\ DOMAIN more = 1..(n + 1)
      /\ \A i \in 1..n : more[i] = stk[i]
      /\ more[n + 1] = h /\ stk[n] = f
  <2>1. /\ n \in Nat /\ Len(more) = n + 1
        /\ DOMAIN stk = 1..n /\ DOMAIN more = 1..(n + 1)
        /\ \A i \in 1..n : more[i] = stk[i]
        /\ more[n + 1] = h
    BY PushSeq DEF Stacked
  <2>2. n # 0
    BY DEF Stacked
  <2> QED BY <2>1, <2>2 DEF Last
<1>2. Descends(stk) /\ Resettles(stk, recs)
  BY DEF StackCalm
<1>3. \A i \in 1..n : stk[i].selector \in Selectors
  BY <1>1 DEF Stacked, FrameWF, EvaluationWF, SettleWF
<1>3a. f.selector \in Selectors /\ n \in 1..n
  BY <1>1, <1>3
<1> HIDE DEF more, n, f
<1>4. \A i \in 1..n + 1 : FrameCalm(more[i], cur, out, recs, sts)
  <2> TAKE i \in 1..n + 1
  <2>1. CASE i = n + 1
    BY <1>1, <2>1
  <2>2. CASE i # n + 1
    <3>1. i \in 1..n
      BY <1>1, <2>2
    <3> QED BY <1>1, <3>1 DEF StackCalm
  <2> QED BY <2>1, <2>2
<1>5. ASSUME NEW i \in 1..n + 1, i + 1 \in 1..n + 1
      PROVE  /\ LinkCalm(more[i], more[i + 1], Graph(recs))
             /\ WalkCalm(more[i], {more[i + 1].selector}, cur, Graph(recs))
  <2>1. i \in 1..n
    BY <1>1, <1>5
  <2>2. CASE i = n
    BY <1>1, <2>1, <2>2 DEF f
  <2>3. CASE i # n
    <3>1. i + 1 \in 1..n
      BY <1>1, <2>1, <2>3
    <3>2. more[i] = stk[i] /\ more[i + 1] = stk[i + 1]
      BY <1>1, <2>1, <3>1
    <3> QED BY <1>1, <2>1, <3>1, <3>2 DEF StackCalm
  <2> QED BY <2>2, <2>3
<1>6. ASSUME NEW i \in 1..n
      PROVE  /\ h.selector \in ReachableFrom(MayRead, stk[i].selector)
             /\ stk[i].selector = h.selector =>
                  i = n /\ f.call = "settle" /\ f.at = "evaluated"
  <2>1. f.selector \in ReachableFrom(MayRead, stk[i].selector)
    <3>1. CASE i = n
      BY <1>1, <1>3a, <3>1, ReachableClosed
    <3>2. CASE i # n
      <4>1. i < n
        BY <1>1, <3>2
      <4> QED BY <1>1, <1>2, <1>3a, <4>1 DEF Descends
    <3> QED BY <3>1, <3>2
  <2>2. CASE <<f.selector, h.selector>> \in MayRead
    <3>1. /\ h.selector \in Selectors /\ f.selector # h.selector
          /\ f.selector \notin ReachableFrom(MayRead, h.selector)
      BY <2>2, NoWayBack
    <3>2. h.selector \in ReachableFrom(MayRead, stk[i].selector)
      BY <1>3, <2>1, <2>2, <3>1, ReachableClosed
    <3>3. stk[i].selector # h.selector
      BY <2>1, <3>1
    <3> QED BY <3>2, <3>3
  <2>3. CASE f.call = "settle" /\ f.at = "evaluated" /\ h.selector = f.selector
    <3>1. ASSUME i # n, stk[i].selector = f.selector PROVE FALSE
      <4>1. i < n
        BY <1>1, <3>1
      <4>2. n = i + 1 /\ stk[i].call = "settle" /\ stk[i].at = "evaluated"
        BY <1>1, <1>2, <1>3a, <3>1, <4>1 DEF Descends
      <4>3. LinkCalm(stk[i], f, Graph(recs))
        BY <1>1, <1>3a, <4>2 DEF StackCalm
      <4> QED BY <2>3, <4>2, <4>3 DEF LinkCalm, IsEvaluation
    <3> QED BY <2>1, <2>3, <3>1
  <2> QED BY <2>2, <2>3 DEF f
<1>7. Descends(more)
  <2> SUFFICES ASSUME NEW i \in 1..n + 1, NEW j \in 1..n + 1, i < j
               PROVE  /\ more[j].selector \in ReachableFrom(MayRead, more[i].selector)
                      /\ more[i].selector = more[j].selector =>
                           j = i + 1 /\ more[i].call = "settle" /\ more[i].at = "evaluated"
    BY <1>1 DEF Descends
  <2>1. i \in 1..n /\ more[i] = stk[i]
    BY <1>1
  <2>2. CASE j = n + 1
    BY <1>1, <1>6, <2>1, <2>2
  <2>3. CASE j # n + 1
    <3>1. j \in 1..n /\ more[j] = stk[j]
      BY <1>1, <2>3
    <3> QED BY <1>1, <1>2, <2>1, <3>1 DEF Descends
  <2> QED BY <2>2, <2>3
<1>8. Resettles(more, recs)
  <2> SUFFICES ASSUME NEW i \in 1..n + 1, IsEvaluation(more[i]), recs[more[i].selector] # None
               PROVE  i > 1 /\ more[i - 1].selector = more[i].selector
    BY <1>1 DEF Resettles
  <2>1. CASE i = n + 1
    <3>1. i - 1 = n /\ more[n] = f /\ more[i] = h /\ i > 1
      BY <1>1, <1>3a, <2>1
    <3> QED BY <3>1 DEF f
  <2>2. CASE i # n + 1
    <3>1. i \in 1..n /\ more[i] = stk[i]
      BY <1>1, <2>2
    <3>2. i > 1 /\ stk[i - 1].selector = stk[i].selector
      BY <1>1, <1>2, <3>1 DEF Resettles
    <3>3. i - 1 \in 1..n
      BY <1>1, <3>1, <3>2
    <3> QED BY <1>1, <3>1, <3>2, <3>3
  <2> QED BY <2>1, <2>2
<1>9. StackCalm(more, cur, out, recs, sts)
  BY <1>1, <1>4, <1>5, <1>7, <1>8 DEF StackCalm
<1> QED BY <1>9 DEF more

\* The last frame returns: what is left, and what the frame below waits for.
LEMMA CalmPop ==
  ASSUME NEW stk, Stacked(stk), stk # <<>>, NEW cur, NEW out, NEW recs, NEW sts,
         StackCalm(stk, cur, out, recs, sts)
  PROVE  LET rest == Front(stk) IN
         /\ StackCalm(rest, cur, out, recs, sts)
         /\ rest # <<>> =>
              /\ LinkCalm(Last(rest), Last(stk), Graph(recs))
              /\ WalkCalm(Last(rest), {Last(stk).selector}, cur, Graph(recs))
         /\ \A i \in DOMAIN rest : rest[i].selector = Last(stk).selector =>
              i = Len(rest) /\ rest[i].call = "settle" /\ rest[i].at = "evaluated"
<1> DEFINE n == Len(stk)
           rest == Front(stk)
<1>1. /\ n \in Nat \ {0} /\ Len(rest) = n - 1
      /\ DOMAIN stk = 1..n /\ DOMAIN rest = 1..(n - 1)
      /\ \A i \in 1..(n - 1) : i \in 1..n /\ rest[i] = stk[i]
      /\ rest # <<>> => n - 1 \in 1..(n - 1)
      /\ stk[n] = Last(stk)
  BY PopSeq DEF Stacked, Last
<1>2. Descends(stk) /\ Resettles(stk, recs)
  BY DEF StackCalm
<1> HIDE DEF rest, n
<1>3. \A i \in 1..(n - 1) : FrameCalm(rest[i], cur, out, recs, sts)
  BY <1>1 DEF StackCalm
<1>4. \A i \in 1..(n - 1) :
        /\ LinkCalm(rest[i], stk[i + 1], Graph(recs))
        /\ WalkCalm(rest[i], {stk[i + 1].selector}, cur, Graph(recs))
  <2> TAKE i \in 1..(n - 1)
  <2>1. i + 1 \in 1..n
    BY <1>1
  <2> QED BY <1>1, <2>1 DEF StackCalm
<1>5. \A i \in 1..(n - 1) : i + 1 \in 1..(n - 1) => rest[i + 1] = stk[i + 1]
  BY <1>1
<1>6. Descends(rest)
  BY <1>1, <1>2 DEF Descends
<1>7. Resettles(rest, recs)
  <2> SUFFICES ASSUME NEW i \in 1..(n - 1), IsEvaluation(rest[i]), recs[rest[i].selector] # None
               PROVE  i > 1 /\ rest[i - 1].selector = rest[i].selector
    BY <1>1 DEF Resettles
  <2>1. i > 1 /\ stk[i - 1].selector = stk[i].selector
    BY <1>1, <1>2 DEF Resettles
  <2>2. i - 1 \in 1..(n - 1)
    BY <1>1, <2>1
  <2> QED BY <1>1, <2>1, <2>2
<1>8. StackCalm(rest, cur, out, recs, sts)
  BY <1>1, <1>3, <1>4, <1>5, <1>6, <1>7 DEF StackCalm
<1>9. rest # <<>> => /\ LinkCalm(Last(rest), Last(stk), Graph(recs))
                     /\ WalkCalm(Last(rest), {Last(stk).selector}, cur, Graph(recs))
  <2> SUFFICES ASSUME rest # <<>>
               PROVE  /\ LinkCalm(Last(rest), Last(stk), Graph(recs))
                      /\ WalkCalm(Last(rest), {Last(stk).selector}, cur, Graph(recs))
    OBVIOUS
  <2>1. n - 1 \in 1..(n - 1) /\ (n - 1) + 1 = n /\ Last(rest) = rest[n - 1]
    BY <1>1 DEF Last
  <2> QED BY <1>1, <1>4, <2>1
<1>10. ASSUME NEW i \in 1..(n - 1), rest[i].selector = Last(stk).selector
       PROVE  i = Len(rest) /\ rest[i].call = "settle" /\ rest[i].at = "evaluated"
  <2>1. i \in 1..n /\ n \in 1..n /\ i < n /\ rest[i] = stk[i]
    BY <1>1
  <2>2. n = i + 1 /\ stk[i].call = "settle" /\ stk[i].at = "evaluated"
    BY <1>1, <1>2, <1>10, <2>1 DEF Descends
  <2> QED BY <1>1, <2>1, <2>2
<1> QED BY <1>1, <1>8, <1>9, <1>10 DEF rest

\* The frame below goes on when the selector it waited for is up to date.
LEMMA CalmUncovered ==
  ASSUME NEW f, NEW g, NEW cur, NEW cur1, NEW recs, NEW recs1,
         LinkCalm(f, g, Graph(recs)), WalkCalm(f, {g.selector}, cur, Graph(recs)),
         cur \subseteq cur1, g.selector \in cur1,
         f.call = "settle" /\ f.at = "walking" => Graph(recs1)[f.selector] = Graph(recs)[f.selector]
  PROVE  TopCalm(f, cur1, recs1)
<1>1. CASE IsEvaluation(f)
  BY <1>1 DEF LinkCalm, TopCalm, WalkCalm, IsEvaluation
<1>2. CASE f.call = "settle"
  <2>1. WalkCalm(f, {}, cur1, Graph(recs1))
    BY DEF WalkCalm
  <2> QED BY <1>2, <2>1 DEF LinkCalm, TopCalm, IsEvaluation
<1> QED BY <1>1, <1>2 DEF LinkCalm

\* More selectors are up to date, and none of those in evaluation.
LEMMA CalmChange ==
  ASSUME NEW stk, Stacked(stk), NEW cur, NEW out, NEW recs, NEW sts,
         StackCalm(stk, cur, out, recs, sts),
         NEW cur1, NEW out1, NEW recs1, NEW sts1,
         cur \subseteq cur1,
         \A d \in cur \cup Atoms : out1[d] = out[d],
         \A i \in DOMAIN stk : IsEvaluation(stk[i]) => stk[i].selector \notin cur1,
         \A i \in DOMAIN stk :
           \/ /\ recs1[stk[i].selector] = recs[stk[i].selector]
              /\ Graph(recs1)[stk[i].selector] = Graph(recs)[stk[i].selector]
           \/ stk[i].call = "settle" /\ stk[i].at = "evaluated" /\ recs1[stk[i].selector] # None,
         \A i \in DOMAIN stk :
           stk[i].call = "settle" /\ stk[i].at = "entered" => sts1[stk[i].selector] = sts[stk[i].selector]
  PROVE  StackCalm(stk, cur1, out1, recs1, sts1)
<1>1. ASSUME NEW i \in DOMAIN stk, IsEvaluation(stk[i])
      PROVE  FrameCalm(stk[i], cur1, out1, recs1, sts1)
  <2> DEFINE f == stk[i]
             b == body[f.selector]
  <2>1. EvaluationCalm(f, cur, out) /\ f.baseline = BaselineOf(recs[f.selector]) /\ f.call # "settle"
    BY <1>1 DEF StackCalm, FrameCalm, IsEvaluation
  <2>2. f.selector \notin cur1 /\ recs1[f.selector] = recs[f.selector]
    BY <1>1, <2>1
  <2>3. FrameWF(f) /\ EvaluationWF(f)
    BY <1>1 DEF Stacked, FrameWF, IsEvaluation
  <2> HIDE DEF f
  <2>4. \A d \in ReadNodes(b, f.reads) : out1[d] = out[d]
    <3>1. ReadNodes(b, f.reads) \subseteq Nodes
      BY <2>1 DEF EvaluationCalm, ReadNodes, Gets
    <3>2. ReadNodes(b, f.reads) \cap Selectors \subseteq cur
      BY <2>1 DEF EvaluationCalm
    <3> QED BY <3>1, <3>2 DEF Nodes
  <2>5. Gets(b, out1, f.reads)
    <3>1. Gets(b, out, f.reads)
      BY <2>1 DEF EvaluationCalm
    <3> HIDE DEF b
    <3> QED BY <2>4, <3>1, GetsSame
  <2>6. EvaluationCalm(f, cur1, out1)
    BY <2>1, <2>2, <2>5 DEF EvaluationCalm
  <2> QED BY <2>1, <2>2, <2>6 DEF FrameCalm, f
<1>2. ASSUME NEW i \in DOMAIN stk, ~IsEvaluation(stk[i])
      PROVE  FrameCalm(stk[i], cur1, out1, recs1, sts1)
  <2> DEFINE f == stk[i]
  <2>1. f.call = "settle" => SettleCalm(f, recs, sts)
    BY DEF StackCalm, FrameCalm
  <2>2. f.call = "settle" => recs1[f.selector] # None
    BY <2>1 DEF SettleCalm
  <2>3. f.call = "settle" /\ f.at = "entered" => sts1[f.selector] = sts[f.selector]
    OBVIOUS
  <2> HIDE DEF f
  <2>4. f.call = "settle" => SettleCalm(f, recs1, sts1)
    BY <2>1, <2>2, <2>3 DEF SettleCalm
  <2> QED BY <1>2, <2>4 DEF FrameCalm, f
<1>3. ASSUME NEW i \in DOMAIN stk, i + 1 \in DOMAIN stk
      PROVE  /\ LinkCalm(stk[i], stk[i + 1], Graph(recs1))
             /\ WalkCalm(stk[i], {stk[i + 1].selector}, cur1, Graph(recs1))
  <2>1. /\ LinkCalm(stk[i], stk[i + 1], Graph(recs))
        /\ WalkCalm(stk[i], {stk[i + 1].selector}, cur, Graph(recs))
    BY <1>3 DEF StackCalm
  <2>2. stk[i].call = "settle" /\ stk[i].at = "walking" =>
          Graph(recs1)[stk[i].selector] = Graph(recs)[stk[i].selector]
    OBVIOUS
  <2>3. LinkCalm(stk[i], stk[i + 1], Graph(recs1))
    BY <2>1, <2>2 DEF LinkCalm
  <2>4. WalkCalm(stk[i], {stk[i + 1].selector}, cur1, Graph(recs1))
    BY <2>1, <2>2 DEF WalkCalm
  <2> QED BY <2>3, <2>4
<1>4. Descends(stk)
  BY DEF StackCalm
<1>5. Resettles(stk, recs1)
  BY DEF StackCalm, Resettles, IsEvaluation
<1> QED BY <1>1, <1>2, <1>3, <1>4, <1>5 DEF StackCalm

\* Frames that are pushed.
LEMMA CalmEvaluation ==
  ASSUME provisional = 0, NEW s \in Selectors, NEW id, NEW n, NEW cur, s \notin cur,
         NEW out, NEW sts
  PROVE  LET h == Evaluation(s, id, n) IN
         /\ FrameCalm(h, cur, out, record, sts) /\ TopCalm(h, cur, record)
         /\ IsEvaluation(h) /\ h.selector = s
<1> DEFINE h == Evaluation(s, id, n)
<1>1. /\ h.call = "evaluate" /\ h.at = "running" /\ h.selector = s
      /\ h.deps = <<>> /\ h.reads = <<>> /\ h.cycle = None /\ h.provisional = 0
      /\ h.baseline = BaselineOf(record[s])
  BY DEF Evaluation, BaselineOf
<1> HIDE DEF h
<1>2. Gets(body[s], out, <<>>) /\ ReadNodes(body[s], <<>>) = {} /\ Range(<<>>) = {}
  <2>1. Len(<<>>) = 0 /\ <<>> \in Seq(Answers) /\ 0 <= MaxReads /\ 1..0 = {} /\ DOMAIN <<>> = {}
    BY MaxReadsAssumption
  <2> QED BY <2>1 DEF Gets, ReadNodes, Range
<1>3. EvaluationCalm(h, cur, out)
  BY <1>1, <1>2 DEF EvaluationCalm
<1>4. FrameCalm(h, cur, out, record, sts)
  BY <1>1, <1>3 DEF FrameCalm
<1>5. TopCalm(h, cur, record)
  BY <1>1 DEF TopCalm, WalkCalm
<1> QED BY <1>1, <1>4, <1>5 DEF h, IsEvaluation

LEMMA CalmSettling ==
  ASSUME provisional = 0, NEW s \in Selectors, record[s] # None, NEW id, NEW reader,
         NEW cur, NEW out
  PROVE  LET h == Settling(s, id, reader) IN
         /\ FrameCalm(h, cur, out, record, status) /\ TopCalm(h, cur, record)
         /\ h.call = "settle" /\ h.selector = s /\ ~IsEvaluation(h)
<1> DEFINE h == Settling(s, id, reader)
<1>1. /\ h.call = "settle" /\ h.at = "entered" /\ h.selector = s
      /\ h.currentness = "settled" /\ h.entered = status[s] /\ h.provisional = 0
  BY DEF Settling
<1> HIDE DEF h
<1>2. SettleCalm(h, record, status)
  BY <1>1 DEF SettleCalm
<1>3. FrameCalm(h, cur, out, record, status)
  BY <1>1, <1>2 DEF FrameCalm, IsEvaluation
<1>4. TopCalm(h, cur, record)
  BY <1>1 DEF TopCalm, WalkCalm, IsEvaluation
<1> QED BY <1>1, <1>3, <1>4 DEF h, IsEvaluation

-----------------------------------------------------------------------------
\* The records: those not marked are what their getters make of what the others
\* answer, and those that are up to date read only such.  A selector is evaluated
\* once, and reached if that gave another outcome.
RecordsCalm ==
  \A s \in Selectors : record[s] # None =>
    /\ \A d \in Graph(record)[s] : <<s, d>> \in MayRead /\ record[d] # None
    /\ s \notin dirty => Explained(body[s], Serves(value, record), record[s])
MarksCalm ==
  /\ mode # "propagating" => dirty = {}
  /\ \A s \in dirty \cup Range(queue) : record[s] # None
  /\ \A s \in Selectors : "queued" \in status[s] => record[s] # None
  /\ \A s \in Current : s \notin dirty /\ Graph(record)[s] \subseteq Current
LatchesCalm == provisional = 0 /\ \A s \in Selectors : routes[s] = None
HistoryCalm ==
  /\ evaluations \in [Selectors -> {0, 1}]
  /\ \A s \in Selectors :
       /\ evaluations[s] = 1 => record[s] # None /\ mode # "idle"
       /\ evaluations[s] = 0 /\ mode # "idle" => before[s] = Outcomes[s]
  /\ \A s \in reached : evaluations[s] = 1 /\ before[s] # None
                        /\ (record[s].out = Error \/ record[s].out # before[s])

\* What is marked is queued or being settled.
PendingCalm ==
  /\ dirty \subseteq Range(queue) \cup Calls(stack)
  /\ \A s \in Selectors : "queued" \in status[s] /\ "settled" \notin status[s] =>
       s \in Range(queue) \cup Calls(stack)

Calm ==
  /\ RecordsCalm /\ MarksCalm /\ LatchesCalm /\ HistoryCalm /\ PendingCalm
  /\ StackCalm(stack, Current, Serves(value, record), record, status)
  /\ stack # <<>> => TopCalm(Top, Current, record)
  /\ InProgress(stack, status)
  /\ mode = "idle" => stack = <<>>
CalmInv == CannotCycle => Calm

\* A getter stays what it is.
LEMMA CalmNext ==
  ASSUME UNCHANGED body,
         StackCalm(stack', Current', Serves(value', record'), record', status')
  PROVE  StackCalm(stack, Current, Serves(value, record), record, status)'
<1>1. MayRead' = MayRead
  BY DEF MayRead
<1>2. \A f : EvaluationCalm(f, Current', Serves(value', record'))
             <=> EvaluationCalm(f, Current, Serves(value, record))'
  BY DEF EvaluationCalm
<1> QED BY <1>1, <1>2 DEF StackCalm, FrameCalm, Descends

LEMMA StackIsStacked ==
  ASSUME IInv
  PROVE  Stacked(stack)
BY DEF IInv, StackOK, Stacked

\* A step that leaves everything alone but the stack.
LEMMA CalmOnlyStack ==
  ASSUME Calm, stack # <<>>, UNCHANGED <<body, value, graphVars, mode, history>>,
         Calls(stack) \subseteq Calls(stack'),
         StackCalm(stack', Current, Serves(value, record), record, status),
         stack' # <<>> => TopCalm(Last(stack'), Current, record),
         InProgress(stack', status)
  PROVE  Calm'
<1>1. UNCHANGED <<record, dirty, routes, queue, status, provisional, reached, evaluations, before>>
  BY DEF graphVars, history
<1>2. Current' = Current /\ MayRead' = MayRead /\ Outcomes' = Outcomes
  BY <1>1 DEF Current, MayRead, Outcomes
<1>3. RecordsCalm'
  <2>1. RecordsCalm
    BY DEF Calm
  <2> QED BY <1>1, <1>2, <2>1 DEF RecordsCalm
<1>4. MarksCalm' /\ LatchesCalm' /\ HistoryCalm'
  <2>1. MarksCalm /\ LatchesCalm /\ HistoryCalm
    BY DEF Calm
  <2> QED BY <1>1, <1>2, <2>1 DEF MarksCalm, LatchesCalm, HistoryCalm
<1>5. PendingCalm'
  <2>1. PendingCalm
    BY DEF Calm
  <2>2. Calls(stack)' = Calls(stack')
    BY DEF Calls
  <2> QED BY <1>1, <2>1, <2>2 DEF PendingCalm
<1>6. StackCalm(stack, Current, Serves(value, record), record, status)'
  BY <1>1, <1>2, CalmNext
<1>7. (stack # <<>> => TopCalm(Top, Current, record))'
  BY <1>1, <1>2 DEF Top
<1>8. InProgress(stack, status)'
  BY <1>1 DEF InProgress
<1>9. mode' # "idle"
  BY DEF Calm
<1> QED BY <1>3, <1>4, <1>5, <1>6, <1>7, <1>8, <1>9 DEF Calm

\* The calls of the stack, and those that walk or settle, when its last frame moves on
\* and when one is pushed.
LEMMA CallsTop ==
  ASSUME NEW stk, stk \in Seq(Range(stk)), stk # <<>>, NEW sts, InProgress(stk, sts),
         NEW g, g.call = Last(stk).call, g.selector = Last(stk).selector,
         Last(stk).call = "settle" /\ Last(stk).at # "entered" => g.at # "entered"
  PROVE  LET more == [stk EXCEPT ![Len(stk)] = g] IN
         InProgress(more, sts) /\ Calls(more) = Calls(stk)
<1> DEFINE n == Len(stk)
           more == [stk EXCEPT ![n] = g]
<1>1. /\ n \in Nat \ {0}
      /\ DOMAIN stk = 1..n /\ DOMAIN more = 1..n
      /\ \A i \in 1..n : i # n => more[i] = stk[i]
      /\ more[n] = g /\ stk[n] = Last(stk)
  BY ReplaceSeq DEF Last
<1> HIDE DEF more, n
<1>2. \A i \in 1..n : /\ more[i].selector = stk[i].selector /\ more[i].call = stk[i].call
                      /\ stk[i].call = "settle" /\ stk[i].at # "entered" => more[i].at # "entered"
  BY <1>1
<1>3. InProgress(more, sts)
  BY <1>1, <1>2 DEF InProgress
<1>4. Calls(more) = Calls(stk)
  BY <1>1, <1>2 DEF Calls
<1> QED BY <1>3, <1>4 DEF more, n

LEMMA CallsPush ==
  ASSUME NEW stk, stk \in Seq(Range(stk)), NEW sts, InProgress(stk, sts), NEW h
  PROVE  InProgress(Append(stk, h), sts) /\ Calls(stk) \subseteq Calls(Append(stk, h))
<1> DEFINE n == Len(stk)
           more == Append(stk, h)
<1>1. /\ n \in Nat
      /\ DOMAIN stk = 1..n /\ DOMAIN more = 1..(n + 1)
      /\ \A i \in 1..n : more[i] = stk[i] /\ i \in 1..(n + 1)
  BY PushSeq
<1> HIDE DEF more, n
<1>2. InProgress(more, sts)
  BY <1>1 DEF InProgress
<1>3. Calls(stk) \subseteq Calls(more)
  BY <1>1 DEF Calls
<1> QED BY <1>2, <1>3 DEF more

\* The last frame moves on.
LEMMA CalmTopStep ==
  ASSUME IInv, Calm, stack # <<>>, UNCHANGED <<body, value, graphVars, mode, history>>,
         NEW g, g.call = Top.call, g.selector = Top.selector,
         Top.call = "settle" /\ Top.at # "entered" => g.at # "entered",
         FrameCalm(g, Current, Serves(value, record), record, status),
         TopCalm(g, Current, record),
         stack' = WithTop(g)
  PROVE  Calm'
<1>1. Stacked(stack) /\ Last(stack) = Top /\ stack \in Seq(Range(stack))
  BY StackIsStacked DEF Top, Stacked
<1>2. StackCalm(stack, Current, Serves(value, record), record, status) /\ InProgress(stack, status)
  BY DEF Calm
<1>3. StackCalm(stack', Current, Serves(value, record), record, status)
  BY <1>1, <1>2, CalmTop DEF WithTop
<1>4. InProgress(stack', status) /\ Calls(stack') = Calls(stack)
  BY <1>1, <1>2, CallsTop DEF WithTop
<1>5. Last(stack') = g
  <2>1. Len(WithTop(g)) = Len(stack) /\ WithTop(g)[Len(stack)] = g
    BY <1>1, ReplaceSeq DEF WithTop
  <2> QED BY <2>1 DEF Last
<1> QED BY <1>3, <1>4, <1>5, CalmOnlyStack

\* It moves on and waits for another call.
LEMMA CalmPushStep ==
  ASSUME IInv, Calm, CannotCycle, stack # <<>>,
         UNCHANGED <<body, value, graphVars, mode, history>>,
         NEW g, FrameWF(g), g.call = Top.call, g.selector = Top.selector,
         Top.call = "settle" /\ Top.at # "entered" => g.at # "entered",
         FrameCalm(g, Current, Serves(value, record), record, status),
         NEW h, FrameCalm(h, Current, Serves(value, record), record, status),
         TopCalm(h, Current, record),
         LinkCalm(g, h, Graph(record)), WalkCalm(g, {h.selector}, Current, Graph(record)),
         \/ <<g.selector, h.selector>> \in MayRead
         \/ g.call = "settle" /\ g.at = "evaluated" /\ h.selector = g.selector,
         IsEvaluation(h) => record[h.selector] = None \/ h.selector = g.selector,
         stack' = Append(WithTop(g), h)
  PROVE  Calm'
<1> DEFINE out == Serves(value, record)
           more == WithTop(g)
<1>1. Stacked(stack) /\ Last(stack) = Top /\ stack \in Seq(Range(stack))
  BY StackIsStacked DEF Top, Stacked
<1>2. StackCalm(stack, Current, out, record, status) /\ InProgress(stack, status)
  BY DEF Calm
<1>3. StackCalm(more, Current, out, record, status)
  BY <1>1, <1>2, CalmTop DEF WithTop
<1>4. InProgress(more, status) /\ Calls(more) = Calls(stack)
  BY <1>1, <1>2, CallsTop DEF WithTop
<1>5. /\ more \in Seq(Range(more)) /\ more # <<>> /\ Last(more) = g
      /\ \A i \in DOMAIN more : FrameWF(more[i])
  <2>1. /\ more \in Seq(Range(more)) /\ more # <<>> /\ Len(more) = Len(stack) /\ more[Len(stack)] = g
        /\ DOMAIN more = 1..Len(stack) /\ DOMAIN stack = 1..Len(stack)
        /\ \A i \in DOMAIN stack : i # Len(stack) => more[i] = stack[i]
    BY <1>1, ReplaceSeq DEF WithTop
  <2> QED BY <1>1, <2>1 DEF Last, Stacked
<1>6. Stacked(more)
  BY <1>5 DEF Stacked
<1> HIDE DEF more, out
<1>7. StackCalm(stack', Current, out, record, status)
  BY <1>3, <1>5, <1>6, CalmPush DEF more, out
<1>8. InProgress(stack', status) /\ Calls(stack) \subseteq Calls(stack')
  BY <1>4, <1>5, CallsPush DEF more
<1>9. Last(stack') = h
  <2>1. Len(Append(more, h)) = Len(more) + 1 /\ Append(more, h)[Len(more) + 1] = h
    BY <1>5, PushSeq
  <2> QED BY <2>1 DEF Last, more
<1> QED BY <1>7, <1>8, <1>9, CalmOnlyStack DEF out

-----------------------------------------------------------------------------
(* Every action keeps it so *)

\* What a getter reads is what it may read.
LEMMA ReadMay ==
  ASSUME NEW s \in Selectors, NEW r \in Seq(Values), Len(r) < MaxReads,
         body[s].next[r] \in Selectors
  PROVE  <<s, body[s].next[r]>> \in MayRead
<1> DEFINE d == body[s].next[r]
           e == <<s, d>>
<1>1. r \in Decisions /\ d \in Selectors
  BY DecisionOK
<1>2. e \in Selectors \X Selectors /\ e[1] = s /\ e[2] = d
  BY <1>1
<1>3. body[e[1]].next[r] = e[2]
  BY <1>2
<1> HIDE DEF e
<1>4. e \in MayRead
  BY <1>1, <1>2, <1>3 DEF MayRead
<1> QED BY <1>4 DEF e

\* An evaluation that moves on without a new answer.
LEMMA CalmAlike ==
  ASSUME NEW f, IsEvaluation(f), NEW cur, NEW out, NEW recs, NEW sts,
         FrameCalm(f, cur, out, recs, sts),
         NEW g, g.call = f.call, g.selector = f.selector, g.deps = f.deps, g.reads = f.reads,
         g.cycle = f.cycle, g.provisional = f.provisional, g.baseline = f.baseline,
         g.at \in {"serving", "served"} => g.pending = body[g.selector].next[g.reads],
         g.at = "failed" => f.at = "failed"
  PROVE  FrameCalm(g, cur, out, recs, sts) /\ IsEvaluation(g)
<1>1. EvaluationCalm(f, cur, out) /\ f.baseline = BaselineOf(recs[f.selector])
  BY DEF FrameCalm
<1>2. EvaluationCalm(g, cur, out) /\ g.baseline = BaselineOf(recs[g.selector])
  BY <1>1 DEF EvaluationCalm
<1>3. IsEvaluation(g) /\ g.call # "settle"
  BY DEF IsEvaluation
<1> QED BY <1>2, <1>3 DEF FrameCalm

LEMMA CalmFacts ==
  ASSUME IInv, Calm, stack # <<>>
  PROVE  /\ FrameCalm(Top, Current, Serves(value, record), record, status)
         /\ TopCalm(Top, Current, record)
         /\ StackCalm(stack, Current, Serves(value, record), record, status)
         /\ InProgress(stack, status)
         /\ provisional = 0 /\ body \in Programs
         /\ FrameWF(Top) /\ Top.selector \in Selectors
         /\ Len(stack) \in DOMAIN stack /\ Top = stack[Len(stack)] /\ DOMAIN stack = 1..Len(stack)
         /\ Len(stack) \in Nat /\ Last(stack) = Top
<1>1. /\ TopCalm(Top, Current, record)
      /\ StackCalm(stack, Current, Serves(value, record), record, status)
      /\ InProgress(stack, status)
      /\ provisional = 0
  BY DEF Calm, LatchesCalm
<1>2. FrameWF(Top) /\ Len(stack) \in DOMAIN stack /\ Top = stack[Len(stack)] /\ Last(stack) = Top
  BY TopFacts
<1>3. Top.selector \in Selectors
  BY <1>2 DEF FrameWF, EvaluationWF, SettleWF
<1>4. body \in Programs
  BY DEF IInv, DataOK
<1>5. FrameCalm(Top, Current, Serves(value, record), record, status)
  BY <1>1, <1>2 DEF StackCalm
<1>6. DOMAIN stack = 1..Len(stack) /\ Len(stack) \in Nat
  BY StackFacts
<1> QED BY <1>1, <1>2, <1>3, <1>4, <1>5, <1>6

\* The read of an evaluation in flight would be a cycle.
LEMMA ReadActiveNever == IInv /\ Calm /\ CannotCycle => ~ReadActive
<1> SUFFICES ASSUME IInv, Calm, CannotCycle, ReadActive PROVE FALSE
  OBVIOUS
<1> DEFINE d == NextRead(Top)
           s == Top.selector
           n == Len(stack)
<1>1. stack # <<>> /\ IsEvaluation(Top) /\ Top.at = "running" /\ d \in Selectors
  BY DEF ReadActive, EvaluationAt
<1>2. PICK i \in DOMAIN stack : stack[i].selector = d
  BY DEF ReadActive, IsActive
<1>3. /\ StackCalm(stack, Current, Serves(value, record), record, status)
      /\ body \in Programs /\ s \in Selectors
      /\ n \in 1..n /\ DOMAIN stack = 1..n /\ n \in Nat /\ Top = stack[n]
  BY <1>1, CalmFacts
<1>4. EvaluationWF(Top)
  BY <1>1, TopFacts
<1>5. d # None
  BY <1>1, NoneAssumption DEF Nodes
<1>6. Top.reads \in Seq(Values) /\ Len(Top.reads) < MaxReads
  BY <1>1, <1>3, <1>4, <1>5, NextReadOK DEF EvaluationWF, ReadsWF
<1>7. d = body[s].next[Top.reads]
  BY <1>5 DEF NextRead
<1>8. <<s, d>> \in MayRead
  BY <1>1, <1>3, <1>6, <1>7, ReadMay
<1> HIDE DEF d, s, n
<1>9. s # d /\ s \notin ReachableFrom(MayRead, d)
  BY <1>8, NoWayBack
<1>10. CASE i = n
  BY <1>2, <1>3, <1>9, <1>10 DEF s
<1>11. CASE i # n
  <2>1. i < n
    BY <1>2, <1>3, <1>11
  <2>2. Descends(stack)
    BY <1>3 DEF StackCalm
  <2>3. stack[n].selector \in ReachableFrom(MayRead, stack[i].selector)
    BY <1>3, <2>1, <2>2 DEF Descends
  <2> QED BY <1>2, <1>3, <1>9, <2>3 DEF s
<1> QED BY <1>10, <1>11

\* Read: what is asked for is settled first if it has a record.
LEMMA ReadCalm == IInv /\ Calm /\ CannotCycle /\ Read(Serving) /\ UNCHANGED history => Calm'
<1> SUFFICES ASSUME IInv, Calm, CannotCycle, Read(Serving), UNCHANGED history PROVE Calm'
  OBVIOUS
<1> DEFINE d == NextRead(Top)
           g == [Top EXCEPT !.pending = d, !.at = IF d \in Atoms THEN "served" ELSE "serving"]
           f == Settling(d, Top.session, Top.session)
           cur == Current
           out == Serves(value, record)
<1>1. stack # <<>> /\ IsEvaluation(Top) /\ Top.at = "running" /\ d # None
      /\ stack' = WithTop(g) \o (IF d \in Selectors THEN Serving ELSE <<>>)
      /\ UNCHANGED <<body, value, graphVars, mode, history>>
  BY DEF Read, EvaluationAt
<1>2. FrameWF(Top) /\ EvaluationWF(Top) /\ Top.call = "evaluate"
  BY <1>1, TopFacts DEF IsEvaluation
<1>3. d \in Nodes /\ Len(Top.reads) < MaxReads
  BY <1>1, <1>2, NextReadOK DEF IInv, DataOK
<1>4. Top.reads \in Seq(Values) /\ d = body[Top.selector].next[Top.reads]
  BY <1>1, <1>2 DEF EvaluationWF, ReadsWF, NextRead
<1> HIDE DEF d
<1>5. /\ FrameWF(g) /\ IsEvaluation(g) /\ Kept(Top, g)
      /\ g.pending = d /\ g.at = (IF d \in Atoms THEN "served" ELSE "serving")
      /\ g.selector = Top.selector
  BY <1>1, <1>2, <1>3, ReadFrame
<1>6. /\ g.call = Top.call /\ g.deps = Top.deps /\ g.reads = Top.reads /\ g.cycle = Top.cycle
      /\ g.provisional = Top.provisional /\ g.baseline = Top.baseline
  BY <1>2 DEF EvaluationWF, EvaluationFields
<1> HIDE DEF g
<1>7. /\ FrameCalm(Top, cur, out, record, status) /\ Top.selector \in Selectors /\ provisional = 0
  BY <1>1, CalmFacts
<1>8. FrameCalm(g, cur, out, record, status)
  BY <1>1, <1>4, <1>5, <1>6, <1>7, CalmAlike
<1>9. d \in Selectors <=> d \notin Atoms
  BY <1>3, NodesAssumption DEF Nodes
<1>10. g.call = "evaluate" /\ WalkCalm(g, {d}, cur, Graph(record)) /\ WalkCalm(g, {}, cur, Graph(record))
  BY <1>2, <1>6 DEF WalkCalm
<1>11. WithTop(g) \in Seq(Range(WithTop(g)))
  BY <1>1, StackFacts, ReplaceSeq DEF WithTop
<1>12. WithTop(g) \o <<>> = WithTop(g) /\ WithTop(g) \o <<f>> = Append(WithTop(g), f)
  <2> DEFINE more == WithTop(g)
  <2> HIDE DEF more, f
  <2>1. more \in Seq(Range(more))
    BY <1>11 DEF more
  <2>2. more \o <<>> = more /\ more \o <<f>> = Append(more, f)
    BY <2>1, PushCases
  <2> QED BY <2>2 DEF more
<1>13. CASE d \in Selectors /\ mode = "propagating" /\ record[d] # None
  <2>1. Serving = <<f>>
    BY <1>13 DEF Serving, d
  <2>2. stack' = Append(WithTop(g), f)
    BY <1>1, <1>12, <1>13, <2>1
  <2>3. /\ FrameCalm(f, cur, out, record, status) /\ TopCalm(f, cur, record)
        /\ f.call = "settle" /\ f.selector = d /\ ~IsEvaluation(f)
    BY <1>7, <1>13, CalmSettling
  <2> HIDE DEF f, cur, out
  <2>4. LinkCalm(g, f, Graph(record))
    BY <1>5, <1>9, <1>13, <2>3 DEF LinkCalm
  <2>5. <<g.selector, f.selector>> \in MayRead
    BY <1>3, <1>4, <1>5, <1>7, <1>13, <2>3, ReadMay
  <2>6. FrameWF(g) /\ g.call = Top.call /\ g.selector = Top.selector /\ Top.call # "settle"
    BY <1>2, <1>5, <1>6
  <2>7. WalkCalm(g, {f.selector}, cur, Graph(record))
    BY <1>10, <2>3
  <2> QED BY <1>1, <1>8, <2>2, <2>3, <2>4, <2>5, <2>6, <2>7, CalmPushStep DEF cur, out
<1>14. CASE ~(d \in Selectors /\ mode = "propagating" /\ record[d] # None)
  <2>1. (IF d \in Selectors THEN Serving ELSE <<>>) = <<>>
    BY <1>14 DEF Serving, d
  <2>2. stack' = WithTop(g)
    BY <1>1, <1>12, <2>1
  <2>3. d \in Selectors => record[d] = None \/ d \in cur
    BY <1>14 DEF Current
  <2>4. TopCalm(g, cur, record)
    BY <1>5, <1>9, <1>10, <2>3 DEF TopCalm
  <2> QED BY <1>1, <1>2, <1>5, <1>6, <1>8, <2>2, <2>4, CalmTopStep
<1> QED BY <1>13, <1>14

\* Serve: what is not served has no record, and is evaluated.
LEMMA ServeCalm == IInv /\ Calm /\ CannotCycle /\ Serve /\ UNCHANGED history => Calm'
<1> SUFFICES ASSUME IInv, Calm, CannotCycle, Serve, UNCHANGED history PROVE Calm'
  OBVIOUS
<1> DEFINE d == Top.pending
           g == [Top EXCEPT !.at = "served"]
           f == Evaluation(d, Top.session, Publications(Top.session))
           current == record[d] # None /\ d \notin dirty
           cur == Current
           out == Serves(value, record)
<1>1. stack # <<>> /\ IsEvaluation(Top) /\ Top.at = "serving"
      /\ stack' = WithTop(g) \o (IF current THEN <<>> ELSE <<f>>)
      /\ UNCHANGED <<body, value, graphVars, mode, history>>
  BY DEF Serve, EvaluationAt
<1>2. FrameWF(Top) /\ EvaluationWF(Top) /\ Top.call = "evaluate"
  BY <1>1, TopFacts DEF IsEvaluation
<1>3. d \in Selectors /\ Top.reads \in Seq(Values) /\ Len(Top.reads) < MaxReads
  BY <1>1, <1>2 DEF EvaluationWF, ReadsWF
<1>4. /\ FrameWF(g) /\ IsEvaluation(g) /\ Kept(Top, g)
      /\ g.pending = d /\ g.at = "served" /\ g.selector = Top.selector
  BY <1>1, <1>2, ServedFrame
<1>5. /\ g.call = Top.call /\ g.deps = Top.deps /\ g.reads = Top.reads /\ g.cycle = Top.cycle
      /\ g.provisional = Top.provisional /\ g.baseline = Top.baseline
  BY <1>2 DEF EvaluationWF, EvaluationFields
<1> HIDE DEF g
<1>6. /\ FrameCalm(Top, cur, out, record, status) /\ Top.selector \in Selectors /\ provisional = 0
      /\ TopCalm(Top, cur, record)
  BY <1>1, CalmFacts
<1>7. d = body[Top.selector].next[Top.reads]
  BY <1>1, <1>6 DEF FrameCalm, EvaluationCalm
<1>8. FrameCalm(g, cur, out, record, status)
  <2> HIDE DEF d
  <2> QED BY <1>1, <1>4, <1>5, <1>6, <1>7, CalmAlike
<1>9. record[d] = None \/ d \in cur
  BY <1>1, <1>6 DEF TopCalm
<1>10. d \in cur => record[d] # None /\ d \notin dirty
  BY DEF Calm, MarksCalm, Current
<1>11. <<g.selector, d>> \in MayRead
  BY <1>3, <1>4, <1>6, <1>7, ReadMay
<1>12. g.call = "evaluate" /\ WalkCalm(g, {d}, cur, Graph(record)) /\ WalkCalm(g, {}, cur, Graph(record))
  BY <1>2, <1>5 DEF WalkCalm
<1> HIDE DEF d
<1>13. WithTop(g) \o <<>> = WithTop(g) /\ WithTop(g) \o <<f>> = Append(WithTop(g), f)
  <2> DEFINE more == WithTop(g)
  <2>1. more \in Seq(Range(more))
    BY <1>1, StackFacts, ReplaceSeq DEF WithTop
  <2> HIDE DEF more, f
  <2>2. more \o <<>> = more /\ more \o <<f>> = Append(more, f)
    BY <2>1, PushCases
  <2> QED BY <2>2 DEF more
<1>14. CASE current
  <2>1. stack' = WithTop(g)
    BY <1>1, <1>13, <1>14
  <2>2. TopCalm(g, cur, record)
    BY <1>4, <1>9, <1>12, <1>14 DEF TopCalm
  <2> QED BY <1>1, <1>2, <1>4, <1>5, <1>8, <2>1, <2>2, CalmTopStep
<1>15. CASE ~current
  <2>1. stack' = Append(WithTop(g), f)
    BY <1>1, <1>13, <1>15
  <2>2. record[d] = None /\ d \notin cur
    BY <1>9, <1>10, <1>15
  <2>3. /\ FrameCalm(f, cur, out, record, status) /\ TopCalm(f, cur, record)
        /\ IsEvaluation(f) /\ f.selector = d
    BY <1>3, <1>6, <2>2, CalmEvaluation DEF d
  <2> HIDE DEF f, cur, out
  <2>4. LinkCalm(g, f, Graph(record))
    BY <1>4, <2>3 DEF LinkCalm
  <2>5. FrameWF(g) /\ g.call = Top.call /\ g.selector = Top.selector /\ Top.call # "settle"
    BY <1>2, <1>4, <1>5
  <2>6. WalkCalm(g, {f.selector}, cur, Graph(record)) /\ <<g.selector, f.selector>> \in MayRead
    BY <1>11, <1>12, <2>3
  <2>7. record[f.selector] = None
    BY <2>2, <2>3
  <2> QED BY <1>1, <1>8, <2>1, <2>3, <2>4, <2>5, <2>6, <2>7, CalmPushStep DEF cur, out
<1> QED BY <1>14, <1>15

\* A getter gets one answer more.
Asks(b, r) == b.next[r]

LEMMA ReadNodesMore ==
  ASSUME NEW b, NEW r \in Seq(Values), NEW q, \E x \in Answers : q = Append(r, x)
  PROVE  ReadNodes(b, q) = ReadNodes(b, r) \cup {Asks(b, r)}
<1> DEFINE n == Len(r)
           d == Asks(b, r)
<1>1. r \in Seq(Answers) /\ n \in Nat
  BY DEF Answers
<1>2. q \in Seq(Answers) /\ Len(q) = n + 1 /\ \A i \in 1..n : q[i] = r[i]
  BY <1>1
<1>3. \A i \in 1..n + 1 : SubSeq(q, 1, i - 1) = SubSeq(r, 1, i - 1)
  BY <1>1
<1>4. SubSeq(r, 1, n) = r /\ (n + 1) - 1 = n
  BY <1>1
<1> HIDE DEF n
<1>5. n + 1 \in 1..n + 1 /\ \A i \in 1..n : i \in 1..n + 1
  BY <1>1
<1>6. \A i \in 1..n : ReadAt(b, q, i) = ReadAt(b, r, i)
  BY <1>3, <1>5 DEF ReadAt
<1>7. SubSeq(q, 1, (n + 1) - 1) = r
  <2>1. SubSeq(q, 1, (n + 1) - 1) = SubSeq(r, 1, (n + 1) - 1)
    BY <1>3, <1>5
  <2> QED BY <1>4, <2>1
<1>8. ReadAt(b, q, n + 1) = d
  BY <1>7 DEF ReadAt, Asks
<1> HIDE DEF d
<1>9. \A i \in 1..n + 1 : i \in 1..n \/ i = n + 1
  BY <1>1
<1>10. ReadNodes(b, q) = {ReadAt(b, q, i) : i \in 1..n + 1}
       /\ ReadNodes(b, r) = {ReadAt(b, r, i) : i \in 1..n}
  BY <1>2 DEF ReadNodes, n
<1>11. ReadNodes(b, q) = ReadNodes(b, r) \cup {d}
  BY <1>5, <1>6, <1>8, <1>9, <1>10
<1> QED BY <1>11 DEF d

LEMMA GetsMore ==
  ASSUME NEW b, NEW out, NEW r \in Seq(Values), Gets(b, out, r), Len(r) < MaxReads,
         NEW d \in Nodes, d = b.next[r], NEW x \in Answers, x = out[d],
         NEW q, q = Append(r, x)
  PROVE  Gets(b, out, q)
<1> DEFINE n == Len(r)
<1>1. r \in Seq(Answers) /\ n \in Nat /\ MaxReads \in Nat /\ x \in Answers
  BY MaxReadsAssumption DEF Answers
<1>2. /\ q \in Seq(Answers) /\ Len(q) = n + 1 /\ q[n + 1] = x
      /\ \A i \in 1..n : q[i] = r[i]
  BY <1>1
<1>3. \A i \in 1..n + 1 : SubSeq(q, 1, i - 1) = SubSeq(r, 1, i - 1)
  BY <1>1
<1>4. SubSeq(r, 1, n) = r /\ (n + 1) - 1 = n
  BY <1>1
<1> HIDE DEF n
<1>5. n + 1 \in 1..n + 1 /\ \A i \in 1..n : i \in 1..n + 1
  BY <1>1
<1>6. \A i \in 1..n : ReadAt(b, q, i) = ReadAt(b, r, i)
  BY <1>3, <1>5 DEF ReadAt
<1>7. SubSeq(q, 1, (n + 1) - 1) = r
  <2>1. SubSeq(q, 1, (n + 1) - 1) = SubSeq(r, 1, (n + 1) - 1)
    BY <1>3, <1>5
  <2> QED BY <1>4, <2>1
<1>8. ReadAt(b, q, n + 1) = d
  BY <1>7 DEF ReadAt
<1>9. \A i \in 1..n + 1 : i \in 1..n \/ i = n + 1
  BY <1>1
<1>10. \A i \in 1..n : SubSeq(r, 1, i - 1) \in Seq(Values) /\ ReadAt(b, r, i) \in Nodes
                       /\ r[i] = out[ReadAt(b, r, i)]
  BY DEF Gets, n
<1>11. \A i \in 1..n + 1 : SubSeq(q, 1, i - 1) \in Seq(Values) /\ ReadAt(b, q, i) \in Nodes
                           /\ q[i] = out[ReadAt(b, q, i)]
  <2> TAKE i \in 1..n + 1
  <2>1. CASE i \in 1..n
    BY <1>2, <1>3, <1>5, <1>6, <1>10, <2>1
  <2>2. CASE i = n + 1
    BY <1>2, <1>7, <1>8, <2>2
  <2> QED BY <1>9, <2>1, <2>2
<1>12. n + 1 <= MaxReads
  BY <1>1 DEF n
<1> QED BY <1>2, <1>11, <1>12 DEF Gets

\* A frame whose proof or observed edges alone have changed, and a stack of such.
Same(f, g) ==
  /\ g.call = f.call /\ g.selector = f.selector /\ g.at = f.at /\ g.session = f.session
  /\ IF IsEvaluation(f)
       THEN /\ g.pending = f.pending /\ g.deps = f.deps /\ g.reads = f.reads
            /\ g.cycle = f.cycle /\ g.provisional = f.provisional /\ g.baseline = f.baseline
       ELSE g = f
SameStack(stk, more) ==
  DOMAIN more = DOMAIN stk /\ \A i \in DOMAIN stk : Same(stk[i], more[i])

LEMMA CalmSame ==
  ASSUME NEW stk, stk \in Seq(Range(stk)), NEW more, SameStack(stk, more),
         NEW cur, NEW out, NEW recs, NEW sts, StackCalm(stk, cur, out, recs, sts)
  PROVE  /\ StackCalm(more, cur, out, recs, sts)
         /\ Calls(more) = Calls(stk)
         /\ InProgress(stk, sts) => InProgress(more, sts)
<1>1. \A i \in DOMAIN stk : Same(stk[i], more[i]) /\ DOMAIN more = DOMAIN stk
  BY DEF SameStack
<1>1a. DOMAIN more = DOMAIN stk
  BY DEF SameStack
<1>2. \A i \in DOMAIN stk : /\ more[i].call = stk[i].call /\ more[i].selector = stk[i].selector
                            /\ more[i].at = stk[i].at
                            /\ IsEvaluation(more[i]) <=> IsEvaluation(stk[i])
                            /\ IsEvaluation(stk[i]) => more[i].pending = stk[i].pending
                            /\ ~IsEvaluation(stk[i]) => more[i] = stk[i]
  BY <1>1 DEF Same, IsEvaluation
<1>3. ASSUME NEW i \in DOMAIN stk PROVE FrameCalm(more[i], cur, out, recs, sts)
  <2>1. FrameCalm(stk[i], cur, out, recs, sts)
    BY DEF StackCalm
  <2>2. CASE IsEvaluation(stk[i])
    <3> DEFINE f == stk[i]
               g == more[i]
    <3>1. Same(f, g) /\ IsEvaluation(f) /\ FrameCalm(f, cur, out, recs, sts)
      BY <1>1, <2>1, <2>2
    <3> HIDE DEF f, g
    <3>2. /\ g.call = f.call /\ g.selector = f.selector /\ g.deps = f.deps /\ g.reads = f.reads
          /\ g.cycle = f.cycle /\ g.provisional = f.provisional /\ g.baseline = f.baseline
          /\ g.at = f.at /\ g.pending = f.pending
      BY <3>1 DEF Same
    <3>3. g.at \in {"serving", "served"} => g.pending = body[g.selector].next[g.reads]
      BY <3>1, <3>2 DEF FrameCalm, EvaluationCalm
    <3>4. FrameCalm(g, cur, out, recs, sts)
      BY <3>1, <3>2, <3>3, CalmAlike
    <3> QED BY <3>4 DEF g
  <2>3. CASE ~IsEvaluation(stk[i])
    BY <1>2, <2>1, <2>3
  <2> QED BY <2>2, <2>3
<1>4. ASSUME NEW i \in DOMAIN stk, i + 1 \in DOMAIN stk
      PROVE  /\ LinkCalm(more[i], more[i + 1], Graph(recs))
             /\ WalkCalm(more[i], {more[i + 1].selector}, cur, Graph(recs))
  <2> DEFINE f == stk[i]
             g == stk[i + 1]
             f1 == more[i]
             g1 == more[i + 1]
  <2>1. LinkCalm(f, g, Graph(recs)) /\ WalkCalm(f, {g.selector}, cur, Graph(recs))
    BY <1>4 DEF StackCalm
  <2>2. /\ f1.call = f.call /\ f1.selector = f.selector /\ f1.at = f.at
        /\ IsEvaluation(f1) <=> IsEvaluation(f)
        /\ IsEvaluation(f) => f1.pending = f.pending
        /\ ~IsEvaluation(f) => f1 = f
        /\ g1.call = g.call /\ g1.selector = g.selector
        /\ IsEvaluation(g1) <=> IsEvaluation(g)
    BY <1>2, <1>4
  <2> HIDE DEF f, g, f1, g1
  <2>3. LinkCalm(f1, g1, Graph(recs))
    BY <2>1, <2>2 DEF LinkCalm
  <2>4. WalkCalm(f1, {g1.selector}, cur, Graph(recs))
    BY <2>1, <2>2 DEF WalkCalm, IsEvaluation
  <2> QED BY <2>3, <2>4 DEF f1, g1
<1>5. Descends(more)
  <2>1. Descends(stk)
    BY DEF StackCalm
  <2> QED BY <1>1a, <1>2, <2>1 DEF Descends
<1>6. Resettles(more, recs)
  <2> SUFFICES ASSUME NEW i \in DOMAIN stk, IsEvaluation(more[i]), recs[more[i].selector] # None
               PROVE  i > 1 /\ more[i - 1].selector = more[i].selector
    BY <1>1a DEF Resettles
  <2>1. i > 1 /\ stk[i - 1].selector = stk[i].selector
    BY <1>2 DEF StackCalm, Resettles
  <2>2. more[i - 1].selector = stk[i - 1].selector
    <3>1. i - 1 \in DOMAIN stk
      BY <2>1
    <3> QED BY <1>2, <3>1
  <2> QED BY <1>2, <2>1, <2>2
<1>7. StackCalm(more, cur, out, recs, sts)
  BY <1>1a, <1>3, <1>4, <1>5, <1>6 DEF StackCalm
<1>8. Calls(more) = Calls(stk)
  BY <1>1a, <1>2 DEF Calls
<1>9. InProgress(stk, sts) => InProgress(more, sts)
  BY <1>1a, <1>2 DEF InProgress
<1> QED BY <1>7, <1>8, <1>9

-----------------------------------------------------------------------------
\* The effective graph has only edges that getters may read.
Mayable(stk) ==
  /\ stk \in Seq(Range(stk))
  /\ \A i \in DOMAIN stk : IsEvaluation(stk[i]) =>
       /\ stk[i].deps \in Seq(Nodes)
       /\ \A d \in Range(stk[i].deps) \cap Selectors : <<stk[i].selector, d>> \in MayRead
RecordsMay ==
  \A s \in Selectors : /\ Deps(record, s) \in Seq(Nodes)
                       /\ \A d \in Range(Deps(record, s)) \cap Selectors : <<s, d>> \in MayRead

LEMMA EffectiveMay ==
  ASSUME RecordsMay, NEW stk, Mayable(stk), NEW id
  PROVE  EffectiveEdges(stk, id) \subseteq MayRead
<1> SUFFICES ASSUME NEW e \in EffectiveEdges(stk, id) PROVE e \in MayRead
  OBVIOUS
<1> DEFINE F == Frames(stk, id, e[1])
<1>1. /\ e \in Selectors \X Selectors
      /\ IF F = {} THEN Contains(Deps(record, e[1]), e[2]) ELSE Contains(stk[Max(F)].deps, e[2])
  BY DEF EffectiveEdges
<1>2. e = <<e[1], e[2]>> /\ e[1] \in Selectors /\ e[2] \in Selectors
  BY <1>1
<1>3. Len(stk) \in Nat /\ DOMAIN stk = 1..Len(stk)
  BY DEF Mayable
<1>4. CASE F = {}
  <2>1. e[2] \in Range(Deps(record, e[1]))
    BY <1>1, <1>2, <1>4, ContainsOK DEF RecordsMay
  <2>2. <<e[1], e[2]>> \in MayRead
    BY <1>2, <2>1 DEF RecordsMay
  <2> QED BY <1>2, <2>2
<1>5. CASE F # {}
  <2>1. F \subseteq 1..Len(stk) /\ \A i \in F : i \in DOMAIN stk /\ IsEvaluation(stk[i]) /\ stk[i].selector = e[1]
    BY <1>3 DEF Frames
  <2> DEFINE m == Max(F)
  <2>2. m \in F
    <3> HIDE DEF F
    <3> QED BY <1>3, <1>5, <2>1, MaxOK
  <2>3. m \in DOMAIN stk /\ IsEvaluation(stk[m]) /\ stk[m].selector = e[1] /\ Contains(stk[m].deps, e[2])
    BY <1>1, <1>5, <2>1, <2>2
  <2> HIDE DEF m, F
  <2>4. stk[m].deps \in Seq(Nodes)
        /\ \A d \in Range(stk[m].deps) \cap Selectors : <<stk[m].selector, d>> \in MayRead
    BY <2>3 DEF Mayable
  <2>5. e[2] \in Range(stk[m].deps)
    BY <2>3, <2>4, ContainsOK
  <2>6. <<e[1], e[2]>> \in MayRead
    BY <1>2, <2>3, <2>4, <2>5
  <2> QED BY <1>2, <2>6
<1> QED BY <1>4, <1>5

\* So no search finds a way back.
LEMMA NoSearchFinds ==
  ASSUME CannotCycle, RecordsMay, NEW stk, Mayable(stk), NEW id, NEW s,
         NEW d, d \in Selectors => <<s, d>> \in MayRead
  PROVE  ~PathExists(stk, id, d, s)
<1> SUFFICES ASSUME d \in Selectors, s \in ReachableFrom(EffectiveEdges(stk, id), d) PROVE FALSE
  BY DEF PathExists
<1>1. EffectiveEdges(stk, id) \subseteq MayRead
  BY EffectiveMay
<1>2. s \in ReachableFrom(MayRead, d)
  BY <1>1, MoreEdges
<1> QED BY <1>2, NoWayBack

LEMMA NothingCloses ==
  ASSUME CannotCycle, RecordsMay, NEW stk, Mayable(stk), NEW i \in DOMAIN stk, IsEvaluation(stk[i])
  PROVE  ClosingReads(stk, i) = {}
<1> DEFINE f == stk[i]
<1> SUFFICES ASSUME NEW n \in DOMAIN f.deps, PathExists(stk, f.session, f.deps[n], f.selector)
             PROVE  FALSE
  BY DEF ClosingReads
<1>1. f.deps[n] \in Selectors => <<f.selector, f.deps[n]>> \in MayRead
  BY DEF Mayable, Range
<1> HIDE DEF f
<1> QED BY <1>1, NoSearchFinds

\* And the accepted prefixes stay what they are.
LEMMA OwnPrefixSame ==
  ASSUME CannotCycle, RecordsMay, NEW stk, Mayable(stk), NEW i \in DOMAIN stk, IsEvaluation(stk[i]),
         FrameWF(stk[i])
  PROVE  Same(stk[i], OwnPrefix(stk, i))
<1> DEFINE f == stk[i]
           g == OwnPrefix(stk, i)
           p == <<graphVersion, Publications(f.session)>>
           h == [f EXCEPT !.observed = {}]
           q == <<graphVersion, Publications(h.session)>>
<1>1. ClosingReads(stk, i) = {}
  BY NothingCloses
<1>2. g = f \/ g = [f EXCEPT !.proof = p] \/ g = [h EXCEPT !.proof = q]
  BY <1>1, Zenon DEF OwnPrefix, Proved
<1>3. DOMAIN f = EvaluationFields /\ IsEvaluation(f)
  BY DEF FrameWF, IsEvaluation, EvaluationWF
<1> HIDE DEF f, g, p, q
<1>4. g = f => Same(f, g)
  BY DEF Same
<1>5. g = [f EXCEPT !.proof = p] => Same(f, g)
  BY <1>3 DEF Same, EvaluationFields
<1>6. g = [h EXCEPT !.proof = q] => Same(f, g)
  BY <1>3 DEF Same, EvaluationFields, h
<1>7. Same(f, g)
  BY <1>2, <1>4, <1>5, <1>6
<1> QED BY <1>7 DEF f, g

LEMMA RevalidatedSame ==
  ASSUME CannotCycle, RecordsMay, NEW stk, Mayable(stk), stk # <<>>, IsEvaluation(Last(stk)),
         \A i \in DOMAIN stk : FrameWF(stk[i])
  PROVE  SameStack(stk, Revalidated(stk)) /\ Stacked(Revalidated(stk)) /\ Mayable(Revalidated(stk))
<1> DEFINE n == Len(stk)
           due == Due(stk)
           S(w, i) == IF i \in due THEN [w EXCEPT ![i] = OwnPrefix(w, i)] ELSE w
           Good(w) == /\ SameStack(stk, w) /\ w \in Seq(Range(w)) /\ Len(w) = n
                      /\ \A i \in 1..n : FrameWF(w[i])
<1>0. stk \in Seq(Range(stk))
  BY DEF Mayable
<1>1. n \in Nat \ {0} /\ DOMAIN stk = 1..n
  BY <1>0
<1>2. \A i \in due : i \in 1..n /\ IsEvaluation(stk[i])
  BY <1>1 DEF Last, Due
<1> HIDE DEF due
<1>3. PICK v : Revalidating(v, stk) /\ Revalidated(stk) = v[n]
  BY <1>0, RevalidatedSteps
<1>4. v[0] = stk /\ \A i \in 1..n : v[i] = S(v[i - 1], i)
  BY <1>3 DEF Revalidating, due
<1>5. Good(stk)
  BY <1>0, <1>1 DEF SameStack, Same
<1>6. ASSUME NEW w, Good(w) PROVE Mayable(w)
  <2>1. \A i \in 1..n : IsEvaluation(w[i]) => /\ IsEvaluation(stk[i]) /\ w[i].deps = stk[i].deps
                                               /\ w[i].selector = stk[i].selector
    BY <1>1, <1>6 DEF SameStack, Same, IsEvaluation
  <2> QED BY <1>1, <1>6, <2>1 DEF Mayable, SameStack
<1>7. ASSUME NEW w, Good(w), NEW i \in 1..n
      PROVE  Good(S(w, i))
  <2>1. CASE i \notin due
    BY <1>7, <2>1
  <2>2. CASE i \in due
    <3> DEFINE g == OwnPrefix(w, i)
               z == [w EXCEPT ![i] = g]
               X == Range(w) \cup {g}
    <3>1. FrameWF(w[i]) /\ Same(stk[i], w[i]) /\ i \in DOMAIN w
      BY <1>1, <1>7 DEF SameStack
    <3>2. IsEvaluation(stk[i]) /\ IsEvaluation(w[i])
      BY <1>2, <2>2, <3>1 DEF Same, IsEvaluation
    <3>3. FrameWF(g) /\ IsEvaluation(g)
      BY <3>1, <3>2, OwnPrefixOK
    <3>4. Same(w[i], g)
      BY <1>6, <1>7, <3>1, <3>2, OwnPrefixSame
    <3> HIDE DEF g
    <3>5. Same(stk[i], g)
      BY <3>1, <3>2, <3>4 DEF Same
    <3>6. w \in Seq(X) /\ g \in X /\ Len(w) = n
      BY <1>7, SeqMonotonic
    <3> HIDE DEF X
    <3>7. /\ z \in Seq(X) /\ Len(z) = n /\ z[i] = g
          /\ \A j \in 1..n : j # i => z[j] = w[j]
      BY <1>1, <3>6
    <3> HIDE DEF z
    <3>8. z \in Seq(Range(z)) /\ DOMAIN z = 1..n
      BY <3>7, SeqOfRange
    <3>9. \A j \in 1..n : FrameWF(z[j]) /\ Same(stk[j], z[j])
      BY <1>1, <1>7, <3>3, <3>5, <3>7 DEF SameStack
    <3>10. Good(z)
      BY <1>1, <3>7, <3>8, <3>9 DEF SameStack
    <3> QED BY <2>2, <3>10 DEF z, g
  <2> QED BY <2>1, <2>2
<1>8. \A i \in 0..n : Good(v[i])
  <2> DEFINE G == {i \in 0..n : Good(v[i])}
  <2> HIDE DEF Good, n, S
  <2>1. 0 \in G
    BY <1>1, <1>4, <1>5
  <2>2. \A i \in 1..n : i - 1 \in G => i \in G
    <3> TAKE i \in 1..n
    <3>1. i \in 0..n
      BY <1>1
    <3> QED BY <1>4, <1>7, <3>1
  <2>3. \A i \in 0..n : i \in G
    <3> HIDE DEF G
    <3> QED BY <1>1, <2>1, <2>2, IntervalInduction
  <2> QED BY <2>3
<1>9. Good(v[n])
  <2> HIDE DEF Good
  <2> QED BY <1>1, <1>8
<1>10. Mayable(v[n])
  BY <1>6, <1>9
<1>11. Stacked(v[n])
  BY <1>1, <1>9 DEF Stacked
<1> QED BY <1>3, <1>9, <1>10, <1>11

\* What was read may be read.
LEMMA GetsMay ==
  ASSUME NEW s \in Selectors, NEW out, NEW r, Gets(body[s], out, r)
  PROVE  \A d \in ReadNodes(body[s], r) \cap Selectors : <<s, d>> \in MayRead
<1> SUFFICES ASSUME NEW i \in 1..Len(r), ReadAt(body[s], r, i) \in Selectors
             PROVE  <<s, ReadAt(body[s], r, i)>> \in MayRead
  BY DEF ReadNodes
<1> DEFINE q == SubSeq(r, 1, i - 1)
<1>1. r \in Seq(Answers) /\ Len(r) <= MaxReads /\ q \in Seq(Values) /\ Len(r) \in Nat /\ MaxReads \in Nat
  BY MaxReadsAssumption DEF Gets
<1>2. Len(q) < MaxReads
  <2>1. Len(q) = i - 1
    BY <1>1
  <2> QED BY <1>1, <2>1
<1>3. ReadAt(body[s], r, i) = body[s].next[q]
  BY DEF ReadAt
<1> HIDE DEF q
<1> QED BY <1>1, <1>2, <1>3, ReadMay

LEMMA AllMay ==
  ASSUME IInv, Calm
  PROVE  RecordsMay /\ Mayable(stack)
<1>1. RecordsMay
  <2> SUFFICES ASSUME NEW s \in Selectors
               PROVE  /\ Deps(record, s) \in Seq(Nodes)
                      /\ \A d \in Range(Deps(record, s)) \cap Selectors : <<s, d>> \in MayRead
    BY DEF RecordsMay
  <2>1. CASE record[s] = None
    <3>1. Deps(record, s) = <<>> /\ Range(<<>>) = {}
      BY <2>1 DEF Deps, Range
    <3> QED BY <3>1
  <2>2. CASE record[s] # None
    <3>1. Deps(record, s) \in Seq(Nodes)
      BY <2>2 DEF IInv, DataOK, RecordsOK, RecordWF, Records, Deps
    <3>2. Graph(record)[s] = Range(Deps(record, s)) \cap Selectors
      BY DEF Graph
    <3>3. \A d \in Graph(record)[s] : <<s, d>> \in MayRead
      BY <2>2 DEF Calm, RecordsCalm
    <3> QED BY <3>1, <3>2, <3>3
  <2> QED BY <2>1, <2>2
<1>2. ASSUME NEW i \in DOMAIN stack, IsEvaluation(stack[i])
      PROVE  /\ stack[i].deps \in Seq(Nodes)
             /\ \A d \in Range(stack[i].deps) \cap Selectors : <<stack[i].selector, d>> \in MayRead
  <2> DEFINE f == stack[i]
  <2>1. EvaluationWF(f)
    BY <1>2 DEF IInv, StackOK, FrameWF, IsEvaluation
  <2>2. EvaluationCalm(f, Current, Serves(value, record))
    BY <1>2 DEF Calm, StackCalm, FrameCalm
  <2> HIDE DEF f
  <2>3. f.selector \in Selectors /\ f.deps \in Seq(Nodes)
    BY <2>1 DEF EvaluationWF
  <2>4. \A d \in ReadNodes(body[f.selector], f.reads) \cap Selectors : <<f.selector, d>> \in MayRead
    BY <2>2, <2>3, GetsMay DEF EvaluationCalm
  <2>5. Range(f.deps) = ReadNodes(body[f.selector], f.reads)
    BY <2>2 DEF EvaluationCalm
  <2> QED BY <2>3, <2>4, <2>5 DEF f
<1>3. stack \in Seq(Range(stack))
  BY StackFacts
<1> QED BY <1>1, <1>2, <1>3 DEF Mayable

LEMMA CapturedRange ==
  ASSUME NEW f, f.deps \in Seq(Nodes), NEW d \in Nodes
  PROVE  Range(Captured(f, d)) = Range(f.deps) \cup {d}
<1>1. CASE Contains(f.deps, d)
  BY <1>1, ContainsOK DEF Captured
<1>2. CASE ~Contains(f.deps, d)
  <2> DEFINE q == f.deps
             n == Len(q)
             m == Append(q, d)
  <2>1. /\ n \in Nat /\ DOMAIN q = 1..n /\ DOMAIN m = 1..n + 1 /\ m[n + 1] = d
        /\ \A i \in 1..n : m[i] = q[i]
    OBVIOUS
  <2> HIDE DEF q, n, m
  <2>2. \A i \in 1..n + 1 : i \in 1..n \/ i = n + 1
    BY <2>1
  <2>3. n + 1 \in 1..n + 1 /\ \A i \in 1..n : i \in 1..n + 1
    BY <2>1
  <2>4. Range(m) = Range(q) \cup {d}
    BY <2>1, <2>2, <2>3 DEF Range
  <2> QED BY <1>2, <2>4 DEF Captured, m, q
<1> QED BY <1>1, <1>2

\* What a node serves is an answer.
LEMMA ServesAnswers ==
  ASSUME IInv, NEW d \in Current \cup Atoms
  PROVE  /\ d \in Nodes /\ Serves(value, record)[d] \in Answers
         /\ Serves(value, record)[d] = IF d \in Atoms THEN value[d] ELSE record[d].out
<1>1. CASE d \in Atoms
  BY <1>1 DEF Nodes, Serves, Answers, IInv, DataOK
<1>2. CASE d \notin Atoms
  <2>1. d \in Selectors /\ record[d] # None
    BY <1>2 DEF Current
  <2>2. record[d].out \in Answers
    BY <2>1 DEF IInv, DataOK, RecordsOK, RecordWF, Records, Answers
  <2> QED BY <1>2, <2>1, <2>2 DEF Nodes, Serves
<1> QED BY <1>1, <1>2

\* An evaluation that has got one answer more.
LEMMA CalmMore ==
  ASSUME IInv, NEW f, IsEvaluation(f), FrameWF(f), f.at = "served",
         FrameCalm(f, Current, Serves(value, record), record, status),
         f.pending \in Current \cup Atoms,
         NEW g, g.call = f.call, g.selector = f.selector, g.cycle = f.cycle,
         g.provisional = f.provisional, g.baseline = f.baseline,
         g.deps = Captured(f, f.pending),
         g.reads = Append(f.reads, Serves(value, record)[f.pending]),
         g.at = IF Serves(value, record)[f.pending] = Error THEN "failed" ELSE "running"
  PROVE  FrameCalm(g, Current, Serves(value, record), record, status) /\ TopCalm(g, Current, record)
<1> DEFINE d == f.pending
           out == Serves(value, record)
           cur == Current
           b == body[f.selector]
<1>1. f.deps \in Seq(Nodes) /\ f.reads \in Seq(Values) /\ Len(f.reads) < MaxReads
  BY DEF FrameWF, IsEvaluation, EvaluationWF, ReadsWF
<1>2. EvaluationCalm(f, cur, out) /\ f.baseline = BaselineOf(record[f.selector])
  BY DEF FrameCalm
<1>3. d \in Nodes /\ out[d] \in Answers /\ d \in cur \cup Atoms
  BY ServesAnswers
<1> HIDE DEF d, out, cur, b
<1>4. d = b.next[f.reads] /\ Gets(b, out, f.reads) /\ Range(f.deps) = ReadNodes(b, f.reads)
      /\ Range(f.deps) \cap Selectors \subseteq cur
  BY <1>2 DEF EvaluationCalm, d, b
<1>5. /\ Gets(b, out, g.reads) /\ ReadNodes(b, g.reads) = ReadNodes(b, f.reads) \cup {d}
      /\ g.reads # <<>> /\ Last(g.reads) = out[d]
  <2> DEFINE r == f.reads
             x == out[d]
             q == g.reads
  <2>1. q = Append(r, x)
    BY DEF out, d
  <2>2. /\ r \in Seq(Values) /\ Gets(b, out, r) /\ Len(r) < MaxReads /\ d \in Nodes
        /\ d = b.next[r] /\ x \in Answers /\ x = out[d]
    BY <1>1, <1>3, <1>4
  <2> HIDE DEF r, x, q
  <2>3. Gets(b, out, q)
    BY <2>1, <2>2, GetsMore
  <2>4. ReadNodes(b, q) = ReadNodes(b, r) \cup {d}
    <3>1. r \in Seq(Values) /\ \E y \in Answers : q = Append(r, y)
      BY <2>1, <2>2
    <3>2. ReadNodes(b, q) = ReadNodes(b, r) \cup {Asks(b, r)}
      BY <3>1, ReadNodesMore
    <3>3. Asks(b, r) = d
      BY <2>2 DEF Asks
    <3> QED BY <3>2, <3>3
  <2>5. q # <<>> /\ Last(q) = x
    <3>1. r \in Seq(Answers) /\ x \in Answers
      BY <2>2 DEF Answers
    <3> QED BY <2>1, <3>1 DEF Last
  <2> QED BY <2>3, <2>4, <2>5 DEF r, x, q
<1>6. Range(g.deps) = Range(f.deps) \cup {d}
  BY <1>1, <1>3, CapturedRange DEF d
<1>7. Range(g.deps) = ReadNodes(b, g.reads)
  BY <1>4, <1>5, <1>6
<1>8. Range(g.deps) \cap Selectors \subseteq cur
  BY <1>3, <1>4, <1>6, NodesAssumption
<1>9. g.at \in {"running", "failed"} /\ (g.at = "failed" => out[d] = Error)
  BY DEF out, d
<1>10. EvaluationCalm(g, cur, out)
  BY <1>2, <1>5, <1>7, <1>8, <1>9 DEF EvaluationCalm, b
<1>11. g.call = "evaluate"
  BY DEF IsEvaluation
<1>12. FrameCalm(g, cur, out, record, status)
  BY <1>2, <1>10, <1>11 DEF FrameCalm
<1>13. TopCalm(g, cur, record)
  BY <1>9, <1>11 DEF TopCalm, WalkCalm
<1> QED BY <1>12, <1>13 DEF cur, out

\* Accept: no search finds a way back, and the read is accepted.
LEMMA AcceptCalm == IInv /\ Calm /\ CannotCycle /\ Accept /\ UNCHANGED history => Calm'
<1> SUFFICES ASSUME IInv, Calm, CannotCycle, Accept, UNCHANGED history PROVE Calm'
  OBVIOUS
<1> DEFINE d == Top.pending
           stk == Revalidated(stack)
           f == Last(stk)
           out == IF d \in Atoms THEN value[d] ELSE record[d].out
           token == IF d \in Atoms THEN None ELSE record[d].token
           g == AfterServe(stk, f, d, out, token)
           cur == Current
           serves == Serves(value, record)
<1>1. stack # <<>> /\ IsEvaluation(Top) /\ Top.at = "served"
      /\ stack' = [stk EXCEPT ![Len(stk)] = g]
      /\ UNCHANGED <<body, value, graphVars, mode, history>>
  BY DEF Accept, EvaluationAt
<1>2. /\ FrameCalm(Top, cur, serves, record, status) /\ TopCalm(Top, cur, record)
      /\ StackCalm(stack, cur, serves, record, status) /\ InProgress(stack, status)
      /\ Len(stack) \in DOMAIN stack /\ Top = stack[Len(stack)] /\ Last(stack) = Top
      /\ DOMAIN stack = 1..Len(stack) /\ Len(stack) \in Nat
  BY <1>1, CalmFacts
<1>3. RecordsMay /\ Mayable(stack) /\ stack \in Seq(Range(stack)) /\ \A i \in DOMAIN stack : FrameWF(stack[i])
  BY AllMay, StackIsStacked DEF Stacked
<1>4. SameStack(stack, stk) /\ Stacked(stk) /\ Mayable(stk)
  BY <1>1, <1>2, <1>3, RevalidatedSame
<1>5. d \in cur \cup Atoms
  BY <1>1, <1>2 DEF TopCalm
<1>6. d \in Nodes /\ serves[d] = out /\ out \in Answers
  BY <1>5, ServesAnswers
<1> HIDE DEF out, token, stk
<1>7. StackCalm(stk, cur, serves, record, status) /\ Calls(stk) = Calls(stack) /\ InProgress(stk, status)
  <2> HIDE DEF cur, serves
  <2> QED BY <1>2, <1>3, <1>4, CalmSame
<1>8. /\ Len(stk) = Len(stack) /\ stk # <<>> /\ f = stk[Len(stack)] /\ Same(Top, f)
      /\ Len(stack) \in DOMAIN stk /\ FrameWF(f) /\ stk \in Seq(Range(stk))
  <2>1. stk \in Seq(Range(stk)) /\ DOMAIN stk = DOMAIN stack
    BY <1>4 DEF Stacked, SameStack
  <2>2. Len(stk) = Len(stack) /\ stk # <<>>
    BY <1>2, <2>1
  <2> QED BY <1>2, <1>4, <2>1, <2>2 DEF Last, SameStack, Stacked
<1>9. FrameCalm(f, cur, serves, record, status)
  BY <1>7, <1>8 DEF StackCalm
<1> HIDE DEF f, d
<1>10. IsEvaluation(f) /\ f.at = "served" /\ f.pending = d /\ f.selector = Top.selector /\ f.call = Top.call
  BY <1>1, <1>8 DEF Same, IsEvaluation, d
<1>11. EvaluationWF(f) /\ f.call = "evaluate"
  BY <1>8, <1>10 DEF FrameWF, IsEvaluation
<1>12. f.cycle = None /\ d = body[f.selector].next[f.reads]
  BY <1>9, <1>10 DEF FrameCalm, EvaluationCalm
<1>13. ~PathExists(stk, f.session, d, f.selector)
  <2>1. f.reads \in Seq(Values) /\ Len(f.reads) < MaxReads /\ f.selector \in Selectors
    BY <1>10, <1>11 DEF EvaluationWF, ReadsWF
  <2>2. d \in Selectors => <<f.selector, d>> \in MayRead
    BY <1>12, <2>1, ReadMay
  <2> QED BY <1>3, <1>4, <2>2, NoSearchFinds
<1> DEFINE at == IF out = Error THEN "failed" ELSE "running"
           tokens == IF Contains(f.deps, d) THEN f.tokens ELSE Append(f.tokens, token)
           observed == IF f.observed = None /\ d \in Selectors THEN {} ELSE f.observed
           h == [f EXCEPT !.at = at, !.pending = None, !.deps = Captured(f, d),
                          !.tokens = tokens, !.reads = Append(f.reads, out), !.observed = observed]
<1>14. g = Proved(h)
  BY <1>12, <1>13, Zenon DEF AfterServe
<1> HIDE DEF tokens, at, observed, g
<1>15. /\ g.call = f.call /\ g.selector = f.selector /\ g.cycle = f.cycle
       /\ g.provisional = f.provisional /\ g.baseline = f.baseline
       /\ g.deps = Captured(f, d) /\ g.reads = Append(f.reads, out) /\ g.at = at
  <2>1. DOMAIN f = EvaluationFields
    BY <1>11 DEF EvaluationWF
  <2> DEFINE c == Captured(f, d)
             r == Append(f.reads, out)
             p == <<graphVersion, Publications(h.session)>>
  <2>2. g = [h EXCEPT !.proof = p]
    BY <1>14 DEF Proved
  <2>3. h = [f EXCEPT !.at = at, !.pending = None, !.deps = c, !.tokens = tokens, !.reads = r,
                      !.observed = observed]
    OBVIOUS
  <2> HIDE DEF c, r, p, h
  <2>4. /\ g.call = f.call /\ g.selector = f.selector /\ g.cycle = f.cycle
        /\ g.provisional = f.provisional /\ g.baseline = f.baseline
        /\ g.deps = c /\ g.reads = r /\ g.at = at
    BY <2>1, <2>2, <2>3 DEF EvaluationFields
  <2> QED BY <2>4 DEF c, r
<1> HIDE DEF h
<1>16. FrameCalm(g, cur, serves, record, status) /\ TopCalm(g, cur, record)
  BY <1>5, <1>6, <1>8, <1>9, <1>10, <1>15, CalmMore DEF at, cur, serves
<1> HIDE DEF cur, serves
<1>17. Last(stk) = f
  BY DEF f
<1>18. StackCalm(stack', cur, serves, record, status)
  BY <1>1, <1>4, <1>7, <1>8, <1>15, <1>16, <1>17, CalmTop
<1>19. InProgress(stack', status) /\ Calls(stack') = Calls(stack)
  <2>1. /\ g.call = Last(stk).call /\ g.selector = Last(stk).selector
        /\ ~(Last(stk).call = "settle" /\ Last(stk).at # "entered")
    BY <1>11, <1>15, <1>17
  <2> DEFINE more == [stk EXCEPT ![Len(stk)] = g]
  <2>2. InProgress(more, status) /\ Calls(more) = Calls(stk)
    BY <1>7, <1>8, <2>1, CallsTop
  <2> HIDE DEF more
  <2>3. stack' = more
    BY <1>1 DEF more
  <2> QED BY <1>7, <2>2, <2>3
<1>20. Last(stack') = g
  <2>1. Len(stack') = Len(stk) /\ stack'[Len(stk)] = g
    BY <1>1, <1>8, ReplaceSeq
  <2> QED BY <2>1 DEF Last
<1> QED BY <1>1, <1>16, <1>18, <1>19, <1>20, CalmOnlyStack DEF cur, serves

\* A step of a settle: the records, the marks and the queue stay.
LEMMA CalmSettles ==
  ASSUME Calm, stack # <<>>, UNCHANGED <<body, value, record, dirty, routes, queue, mode, reached, provisional, history>>,
         \A s \in Selectors : /\ "queued" \in status'[s] => "queued" \in status[s]
                              /\ "settled" \in status[s] => "settled" \in status'[s],
         \A s \in Calls(stack) : s \in Calls(stack') \/ (s \notin dirty /\ "settled" \in status'[s]),
         \A s \in Current' : s \in Current \/ (s \notin dirty /\ Graph(record)[s] \subseteq Current'),
         StackCalm(stack', Current', Serves(value, record), record, status'),
         stack' # <<>> => TopCalm(Last(stack'), Current', record),
         InProgress(stack', status')
  PROVE  Calm'
<1>1. UNCHANGED <<evaluations, before>>
  BY DEF history
<1>2. MayRead' = MayRead /\ Outcomes' = Outcomes /\ Current \subseteq Current'
  <2>1. MayRead' = MayRead /\ Outcomes' = Outcomes
    BY DEF MayRead, Outcomes
  <2> QED BY <1>1, <2>1 DEF Current
<1>3. RecordsCalm'
  <2>1. RecordsCalm
    BY DEF Calm
  <2> QED BY <1>2, <2>1 DEF RecordsCalm
<1>4. LatchesCalm' /\ HistoryCalm'
  <2>1. LatchesCalm /\ HistoryCalm
    BY DEF Calm
  <2> QED BY <1>1, <1>2, <2>1 DEF LatchesCalm, HistoryCalm
<1>5. MarksCalm'
  <2>1. MarksCalm
    BY DEF Calm
  <2>2. \A s \in Current' : s \notin dirty /\ Graph(record)[s] \subseteq Current'
    BY <1>2, <2>1 DEF MarksCalm
  <2> QED BY <2>1, <2>2 DEF MarksCalm
<1>6. PendingCalm'
  <2>1. PendingCalm
    BY DEF Calm
  <2>2. Calls(stack)' = Calls(stack')
    BY DEF Calls
  <2>3. dirty \subseteq Range(queue) \cup Calls(stack')
    BY <2>1 DEF PendingCalm
  <2>4. \A s \in Selectors : "queued" \in status'[s] /\ "settled" \notin status'[s] =>
          s \in Range(queue) \cup Calls(stack')
    BY <2>1 DEF PendingCalm
  <2> QED BY <2>2, <2>3, <2>4 DEF PendingCalm
<1>7. StackCalm(stack, Current, Serves(value, record), record, status)'
  BY CalmNext
<1>8. (stack # <<>> => TopCalm(Top, Current, record))'
  BY DEF Top
<1>9. InProgress(stack, status)'
  BY DEF InProgress
<1>10. mode' # "idle"
  BY DEF Calm
<1> QED BY <1>3, <1>4, <1>5, <1>6, <1>7, <1>8, <1>9, <1>10 DEF Calm

\* A selector that is being settled is not entered again.
LEMMA NotReentered ==
  ASSUME IInv, Calm, stack # <<>>, Top.call = "settle", Top.at = "entered"
  PROVE  {"walking", "settling"} \cap Top.entered = {} /\ Top.entered = status[Top.selector]
<1> DEFINE n == Len(stack)
           s == Top.selector
<1>1. /\ FrameCalm(Top, Current, Serves(value, record), record, status)
      /\ StackCalm(stack, Current, Serves(value, record), record, status)
      /\ InProgress(stack, status)
      /\ s \in Selectors /\ Top = stack[n] /\ DOMAIN stack = 1..n /\ n \in Nat /\ n \in DOMAIN stack
  BY CalmFacts
<1>2. Top.entered = status[s]
  BY <1>1 DEF FrameCalm, SettleCalm
<1> HIDE DEF n, s
<1>3. ASSUME {"walking", "settling"} \cap status[s] # {}
      PROVE  FALSE
  <2>1. PICK i \in DOMAIN stack : /\ stack[i].call = "settle" /\ stack[i].at # "entered"
                                  /\ stack[i].selector = s
    BY <1>1, <1>3 DEF InProgress
  <2>2. i # n
    BY <1>1, <2>1
  <2>3. i < n
    BY <1>1, <2>1, <2>2
  <2>4. Descends(stack)
    BY <1>1 DEF StackCalm
  <2>5. n = i + 1
    BY <1>1, <2>1, <2>3, <2>4 DEF Descends, s
  <2>6. stack[i].at = "evaluated"
    BY <1>1, <2>1, <2>3, <2>4 DEF Descends, s
  <2>7. LinkCalm(stack[i], stack[n], Graph(record))
    BY <1>1, <2>5 DEF StackCalm
  <2>8. stack[n].call = "settle"
    BY <1>1
  <2> QED BY <2>1, <2>6, <2>7, <2>8 DEF LinkCalm, IsEvaluation
<1> QED BY <1>2, <1>3 DEF s

\* A settle returns to its caller: its selector is up to date.
LEMMA CalmReturning ==
  ASSUME Stacked(stack), stack # <<>>, Top.call = "settle",
         NEW cur, NEW out, NEW recs, NEW sts, StackCalm(stack, cur, out, recs, sts),
         InProgress(stack, sts),
         NEW cur1, cur1 = cur \cup {Top.selector},
         NEW sts1, \A s \in Selectors : s # Top.selector => sts1[s] = sts[s],
         {"walking", "settling"} \cap sts1[Top.selector] = {}
  PROVE  /\ StackCalm(Returning("settled"), cur1, out, recs, sts1)
         /\ Returning("settled") # <<>> => TopCalm(Last(Returning("settled")), cur1, recs)
         /\ InProgress(Returning("settled"), sts1)
         /\ \A s \in Calls(stack) : s \in Calls(Returning("settled")) \/ s = Top.selector
<1> DEFINE rest == Front(stack)
           n == Len(stack)
           s == Top.selector
           f == Last(rest)
           g == [f EXCEPT !.currentness = Fold(@, "settled")]
           more == [rest EXCEPT ![Len(rest)] = g]
<1>1. /\ rest \in Seq(Range(rest))
      /\ n \in Nat \ {0} /\ Len(rest) = n - 1
      /\ DOMAIN stack = 1..n /\ DOMAIN rest = 1..(n - 1)
      /\ \A i \in DOMAIN rest : i \in DOMAIN stack /\ rest[i] = stack[i]
      /\ rest # <<>> => n - 1 \in DOMAIN rest
      /\ stack[n] = Top /\ Last(stack) = Top
  BY PopSeq DEF Stacked, Top, Last
<1>2. Stacked(rest)
  BY <1>1 DEF Stacked
<1>3. /\ StackCalm(rest, cur, out, recs, sts)
      /\ rest # <<>> =>
           /\ LinkCalm(f, Top, Graph(recs))
           /\ WalkCalm(f, {s}, cur, Graph(recs))
      /\ \A i \in DOMAIN rest : rest[i].selector = s =>
           i = Len(rest) /\ rest[i].call = "settle" /\ rest[i].at = "evaluated"
  BY <1>1, CalmPop
<1> HIDE DEF n, s, rest
<1>4. StackCalm(rest, cur1, out, recs, sts1)
  <2>1. \A i \in DOMAIN rest : IsEvaluation(rest[i]) => rest[i].selector \notin cur
    BY <1>3 DEF StackCalm, FrameCalm, EvaluationCalm
  <2>2. \A i \in DOMAIN rest : IsEvaluation(rest[i]) => rest[i].selector # s
    BY <1>3 DEF IsEvaluation
  <2>3. \A i \in DOMAIN rest : IsEvaluation(rest[i]) => rest[i].selector \notin cur1
    BY <2>1, <2>2 DEF s
  <2>4. \A i \in DOMAIN rest :
           rest[i].call = "settle" /\ rest[i].at = "entered" => sts1[rest[i].selector] = sts[rest[i].selector]
    <3>1. \A i \in DOMAIN rest : rest[i].selector \in Selectors
      BY <1>2 DEF Stacked, FrameWF, EvaluationWF, SettleWF
    <3> QED BY <1>3, <3>1 DEF s
  <2> QED BY <1>2, <1>3, <2>3, <2>4, CalmChange
<1>5. InProgress(rest, sts1)
  <2> SUFFICES ASSUME NEW t \in Selectors, {"walking", "settling"} \cap sts1[t] # {}
               PROVE  \E i \in DOMAIN rest : rest[i].call = "settle" /\ rest[i].at # "entered"
                                             /\ rest[i].selector = t
    BY DEF InProgress
  <2>1. t # s
    BY DEF s
  <2>2. {"walking", "settling"} \cap sts[t] # {}
    BY <2>1 DEF s
  <2>3. PICK i \in DOMAIN stack : stack[i].call = "settle" /\ stack[i].at # "entered"
                                  /\ stack[i].selector = t
    BY <2>2 DEF InProgress
  <2>4. i # n
    BY <1>1, <2>1, <2>3 DEF s
  <2>5. i \in DOMAIN rest
    BY <1>1, <2>4
  <2> QED BY <1>1, <2>3, <2>5
<1>6. \A t \in Calls(stack) : t \in Calls(rest) \/ t = s
  <2> SUFFICES ASSUME NEW i \in DOMAIN stack, stack[i].selector # s
               PROVE  stack[i].selector \in Calls(rest)
    BY DEF Calls
  <2>1. i \in DOMAIN rest
    BY <1>1 DEF s
  <2> QED BY <1>1, <2>1 DEF Calls
<1>7. rest # <<>> => TopCalm(f, cur1, recs)
  BY <1>3, CalmUncovered DEF s
<1>8. CASE ~(rest # <<>> /\ f.call = "settle")
  <2>1. Returning("settled") = rest
    BY <1>8, Zenon DEF Returning, rest
  <2> QED BY <1>4, <1>5, <1>6, <1>7, <2>1 DEF s
<1>9. CASE rest # <<>> /\ f.call = "settle"
  <2>1. Returning("settled") = [rest EXCEPT ![Len(rest)].currentness = Fold(@, "settled")]
    BY <1>9, Zenon DEF Returning, rest
  <2>2. Returning("settled") = more
    BY <1>1, <2>1 DEF Last
  <2>3. FrameWF(f) /\ SettleWF(f) /\ FrameCalm(f, cur1, out, recs, sts1)
    <3>1. f = rest[n - 1] /\ n - 1 \in DOMAIN rest
      BY <1>1, <1>9 DEF Last
    <3>2. FrameWF(f) /\ FrameCalm(f, cur1, out, recs, sts1)
      BY <1>2, <1>4, <3>1 DEF Stacked, StackCalm
    <3> QED BY <1>9, <3>2 DEF FrameWF
  <2>4. SettleCalm(f, recs, sts1) /\ f.currentness = "settled"
    BY <1>9, <2>3 DEF FrameCalm, SettleCalm
  <2>5. Fold(f.currentness, "settled") = "settled"
    BY <2>4 DEF Fold
  <2> HIDE DEF f
  <2>6. /\ g.call = f.call /\ g.selector = f.selector /\ g.at = f.at /\ g.todo = f.todo
        /\ g.provisional = f.provisional /\ g.entered = f.entered /\ g.currentness = "settled"
    BY <2>3, <2>5 DEF SettleWF, SettleFields
  <2> HIDE DEF g
  <2>7. FrameCalm(g, cur1, out, recs, sts1)
    <3>1. SettleCalm(g, recs, sts1)
      BY <2>4, <2>6 DEF SettleCalm
    <3> QED BY <1>9, <2>6, <3>1 DEF FrameCalm, IsEvaluation
  <2>8. TopCalm(g, cur1, recs)
    BY <1>7, <1>9, <2>6 DEF TopCalm, WalkCalm, IsEvaluation
  <2>9. StackCalm(more, cur1, out, recs, sts1)
    BY <1>2, <1>4, <1>9, <2>6, <2>7, CalmTop DEF f
  <2>10. InProgress(more, sts1) /\ Calls(more) = Calls(rest)
    BY <1>1, <1>5, <1>9, <2>6, CallsTop DEF f
  <2>11. Last(more) = g
    <3>1. Len(more) = Len(rest) /\ more[Len(rest)] = g
      BY <1>1, <1>9, ReplaceSeq
    <3> QED BY <3>1 DEF Last
  <2> HIDE DEF more
  <2> QED BY <1>6, <2>2, <2>8, <2>9, <2>10, <2>11 DEF s
<1> QED BY <1>8, <1>9

\* The recorded dependencies that are selectors are what it leads to.
LEMMA SelectorDepsGraph ==
  ASSUME RecordsOK, NEW s \in Selectors
  PROVE  Range(SelectorDeps(s)) = Graph(record)[s]
<1> DEFINE deps == Deps(record, s)
           n == Len(deps)
           X(i) == {deps[j] : j \in 1..i} \cap Selectors
<1>1. deps \in Seq(Nodes)
  BY SelectorDepsSteps
<1>2. n \in Nat /\ DOMAIN deps = 1..n
  BY <1>1
<1>3. PICK v : Collecting(v, s) /\ SelectorDeps(s) = v[n]
  BY SelectorDepsSteps
<1>4. /\ v[0] = <<>>
      /\ \A i \in 1..n : v[i] = IF deps[i] \in Selectors THEN Append(v[i - 1], deps[i]) ELSE v[i - 1]
      /\ \A i \in 0..n : v[i] \in Seq(Selectors)
  BY <1>3 DEF Collecting
<1> HIDE DEF deps, n
<1> DEFINE D == {i \in 0..n : Range(v[i]) = X(i)}
<1>5. 0 \in D
  <2>1. Range(<<>>) = {} /\ 1..0 = {} /\ 0 \in 0..n
    BY <1>2 DEF Range
  <2>2. X(0) = {}
    BY <2>1
  <2> HIDE DEF X
  <2> QED BY <1>4, <2>1, <2>2
<1>6. ASSUME NEW i \in 1..n, i - 1 \in D PROVE i \in D
  <2>1. i \in 0..n /\ i - 1 \in 0..n /\ 1..i = (1..(i - 1)) \cup {i}
    BY <1>2
  <2>2. Range(v[i - 1]) = X(i - 1)
    BY <1>6
  <2>3. X(i) = X(i - 1) \cup ({deps[i]} \cap Selectors)
    BY <2>1
  <2>4. v[i - 1] \in Seq(Selectors)
    BY <1>4, <2>1
  <2>5. CASE deps[i] \in Selectors
    <3>1. v[i] = Append(v[i - 1], deps[i])
      BY <1>4, <2>5
    <3>2. Range(v[i]) = Range(v[i - 1]) \cup {deps[i]}
      <4> DEFINE w == v[i - 1]
                 d == deps[i]
      <4> HIDE DEF w, d
      <4>1. w \in Seq(Selectors) /\ d \in Selectors
        BY <2>4, <2>5 DEF w, d
      <4>2. Range(Append(w, d)) = Range(w) \cup {d}
        BY <4>1, AppendProperties DEF Range
      <4> QED BY <3>1, <4>2 DEF w, d
    <3> HIDE DEF X
    <3>3. Range(v[i]) = X(i)
      BY <2>2, <2>3, <2>5, <3>2
    <3> QED BY <2>1, <3>3
  <2>6. CASE deps[i] \notin Selectors
    <3>1. v[i] = v[i - 1]
      BY <1>4, <2>6
    <3>2. X(i) = X(i - 1)
      BY <2>3, <2>6
    <3> HIDE DEF X
    <3> QED BY <2>1, <2>2, <3>1, <3>2
  <2> QED BY <2>5, <2>6
<1>7. \A i \in 0..n : i \in D
  <2> HIDE DEF D
  <2> QED BY <1>2, <1>5, <1>6, IntervalInduction
<1>8. Range(v[n]) = X(n)
  <2>1. n \in 0..n
    BY <1>2
  <2>2. n \in D
    BY <1>7, <2>1
  <2> QED BY <2>2
<1>9. X(n) = Range(deps) \cap Selectors
  BY <1>2 DEF Range
<1>10. Graph(record)[s] = Range(deps) \cap Selectors
  BY DEF Graph, deps
<1> HIDE DEF X
<1> QED BY <1>3, <1>8, <1>9, <1>10

\* The first element and the others.
LEMMA HeadTail ==
  ASSUME NEW q \in Seq(Selectors), q # <<>>
  PROVE  Range(q) = {Head(q)} \cup Range(Tail(q))
<1> DEFINE n == Len(q)
           w == Tail(q)
           d == Head(q)
<1>1. n \in Nat \ {0} /\ DOMAIN q = 1..n /\ d = q[1]
  OBVIOUS
<1>2. DOMAIN w = 1..(n - 1) /\ \A i \in 1..(n - 1) : w[i] = q[i + 1]
  BY HeadTailProperties
<1> HIDE DEF n, w, d
<1>3. \A i \in 1..n : i = 1 \/ (i - 1 \in 1..(n - 1) /\ w[i - 1] = q[i])
  BY <1>1, <1>2
<1>4. \A i \in 1..(n - 1) : i + 1 \in 1..n /\ w[i] = q[i + 1]
  BY <1>1, <1>2
<1>5. 1 \in 1..n
  BY <1>1
<1>6. Range(q) \subseteq {d} \cup Range(w)
  <2> SUFFICES ASSUME NEW i \in 1..n PROVE q[i] \in {d} \cup Range(w)
    BY <1>1 DEF Range
  <2> QED BY <1>1, <1>2, <1>3 DEF Range
<1>7. {d} \cup Range(w) \subseteq Range(q)
  BY <1>1, <1>2, <1>4, <1>5 DEF Range
<1> QED BY <1>6, <1>7 DEF w, d

\* EnterKnown: it is settled.
LEMMA EnterKnownCalm == IInv /\ Calm /\ EnterKnown => Calm'
<1> SUFFICES ASSUME IInv, Calm, EnterKnown PROVE Calm'
  OBVIOUS
<1> DEFINE s == Top.selector
<1>1. /\ stack # <<>> /\ Top.call = "settle" /\ Top.at = "entered" /\ Known(Top) # None
      /\ provisional' = (IF ServesPending(Top) THEN provisional + 1 ELSE provisional)
      /\ stack' = Returning(Known(Top))
      /\ UNCHANGED <<body, value, record, dirty, routes, queue, status, reached, mode, history>>
  BY DEF EnterKnown, SettleAt
<1>2. "walking" \notin Top.entered /\ "settling" \notin Top.entered /\ Top.entered = status[s]
  BY <1>1, NotReentered
<1>3. "settled" \in Top.entered
  BY <1>1, <1>2, Zenon DEF Known
<1>4. Known(Top) = "settled"
  BY <1>3, Zenon DEF Known
<1>5. ~ServesPending(Top)
  BY <1>2, <1>4, Zenon DEF ServesPending
<1>6. provisional' = provisional /\ stack' = Returning("settled")
  BY <1>1, <1>4, <1>5
<1>7. /\ FrameCalm(Top, Current, Serves(value, record), record, status)
      /\ StackCalm(stack, Current, Serves(value, record), record, status)
      /\ InProgress(stack, status) /\ s \in Selectors
  BY <1>1, CalmFacts
<1>8. s \in Current
  <2>1. record[s] # None
    BY <1>1, <1>7 DEF FrameCalm, SettleCalm
  <2> QED BY <1>2, <1>3, <1>7, <2>1 DEF Current
<1>9. Current = Current \cup {s} /\ Current' = Current
  <2>1. Current' = Current
    BY <1>1 DEF Current, history
  <2> QED BY <1>8, <2>1
<1>10. Stacked(stack)
  BY StackIsStacked
<1> HIDE DEF s
<1>11. {"walking", "settling"} \cap status[s] = {}
  BY <1>2
<1>12. /\ StackCalm(stack', Current, Serves(value, record), record, status)
       /\ stack' # <<>> => TopCalm(Last(stack'), Current, record)
       /\ InProgress(stack', status)
       /\ \A t \in Calls(stack) : t \in Calls(stack') \/ t = s
  <2> DEFINE out == Serves(value, record)
             cur == Current
  <2> HIDE DEF out, cur
  <2>1. StackCalm(stack, cur, out, record, status) /\ cur = cur \cup {Top.selector}
    BY <1>7, <1>9 DEF out, cur, s
  <2>2. {"walking", "settling"} \cap status[Top.selector] = {}
    BY <1>11 DEF s
  <2>3. /\ StackCalm(Returning("settled"), cur, out, record, status)
        /\ Returning("settled") # <<>> => TopCalm(Last(Returning("settled")), cur, record)
        /\ InProgress(Returning("settled"), status)
        /\ \A t \in Calls(stack) : t \in Calls(Returning("settled")) \/ t = Top.selector
    BY <1>1, <1>7, <1>10, <2>1, <2>2, CalmReturning
  <2> QED BY <1>6, <2>3 DEF out, cur, s
<1>13. s \notin dirty
  BY <1>8 DEF Calm, MarksCalm
<1>14. \A t \in Calls(stack) : t \in Calls(stack') \/ (t \notin dirty /\ "settled" \in status'[t])
  BY <1>1, <1>2, <1>3, <1>12, <1>13
<1> QED BY <1>1, <1>6, <1>9, <1>12, <1>14, CalmSettles

\* The last settle marks that it walks or evaluates.
LEMMA CalmMarked ==
  ASSUME IInv, Calm, stack # <<>>, Top.call = "settle", UNCHANGED <<record, mode, evaluations>>,
         NEW g, FrameWF(g), g.call = "settle", g.selector = Top.selector, g.at # "entered",
         FrameCalm(g, Current, Serves(value, record), record, status),
         NEW mark \in {"walking", "settling"},
         status' = [status EXCEPT ![Top.selector] = @ \cup {mark}]
  PROVE  /\ StackCalm(WithTop(g), Current, Serves(value, record), record, status')
         /\ InProgress(WithTop(g), status')
         /\ Stacked(WithTop(g)) /\ WithTop(g) # <<>> /\ Last(WithTop(g)) = g
         /\ Calls(WithTop(g)) = Calls(stack)
         /\ Current' = Current
         /\ \A s \in Selectors : /\ "queued" \in status'[s] => "queued" \in status[s]
                                 /\ "settled" \in status[s] => "settled" \in status'[s]
<1> DEFINE s == Top.selector
           n == Len(stack)
           more == WithTop(g)
           out == Serves(value, record)
           cur == Current
<1>1. /\ StackCalm(stack, cur, out, record, status) /\ InProgress(stack, status)
      /\ s \in Selectors /\ Last(stack) = Top
  BY CalmFacts
<1>2. Stacked(stack) /\ stack \in Seq(Range(stack))
  BY StackIsStacked DEF Stacked
<1>3. status \in [Selectors -> Statuses]
  BY DEF IInv, DataOK
<1>4. /\ \A t \in Selectors : t # s => status'[t] = status[t]
      /\ status'[s] = status[s] \cup {mark}
  BY <1>1, <1>3
<1>5. /\ more \in Seq(Range(more)) /\ n \in Nat \ {0} /\ Len(more) = n /\ more # <<>>
      /\ DOMAIN stack = 1..n /\ DOMAIN more = 1..n
      /\ \A i \in 1..n : i # n => more[i] = stack[i]
      /\ more[n] = g
  BY <1>2, ReplaceSeq DEF WithTop
<1>6. StackCalm(more, cur, out, record, status)
  BY <1>1, <1>2, CalmTop DEF WithTop
<1>7. InProgress(more, status) /\ Calls(more) = Calls(stack)
  BY <1>1, <1>2, CallsTop DEF WithTop
<1> HIDE DEF more, s, n, out, cur
<1>8. Last(more) = g
  BY <1>5 DEF Last
<1>9. Stacked(more)
  <2>1. \A i \in 1..n : FrameWF(more[i])
    BY <1>2, <1>5 DEF Stacked
  <2> QED BY <1>5, <2>1 DEF Stacked
<1>10. StackCalm(more, cur, out, record, status')
  <2>1. \A i \in DOMAIN more : IsEvaluation(more[i]) => more[i].selector \notin cur
    BY <1>6 DEF StackCalm, FrameCalm, EvaluationCalm
  <2>2. ASSUME NEW i \in DOMAIN more, more[i].call = "settle", more[i].at = "entered"
        PROVE  status'[more[i].selector] = status[more[i].selector]
    <3>1. i < n
      BY <1>5, <2>2
    <3>2. n \in DOMAIN more /\ more[n].selector = s
      BY <1>5 DEF s
    <3>3. Descends(more)
      BY <1>6 DEF StackCalm
    <3>4. more[i].selector # s
      BY <2>2, <3>1, <3>2, <3>3 DEF Descends
    <3>5. more[i].selector \in Selectors
      BY <1>9 DEF Stacked, FrameWF, EvaluationWF, SettleWF
    <3> QED BY <1>4, <3>4, <3>5
  <2> QED BY <1>6, <1>9, <2>1, <2>2, CalmChange
<1>11. InProgress(more, status')
  <2> SUFFICES ASSUME NEW t \in Selectors, {"walking", "settling"} \cap status'[t] # {}
               PROVE  \E i \in DOMAIN more : more[i].call = "settle" /\ more[i].at # "entered"
                                             /\ more[i].selector = t
    BY DEF InProgress
  <2>1. CASE t = s
    <3>1. n \in DOMAIN more
      BY <1>5
    <3> QED BY <1>5, <2>1, <3>1 DEF s
  <2>2. CASE t # s
    BY <1>4, <1>7, <2>2 DEF InProgress
  <2> QED BY <2>1, <2>2
<1>12. \A t \in Selectors : /\ "queued" \in status'[t] <=> "queued" \in status[t]
                            /\ "settled" \in status[t] <=> "settled" \in status'[t]
  BY <1>4
<1>13. Current' = cur
  BY <1>12 DEF Current, cur
<1> QED BY <1>5, <1>7, <1>8, <1>9, <1>10, <1>11, <1>12, <1>13 DEF more, out, cur

\* EnterWalk: a walk starts with all that the record leads to.
LEMMA EnterWalkCalm == IInv /\ Calm /\ EnterWalk => Calm'
<1> SUFFICES ASSUME IInv, Calm, EnterWalk PROVE Calm'
  OBVIOUS
<1> DEFINE s == Top.selector
           todo == SelectorDeps(s)
           g == [Top EXCEPT !.at = "walking", !.version = graphVersion, !.todo = todo]
<1>1. stack # <<>> /\ Top.call = "settle" /\ Top.at = "entered"
  BY DEF EnterWalk, SettleAt
<1>2. {"walking", "settling"} \cap Top.entered = {} /\ "walking" \notin Top.entered
  <2>1. {"walking", "settling"} \cap Top.entered = {}
    BY <1>1, NotReentered
  <2> QED BY <2>1
<1>3. /\ dirty' = dirty
      /\ status' = [status EXCEPT ![s] = @ \cup {"walking"}]
      /\ stack' = WithTop(g)
      /\ UNCHANGED <<body, value, record, routes, queue, provisional, reached, mode, history>>
  BY <1>2, Zenon DEF EnterWalk
<1>4. /\ FrameCalm(Top, Current, Serves(value, record), record, status) /\ s \in Selectors
      /\ FrameWF(Top)
  BY <1>1, CalmFacts
<1>5. SettleWF(Top)
  BY <1>1, <1>4 DEF FrameWF
<1>6. todo \in Seq(Selectors) /\ Range(todo) = Graph(record)[s]
  BY <1>4, StackFacts, SelectorDepsOK, SelectorDepsGraph
<1> HIDE DEF todo
<1>7. /\ DOMAIN g = DOMAIN Top /\ g.call = Top.call /\ g.selector = Top.selector
      /\ g.session = Top.session /\ g.reader = Top.reader /\ g.at = "walking"
      /\ g.todo = todo /\ g.owns = Top.owns /\ g.currentness = Top.currentness
      /\ g.provisional = Top.provisional /\ g.entered = Top.entered
  BY <1>5 DEF SettleWF, SettleFields
<1> HIDE DEF g
<1>8. FrameWF(g)
  BY <1>1, <1>5, <1>6, <1>7, WalkingOK
<1>9. FrameCalm(g, Current, Serves(value, record), record, status)
  <2>1. SettleCalm(Top, record, status)
    BY <1>1, <1>4 DEF FrameCalm
  <2>2. SettleCalm(g, record, status)
    BY <1>2, <1>7, <2>1 DEF SettleCalm
  <2> QED BY <1>1, <1>7, <2>2 DEF FrameCalm, IsEvaluation
<1>10. UNCHANGED <<record, mode, evaluations>>
  BY <1>3 DEF history
<1>11. /\ StackCalm(stack', Current, Serves(value, record), record, status')
       /\ InProgress(stack', status')
       /\ Last(stack') = g
       /\ Calls(stack') = Calls(stack)
       /\ Current' = Current
       /\ \A t \in Selectors : /\ "queued" \in status'[t] => "queued" \in status[t]
                               /\ "settled" \in status[t] => "settled" \in status'[t]
  BY <1>1, <1>3, <1>7, <1>8, <1>9, <1>10, CalmMarked
<1>12. TopCalm(g, Current, record)
  BY <1>1, <1>6, <1>7 DEF TopCalm, WalkCalm, IsEvaluation, s
<1> QED BY <1>1, <1>3, <1>11, <1>12, CalmSettles

\* Walk: each dependency is settled.
LEMMA WalkCalmly == IInv /\ Calm /\ CannotCycle /\ Walk => Calm'
<1> SUFFICES ASSUME IInv, Calm, CannotCycle, Walk PROVE Calm'
  OBVIOUS
<1> DEFINE s == Top.selector
           todo == Top.todo
           d == Head(todo)
           g == [Top EXCEPT !.todo = Tail(@)]
           f == Settling(d, 0, Top.reader)
           cur == Current
           out == Serves(value, record)
<1>1. /\ stack # <<>> /\ Top.call = "settle" /\ Top.at = "walking" /\ todo # <<>>
      /\ stack' = Append(WithTop(g), f)
      /\ UNCHANGED <<body, value, graphVars, mode, history>>
  BY DEF Walk, SettleAt
<1>2. /\ FrameCalm(Top, cur, out, record, status) /\ s \in Selectors
      /\ FrameWF(Top) /\ TopCalm(Top, cur, record) /\ provisional = 0
  BY <1>1, CalmFacts
<1>3. SettleWF(Top) /\ SettleCalm(Top, record, status)
  BY <1>1, <1>2 DEF FrameWF, FrameCalm
<1>4. /\ todo \in Seq(Selectors) /\ d \in Selectors /\ Tail(todo) \in Seq(Selectors)
      /\ Range(todo) = {d} \cup Range(Tail(todo))
  <2> HIDE DEF todo
  <2>1. todo \in Seq(Selectors)
    BY <1>3 DEF SettleWF, todo
  <2>2. d \in Selectors /\ Tail(todo) \in Seq(Selectors)
    BY <1>1, <2>1
  <2>3. Range(todo) = {d} \cup Range(Tail(todo))
    BY <1>1, <2>1, HeadTail
  <2> QED BY <2>1, <2>2, <2>3
<1>5. /\ DOMAIN g = DOMAIN Top /\ g.call = Top.call /\ g.selector = s
      /\ g.session = Top.session /\ g.reader = Top.reader /\ g.at = "walking"
      /\ g.todo = Tail(todo) /\ g.owns = Top.owns /\ g.currentness = Top.currentness
      /\ g.provisional = Top.provisional /\ g.entered = Top.entered
  BY <1>1, <1>3 DEF SettleWF, SettleFields
<1>6. Graph(record)[s] \subseteq cur \cup Range(todo) /\ Range(todo) \subseteq Graph(record)[s]
  BY <1>1, <1>2 DEF TopCalm, WalkCalm
<1> HIDE DEF g, d, todo, s
<1>7. d \in Graph(record)[s] /\ WalkCalm(g, {d}, cur, Graph(record))
  BY <1>4, <1>5, <1>6 DEF WalkCalm
<1>8. <<s, d>> \in MayRead /\ record[d] # None
  <2>1. record[s] # None
    BY <1>3 DEF SettleCalm, s
  <2> QED BY <1>2, <1>7, <2>1 DEF Calm, RecordsCalm
<1>9. FrameWF(g)
  BY <1>1, <1>3, <1>4, <1>5, WalkingOK DEF s
<1>10. FrameCalm(g, cur, out, record, status)
  <2>1. SettleCalm(g, record, status)
    BY <1>1, <1>3, <1>5 DEF SettleCalm, s
  <2> QED BY <1>1, <1>5, <2>1 DEF FrameCalm, IsEvaluation
<1>11. /\ FrameCalm(f, cur, out, record, status) /\ TopCalm(f, cur, record)
       /\ f.call = "settle" /\ f.selector = d /\ ~IsEvaluation(f)
  BY <1>2, <1>4, <1>8, CalmSettling
<1> HIDE DEF f, cur, out
<1>12. LinkCalm(g, f, Graph(record))
  BY <1>1, <1>5, <1>7, <1>11 DEF LinkCalm
<1>13. g.call = Top.call /\ g.selector = Top.selector /\ g.at # "entered"
  BY <1>5 DEF s
<1>14. WalkCalm(g, {f.selector}, cur, Graph(record)) /\ <<g.selector, f.selector>> \in MayRead
  BY <1>5, <1>7, <1>8, <1>11
<1> QED BY <1>1, <1>9, <1>10, <1>11, <1>12, <1>13, <1>14, CalmPushStep DEF cur, out

\* Evaluate: what is marked is evaluated, as nothing else is unproven.
LEMMA EvaluateCalm == IInv /\ Calm /\ CannotCycle /\ Evaluate => Calm'
<1> SUFFICES ASSUME IInv, Calm, CannotCycle, Evaluate PROVE Calm'
  OBVIOUS
<1> DEFINE s == Top.selector
           reuse == Top.session # 0 /\ Top.version = graphVersion
           owns == ~reuse
           opened == Append(sessions, [outer |-> Top.reader, publications |-> 0])
           g == [Top EXCEPT !.at = "evaluated", !.provisional = provisional, !.owns = owns]
           more == WithTop(g)
           cur == Current
           out == Serves(value, record)
<1>1. /\ stack # <<>> /\ Top.call = "settle" /\ Top.at = "walking"
      /\ s \in dirty \/ (Top.currentness = "unproven" /\ Top.session # 0)
      /\ dirty' = dirty \cup {s}
      /\ status' = [status EXCEPT ![s] = @ \cup {"settling"}]
      /\ UNCHANGED <<body, value, record, routes, queue, provisional, reached, mode, history>>
  BY Zenon DEF Evaluate, SettleAt
<1>2. PICK id, p : stack' = Append(more, Evaluation(s, id, p))
  <2>1. stack' = Append(more, IF reuse THEN Evaluation(s, Top.session, Publications(Top.session))
                              ELSE Evaluation(s, Len(opened), 0))
    BY Zenon DEF Evaluate
  <2>2. CASE reuse
    BY <2>1, <2>2, Zenon
  <2>3. CASE ~reuse
    BY <2>1, <2>3, Zenon
  <2> QED BY <2>2, <2>3
<1> DEFINE h == Evaluation(s, id, p)
<1>3. /\ FrameCalm(Top, cur, out, record, status) /\ s \in Selectors
      /\ FrameWF(Top) /\ provisional = 0
  BY <1>1, CalmFacts
<1>4. SettleWF(Top) /\ SettleCalm(Top, record, status)
  BY <1>1, <1>3 DEF FrameWF, FrameCalm
<1>5. s \in dirty /\ dirty' = dirty
  BY <1>1, <1>4 DEF SettleCalm
<1>6. s \notin cur
  BY <1>5 DEF Calm, MarksCalm
<1>7. FrameWF(g)
  <2>1. owns \in BOOLEAN
    OBVIOUS
  <2> HIDE DEF owns
  <2> QED BY <1>1, <1>4, <2>1, EvaluatingFrame
<1>8. /\ g.call = "settle" /\ g.selector = s /\ g.at = "evaluated"
      /\ g.currentness = Top.currentness /\ g.provisional = provisional /\ g.entered = Top.entered
  BY <1>1, <1>4 DEF SettleWF, SettleFields
<1> HIDE DEF g, s
<1>9. FrameCalm(g, cur, out, record, status)
  <2>1. SettleCalm(g, record, status)
    BY <1>1, <1>3, <1>4, <1>8 DEF SettleCalm, s
  <2> QED BY <1>8, <2>1 DEF FrameCalm, IsEvaluation
<1>10. UNCHANGED <<record, mode, evaluations>>
  BY <1>1 DEF history
<1>11. /\ StackCalm(more, cur, out, record, status')
       /\ InProgress(more, status')
       /\ Stacked(more) /\ more # <<>> /\ Last(more) = g
       /\ Calls(more) = Calls(stack)
       /\ Current' = cur
       /\ \A t \in Selectors : /\ "queued" \in status'[t] => "queued" \in status[t]
                               /\ "settled" \in status[t] => "settled" \in status'[t]
  <2>1. g.selector = Top.selector /\ g.at # "entered" /\ "settling" \in {"walking", "settling"}
    BY <1>8 DEF s
  <2>2. status' = [status EXCEPT ![Top.selector] = @ \cup {"settling"}]
    BY <1>1 DEF s
  <2> QED BY <1>1, <1>7, <1>8, <1>9, <1>10, <2>1, <2>2, CalmMarked
<1> HIDE DEF cur, out, more
<1>12. /\ FrameCalm(h, cur, out, record, status') /\ TopCalm(h, cur, record)
       /\ IsEvaluation(h) /\ h.selector = s
  BY <1>3, <1>6, CalmEvaluation
<1> HIDE DEF h
<1>13. LinkCalm(g, h, Graph(record)) /\ WalkCalm(g, {h.selector}, cur, Graph(record))
  BY <1>8, <1>12 DEF LinkCalm, WalkCalm
<1>14. StackCalm(Append(more, h), cur, out, record, status')
  BY <1>8, <1>11, <1>12, <1>13, CalmPush
<1>15. /\ InProgress(Append(more, h), status') /\ Calls(more) \subseteq Calls(Append(more, h))
       /\ Last(Append(more, h)) = h
  <2>1. more \in Seq(Range(more))
    BY <1>11 DEF Stacked
  <2>2. InProgress(Append(more, h), status') /\ Calls(more) \subseteq Calls(Append(more, h))
    BY <1>11, <2>1, CallsPush
  <2>3. Len(Append(more, h)) = Len(more) + 1 /\ Append(more, h)[Len(more) + 1] = h
    BY <2>1, PushSeq
  <2> QED BY <2>2, <2>3 DEF Last
<1>16. stack' = Append(more, h)
  BY <1>2 DEF h
<1>17. \A t \in Calls(stack) : t \in Calls(stack')
  BY <1>11, <1>15, <1>16
<1> QED BY <1>1, <1>5, <1>11, <1>12, <1>14, <1>15, <1>16, <1>17, CalmSettles DEF cur, out

\* A settle leaves its selector settled.
LEMMA CalmLeft ==
  ASSUME IInv, Calm, stack # <<>>, Top.call = "settle", Top.at # "entered",
         UNCHANGED <<body, value, record, dirty, routes, queue, mode, reached, provisional, history>>,
         status' = Left(Top, "settled"), stack' = Returning("settled"),
         Top.selector \notin dirty, Graph(record)[Top.selector] \subseteq Current
  PROVE  Calm'
<1> DEFINE s == Top.selector
           cur == Current
           out == Serves(value, record)
<1>1. /\ FrameCalm(Top, cur, out, record, status) /\ s \in Selectors
      /\ StackCalm(stack, cur, out, record, status) /\ InProgress(stack, status)
  BY CalmFacts
<1>2. SettleCalm(Top, record, status)
  BY <1>1 DEF FrameCalm
<1>3. {"walking", "settling"} \cap Top.entered = {} /\ record[s] # None
  BY <1>2 DEF SettleCalm
<1>4. status \in [Selectors -> Statuses]
  BY DEF IInv, DataOK
<1>5. /\ \A t \in Selectors : t # s => status'[t] = status[t]
      /\ status'[s] = (status[s] \ {"walking", "settling"}) \cup {"settled"}
  BY <1>1, <1>3, <1>4 DEF Left
<1> HIDE DEF s
<1>6. \A t \in Selectors : /\ "queued" \in status'[t] => "queued" \in status[t]
                           /\ "settled" \in status[t] => "settled" \in status'[t]
                           /\ "settled" \in status'[t] => t = s \/ "settled" \in status[t]
  BY <1>5
<1>7. "settled" \in status'[s] /\ {"walking", "settling"} \cap status'[s] = {}
  BY <1>5
<1>8. Current' = cur \cup {s}
  <2>1. UNCHANGED <<record, mode, evaluations>>
    BY DEF history
  <2>2. Current' = {t \in Selectors : record[t] # None /\ (mode # "propagating" \/ evaluations[t] > 0
                                                             \/ "settled" \in status'[t])}
    BY <2>1 DEF Current
  <2>3. \A t \in Selectors : t \in Current' <=> t \in cur \cup {s}
    BY <1>1, <1>3, <1>6, <1>7, <2>2 DEF Current
  <2>4. Current' \subseteq Selectors /\ cur \cup {s} \subseteq Selectors
    BY <1>1, <2>2 DEF Current
  <2> QED BY <2>3, <2>4
<1> HIDE DEF cur, out
<1>9. /\ StackCalm(stack', Current', out, record, status')
      /\ stack' # <<>> => TopCalm(Last(stack'), Current', record)
      /\ InProgress(stack', status')
      /\ \A t \in Calls(stack) : t \in Calls(stack') \/ t = s
  <2>1. Stacked(stack)
    BY StackIsStacked
  <2>2. ASSUME NEW cur1, cur1 = cur \cup {Top.selector}, NEW sts1,
               \A t \in Selectors : t # Top.selector => sts1[t] = status[t],
               {"walking", "settling"} \cap sts1[Top.selector] = {}
        PROVE  /\ StackCalm(Returning("settled"), cur1, out, record, sts1)
               /\ Returning("settled") # <<>> => TopCalm(Last(Returning("settled")), cur1, record)
               /\ InProgress(Returning("settled"), sts1)
               /\ \A t \in Calls(stack) : t \in Calls(Returning("settled")) \/ t = Top.selector
    BY <1>1, <2>1, <2>2, CalmReturning
  <2>3. Current' = cur \cup {Top.selector}
    BY <1>8 DEF s
  <2>4. /\ \A t \in Selectors : t # Top.selector => status'[t] = status[t]
        /\ {"walking", "settling"} \cap status'[Top.selector] = {}
    BY <1>5, <1>7 DEF s
  <2> QED BY <2>2, <2>3, <2>4 DEF s
<1>10. \A t \in Calls(stack) : t \in Calls(stack') \/ (t \notin dirty /\ "settled" \in status'[t])
  BY <1>7, <1>9 DEF s
<1>11. \A t \in Current' : t \in Current \/ (t \notin dirty /\ Graph(record)[t] \subseteq Current')
  <2>1. s \notin dirty /\ Graph(record)[s] \subseteq Current'
    BY <1>8 DEF cur, s
  <2> QED BY <1>8, <2>1 DEF cur
<1> QED BY <1>6, <1>9, <1>10, <1>11, CalmSettles DEF out

\* LeaveClean: the walk found nothing unsettled.
LEMMA LeaveCleanCalm == IInv /\ Calm /\ LeaveClean => Calm'
<1> SUFFICES ASSUME IInv, Calm, LeaveClean PROVE Calm'
  OBVIOUS
<1>1. /\ stack # <<>> /\ Top.call = "settle" /\ Top.at = "walking" /\ Top.todo = <<>>
      /\ Top.selector \notin dirty
      /\ provisional' = IF Top.currentness # "settled" /\ Top.session # 0 THEN provisional + 1 ELSE provisional
      /\ status' = Left(Top, Top.currentness)
      /\ stack' = Returning(Top.currentness)
      /\ UNCHANGED <<body, value, record, dirty, routes, queue, reached, mode, history>>
  BY DEF LeaveClean, SettleAt
<1>2. FrameCalm(Top, Current, Serves(value, record), record, status) /\ TopCalm(Top, Current, record)
  BY <1>1, CalmFacts
<1>3. Top.currentness = "settled"
  BY <1>1, <1>2 DEF FrameCalm, SettleCalm
<1>4. Graph(record)[Top.selector] \subseteq Current
  <2>1. Range(<<>>) = {}
    BY DEF Range
  <2> QED BY <1>1, <1>2, <2>1 DEF TopCalm, WalkCalm
<1>5. provisional' = provisional /\ status' = Left(Top, "settled") /\ stack' = Returning("settled")
  BY <1>1, <1>3
<1>6. Top.at # "entered"
  BY <1>1
<1> QED BY <1>1, <1>4, <1>5, <1>6, CalmLeft

\* LeaveEvaluated: nothing the evaluation read was unsettled.
LEMMA LeaveEvaluatedCalm == IInv /\ Calm /\ LeaveEvaluated => Calm'
<1> SUFFICES ASSUME IInv, Calm, LeaveEvaluated PROVE Calm'
  OBVIOUS
<1> DEFINE c == IF Top.provisional # provisional /\ Top.selector \in dirty THEN "unproven" ELSE "settled"
<1>1. /\ stack # <<>> /\ Top.call = "settle" /\ Top.at = "evaluated"
      /\ status' = Left(Top, c)
      /\ stack' = Returning(c)
      /\ UNCHANGED <<body, value, record, dirty, routes, queue, reached, provisional, mode, history>>
  BY Zenon DEF LeaveEvaluated, SettleAt
<1>2. /\ FrameCalm(Top, Current, Serves(value, record), record, status) /\ TopCalm(Top, Current, record)
      /\ provisional = 0
  BY <1>1, CalmFacts
<1>3. Top.provisional = 0
  BY <1>1, <1>2 DEF FrameCalm, SettleCalm
<1>4. c = "settled"
  BY <1>2, <1>3
<1>5. Top.selector \in Current
  BY <1>1, <1>2 DEF TopCalm
<1>6. Top.selector \notin dirty /\ Graph(record)[Top.selector] \subseteq Current
  BY <1>5 DEF Calm, MarksCalm
<1> HIDE DEF c
<1>7. status' = Left(Top, "settled") /\ stack' = Returning("settled") /\ Top.at # "entered"
  BY <1>1, <1>4
<1> QED BY <1>1, <1>6, <1>7, CalmLeft

\* A set as a sequence has its elements.
LEMMA SetToSeqsRange ==
  ASSUME NEW E \in SUBSET Selectors, NEW q \in SetToSeqs(E)
  PROVE  q \in Seq(E) /\ Range(q) = E
<1> DEFINE n == Cardinality(E)
           D == 1..n
<1>1. IsFiniteSet(E)
  BY NodesAssumption, FS_Subset
<1>2. n \in Nat
  BY <1>1, FS_CardinalityType
<1>3. q \in [D -> E] /\ \A i, j \in D : i # j => q[i] # q[j]
  BY DEF SetToSeqs
<1> HIDE DEF n
<1>4. q \in Injection(D, E)
  BY <1>3 DEF Injection, IsInjective
<1>5. IsFiniteSet(D) /\ Cardinality(D) = n
  BY <1>2, FS_Interval
<1> HIDE DEF D
<1>6. q \in Surjection(D, E)
  BY <1>1, <1>4, <1>5, FS_Injection DEF n
<1>7. \A x \in E : \E i \in D : q[i] = x
  BY <1>6 DEF Surjection
<1>8. Range(q) = E
  BY <1>3, <1>7 DEF Range
<1>9. q \in Seq(E)
  BY <1>2, <1>3 DEF D
<1> QED BY <1>8, <1>9

\* Nothing in flight, and one call.
LEMMA CalmEmpty ==
  ASSUME NEW cur, NEW out, NEW recs, NEW sts
  PROVE  /\ StackCalm(<<>>, cur, out, recs, sts) /\ Calls(<<>>) = {}
         /\ InProgress(<<>>, sts) <=> \A s \in Selectors : {"walking", "settling"} \cap sts[s] = {}
<1>1. DOMAIN <<>> = {}
  OBVIOUS
<1> QED BY <1>1 DEF StackCalm, Descends, Resettles, Calls, InProgress

LEMMA CalmSingle ==
  ASSUME NEW cur, NEW out, NEW recs, NEW sts, NEW h,
         h.selector \in Selectors,
         FrameCalm(h, cur, out, recs, sts), IsEvaluation(h) => recs[h.selector] = None
  PROVE  /\ StackCalm(<<h>>, cur, out, recs, sts)
         /\ Calls(<<h>>) = {h.selector} /\ <<h>> # <<>> /\ Last(<<h>>) = h
         /\ InProgress(<<>>, sts) => InProgress(<<h>>, sts)
<1> DEFINE stk == <<h>>
<1>1. DOMAIN stk = {1} /\ stk[1] = h /\ stk # <<>> /\ Len(stk) = 1
  OBVIOUS
<1> HIDE DEF stk
<1>2. \A i \in DOMAIN stk : i + 1 \notin DOMAIN stk /\ \A j \in DOMAIN stk : ~(i < j)
  BY <1>1
<1>3. Descends(stk)
  BY <1>2 DEF Descends
<1>4. Resettles(stk, recs)
  BY <1>1 DEF Resettles
<1>5. StackCalm(stk, cur, out, recs, sts)
  BY <1>1, <1>2, <1>3, <1>4 DEF StackCalm
<1>6. Calls(stk) = {h.selector}
  BY <1>1 DEF Calls
<1>7. InProgress(<<>>, sts) => InProgress(stk, sts)
  BY CalmEmpty DEF InProgress
<1> QED BY <1>1, <1>5, <1>6, <1>7 DEF stk, Last

\* An operation starts: nothing has been evaluated in it.
LEMMA HistoryStarts ==
  ASSUME IInv, Calm, mode = "idle", mode' # "idle", before' = Outcomes, UNCHANGED <<evaluations, record, reached>>
  PROVE  /\ HistoryCalm' /\ reached = {}
         /\ \A s \in Selectors : evaluations[s] = 0
<1>1. HistoryCalm
  BY DEF Calm
<1>2. \A s \in Selectors : evaluations[s] = 0
  BY <1>1 DEF HistoryCalm
<1>3. Outcomes' = Outcomes
  BY DEF Outcomes
<1>4. reached \subseteq Selectors
  BY DEF IInv, DataOK
<1>6. reached = {}
  BY <1>1, <1>2, <1>4 DEF HistoryCalm
<1>7. HistoryCalm'
  BY <1>1, <1>2, <1>3, <1>6 DEF HistoryCalm
<1> QED BY <1>2, <1>6, <1>7

\* Get: nothing is marked, so what is read has no record.
LEMMA GetCalm ==
  ASSUME IInv, Calm, NEW s \in Selectors, Get(s)
  PROVE  Calm'
<1> DEFINE h == Evaluation(s, 1, 0)
           cur == Current
           out == Serves(value, record)
<1>1. /\ mode = "idle" /\ mode' = "reading" /\ (record[s] = None \/ s \in dirty)
      /\ stack' = <<h>> /\ before' = Outcomes
      /\ UNCHANGED <<evaluations, body, value, record, dirty, routes, queue, status, provisional, reached>>
  BY DEF Get, graphVars
<1>2. /\ RecordsCalm /\ MarksCalm /\ LatchesCalm /\ PendingCalm /\ stack = <<>>
      /\ InProgress(stack, status)
  BY <1>1 DEF Calm
<1>3. dirty = {} /\ record[s] = None /\ s \notin cur
  BY <1>1, <1>2 DEF MarksCalm, Current
<1>4. Current' = cur /\ MayRead' = MayRead
  <2>1. Current' = {t \in Selectors : record[t] # None}
    BY <1>1 DEF Current
  <2>2. cur = {t \in Selectors : record[t] # None}
    BY <1>1 DEF Current
  <2> QED BY <1>1, <2>1, <2>2 DEF MayRead
<1>5. /\ FrameCalm(h, cur, out, record, status) /\ TopCalm(h, cur, record)
      /\ IsEvaluation(h) /\ h.selector = s
  BY <1>2, <1>3, CalmEvaluation DEF LatchesCalm
<1> HIDE DEF h, cur, out
<1>6. /\ StackCalm(stack', cur, out, record, status) /\ stack' # <<>> /\ Last(stack') = h
      /\ InProgress(stack', status)
  BY <1>1, <1>2, <1>3, <1>5, CalmSingle
<1>7. RecordsCalm'
  BY <1>1, <1>2, <1>4 DEF RecordsCalm
<1>8. MarksCalm'
  BY <1>1, <1>2, <1>3, <1>4 DEF MarksCalm, cur
<1>9. LatchesCalm'
  BY <1>1, <1>2 DEF LatchesCalm
<1>10. HistoryCalm'
  BY <1>1, HistoryStarts
<1>11. PendingCalm'
  <2>1. Calls(stack) = {}
    BY <1>2, CalmEmpty
  <2> QED BY <1>1, <1>2, <1>3, <2>1 DEF PendingCalm
<1>12. StackCalm(stack, Current, Serves(value, record), record, status)'
  BY <1>1, <1>4, <1>6, CalmNext DEF cur, out
<1>13. (stack # <<>> => TopCalm(Top, Current, record))'
  BY <1>1, <1>4, <1>5, <1>6 DEF Top
<1>14. InProgress(stack, status)'
  BY <1>1, <1>6 DEF InProgress
<1> QED BY <1>1, <1>7, <1>8, <1>9, <1>10, <1>11, <1>12, <1>13, <1>14 DEF Calm

\* Commit: what read one of the atoms is marked; the others still stand.
LEMMA CommitCalm ==
  ASSUME IInv, Calm, NEW after \in [Atoms -> Values], Commit(after)
  PROVE  Calm'
<1> DEFINE changed == {a \in Atoms : after[a] # value[a]}
           E == UNION {Dependents(record, a) : a \in changed}
<1>1. /\ mode = "idle" /\ value' = after /\ mode' = "propagating"
      /\ dirty' = dirty \cup E /\ queue' \in SetToSeqs(E)
      /\ status' = [s \in Selectors |-> IF s \in E THEN {"queued"} ELSE {}]
      /\ before' = Outcomes
      /\ UNCHANGED <<evaluations, body, record, routes, provisional, stack, reached>>
  BY DEF Commit
<1>2. RecordsCalm /\ MarksCalm /\ LatchesCalm /\ stack = <<>>
  BY <1>1 DEF Calm
<1>3. dirty' = E /\ E \subseteq Selectors
  BY <1>1, <1>2 DEF MarksCalm, Dependents
<1>4. \A s \in E : record[s] # None
  <2> SUFFICES ASSUME NEW s \in Selectors, NEW a, Contains(Deps(record, s), a), record[s] = None
               PROVE  FALSE
    BY DEF Dependents
  <2>1. Deps(record, s) = <<>> /\ Range(<<>>) = {} /\ <<>> \in Seq(Nodes)
    BY DEF Deps, Range
  <2> QED BY <2>1, ContainsOK
<1>5. ASSUME NEW s \in Selectors, record[s] # None, s \notin E
      PROVE  \A a \in Range(record[s].deps) \cap Atoms : after[a] = value[a]
  <2> SUFFICES ASSUME NEW a \in Range(record[s].deps) \cap Atoms, after[a] # value[a] PROVE FALSE
    OBVIOUS
  <2>1. Deps(record, s) = record[s].deps /\ record[s].deps \in Seq(Nodes)
    BY <1>5 DEF Deps, IInv, DataOK, RecordsOK, RecordWF, Records
  <2>2. Contains(Deps(record, s), a)
    BY <2>1, ContainsOK
  <2>3. s \in Dependents(record, a)
    BY <2>2 DEF Dependents
  <2> QED BY <1>5, <2>3
<1> HIDE DEF E, changed
<1>6. Range(queue') = E
  BY <1>1, <1>3, SetToSeqsRange
<1>7. Current' = {} /\ MayRead' = MayRead
  <2>1. \A s \in Selectors : evaluations[s] = 0
    BY <1>1, HistoryStarts
  <2>2. \A s \in Selectors : "settled" \notin status'[s]
    BY <1>1
  <2> QED BY <1>1, <2>1, <2>2 DEF Current, MayRead
<1>8. RecordsCalm'
  <2>1. ASSUME NEW s \in Selectors, record[s] # None, s \notin E
        PROVE  Explained(body[s], Serves(after, record), record[s])
    <3> DEFINE out == Serves(value, record)
               other == Serves(after, record)
               b == body[s]
    <3>1. s \notin dirty
      BY <1>1, <1>2 DEF MarksCalm
    <3>2. Explained(b, out, record[s])
      BY <1>2, <2>1, <3>1 DEF RecordsCalm
    <3>3. PICK got : /\ Gets(b, out, got) /\ Ended(b, got)
                     /\ Range(record[s].deps) = ReadNodes(b, got)
                     /\ record[s].out = Result(b, got)
      BY <3>2 DEF Explained
    <3>4. ASSUME NEW d \in ReadNodes(b, got) PROVE other[d] = out[d]
      <4>1. d \in Nodes
        BY <3>3 DEF ReadNodes, Gets
      <4>2. d \in Atoms => after[d] = value[d]
        BY <1>5, <2>1, <3>3
      <4> QED BY <4>1, <4>2 DEF Serves
    <3> HIDE DEF out, other, b
    <3>5. Gets(b, other, got)
      BY <3>3, <3>4, GetsSame
    <3>6. Explained(b, other, record[s])
      BY <3>3, <3>5 DEF Explained
    <3> QED BY <3>6 DEF b, other
  <2>2. \A s \in Selectors : record[s] # None =>
          \A d \in Graph(record)[s] : <<s, d>> \in MayRead /\ record[d] # None
    BY <1>2 DEF RecordsCalm
  <2> QED BY <1>1, <1>3, <1>7, <2>1, <2>2 DEF RecordsCalm
<1>9. MarksCalm'
  BY <1>1, <1>3, <1>4, <1>6, <1>7 DEF MarksCalm
<1>10. LatchesCalm'
  BY <1>1, <1>2 DEF LatchesCalm
<1>11. HistoryCalm'
  BY <1>1, HistoryStarts
<1>12. PendingCalm'
  <2>1. \A s \in Selectors : "queued" \in status'[s] => s \in E
    BY <1>1
  <2> QED BY <1>3, <1>6, <2>1 DEF PendingCalm
<1>13. StackCalm(stack', Current', Serves(value', record'), record', status')
  BY <1>1, <1>2, CalmEmpty
<1>14. StackCalm(stack, Current, Serves(value, record), record, status)'
  BY <1>1, <1>13, CalmNext
<1>15. InProgress(stack', status')
  <2>1. \A s \in Selectors : {"walking", "settling"} \cap status'[s] = {}
    BY <1>1
  <2> QED BY <1>1, <1>2, <2>1, CalmEmpty
<1>16. (stack # <<>> => TopCalm(Top, Current, record))' /\ InProgress(stack, status)'
  BY <1>1, <1>2, <1>15 DEF InProgress
<1> QED BY <1>1, <1>8, <1>9, <1>10, <1>11, <1>12, <1>14, <1>16 DEF Calm

\* SettleNext: the next that is queued has a record.
LEMMA SettleNextCalm == IInv /\ Calm /\ SettleNext => Calm'
<1> SUFFICES ASSUME IInv, Calm, SettleNext PROVE Calm'
  OBVIOUS
<1> DEFINE s == Head(queue)
           h == Settling(s, 0, 0)
           cur == Current
           out == Serves(value, record)
<1>1. /\ mode = "propagating" /\ stack = <<>> /\ queue # <<>> /\ queue' = Tail(queue) /\ stack' = <<h>>
      /\ UNCHANGED <<body, value, record, dirty, routes, mode, status, provisional, reached, evaluations, before>>
  BY DEF SettleNext, history
<1>2. /\ RecordsCalm /\ MarksCalm /\ LatchesCalm /\ HistoryCalm /\ PendingCalm
      /\ InProgress(stack, status)
  BY DEF Calm
<1>3. s \in Selectors /\ Range(queue) = {s} \cup Range(queue')
  <2>1. queue \in Seq(Selectors)
    BY DEF IInv, DataOK
  <2> QED BY <1>1, <2>1, HeadTail
<1>4. record[s] # None
  BY <1>2, <1>3 DEF MarksCalm
<1>5. Current' = cur /\ MayRead' = MayRead /\ Outcomes' = Outcomes
  BY <1>1 DEF Current, MayRead, Outcomes
<1>6. /\ FrameCalm(h, cur, out, record, status) /\ TopCalm(h, cur, record)
      /\ ~IsEvaluation(h) /\ h.selector = s
  BY <1>2, <1>3, <1>4, CalmSettling DEF LatchesCalm
<1> HIDE DEF h, cur, out, s
<1>7. /\ StackCalm(stack', cur, out, record, status) /\ stack' # <<>> /\ Last(stack') = h
      /\ InProgress(stack', status) /\ Calls(stack') = {s}
  BY <1>1, <1>2, <1>3, <1>6, CalmSingle
<1>8. RecordsCalm'
  BY <1>1, <1>2, <1>5 DEF RecordsCalm
<1>9. MarksCalm'
  BY <1>1, <1>2, <1>3, <1>5 DEF MarksCalm, cur
<1>10. LatchesCalm' /\ HistoryCalm'
  BY <1>1, <1>2, <1>5 DEF LatchesCalm, HistoryCalm
<1>11. PendingCalm'
  <2>1. Calls(stack) = {} /\ Calls(stack)' = {s}
    <3>1. Calls(stack)' = Calls(stack')
      BY DEF Calls
    <3> QED BY <1>1, <1>7, <3>1, CalmEmpty
  <2> QED BY <1>1, <1>2, <1>3, <2>1 DEF PendingCalm
<1>12. StackCalm(stack, Current, Serves(value, record), record, status)'
  BY <1>1, <1>5, <1>7, CalmNext DEF cur, out
<1>13. (stack # <<>> => TopCalm(Top, Current, record))'
  BY <1>1, <1>5, <1>6, <1>7 DEF Top
<1>14. InProgress(stack, status)'
  BY <1>1, <1>7 DEF InProgress
<1>15. mode' # "idle"
  BY <1>1
<1> QED BY <1>8, <1>9, <1>10, <1>11, <1>12, <1>13, <1>14, <1>15 DEF Calm

\* Done: nothing is marked any more, and the records are the same but for their tokens.
LEMMA DoneCalm == IInv /\ Calm /\ Done => Calm'
<1> SUFFICES ASSUME IInv, Calm, Done PROVE Calm'
  OBVIOUS
<1>1. /\ stack = <<>> /\ queue = <<>> /\ mode' = "idle"
      /\ status' = [s \in Selectors |-> {}]
      /\ record' = [s \in Selectors |-> IF record[s] = None THEN None ELSE [record[s] EXCEPT !.token = 0]]
      /\ provisional' = 0 /\ reached' = {}
      /\ evaluations' = [s \in Selectors |-> 0]
      /\ UNCHANGED <<body, value, dirty, routes, queue, stack>>
  BY DEF Done
<1>2. RecordsCalm /\ MarksCalm /\ LatchesCalm /\ PendingCalm
  BY DEF Calm
<1>3. dirty = {}
  <2>1. Range(queue) = {} /\ Calls(stack) = {}
    BY <1>1, CalmEmpty DEF Range
  <2> QED BY <1>2, <2>1 DEF PendingCalm
<1>4. ASSUME NEW s \in Selectors
      PROVE  /\ record'[s] = None <=> record[s] = None
             /\ record[s] # None => record'[s].deps = record[s].deps /\ record'[s].out = record[s].out
  <2> DEFINE old == record[s]
             new == [old EXCEPT !.token = 0]
  <2>1. CASE old = None
    BY <1>1, <2>1
  <2>2. CASE old # None
    <3>1. record'[s] = new
      BY <1>1, <2>2
    <3>2. old \in Records
      BY <2>2 DEF IInv, DataOK, RecordsOK, RecordWF
    <3> HIDE DEF old
    <3>3. new \in Records /\ new.deps = old.deps /\ new.out = old.out
      BY <3>2 DEF Records
    <3>4. new # None
      BY <3>3, NoneAssumption
    <3> HIDE DEF new
    <3> QED BY <2>2, <3>1, <3>3, <3>4 DEF old
  <2> QED BY <2>1, <2>2
<1>5. Graph(record') = Graph(record)
  <2>1. \A s \in Selectors : Deps(record', s) = Deps(record, s)
    BY <1>4 DEF Deps
  <2> QED BY <2>1 DEF Graph
<1>6. Serves(value', record') = Serves(value, record)
  <2>1. \A d \in Nodes : d \notin Atoms => d \in Selectors
    BY DEF Nodes
  <2>2. \A d \in Nodes :
          (IF d \in Atoms THEN value[d] ELSE IF record'[d] = None THEN None ELSE record'[d].out)
          = (IF d \in Atoms THEN value[d] ELSE IF record[d] = None THEN None ELSE record[d].out)
    BY <1>4, <2>1
  <2> QED BY <1>1, <2>2 DEF Serves
<1>7. MayRead' = MayRead
  BY <1>1 DEF MayRead
<1>8. RecordsCalm'
  <2>1. ASSUME NEW s \in Selectors, record'[s] # None
        PROVE  Explained(body[s], Serves(value', record'), record'[s])
    <3>1. Explained(body[s], Serves(value, record), record[s])
      BY <1>2, <1>3, <1>4, <2>1 DEF RecordsCalm
    <3>2. record'[s].deps = record[s].deps /\ record'[s].out = record[s].out
      BY <1>4, <2>1
    <3> QED BY <1>6, <3>1, <3>2 DEF Explained
  <2>2. \A s \in Selectors : record'[s] # None =>
          \A d \in Graph(record')[s] : <<s, d>> \in MayRead /\ record'[d] # None
    <3> SUFFICES ASSUME NEW s \in Selectors, record'[s] # None, NEW d \in Graph(record)[s]
                 PROVE  <<s, d>> \in MayRead /\ record'[d] # None
      BY <1>5
    <3>1. <<s, d>> \in MayRead /\ record[d] # None
      BY <1>2, <1>4 DEF RecordsCalm
    <3>2. d \in Selectors
      BY DEF Graph
    <3> QED BY <1>4, <3>1, <3>2
  <2> QED BY <1>1, <1>7, <2>1, <2>2 DEF RecordsCalm
<1>9. MarksCalm'
  <2>1. Current' = {s \in Selectors : record'[s] # None}
    BY <1>1 DEF Current
  <2>2. \A s \in Current' : Graph(record')[s] \subseteq Current'
    <3> SUFFICES ASSUME NEW s \in Current', NEW d \in Graph(record)[s] PROVE d \in Current'
      BY <1>5
    <3>1. s \in Selectors /\ record[s] # None
      BY <1>4, <2>1
    <3>2. d \in Selectors /\ record[d] # None
      BY <1>2, <3>1 DEF RecordsCalm, Graph
    <3> QED BY <1>4, <2>1, <3>2
  <2>3. Range(queue) = {}
    BY <1>1 DEF Range
  <2> QED BY <1>1, <1>3, <2>2, <2>3 DEF MarksCalm
<1>10. LatchesCalm'
  BY <1>1, <1>2 DEF LatchesCalm
<1>11. HistoryCalm'
  BY <1>1 DEF HistoryCalm
<1>12. PendingCalm'
  BY <1>1, <1>3 DEF PendingCalm
<1>13. StackCalm(stack', Current', Serves(value', record'), record', status')
  BY <1>1, CalmEmpty
<1>14. StackCalm(stack, Current, Serves(value, record), record, status)'
  BY <1>1, <1>13, CalmNext
<1>15. InProgress(stack', status')
  BY <1>1, CalmEmpty
<1>16. (stack # <<>> => TopCalm(Top, Current, record))' /\ InProgress(stack, status)'
  BY <1>1, <1>15 DEF InProgress
<1> QED BY <1>1, <1>8, <1>9, <1>10, <1>11, <1>12, <1>14, <1>16 DEF Calm

LEMMA InitCalm == Init => Calm
<1> SUFFICES ASSUME Init PROVE Calm
  OBVIOUS
<1>1. /\ record = [s \in Selectors |-> None] /\ dirty = {} /\ routes = [s \in Selectors |-> None]
      /\ mode = "idle" /\ queue = <<>> /\ status = [s \in Selectors |-> {}] /\ provisional = 0
      /\ stack = <<>> /\ reached = {} /\ evaluations = [s \in Selectors |-> 0]
  BY DEF Init
<1>2. Current = {} /\ Range(queue) = {}
  BY <1>1 DEF Current, Range
<1>3. RecordsCalm /\ MarksCalm /\ LatchesCalm /\ HistoryCalm /\ PendingCalm
  BY <1>1, <1>2 DEF RecordsCalm, MarksCalm, LatchesCalm, HistoryCalm, PendingCalm
<1>4. StackCalm(stack, Current, Serves(value, record), record, status)
  BY <1>1, CalmEmpty
<1>5. InProgress(stack, status)
  BY <1>1, CalmEmpty
<1> QED BY <1>1, <1>3, <1>4, <1>5 DEF Calm

LEMMA StutterCalm == Calm /\ UNCHANGED settlementVars => Calm'
<1> SUFFICES ASSUME Calm, UNCHANGED settlementVars PROVE Calm'
  OBVIOUS
<1>1. UNCHANGED <<body, value, record, dirty, routes, queue, status, provisional, reached, mode,
                  stack, before, evaluations>>
  BY DEF settlementVars, vars, graphVars, history
<1>2. Current' = Current /\ MayRead' = MayRead /\ Outcomes' = Outcomes /\ Calls(stack)' = Calls(stack)
  BY <1>1 DEF Current, MayRead, Outcomes, Calls
<1>3. RecordsCalm' /\ MarksCalm' /\ LatchesCalm' /\ HistoryCalm' /\ PendingCalm'
  <2>1. RecordsCalm' /\ MarksCalm'
    BY <1>1, <1>2 DEF Calm, RecordsCalm, MarksCalm
  <2>2. LatchesCalm' /\ HistoryCalm' /\ PendingCalm'
    BY <1>1, <1>2 DEF Calm, LatchesCalm, HistoryCalm, PendingCalm
  <2> QED BY <2>1, <2>2
<1>4. StackCalm(stack, Current, Serves(value, record), record, status)'
  BY <1>1, <1>2, CalmNext DEF Calm
<1>5. (stack # <<>> => TopCalm(Top, Current, record))'
  BY <1>1, <1>2 DEF Calm, Top
<1>6. InProgress(stack, status)' /\ (mode = "idle" => stack = <<>>)'
  BY <1>1 DEF Calm, InProgress
<1> QED BY <1>3, <1>4, <1>5, <1>6 DEF Calm

\* What Install writes for the evaluation that ends, and the selectors it marks.
Proposal ==
  LET f == Top
      old == record[f.selector]
      out == Outcome(f)
  IN [out |-> out, token |-> TokenOf(f, out), deps |-> f.deps,
      success |-> IF out # Error THEN out ELSE IF old = None THEN None ELSE old.success]
Proposed == [record EXCEPT ![Top.selector] = Proposal]
Marked ==
  IF mode = "propagating" /\ Republished(record[Top.selector], Proposal)
    THEN Dependents(Proposed, Top.selector) ELSE {}

\* Where nothing is latched, nothing is reopened.
LEMMA NothingReopened ==
  ASSUME NEW s, NEW new, NEW rts, DOMAIN rts = Selectors, \A l \in Selectors : rts[l] = None
  PROVE  Reopened(s, new, rts) = {} /\ \A l \in Selectors : Routes(s, new, rts)[l] = None
<1>1. \A l \in Selectors : Watched(rts[l]) = {}
  BY DEF Watched
<1>2. Shaken(s, new, rts) = {}
  BY <1>1 DEF Shaken
<1>3. Rerouted(s, new, rts) = {}
  BY <1>2 DEF Rerouted
<1>4. Reopened(s, new, rts) = {}
  BY <1>2 DEF Reopened
<1>5. Routes(s, new, rts) = [l \in Selectors |-> rts[l]]
  BY <1>3, Zenon DEF Routes
<1> QED BY <1>4, <1>5

\* The proposal is a record.
LEMMA ProposalOK ==
  ASSUME IInv, stack # <<>>, IsEvaluation(Top),
         Top.at = "failed" \/ (Top.at = "running" /\ NextRead(Top) = None)
  PROVE  /\ Installed(Top, Proposal) /\ Proposal # None /\ Top.selector \in Selectors
         /\ Proposal.out = Outcome(Top) /\ Proposal.token = TokenOf(Top, Outcome(Top))
         /\ Proposal.deps = Top.deps
         /\ Proposal.success = IF Outcome(Top) # Error THEN Outcome(Top)
                               ELSE IF record[Top.selector] = None THEN None ELSE record[Top.selector].success
         /\ Proposed[Top.selector] = Proposal /\ DOMAIN Proposed = Selectors
         /\ \A t \in Selectors : t # Top.selector =>
              Proposed[t] = record[t] /\ Graph(Proposed)[t] = Graph(record)[t]
         /\ Graph(Proposed)[Top.selector] = Range(Top.deps) \cap Selectors
<1>1. Installed(Top, Proposal)
  BY InstalledOK DEF Proposal
<1>2. Proposal # None
  BY <1>1, NoneAssumption DEF Installed, RecordWF
<1>3. Top.selector \in Selectors
  BY TopFacts DEF EvaluationWF
<1>4. /\ Proposal.out = Outcome(Top) /\ Proposal.token = TokenOf(Top, Outcome(Top))
      /\ Proposal.deps = Top.deps
      /\ Proposal.success = IF Outcome(Top) # Error THEN Outcome(Top)
                            ELSE IF record[Top.selector] = None THEN None ELSE record[Top.selector].success
  BY DEF Proposal
<1>5. DOMAIN record = Selectors
  BY DEF IInv, DataOK
<1>6. /\ Proposed[Top.selector] = Proposal /\ DOMAIN Proposed = Selectors
      /\ \A t \in Selectors : t # Top.selector => Proposed[t] = record[t]
  BY <1>3, <1>5 DEF Proposed
<1>7. \A t \in Selectors : t # Top.selector => Graph(Proposed)[t] = Graph(record)[t]
  BY <1>6 DEF Graph, Deps
<1>8. Graph(Proposed)[Top.selector] = Range(Top.deps) \cap Selectors
  BY <1>2, <1>3, <1>4, <1>6 DEF Graph, Deps
<1> QED BY <1>1, <1>2, <1>3, <1>4, <1>6, <1>7, <1>8

\* What is marked reads the selector, and is not up to date.
LEMMA MarkedCalm ==
  ASSUME IInv, Calm, stack # <<>>, IsEvaluation(Top),
         Top.at = "failed" \/ (Top.at = "running" /\ NextRead(Top) = None)
  PROVE  \A d \in Marked :
           /\ mode = "propagating" /\ d \in Selectors /\ d # Top.selector /\ record[d] # None
           /\ Top.selector \in Graph(record)[d]
           /\ d \notin Current /\ "settled" \notin status[d]
<1> DEFINE s == Top.selector
<1> SUFFICES ASSUME NEW d \in Marked
             PROVE  /\ mode = "propagating" /\ d \in Selectors /\ d # s /\ record[d] # None
                    /\ s \in Graph(record)[d]
                    /\ d \notin Current /\ "settled" \notin status[d]
  OBVIOUS
<1>1. FrameCalm(Top, Current, Serves(value, record), record, status) /\ s \in Selectors
  BY CalmFacts
<1>2. EvaluationCalm(Top, Current, Serves(value, record)) /\ EvaluationWF(Top)
  BY <1>1, TopFacts DEF FrameCalm
<1>3. Range(Top.deps) \cap Selectors \subseteq Current /\ s \notin Current /\ Top.deps \in Seq(Nodes)
  BY <1>2 DEF EvaluationCalm, EvaluationWF
<1>4. mode = "propagating" /\ d \in Selectors /\ Contains(Deps(Proposed, d), s)
  BY DEF Marked, Dependents
<1>5. /\ Proposal # None /\ Proposal.deps = Top.deps /\ Proposed[s] = Proposal
      /\ \A t \in Selectors : t # s => Proposed[t] = record[t]
  BY ProposalOK
<1> HIDE DEF s
<1>6. d # s
  <2> SUFFICES ASSUME d = s PROVE FALSE
    OBVIOUS
  <2>1. Contains(Top.deps, s)
    BY <1>4, <1>5 DEF Deps
  <2>2. s \in Range(Top.deps)
    BY <1>3, <2>1, ContainsOK
  <2> QED BY <1>1, <1>3, <2>2
<1>7. Contains(Deps(record, d), s)
  BY <1>4, <1>5, <1>6 DEF Deps
<1>8. record[d] # None
  <2>1. ~Contains(<<>>, s)
    BY DEF Contains
  <2> QED BY <1>7, <2>1 DEF Deps
<1>9. s \in Graph(record)[d]
  <2>1. Deps(record, d) \in Seq(Nodes)
    BY <1>4, <1>8 DEF IInv, DataOK, RecordsOK, RecordWF, Records, Deps
  <2>2. s \in Range(Deps(record, d))
    BY <1>7, <2>1, ContainsOK
  <2> QED BY <1>1, <1>4, <2>2 DEF Graph
<1>10. d \notin Current
  BY <1>3, <1>9 DEF Calm, MarksCalm
<1>11. "settled" \notin status[d]
  BY <1>4, <1>8, <1>10 DEF Current
<1> QED BY <1>4, <1>6, <1>8, <1>9, <1>10, <1>11

LEMMA RangeOfThree ==
  ASSUME NEW S, NEW p \in Seq(S), NEW q \in Seq(S), NEW r \in Seq(S)
  PROVE  Range(p \o q \o r \o <<>>) = Range(p) \cup Range(q) \cup Range(r)
<1>1. ASSUME NEW a \in Seq(S), NEW b \in Seq(S)
      PROVE  a \o b \in Seq(S) /\ Range(a \o b) = Range(a) \cup Range(b)
  <2> DEFINE c == a \o b
             m == Len(a)
             n == Len(b)
  <2>1. /\ m \in Nat /\ n \in Nat /\ DOMAIN a = 1..m /\ DOMAIN b = 1..n /\ DOMAIN c = 1..m + n
        /\ \A i \in 1..m + n : c[i] = IF i <= m THEN a[i] ELSE b[i - m]
        /\ c \in Seq(S)
    OBVIOUS
  <2> HIDE DEF c, m, n
  <2>2. \A i \in 1..m + n : (i \in 1..m /\ c[i] = a[i]) \/ (i - m \in 1..n /\ c[i] = b[i - m])
    <3> TAKE i \in 1..m + n
    <3>1. CASE i <= m
      BY <2>1, <3>1
    <3>2. CASE ~(i <= m)
      <4>1. i - m \in 1..n
        BY <2>1, <3>2
      <4> QED BY <2>1, <3>2, <4>1
    <3> QED BY <3>1, <3>2
  <2>3. \A i \in 1..m : i \in 1..m + n /\ c[i] = a[i]
    BY <2>1
  <2>4. \A i \in 1..n : i + m \in 1..m + n /\ c[i + m] = b[i]
    <3> TAKE i \in 1..n
    <3>1. i + m \in 1..m + n /\ ~(i + m <= m) /\ (i + m) - m = i
      BY <2>1
    <3> QED BY <2>1, <3>1
  <2>5. Range(a) = {a[i] : i \in 1..m} /\ Range(b) = {b[i] : i \in 1..n} /\ Range(c) = {c[i] : i \in 1..m + n}
    BY <2>1 DEF Range
  <2>6. \A x \in Range(c) : x \in Range(a) \cup Range(b)
    BY <2>2, <2>5
  <2>7. \A x \in Range(a) \cup Range(b) : x \in Range(c)
    BY <2>3, <2>4, <2>5
  <2> QED BY <2>1, <2>6, <2>7 DEF c
<1>2. p \o q \o r \o <<>> = p \o q \o r
  <2>1. p \o q \o r \in Seq(S)
    OBVIOUS
  <2> QED BY <2>1
<1>3. p \o q \in Seq(S) /\ Range(p \o q) = Range(p) \cup Range(q)
  BY <1>1
<1> DEFINE h == p \o q
<1> HIDE DEF h
<1>4. Range(h \o r) = Range(h) \cup Range(r)
  BY <1>1, <1>3 DEF h
<1> QED BY <1>2, <1>3, <1>4 DEF h

\* Install, where nothing is reopened or superseded.
LEMMA InstallSteps ==
  ASSUME IInv, Calm, Install
  PROVE  LET s == Top.selector IN
         /\ stack # <<>> /\ IsEvaluation(Top)
         /\ Top.at = "failed" \/ (Top.at = "running" /\ NextRead(Top) = None)
         /\ UNCHANGED <<body, value, mode>>
         /\ record' = Proposed
         /\ \A l \in Selectors : routes'[l] = None
         /\ provisional' = 0
         /\ dirty' = (dirty \ {s}) \cup Marked
         /\ reached' = IF Republished(record[s], Proposal) THEN reached \cup {s} ELSE reached
         /\ \A d \in Selectors : status'[d] =
              IF d \in Marked THEN (status[d] \ {"settled"}) \cup {"queued"} ELSE status[d]
         /\ Range(queue') = Range(queue) \cup Enqueueable(Marked)
         /\ \E edges : stack' = Observed(Front(stack), edges)
<1> DEFINE f == Top
           s == f.selector
           old == record[s]
           own == IF f.cycle \in {None, <<>>} THEN None ELSE [reported |-> f.cycle, path |-> f.cycle]
           rts == [routes EXCEPT ![s] = own]
           changed == Republished(old, Proposal)
           opened == IF mode = "propagating" THEN Reopened(s, Proposal, rts) ELSE {}
           E == opened \cup Marked
           serves == provisional + Cardinality({d \in E : "settled" \in status[d]})
           again == f.provisional # serves /\ Superseded(f, Proposed)
           edges == {s} \X ((Range(f.deps) \ Range(Deps(record, s))) \cap Selectors)
<1>1. /\ stack # <<>> /\ IsEvaluation(Top)
      /\ Top.at = "failed" \/ (Top.at = "running" /\ NextRead(Top) = None)
      /\ UNCHANGED <<body, value, mode>>
      /\ record' = Proposed
      /\ routes' = Routes(s, Proposal, rts)
      /\ provisional' = serves
      /\ stack' = Observed(Front(stack), edges)
      /\ dirty' = (dirty \ {s}) \cup E \cup (IF again THEN {s} ELSE {})
      /\ reached' = IF changed THEN reached \cup {s} ELSE reached
      /\ status' = [d \in Selectors |->
           IF d \in E \/ (d = s /\ again /\ mode = "propagating")
             THEN (status[d] \ {"settled"}) \cup {"queued"} ELSE status[d]]
      /\ \E first \in SetToSeqs(Enqueueable(opened)), last \in SetToSeqs(Enqueueable(Marked \ opened)) :
           queue' = queue \o first \o last \o (IF again /\ mode = "propagating" THEN <<s>> ELSE <<>>)
  BY Zenon DEF Install, EvaluationAt, Proposal, Proposed, Marked
<1>2. /\ FrameCalm(Top, Current, Serves(value, record), record, status) /\ s \in Selectors
      /\ provisional = 0
  BY <1>1, CalmFacts
<1>3. f.cycle = None /\ f.provisional = 0
  BY <1>1, <1>2 DEF FrameCalm, EvaluationCalm
<1>4. DOMAIN rts = Selectors /\ \A l \in Selectors : rts[l] = None
  <2>1. DOMAIN routes = Selectors /\ \A l \in Selectors : routes[l] = None
    BY DEF IInv, DataOK, Calm, LatchesCalm
  <2>2. own = None
    BY <1>3
  <2> QED BY <1>2, <2>1, <2>2
<1> HIDE DEF own, rts
<1>5. opened = {} /\ \A l \in Selectors : routes'[l] = None
  BY <1>1, <1>4, NothingReopened
<1> HIDE DEF opened
<1>6. E = Marked /\ Marked \ opened = Marked
  BY <1>5
<1>7. \A d \in E : "settled" \notin status[d]
  BY <1>1, <1>6, MarkedCalm
<1> HIDE DEF E
<1>8. serves = 0
  <2>1. {d \in E : "settled" \in status[d]} = {}
    BY <1>7
  <2>2. Cardinality({}) = 0
    BY FS_EmptySet
  <2> QED BY <1>2, <2>1, <2>2
<1> HIDE DEF serves
<1>9. ~again
  BY <1>3, <1>8
<1> HIDE DEF again
<1>10. /\ dirty' = (dirty \ {s}) \cup Marked
       /\ provisional' = 0
       /\ status' = [d \in Selectors |->
            IF d \in Marked THEN (status[d] \ {"settled"}) \cup {"queued"} ELSE status[d]]
  BY <1>1, <1>6, <1>8, <1>9
<1>11. \E first \in SetToSeqs(Enqueueable({})), last \in SetToSeqs(Enqueueable(Marked)) :
          queue' = queue \o first \o last \o <<>>
  BY <1>1, <1>5, <1>6, <1>9
<1>12. Range(queue') = Range(queue) \cup Enqueueable(Marked)
  <2>1. PICK first \in SetToSeqs(Enqueueable({})), last \in SetToSeqs(Enqueueable(Marked)) :
          queue' = queue \o first \o last \o <<>>
    BY <1>11
  <2> DEFINE M == Enqueueable(Marked)
             N == Enqueueable({})
  <2>2. N = {} /\ M \in SUBSET Selectors /\ N \in SUBSET Selectors
    BY <1>1, MarkedCalm DEF Enqueueable
  <2> HIDE DEF M, N
  <2>3. first \in Seq(N) /\ Range(first) = N /\ last \in Seq(M) /\ Range(last) = M
    <3>1. first \in SetToSeqs(N) /\ last \in SetToSeqs(M)
      BY DEF M, N
    <3>2. first \in Seq(N) /\ Range(first) = N
      BY <2>2, <3>1, SetToSeqsRange
    <3>3. last \in Seq(M) /\ Range(last) = M
      BY <2>2, <3>1, SetToSeqsRange
    <3> QED BY <3>2, <3>3
  <2>4. queue \in Seq(Selectors) /\ first \in Seq(Selectors) /\ last \in Seq(Selectors)
    <3>1. queue \in Seq(Selectors)
      BY DEF IInv, DataOK
    <3> QED BY <2>2, <2>3, <3>1
  <2>5. Range(queue \o first \o last \o <<>>) = Range(queue) \cup Range(first) \cup Range(last)
    BY <2>4, RangeOfThree
  <2> QED BY <2>1, <2>2, <2>3, <2>5 DEF M
<1> HIDE DEF edges
<1>13. \A d \in Selectors : status'[d] =
          IF d \in Marked THEN (status[d] \ {"settled"}) \cup {"queued"} ELSE status[d]
  BY <1>10
<1> QED BY <1>1, <1>5, <1>10, <1>12, <1>13

\* The proposal is what the getter makes of what the nodes answer.
LEMMA ProposalExplained ==
  ASSUME IInv, Calm, stack # <<>>, IsEvaluation(Top),
         Top.at = "failed" \/ (Top.at = "running" /\ NextRead(Top) = None)
  PROVE  Explained(body[Top.selector], Serves(value, record), Proposal)
<1> DEFINE f == Top
           b == body[f.selector]
           r == f.reads
           out == Serves(value, record)
<1>1. FrameCalm(f, Current, out, record, status) /\ body \in Programs /\ f.selector \in Selectors
  BY CalmFacts
<1>2. EvaluationCalm(f, Current, out) /\ EvaluationWF(f)
  BY <1>1, TopFacts DEF FrameCalm
<1>3. Gets(b, out, r) /\ Range(f.deps) = ReadNodes(b, r)
  BY <1>2 DEF EvaluationCalm
<1>4. Proposal.out = Outcome(f) /\ Proposal.deps = f.deps
  BY ProposalOK
<1>5. CASE f.at = "failed"
  <2>1. r # <<>> /\ Last(r) = Error
    BY <1>2, <1>5 DEF EvaluationCalm
  <2>2. Ended(b, r)
    BY <2>1 DEF Ended
  <2>3. Outcome(f) = Result(b, r)
    BY <1>5, <2>1 DEF Outcome, Result
  <2> HIDE DEF r, b, out, f
  <2> QED BY <1>3, <1>4, <2>2, <2>3 DEF Explained, f, b, out
<1>6. CASE f.at = "running" /\ NextRead(f) = None
  <2>1. r \in Seq(Values)
    BY <1>2, <1>6 DEF EvaluationWF, ReadsWF
  <2>2. Len(r) = MaxReads \/ b.next[r] = None
    BY <1>6 DEF NextRead
  <2>3. r # <<>>
    <3>1. Len(<<>>) # MaxReads
      BY MaxReadsAssumption
    <3>2. b.next[<<>>] # None
      BY <1>1, ProgramsAssumption DEF Bodies
    <3> HIDE DEF b, r
    <3> QED BY <2>2, <3>1, <3>2
  <2>4. Last(r) \in Values
    BY <2>1, <2>3 DEF Last
  <2>5. Last(r) # Error
    BY <2>4, NoneAssumption
  <2>6. Ended(b, r)
    BY <2>2, <2>3 DEF Ended
  <2>7. Outcome(f) = b.gives[Last(r)] /\ Result(b, r) = b.gives[Last(r)]
    BY <1>6, <2>5 DEF Outcome, Returned, Result
  <2> HIDE DEF r, b, out, f
  <2> QED BY <1>3, <1>4, <2>6, <2>7 DEF Explained, f, b, out
<1> QED BY <1>5, <1>6

\* It is published anew just if its outcome is another one or a failure.
LEMMA ProposalRepublished ==
  ASSUME IInv, Calm, stack # <<>>, IsEvaluation(Top),
         Top.at = "failed" \/ (Top.at = "running" /\ NextRead(Top) = None),
         record[Top.selector] # None
  PROVE  /\ ~Republished(record[Top.selector], Proposal) => Proposal.out = record[Top.selector].out
         /\ Republished(record[Top.selector], Proposal) =>
              Proposal.out = Error \/ Proposal.out # record[Top.selector].out
<1> DEFINE f == Top
           old == record[f.selector]
           out == Outcome(f)
<1>1. FrameCalm(f, Current, Serves(value, record), record, status) /\ f.selector \in Selectors
  BY CalmFacts
<1>2. f.baseline = BaselineOf(old)
  BY <1>1 DEF FrameCalm
<1>3. Installed(f, Proposal) /\ Proposal.out = out /\ Proposal.token = TokenOf(f, out)
  BY ProposalOK
<1>4. old # None /\ RecordWF(old, nextToken) /\ nextToken \in Nat
  BY <1>1 DEF IInv, DataOK, RecordsOK
<1> HIDE DEF f, old
<1>5. /\ old.token \in Nat /\ old.token < nextToken /\ old.token # None
      /\ old.out \in Values \cup {Error} /\ old.success \in Values \cup {None}
      /\ old.out # Error => old.success = old.out
  BY <1>4, UndefinedAssumption DEF RecordWF, Records
<1>6. f.baseline # None =>
        /\ old.success # None
        /\ f.baseline.value = old.success
        /\ f.baseline.token = IF old.out = Error THEN None ELSE old.token
  BY <1>2 DEF BaselineOf
<1>7. ASSUME ~Republished(old, Proposal) PROVE Proposal.out = old.out
  <2>1. Proposal.token = old.token
    BY <1>4, <1>7 DEF Republished
  <2>2. Proposal.token # nextToken
    BY <1>4, <1>5, <2>1
  <2>3. HasToken(f) /\ f.baseline.value = Proposal.out
    BY <1>3, <2>2 DEF Installed
  <2>4. f.baseline # None /\ f.baseline.token # None
    BY <2>3 DEF HasToken
  <2> QED BY <1>5, <1>6, <2>3, <2>4
<1>8. ASSUME Proposal.out # Error, Proposal.out = old.out PROVE ~Republished(old, Proposal)
  <2>1. old.out \in Values /\ old.success = old.out /\ old.out # None
    BY <1>5, <1>8, NoneAssumption
  <2> DEFINE base == [value |-> old.success, token |-> old.token]
  <2>2. f.baseline = base
    BY <1>2, <1>4, <1>8, <2>1 DEF BaselineOf
  <2>3. base \in [value : Values, token : Nat \cup {None}]
    BY <1>5, <2>1
  <2>4. base # None
    BY <2>3, UndefinedAssumption
  <2>5. base.value = old.success /\ base.token = old.token
    OBVIOUS
  <2> HIDE DEF base, out
  <2>6. TokenOf(f, out) = old.token
    BY <1>3, <1>5, <1>8, <2>1, <2>2, <2>4, <2>5 DEF TokenOf
  <2> QED BY <1>3, <2>6 DEF Republished
<1> QED BY <1>7, <1>8 DEF f, old

\* The selector is evaluated for the first time in the operation, and is up to date then.
LEMMA ProposalCurrent ==
  ASSUME IInv, Calm, Install, evaluations' = [evaluations EXCEPT ![Top.selector] = @ + 1]
  PROVE  /\ evaluations[Top.selector] = 0 /\ evaluations'[Top.selector] = 1 /\ mode # "idle"
         /\ evaluations' \in [Selectors -> {0, 1}]
         /\ \A t \in Selectors : t # Top.selector => evaluations'[t] = evaluations[t]
         /\ Top.selector \in Selectors /\ Top.selector \notin Current
         /\ Range(Top.deps) \cap Selectors \subseteq Current
         /\ Current' = Current \cup {Top.selector}
         /\ \A d \in Nodes : d # Top.selector => Serves(value, Proposed)[d] = Serves(value, record)[d]
<1> DEFINE s == Top.selector
           out == Serves(value, record)
<1>1. /\ stack # <<>> /\ IsEvaluation(Top)
      /\ Top.at = "failed" \/ (Top.at = "running" /\ NextRead(Top) = None)
      /\ UNCHANGED <<body, value, mode>>
      /\ record' = Proposed
      /\ \A d \in Selectors : status'[d] =
           IF d \in Marked THEN (status[d] \ {"settled"}) \cup {"queued"} ELSE status[d]
  BY InstallSteps
<1>2. FrameCalm(Top, Current, out, record, status) /\ s \in Selectors
  BY <1>1, CalmFacts
<1>3. EvaluationCalm(Top, Current, out)
  BY <1>1, <1>2 DEF FrameCalm
<1>4. s \notin Current /\ Range(Top.deps) \cap Selectors \subseteq Current
  BY <1>3 DEF EvaluationCalm
<1>5. HistoryCalm /\ mode # "idle"
  BY <1>1 DEF Calm
<1>6. evaluations \in [Selectors -> {0, 1}]
  BY <1>5 DEF HistoryCalm
<1>7. /\ Proposal # None /\ Proposed[s] = Proposal
      /\ \A t \in Selectors : t # s => Proposed[t] = record[t]
  BY <1>1, ProposalOK
<1>8. \A d \in Marked : d \in Selectors /\ "settled" \notin status[d]
  BY <1>1, MarkedCalm
<1> HIDE DEF s, out
<1>9. evaluations[s] = 0
  <2> SUFFICES ASSUME evaluations[s] = 1 PROVE FALSE
    BY <1>2, <1>6
  <2>1. record[s] # None
    BY <1>2, <1>5 DEF HistoryCalm
  <2>2. s \in Current
    BY <1>2, <2>1 DEF Current
  <2> QED BY <1>4, <2>2
<1>10. /\ evaluations'[s] = 1 /\ \A t \in Selectors : t # s => evaluations'[t] = evaluations[t]
       /\ evaluations' \in [Selectors -> {0, 1}]
  BY <1>2, <1>6, <1>9 DEF s
<1>11. \A d \in Selectors : "settled" \in status'[d] <=> "settled" \in status[d]
  <2> SUFFICES ASSUME NEW d \in Selectors PROVE "settled" \in status'[d] <=> "settled" \in status[d]
    OBVIOUS
  <2>1. CASE d \in Marked
    <3>1. status'[d] = (status[d] \ {"settled"}) \cup {"queued"} /\ "settled" \notin status[d]
      BY <1>1, <1>8, <2>1
    <3> QED BY <3>1
  <2>2. CASE d \notin Marked
    BY <1>1, <2>2
  <2> QED BY <2>1, <2>2
<1>12. Current' = Current \cup {s}
  <2>1. \A t \in Selectors : t \in Current' <=> t \in Current \cup {s}
    <3> TAKE t \in Selectors
    <3>1. CASE t = s
      BY <1>1, <1>7, <1>10, <3>1 DEF Current
    <3>2. CASE t # s
      BY <1>1, <1>7, <1>10, <1>11, <3>2 DEF Current
    <3> QED BY <3>1, <3>2
  <2>2. Current' \subseteq Selectors /\ Current \subseteq Selectors
    BY DEF Current
  <2> QED BY <1>2, <2>1, <2>2
<1>13. ASSUME NEW d \in Nodes, d # s PROVE Serves(value, Proposed)[d] = Serves(value, record)[d]
  <2>1. CASE d \in Atoms
    BY <2>1 DEF Serves
  <2>2. CASE d \in Selectors
    BY <1>7, <1>13, <2>2 DEF Serves
  <2> QED BY <1>13, <2>1, <2>2 DEF Nodes
<1> QED BY <1>2, <1>4, <1>5, <1>9, <1>10, <1>12, <1>13 DEF s

LEMMA ExplainedSame ==
  ASSUME NEW b, NEW out, NEW other, NEW rec, Explained(b, out, rec),
         \A d \in Range(rec.deps) : other[d] = out[d]
  PROVE  Explained(b, other, rec)
<1>1. PICK got : /\ Gets(b, out, got) /\ Ended(b, got)
                 /\ Range(rec.deps) = ReadNodes(b, got)
                 /\ rec.out = Result(b, got)
  BY DEF Explained
<1>2. Gets(b, other, got)
  BY <1>1, GetsSame
<1> QED BY <1>1, <1>2 DEF Explained

\* The records after Install.
LEMMA InstallRecords ==
  ASSUME IInv, Calm, Install, evaluations' = [evaluations EXCEPT ![Top.selector] = @ + 1]
  PROVE  RecordsCalm'
<1> DEFINE s == Top.selector
           out == Serves(value, record)
           recs == Proposed
           out1 == Serves(value, recs)
<1>1. /\ stack # <<>> /\ IsEvaluation(Top)
      /\ Top.at = "failed" \/ (Top.at = "running" /\ NextRead(Top) = None)
      /\ UNCHANGED <<body, value, mode>>
      /\ record' = recs /\ dirty' = (dirty \ {s}) \cup Marked
  BY InstallSteps
<1>2. /\ s \in Selectors /\ s \notin Current /\ Range(Top.deps) \cap Selectors \subseteq Current
      /\ mode # "idle"
      /\ \A d \in Nodes : d # s => out1[d] = out[d]
  BY ProposalCurrent
<1>3. /\ Proposal # None /\ Proposal.deps = Top.deps /\ recs[s] = Proposal
      /\ \A t \in Selectors : t # s => recs[t] = record[t] /\ Graph(recs)[t] = Graph(record)[t]
      /\ Graph(recs)[s] = Range(Top.deps) \cap Selectors
  BY <1>1, ProposalOK
<1>4. Explained(body[s], out, Proposal)
  BY <1>1, ProposalExplained
<1>5. record[s] # None /\ ~Republished(record[s], Proposal) => Proposal.out = record[s].out
  BY <1>1, ProposalRepublished
<1>6. Range(Top.deps) \subseteq Nodes /\ \A d \in Range(Top.deps) \cap Selectors : <<s, d>> \in MayRead
  <2>1. Mayable(stack) /\ Len(stack) \in DOMAIN stack /\ Top = stack[Len(stack)]
    BY <1>1, AllMay, CalmFacts
  <2>2. /\ Top.deps \in Seq(Nodes)
        /\ \A d \in Range(Top.deps) \cap Selectors : <<s, d>> \in MayRead
    BY <1>1, <2>1 DEF Mayable
  <2> QED BY <2>2 DEF Range
<1>7. RecordsCalm
  BY DEF Calm
<1>8. MayRead' = MayRead
  BY <1>1 DEF MayRead
<1>9. Serves(value, record)' = out1 /\ body' = body
  BY <1>1
<1>10. Marked = IF mode = "propagating" /\ Republished(record[s], Proposal) THEN Dependents(recs, s) ELSE {}
  BY DEF Marked
<1>11. mode \in {"idle", "reading", "propagating"}
  BY DEF IInv, DataOK
<1> HIDE DEF s, out, recs, out1
<1>12. ASSUME NEW t \in Selectors, t = s
       PROVE  /\ \A d \in Graph(recs)[t] : <<t, d>> \in MayRead /\ recs[d] # None
              /\ Explained(body[t], out1, recs[t])
  <2>1. ASSUME NEW d \in Graph(recs)[s] PROVE <<s, d>> \in MayRead /\ recs[d] # None
    <3>1. d \in Current /\ d \in Selectors /\ <<s, d>> \in MayRead
      BY <1>2, <1>3, <1>6
    <3>2. record[d] # None /\ d # s
      BY <1>2, <3>1 DEF Current
    <3> QED BY <1>3, <3>1, <3>2
  <2>2. \A d \in Range(Proposal.deps) : out1[d] = out[d]
    BY <1>2, <1>3, <1>6
  <2>3. Explained(body[s], out1, Proposal)
    BY <1>4, <2>2, ExplainedSame
  <2> QED BY <1>3, <1>12, <2>1, <2>3
<1>13. ASSUME NEW t \in Selectors, t # s, recs[t] # None
       PROVE  /\ \A d \in Graph(recs)[t] : <<t, d>> \in MayRead /\ recs[d] # None
              /\ t \notin dirty /\ t \notin Marked => Explained(body[t], out1, recs[t])
  <2>1. recs[t] = record[t] /\ Graph(recs)[t] = Graph(record)[t]
    BY <1>3, <1>13
  <2>2. /\ \A d \in Graph(record)[t] : <<t, d>> \in MayRead /\ record[d] # None
        /\ t \notin dirty => Explained(body[t], out, record[t])
    BY <1>7, <1>13, <2>1 DEF RecordsCalm, out
  <2>3. \A d \in Selectors : record[d] # None => recs[d] # None
    BY <1>3
  <2>4. Graph(record)[t] = Range(record[t].deps) \cap Selectors /\ record[t].deps \in Seq(Nodes)
        /\ Range(record[t].deps) \subseteq Nodes /\ Deps(recs, t) = record[t].deps
    <3>1. record[t].deps \in Seq(Nodes)
      BY <1>13, <2>1 DEF IInv, DataOK, RecordsOK, RecordWF, Records
    <3>2. Range(record[t].deps) \subseteq Nodes
      BY <3>1 DEF Range
    <3> QED BY <1>13, <2>1, <3>1, <3>2 DEF Graph, Deps
  <2>5. ASSUME t \notin Marked PROVE \A d \in Range(record[t].deps) : out1[d] = out[d]
    <3> SUFFICES ASSUME NEW d \in Range(record[t].deps), d = s PROVE out1[d] = out[d]
      BY <1>2, <2>4
    <3>1. s \in Graph(record)[t] /\ record[s] # None
      BY <1>2, <2>2, <2>4
    <3>2. mode = "propagating"
      BY <1>2, <1>11, <3>1 DEF Current
    <3>3. t \in Dependents(recs, s)
      BY <1>13, <2>4, ContainsOK DEF Dependents
    <3>4. ~Republished(record[s], Proposal)
      BY <1>10, <2>5, <3>2, <3>3
    <3>5. Proposal.out = record[s].out
      BY <1>5, <3>1, <3>4
    <3>6. s \in Nodes /\ s \notin Atoms
      BY <1>2, NodesAssumption DEF Nodes
    <3> QED BY <1>3, <3>1, <3>5, <3>6 DEF out, out1, Serves
  <2>6. t \notin dirty /\ t \notin Marked => Explained(body[t], out1, record[t])
    BY <2>2, <2>5, ExplainedSame
  <2>7. Graph(record)[t] \subseteq Selectors
    BY <2>4
  <2> QED BY <2>1, <2>2, <2>3, <2>6, <2>7
<1>14. \A t \in Selectors : recs[t] # None =>
         /\ \A d \in Graph(recs)[t] : <<t, d>> \in MayRead /\ recs[d] # None
         /\ t \notin (dirty \ {s}) \cup Marked => Explained(body[t], out1, recs[t])
  BY <1>12, <1>13
<1>15. dirty' = (dirty \ {s}) \cup Marked /\ record' = recs
  BY <1>1 DEF s
<1> QED BY <1>8, <1>9, <1>14, <1>15 DEF RecordsCalm

\* The marks and what is up to date.
LEMMA InstallMarks ==
  ASSUME IInv, Calm, Install, evaluations' = [evaluations EXCEPT ![Top.selector] = @ + 1]
  PROVE  MarksCalm' /\ LatchesCalm'
<1> DEFINE s == Top.selector
<1>1. /\ stack # <<>> /\ IsEvaluation(Top)
      /\ Top.at = "failed" \/ (Top.at = "running" /\ NextRead(Top) = None)
      /\ UNCHANGED <<body, value, mode>>
      /\ record' = Proposed /\ dirty' = (dirty \ {s}) \cup Marked
      /\ provisional' = 0 /\ \A l \in Selectors : routes'[l] = None
      /\ Range(queue') = Range(queue) \cup Enqueueable(Marked)
      /\ \A d \in Selectors : status'[d] =
           IF d \in Marked THEN (status[d] \ {"settled"}) \cup {"queued"} ELSE status[d]
  BY InstallSteps
<1>2. /\ s \in Selectors /\ s \notin Current /\ Range(Top.deps) \cap Selectors \subseteq Current
      /\ Current' = Current \cup {s}
  BY ProposalCurrent
<1>3. /\ Proposal # None /\ Proposed[s] = Proposal
      /\ \A t \in Selectors : t # s => Proposed[t] = record[t] /\ Graph(Proposed)[t] = Graph(record)[t]
      /\ Graph(Proposed)[s] = Range(Top.deps) \cap Selectors
  BY <1>1, ProposalOK
<1>4. \A d \in Marked : mode = "propagating" /\ d \in Selectors /\ d # s /\ record[d] # None /\ d \notin Current
  BY <1>1, MarkedCalm
<1>5. /\ mode # "propagating" => dirty = {}
      /\ \A t \in dirty \cup Range(queue) : record[t] # None
      /\ \A t \in Selectors : "queued" \in status[t] => record[t] # None
      /\ \A t \in Current : t \notin dirty /\ Graph(record)[t] \subseteq Current
  BY DEF Calm, MarksCalm
<1>6. dirty \subseteq Selectors /\ Range(queue) \subseteq Selectors
  BY DEF IInv, DataOK, Range
<1>7. \A t \in Selectors : record[t] # None \/ t = s => record'[t] # None
  BY <1>1, <1>3
<1>8. Enqueueable(Marked) \subseteq Marked
  BY DEF Enqueueable
<1>9. Graph(record)' = Graph(Proposed) /\ Current \subseteq Selectors
  BY <1>1 DEF Graph, Deps, Current
<1> HIDE DEF s
<1>10. mode' # "propagating" => dirty' = {}
  BY <1>1, <1>4, <1>5 DEF s
<1>11. \A t \in dirty' \cup Range(queue') : record'[t] # None
  BY <1>1, <1>4, <1>5, <1>6, <1>7, <1>8 DEF s
<1>12. \A t \in Selectors : "queued" \in status'[t] => record'[t] # None
  BY <1>1, <1>4, <1>5, <1>7
<1>13. \A t \in Current' : t \notin dirty' /\ Graph(Proposed)[t] \subseteq Current'
  <2> SUFFICES ASSUME NEW t \in Current \cup {s}
               PROVE  t \notin dirty' /\ Graph(Proposed)[t] \subseteq Current \cup {s}
    BY <1>2
  <2>1. CASE t = s
    BY <1>1, <1>2, <1>3, <1>4, <2>1 DEF s
  <2>2. CASE t \in Current /\ t # s
    BY <1>1, <1>3, <1>4, <1>5, <1>9, <2>2 DEF s
  <2> QED BY <2>1, <2>2
<1>14. MarksCalm'
  BY <1>9, <1>10, <1>11, <1>12, <1>13 DEF MarksCalm
<1> QED BY <1>1, <1>14 DEF LatchesCalm

LEMMA InstallHistory ==
  ASSUME IInv, Calm, Install, evaluations' = [evaluations EXCEPT ![Top.selector] = @ + 1],
         UNCHANGED before
  PROVE  HistoryCalm'
<1> DEFINE s == Top.selector
<1>1. /\ stack # <<>> /\ IsEvaluation(Top)
      /\ Top.at = "failed" \/ (Top.at = "running" /\ NextRead(Top) = None)
      /\ mode' = mode
      /\ record' = Proposed
      /\ reached' = IF Republished(record[s], Proposal) THEN reached \cup {s} ELSE reached
  BY InstallSteps
<1>2. /\ evaluations[s] = 0 /\ evaluations'[s] = 1 /\ mode # "idle"
      /\ evaluations' \in [Selectors -> {0, 1}]
      /\ \A t \in Selectors : t # s => evaluations'[t] = evaluations[t]
      /\ s \in Selectors
  BY ProposalCurrent
<1>3. /\ Proposal # None /\ Proposed[s] = Proposal
      /\ \A t \in Selectors : t # s => Proposed[t] = record[t]
  BY <1>1, ProposalOK
<1>4. record[s] # None /\ Republished(record[s], Proposal) =>
              Proposal.out = Error \/ Proposal.out # record[s].out
  BY <1>1, ProposalRepublished
<1>5. /\ \A t \in Selectors :
           /\ evaluations[t] = 1 => record[t] # None /\ mode # "idle"
           /\ evaluations[t] = 0 /\ mode # "idle" => before[t] = Outcomes[t]
      /\ \A t \in reached : evaluations[t] = 1 /\ before[t] # None
                            /\ (record[t].out = Error \/ record[t].out # before[t])
  BY DEF Calm, HistoryCalm
<1>6. reached \subseteq Selectors
  BY DEF IInv, DataOK
<1>7. record[s] # None => before[s] = record[s].out /\ record[s].out # None
  <2>1. record[s] # None => record[s].out \in Values \cup {Error}
    BY <1>2 DEF IInv, DataOK, RecordsOK, RecordWF, Records
  <2>2. before[s] = Outcomes[s]
    BY <1>2, <1>5
  <2> QED BY <1>2, <2>1, <2>2, NoneAssumption DEF Outcomes
<1>8. Republished(record[s], Proposal) => record[s] # None
  BY DEF Republished
<1> HIDE DEF s
<1>9. \A t \in Selectors : t # s => Outcomes'[t] = Outcomes[t] /\ record'[t] = record[t]
  BY <1>1, <1>3 DEF Outcomes
<1>10. record'[s] = Proposal
  BY <1>1, <1>3
<1>11. \A t \in Selectors :
         /\ evaluations'[t] = 1 => record'[t] # None /\ mode' # "idle"
         /\ evaluations'[t] = 0 /\ mode' # "idle" => before[t] = Outcomes'[t]
  BY <1>1, <1>2, <1>3, <1>5, <1>9, <1>10
<1>12. ASSUME NEW t \in reached'
       PROVE  evaluations'[t] = 1 /\ before[t] # None
              /\ (record'[t].out = Error \/ record'[t].out # before[t])
  <2>1. CASE t = s
    <3>1. s \notin reached
      BY <1>2, <1>5
    <3>2. Republished(record[s], Proposal)
      BY <1>1, <1>12, <2>1, <3>1
    <3> QED BY <1>2, <1>4, <1>7, <1>8, <1>10, <2>1, <3>2
  <2>2. CASE t # s
    <3>1. t \in reached /\ t \in Selectors
      BY <1>1, <1>6, <1>12, <2>2 DEF s
    <3> QED BY <1>2, <1>5, <1>9, <2>2, <3>1
  <2> QED BY <2>1, <2>2
<1> QED BY <1>2, <1>11, <1>12 DEF HistoryCalm

LEMMA ObservedSame ==
  ASSUME NEW stk, Stacked(stk), NEW edges
  PROVE  /\ SameStack(stk, Observed(stk, edges)) /\ Observed(stk, edges) \in Seq(Range(Observed(stk, edges)))
         /\ Len(Observed(stk, edges)) = Len(stk)
<1> DEFINE more == Observed(stk, edges)
<1>1. /\ Moved(stk, more)
      /\ \A i \in DOMAIN stk :
           more[i] = IF IsEvaluation(stk[i]) /\ stk[i].observed # None
                       THEN [stk[i] EXCEPT !.observed = @ \cup edges] ELSE stk[i]
  BY ObservedMoved DEF Stacked
<1>2. stk \in Seq(Range(stk)) /\ \A i \in DOMAIN stk : FrameWF(stk[i])
  BY DEF Stacked
<1> HIDE DEF more
<1>3. more \in Seq(Range(more)) /\ Len(more) = Len(stk) /\ DOMAIN more = DOMAIN stk
  BY <1>1, <1>2 DEF Moved
<1>4. ASSUME NEW i \in DOMAIN stk PROVE Same(stk[i], more[i])
  <2> DEFINE f == stk[i]
             g == more[i]
             e == f.observed \cup edges
  <2>1. g = IF IsEvaluation(f) /\ f.observed # None THEN [f EXCEPT !.observed = e] ELSE f
    BY <1>1
  <2>2. IsEvaluation(f) => DOMAIN f = EvaluationFields
    BY <1>2 DEF FrameWF, IsEvaluation, EvaluationWF
  <2> HIDE DEF f, g, e
  <2>3. CASE IsEvaluation(f) /\ f.observed # None
    <3>1. /\ g.call = f.call /\ g.selector = f.selector /\ g.at = f.at /\ g.session = f.session
          /\ g.pending = f.pending /\ g.deps = f.deps /\ g.reads = f.reads
          /\ g.cycle = f.cycle /\ g.provisional = f.provisional /\ g.baseline = f.baseline
      BY <2>1, <2>2, <2>3 DEF EvaluationFields
    <3>2. Same(f, g)
      BY <2>3, <3>1 DEF Same
    <3> QED BY <3>2 DEF f, g
  <2>4. CASE ~(IsEvaluation(f) /\ f.observed # None)
    <3>1. Same(f, g)
      BY <2>1, <2>4 DEF Same
    <3> QED BY <3>1 DEF f, g
  <2> QED BY <2>3, <2>4
<1> QED BY <1>3, <1>4 DEF SameStack, more

LEMMA TopSame ==
  ASSUME NEW f, NEW g, Same(f, g), NEW cur, NEW recs, TopCalm(f, cur, recs)
  PROVE  TopCalm(g, cur, recs)
<1>1. /\ g.call = f.call /\ g.selector = f.selector /\ g.at = f.at
      /\ IsEvaluation(f) => g.pending = f.pending
      /\ ~IsEvaluation(f) => g = f
      /\ IsEvaluation(g) <=> IsEvaluation(f)
  BY DEF Same, IsEvaluation
<1>2. WalkCalm(g, {}, cur, Graph(recs))
  BY <1>1 DEF TopCalm, WalkCalm, IsEvaluation
<1> QED BY <1>1, <1>2 DEF TopCalm

\* What an evaluation leaves when it is installed.
LEMMA InstallRest ==
  ASSUME IInv, Calm, Install, evaluations' = [evaluations EXCEPT ![Top.selector] = @ + 1],
         NEW rest, rest = Front(stack), NEW cur1, cur1 = Current \cup {Top.selector},
         NEW sts1, \A d \in Selectors : {"walking", "settling"} \cap sts1[d] = {"walking", "settling"} \cap status[d]
  PROVE  /\ Stacked(rest)
         /\ StackCalm(rest, cur1, Serves(value, Proposed), Proposed, sts1)
         /\ rest # <<>> => TopCalm(Last(rest), cur1, Proposed)
         /\ InProgress(rest, sts1)
         /\ \A t \in Calls(stack) : t \in Calls(rest) \/ t = Top.selector
         /\ record[Top.selector] # None => Top.selector \in Calls(rest)
<1> DEFINE s == Top.selector
           n == Len(stack)
           cur == Current
           out == Serves(value, record)
           f == Last(rest)
           out1 == Serves(value, Proposed)
<1>1. /\ stack # <<>> /\ IsEvaluation(Top)
      /\ Top.at = "failed" \/ (Top.at = "running" /\ NextRead(Top) = None)
  BY InstallSteps
<1>2. /\ StackCalm(stack, cur, out, record, status) /\ InProgress(stack, status)
      /\ Stacked(stack) /\ Last(stack) = Top /\ s \in Selectors
  BY <1>1, CalmFacts, StackIsStacked
<1>3. /\ rest \in Seq(Range(rest))
      /\ n \in Nat \ {0} /\ Len(rest) = n - 1
      /\ DOMAIN stack = 1..n /\ DOMAIN rest = 1..(n - 1)
      /\ \A i \in DOMAIN rest : i \in DOMAIN stack /\ rest[i] = stack[i]
      /\ rest # <<>> => n - 1 \in DOMAIN rest
      /\ stack[n] = Top
  BY <1>1, <1>2, PopSeq DEF Stacked, Last
<1>4. Stacked(rest)
  BY <1>2, <1>3 DEF Stacked
<1>5. /\ StackCalm(rest, cur, out, record, status)
      /\ rest # <<>> =>
           /\ LinkCalm(f, Top, Graph(record))
           /\ WalkCalm(f, {s}, cur, Graph(record))
      /\ \A i \in DOMAIN rest : rest[i].selector = s =>
           i = Len(rest) /\ rest[i].call = "settle" /\ rest[i].at = "evaluated"
  BY <1>1, <1>2, CalmPop
<1>6. /\ s \notin cur
      /\ \A d \in Nodes : d # s => out1[d] = out[d]
  BY ProposalCurrent
<1>7. /\ Proposed[s] # None
      /\ \A t \in Selectors : t # s => Proposed[t] = record[t] /\ Graph(Proposed)[t] = Graph(record)[t]
  BY <1>1, ProposalOK
<1>8. \A i \in DOMAIN rest : rest[i].selector \in Selectors
  BY <1>4 DEF Stacked, FrameWF, EvaluationWF, SettleWF
<1> HIDE DEF n, s, cur, out, out1
<1>9. \A i \in DOMAIN rest : ~(rest[i].call = "settle" /\ rest[i].at = "entered")
  <2> SUFFICES ASSUME NEW i \in DOMAIN rest PROVE ~(rest[i].call = "settle" /\ rest[i].at = "entered")
    OBVIOUS
  <2>1. i \in DOMAIN stack /\ i + 1 \in DOMAIN stack /\ rest[i] = stack[i]
    BY <1>3
  <2>2. LinkCalm(stack[i], stack[i + 1], Graph(record))
    BY <1>2, <2>1 DEF StackCalm
  <2> QED BY <2>1, <2>2 DEF LinkCalm, IsEvaluation
<1>10. \A d \in cur \cup Atoms : out1[d] = out[d]
  <2>1. cur \subseteq Selectors
    BY DEF cur, Current
  <2> QED BY <1>2, <1>6, <2>1, NodesAssumption DEF Nodes, s
<1>11. \A i \in DOMAIN rest : IsEvaluation(rest[i]) => rest[i].selector \notin cur1
  <2>1. \A i \in DOMAIN rest : IsEvaluation(rest[i]) => rest[i].selector \notin cur
    BY <1>5 DEF StackCalm, FrameCalm, EvaluationCalm
  <2>2. \A i \in DOMAIN rest : IsEvaluation(rest[i]) => rest[i].selector # s
    BY <1>5 DEF IsEvaluation
  <2> QED BY <2>1, <2>2 DEF s, cur
<1>12. \A i \in DOMAIN rest :
         \/ /\ Proposed[rest[i].selector] = record[rest[i].selector]
            /\ Graph(Proposed)[rest[i].selector] = Graph(record)[rest[i].selector]
         \/ rest[i].call = "settle" /\ rest[i].at = "evaluated" /\ Proposed[rest[i].selector] # None
  BY <1>5, <1>7, <1>8
<1>13. cur \subseteq cur1 /\ s \in cur1
  BY DEF cur, s
<1>14. StackCalm(rest, cur1, out1, Proposed, sts1)
  BY <1>4, <1>5, <1>9, <1>10, <1>11, <1>12, <1>13, CalmChange
<1>15. ASSUME rest # <<>> PROVE TopCalm(f, cur1, Proposed)
  <2>1. f = rest[n - 1] /\ n - 1 \in DOMAIN rest /\ f.selector \in Selectors
    BY <1>3, <1>8, <1>15 DEF Last
  <2>2. LinkCalm(f, Top, Graph(record)) /\ WalkCalm(f, {Top.selector}, cur, Graph(record))
    BY <1>5, <1>15 DEF s
  <2>3. f.call = "settle" /\ f.at = "walking" => f.selector # s
    BY <1>5, <2>1
  <2> HIDE DEF f
  <2>4. f.call = "settle" /\ f.at = "walking" => Graph(Proposed)[f.selector] = Graph(record)[f.selector]
    BY <1>7, <2>1, <2>3
  <2>5. Top.selector \in cur1
    BY <1>13 DEF s
  <2> QED BY <1>13, <2>2, <2>4, <2>5, CalmUncovered
<1>16. InProgress(rest, sts1)
  <2> SUFFICES ASSUME NEW t \in Selectors, {"walking", "settling"} \cap sts1[t] # {}
               PROVE  \E i \in DOMAIN rest : rest[i].call = "settle" /\ rest[i].at # "entered"
                                             /\ rest[i].selector = t
    BY DEF InProgress
  <2>1. PICK i \in DOMAIN stack : stack[i].call = "settle" /\ stack[i].at # "entered"
                                  /\ stack[i].selector = t
    BY <1>2 DEF InProgress
  <2>2. i # n
    BY <1>1, <1>3, <2>1 DEF IsEvaluation
  <2>3. i \in DOMAIN rest
    BY <1>3, <2>2
  <2> QED BY <1>3, <2>1, <2>3
<1>17. \A t \in Calls(stack) : t \in Calls(rest) \/ t = s
  <2> SUFFICES ASSUME NEW i \in DOMAIN stack, stack[i].selector # s
               PROVE  stack[i].selector \in Calls(rest)
    BY DEF Calls
  <2>1. i \in DOMAIN rest
    BY <1>3 DEF s
  <2> QED BY <1>3, <2>1 DEF Calls
<1>18. record[s] # None => s \in Calls(rest)
  <2> SUFFICES ASSUME record[s] # None PROVE s \in Calls(rest)
    OBVIOUS
  <2>1. n \in DOMAIN stack /\ stack[n].selector = s /\ IsEvaluation(stack[n])
    BY <1>1, <1>3 DEF s
  <2>2. n > 1 /\ stack[n - 1].selector = s
    BY <1>2, <2>1 DEF StackCalm, Resettles
  <2>3. n - 1 \in DOMAIN rest
    BY <1>3, <2>2
  <2> QED BY <1>3, <2>2, <2>3 DEF Calls
<1> QED BY <1>4, <1>14, <1>15, <1>16, <1>17, <1>18 DEF s, out1

LEMMA InstallStack ==
  ASSUME IInv, Calm, Install, evaluations' = [evaluations EXCEPT ![Top.selector] = @ + 1]
  PROVE  /\ StackCalm(stack', Current', Serves(value', record'), record', status')
         /\ stack' # <<>> => TopCalm(Last(stack'), Current', record')
         /\ InProgress(stack', status')
         /\ \A t \in Calls(stack) : t \in Calls(stack') \/ t = Top.selector
         /\ record[Top.selector] # None => Top.selector \in Calls(stack')
<1> DEFINE rest == Front(stack)
<1>1. /\ value' = value /\ record' = Proposed
      /\ \A d \in Selectors : status'[d] =
           IF d \in Marked THEN (status[d] \ {"settled"}) \cup {"queued"} ELSE status[d]
      /\ \E edges : stack' = Observed(rest, edges)
  BY InstallSteps
<1>2. Current' = Current \cup {Top.selector}
  BY ProposalCurrent
<1>3. \A d \in Selectors : {"walking", "settling"} \cap status'[d] = {"walking", "settling"} \cap status[d]
  <2> SUFFICES ASSUME NEW d \in Selectors
               PROVE  {"walking", "settling"} \cap status'[d] = {"walking", "settling"} \cap status[d]
    OBVIOUS
  <2>1. CASE d \in Marked
    <3>1. status'[d] = (status[d] \ {"settled"}) \cup {"queued"}
      BY <1>1, <2>1
    <3> QED BY <3>1
  <2>2. CASE d \notin Marked
    BY <1>1, <2>2
  <2> QED BY <2>1, <2>2
<1> HIDE DEF rest
<1>4. ASSUME NEW cur1, cur1 = Current \cup {Top.selector}, NEW sts1,
             \A d \in Selectors : {"walking", "settling"} \cap sts1[d] = {"walking", "settling"} \cap status[d]
      PROVE  /\ Stacked(rest)
             /\ StackCalm(rest, cur1, Serves(value, Proposed), Proposed, sts1)
             /\ rest # <<>> => TopCalm(Last(rest), cur1, Proposed)
             /\ InProgress(rest, sts1)
             /\ \A t \in Calls(stack) : t \in Calls(rest) \/ t = Top.selector
             /\ record[Top.selector] # None => Top.selector \in Calls(rest)
  BY <1>4, InstallRest DEF rest
<1>5. /\ Stacked(rest)
      /\ StackCalm(rest, Current', Serves(value, Proposed), Proposed, status')
      /\ rest # <<>> => TopCalm(Last(rest), Current', Proposed)
      /\ InProgress(rest, status')
      /\ \A t \in Calls(stack) : t \in Calls(rest) \/ t = Top.selector
      /\ record[Top.selector] # None => Top.selector \in Calls(rest)
  BY <1>2, <1>3, <1>4
<1>6. PICK edges : stack' = Observed(rest, edges)
  BY <1>1
<1>7. SameStack(rest, stack') /\ stack' \in Seq(Range(stack')) /\ Len(stack') = Len(rest)
  BY <1>5, <1>6, ObservedSame
<1>8. ASSUME NEW more, SameStack(rest, more), NEW cur1, NEW out1, NEW recs1, NEW sts1,
             StackCalm(rest, cur1, out1, recs1, sts1), InProgress(rest, sts1)
      PROVE  StackCalm(more, cur1, out1, recs1, sts1) /\ Calls(more) = Calls(rest) /\ InProgress(more, sts1)
  <2>1. rest \in Seq(Range(rest))
    BY <1>5 DEF Stacked
  <2> QED BY <1>8, <2>1, CalmSame
<1>9. /\ StackCalm(stack', Current', Serves(value', record'), record', status')
      /\ Calls(stack') = Calls(rest) /\ InProgress(stack', status')
  BY <1>1, <1>5, <1>7, <1>8
<1>10. stack' # <<>> => TopCalm(Last(stack'), Current', record')
  <2> SUFFICES ASSUME stack' # <<>> PROVE TopCalm(Last(stack'), Current', record')
    OBVIOUS
  <2>1. rest \in Seq(Range(rest))
    BY <1>5 DEF Stacked
  <2>2. rest # <<>> /\ Len(rest) \in DOMAIN rest
    BY <1>7, <2>1
  <2>3. Same(Last(rest), Last(stack'))
    BY <1>7, <2>2 DEF SameStack, Last
  <2>4. ASSUME NEW f, NEW g, Same(f, g), NEW cur1, NEW recs1, TopCalm(f, cur1, recs1)
        PROVE  TopCalm(g, cur1, recs1)
    BY <2>4, TopSame
  <2>5. TopCalm(Last(rest), Current', record')
    BY <1>1, <1>5, <2>2
  <2> QED BY <2>3, <2>4, <2>5
<1> QED BY <1>5, <1>9, <1>10

\* Install: once more a selector is up to date.
LEMMA InstallCalm ==
  IInv /\ Calm /\ Install /\ evaluations' = [evaluations EXCEPT ![Top.selector] = @ + 1] /\ UNCHANGED before
    => Calm'
<1> SUFFICES ASSUME IInv, Calm, Install, evaluations' = [evaluations EXCEPT ![Top.selector] = @ + 1],
                    UNCHANGED before
             PROVE  Calm'
  OBVIOUS
<1> DEFINE s == Top.selector
<1>1. /\ stack # <<>> /\ IsEvaluation(Top) /\ UNCHANGED <<body, mode>>
      /\ Top.at = "failed" \/ (Top.at = "running" /\ NextRead(Top) = None)
      /\ dirty' = (dirty \ {s}) \cup Marked
      /\ Range(queue') = Range(queue) \cup Enqueueable(Marked)
      /\ \A d \in Selectors : status'[d] =
           IF d \in Marked THEN (status[d] \ {"settled"}) \cup {"queued"} ELSE status[d]
  BY InstallSteps
<1>2. \A d \in Marked : d \in Selectors /\ d # s
  BY <1>1, MarkedCalm
<1>3. /\ StackCalm(stack', Current', Serves(value', record'), record', status')
      /\ stack' # <<>> => TopCalm(Last(stack'), Current', record')
      /\ InProgress(stack', status')
      /\ \A t \in Calls(stack) : t \in Calls(stack') \/ t = s
      /\ record[s] # None => s \in Calls(stack')
  BY InstallStack
<1>4. /\ dirty \subseteq Range(queue) \cup Calls(stack)
      /\ \A t \in Selectors : "queued" \in status[t] /\ "settled" \notin status[t] =>
           t \in Range(queue) \cup Calls(stack)
      /\ \A t \in Selectors : "queued" \in status[t] => record[t] # None
  BY DEF Calm, PendingCalm, MarksCalm
<1> HIDE DEF s
<1>5. ASSUME NEW t \in Marked PROVE t \in Range(queue') \cup Calls(stack')
  <2>1. CASE t \in Enqueueable(Marked)
    BY <1>1, <2>1
  <2>2. CASE t \notin Enqueueable(Marked)
    <3>1. "queued" \in status[t] /\ "settled" \notin status[t]
      BY <2>2 DEF Enqueueable
    <3> QED BY <1>1, <1>2, <1>3, <1>4, <3>1
  <2> QED BY <2>1, <2>2
<1>6. dirty' \subseteq Range(queue') \cup Calls(stack')
  BY <1>1, <1>3, <1>4, <1>5 DEF s
<1>7. ASSUME NEW t \in Selectors, "queued" \in status'[t], "settled" \notin status'[t]
      PROVE  t \in Range(queue') \cup Calls(stack')
  <2>1. CASE t \in Marked
    BY <1>5, <2>1
  <2>2. CASE t \notin Marked
    <3>1. "queued" \in status[t] /\ "settled" \notin status[t]
      BY <1>1, <1>7, <2>2
    <3> QED BY <1>1, <1>3, <1>4, <3>1
  <2> QED BY <2>1, <2>2
<1>8. Calls(stack)' = Calls(stack')
  BY DEF Calls
<1>9. PendingCalm'
  BY <1>6, <1>7, <1>8 DEF PendingCalm
<1>10. RecordsCalm' /\ MarksCalm' /\ LatchesCalm' /\ HistoryCalm'
  BY InstallRecords, InstallMarks, InstallHistory
<1>11. StackCalm(stack, Current, Serves(value, record), record, status)'
  BY <1>1, <1>3, CalmNext
<1>12. (stack # <<>> => TopCalm(Top, Current, record))'
  BY <1>3 DEF Top
<1>13. InProgress(stack, status)'
  BY <1>3 DEF InProgress
<1>14. mode' # "idle"
  BY <1>1 DEF Calm
<1> QED BY <1>9, <1>10, <1>11, <1>12, <1>13, <1>14 DEF Calm

LEMMA NextCalm == IInv /\ Calm /\ CannotCycle /\ [Next]_settlementVars => Calm'
<1> SUFFICES ASSUME IInv, Calm, CannotCycle, [Next]_settlementVars PROVE Calm'
  OBVIOUS
<1>1. ASSUME NEW s \in Selectors, Get(s) PROVE Calm'
  BY <1>1, GetCalm
<1>2. ASSUME NEW after \in [Atoms -> Values], Commit(after) PROVE Calm'
  BY <1>2, CommitCalm
<1>3. CASE SettleNext
  BY <1>3, SettleNextCalm
<1>4. CASE Done
  BY <1>4, DoneCalm
<1>5. CASE ReadActive /\ UNCHANGED history
  BY <1>5, ReadActiveNever
<1>6. CASE Read(Serving) /\ UNCHANGED history
  BY <1>6, ReadCalm
<1>7. CASE Serve /\ UNCHANGED history
  BY <1>7, ServeCalm
<1>8. CASE Accept /\ UNCHANGED history
  BY <1>8, AcceptCalm
<1>9. CASE Install /\ evaluations' = [evaluations EXCEPT ![Top.selector] = @ + 1] /\ UNCHANGED before
  BY <1>9, InstallCalm
<1>10. CASE EnterKnown
  BY <1>10, EnterKnownCalm
<1>11. CASE EnterWalk
  BY <1>11, EnterWalkCalm
<1>12. CASE Walk
  BY <1>12, WalkCalmly
<1>13. CASE Evaluate
  BY <1>13, EvaluateCalm
<1>14. CASE LeaveClean
  BY <1>14, LeaveCleanCalm
<1>15. CASE LeaveEvaluated
  BY <1>15, LeaveEvaluatedCalm
<1>16. CASE UNCHANGED settlementVars
  BY <1>16, StutterCalm
<1> QED BY <1>1, <1>2, <1>3, <1>4, <1>5, <1>6, <1>7, <1>8, <1>9, <1>10, <1>11, <1>12, <1>13,
           <1>14, <1>15, <1>16 DEF Next

LEMMA GettersStay == [Next]_settlementVars => body' = body
BY DEF Next, Get, Commit, SettleNext, Done, ReadActive, Read, Serve, Accept, Install,
       EnterKnown, EnterWalk, Walk, Evaluate, LeaveClean, LeaveEvaluated, settlementVars, vars

\* Where no getter can come to read itself, reads and propagations keep to the order of
\* what the getters read: every evaluation reads only what is up to date, and what is up
\* to date is not marked again.
THEOREM KeepsCalm == Spec => []CalmInv
<1>1. Init => CalmInv
  BY InitCalm DEF CalmInv
<1>2. IInv /\ CalmInv /\ [Next]_settlementVars => CalmInv'
  <2> SUFFICES ASSUME IInv, CalmInv, [Next]_settlementVars, CannotCycle' PROVE Calm'
    BY DEF CalmInv
  <2>1. CannotCycle
    BY GettersStay DEF CannotCycle, MayRead
  <2> QED BY <2>1, NextCalm DEF CalmInv
<1> QED BY <1>1, <1>2, Invariant, PTL DEF Spec

\* What is up to date is what recomputing it gives.
LEMMA CurrentRecomputed ==
  ASSUME IInv, Calm, CannotCycle
  PROVE  \A x \in Current : record[x] # None /\ record[x].out = Recomputed[x]
<1> DEFINE C == Current
<1>1. C \in SUBSET Selectors /\ \A x \in C : record[x] # None
  BY DEF Current
<1>2. body \in Programs /\ value \in [Atoms -> Values]
  BY DEF IInv, DataOK
<1>3. \A x \in C : x \notin dirty /\ Graph(record)[x] \subseteq C
  BY DEF Calm, MarksCalm
<1> HIDE DEF C
<1>4. ASSUME NEW x \in C
      PROVE  /\ record[x] # None
             /\ Explained(body[x], Serves(value, record), record[x])
             /\ \A d \in Range(record[x].deps) \cap Selectors : d \in C /\ <<x, d>> \in MayRead
  <2>1. record[x] # None /\ x \in Selectors
    BY <1>1
  <2>2. Graph(record)[x] = Range(record[x].deps) \cap Selectors
    BY <2>1 DEF Graph, Deps
  <2>3. /\ \A d \in Graph(record)[x] : <<x, d>> \in MayRead
        /\ x \notin dirty => Explained(body[x], Serves(value, record), record[x])
    BY <2>1 DEF Calm, RecordsCalm
  <2> QED BY <1>3, <2>1, <2>2, <2>3
<1>5. \A x \in C : record[x].out = Recomputed[x]
  BY <1>1, <1>2, <1>4, ExplainedRecomputed
<1> QED BY <1>1, <1>5 DEF C

\* No getter, in whatever nesting of reads and walks it runs, gets a value from before the
\* write, and no subscription is reached because of one: wherever no getter can come to
\* read itself, propagation has no glitch.
THEOREM GlitchFreedom == Spec => []GlitchFree
<1>1. IInv /\ CalmInv => GlitchFree
  <2> SUFFICES ASSUME IInv, CalmInv, CannotCycle
               PROVE  /\ \A i \in DOMAIN stack : IsEvaluation(stack[i]) =>
                           IsPrefix(stack[i].reads, RunOf(body[stack[i].selector], Recomputed))
                      /\ Settled => ReachesOnlyChanged
    BY Zenon DEF GlitchFree
  <2>1. Calm
    BY DEF CalmInv
  <2>2. \A x \in Current : record[x] # None /\ record[x].out = Recomputed[x]
    BY <2>1, CurrentRecomputed
  <2>3. body \in Programs /\ value \in [Atoms -> Values]
    BY DEF IInv, DataOK
  <2>4. ASSUME NEW i \in DOMAIN stack, IsEvaluation(stack[i])
        PROVE  IsPrefix(stack[i].reads, RunOf(body[stack[i].selector], Recomputed))
    <3> DEFINE f == stack[i]
               s == f.selector
               got == f.reads
    <3>1. EvaluationCalm(f, Current, Serves(value, record))
      BY <2>1, <2>4 DEF Calm, StackCalm, FrameCalm
    <3>2. s \in Selectors
      BY <2>4 DEF IInv, StackOK, FrameWF, IsEvaluation, EvaluationWF
    <3>3. Gets(body[s], Serves(value, record), got)
      BY <3>1 DEF EvaluationCalm
    <3>4. ReadNodes(body[s], got) \cap Selectors \subseteq Current
      BY <3>1 DEF EvaluationCalm
    <3> HIDE DEF f, s, got
    <3>5. \A d \in ReadNodes(body[s], got) \cap Selectors :
            record[d] # None /\ record[d].out = Recomputed[d]
      BY <2>2, <3>4
    <3>6. IsPrefix(got, RunOf(body[s], Recomputed))
      BY <2>3, <3>2, <3>3, <3>5, GotRecomputed
    <3> QED BY <3>6 DEF f, s, got
  <2>5. ReachesOnlyChanged
    <3>1. \A s \in reached : before[s] # None /\ (record[s].out = Error \/ record[s].out # before[s])
      BY <2>1 DEF Calm, HistoryCalm
    <3>2. reached \subseteq Selectors
      BY DEF IInv, DataOK
    <3> QED BY <3>1, <3>2 DEF ReachesOnlyChanged, Changed
  <2> QED BY <2>4, <2>5
<1> QED BY <1>1, Invariant, KeepsCalm, PTL

\* There, between operations every record is what recomputing its selector gives.
THEOREM ServedWithoutCycles == Spec => [](CannotCycle => ServesRecomputed)
<1>1. IInv /\ CalmInv => (CannotCycle => ServesRecomputed)
  <2> SUFFICES ASSUME IInv, Calm, CannotCycle, mode = "idle", NEW s \in Selectors, record[s] # None
               PROVE  s \notin dirty /\ record[s].out = Recomputed[s]
    BY Zenon DEF CalmInv, ServesRecomputed
  <2>1. s \in Current
    BY DEF Current
  <2>2. record[s].out = Recomputed[s]
    BY <2>1, CurrentRecomputed
  <2>3. s \notin dirty
    BY DEF Calm, MarksCalm
  <2> QED BY <2>2, <2>3
<1> QED BY <1>1, Invariant, KeepsCalm, PTL

\* There, one read or propagation runs no getter twice.
THEOREM OnceWithoutCycles ==
  Spec => [](CannotCycle => \A s \in Selectors : evaluations[s] <= 1)
<1>1. CalmInv => (CannotCycle => \A s \in Selectors : evaluations[s] <= 1)
  <2> SUFFICES ASSUME Calm, NEW s \in Selectors PROVE evaluations[s] <= 1
    BY DEF CalmInv
  <2>1. evaluations[s] \in {0, 1}
    BY DEF Calm, HistoryCalm
  <2> QED BY <2>1
<1> QED BY <1>1, KeepsCalm, PTL

=============================================================================
