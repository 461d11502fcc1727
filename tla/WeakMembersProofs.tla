------------------------- MODULE WeakMembersProofs -------------------------
(***************************************************************************)
(* The member cache for every set of keys, tuples and members and every    *)
(* depth of recursive factories: a live member stays the one its tuple is  *)
(* looked up to, and the trie keeps no route without a use.                *)
(***************************************************************************)
EXTENDS WeakMembers, SequenceTheorems, TLAPS

\* Only what is in the trie has an entry.
EntriesAttached == \A r \in Routes : entry[r] # None => r \in routes

\* The building entries are those of the calls in flight.
BuildsInFlight ==
  \A r \in Routes, i \in 1..MaxDepth :
    entry[r] = Building(i) => i \in DOMAIN stack /\ stack[i].route = r

IInv ==
  /\ TypeOK
  /\ EntriesAttached
  /\ BuildsAttached
  /\ BuildsInFlight
  /\ Canonical
  /\ EveryRouteIsOfUse

-----------------------------------------------------------------------------
(* Sequences *)

\* What Front and Last are of a sequence that is not empty.
LEMMA FrontLast ==
  ASSUME NEW S, NEW s \in Seq(S), s # <<>>
  PROVE  /\ Len(s) \in Nat \ {0} /\ Last(s) = s[Len(s)] /\ Last(s) \in S
         /\ Front(s) \in Seq(S) /\ Len(Front(s)) = Len(s) - 1
         /\ \A i \in 1..Len(s) - 1 : i \in 1..Len(s) /\ Front(s)[i] = s[i]
<1>1. Len(s) \in Nat \ {0} /\ DOMAIN s = 1..Len(s) /\ \A i \in 1..Len(s) : s[i] \in S
  BY EmptySeq, LenProperties, ElementOfSeq
<1>2. \A i \in 1..Len(s) - 1 : i \in 1..Len(s) BY <1>1
<1>3. /\ SubSeq(s, 1, Len(s) - 1) \in Seq(S)
      /\ Len(SubSeq(s, 1, Len(s) - 1)) = IF 1 <= Len(s) - 1 THEN Len(s) - 1 - 1 + 1 ELSE 0
      /\ \A i \in 1..Len(s) - 1 - 1 + 1 : SubSeq(s, 1, Len(s) - 1)[i] = s[1 + i - 1]
  <2>1. Len(s) - 1 \in Int /\ \A i \in 1..Len(s) - 1 : s[i] \in S BY <1>1, <1>2
  <2> QED BY <2>1, SubSeqProperties
<1>4. \A i \in 1..Len(s) - 1 : i \in 1..Len(s) - 1 - 1 + 1 /\ 1 + i - 1 = i BY <1>1
<1>5. Len(SubSeq(s, 1, Len(s) - 1)) = Len(s) - 1 BY <1>1, <1>3
<1> QED BY <1>1, <1>2, <1>3, <1>4, <1>5 DEF Front, Last

\* A prefix is no longer, and agrees element by element.
LEMMA PrefixMeans ==
  ASSUME NEW S, NEW s \in Seq(S), NEW t \in Seq(S)
  PROVE  IsPrefix(s, t) <=> Len(s) <= Len(t) /\ \A i \in 1..Len(s) : s[i] = t[i]
<1>1. Len(s) \in Nat /\ Len(t) \in Nat BY LenProperties
<1>2. ASSUME Len(s) <= Len(t), NEW u \in {s, t}
      PROVE  /\ SubSeq(u, 1, Len(s)) \in Seq(S)
             /\ Len(SubSeq(u, 1, Len(s))) = Len(s)
             /\ \A i \in 1..Len(s) : SubSeq(u, 1, Len(s))[i] = u[i]
  <2>1. \A i \in 1..Len(s) : u[i] \in S
    <3>1. \A i \in 1..Len(s) : i \in 1..Len(u) BY <1>1, <1>2
    <3> QED BY <3>1, ElementOfSeq
  <2>2. \A i \in 1..Len(s) : i \in 1..Len(s) - 1 + 1 /\ 1 + i - 1 = i BY <1>1
  <2>3. /\ SubSeq(u, 1, Len(s)) \in Seq(S)
        /\ Len(SubSeq(u, 1, Len(s))) = IF 1 <= Len(s) THEN Len(s) - 1 + 1 ELSE 0
        /\ \A i \in 1..Len(s) - 1 + 1 : SubSeq(u, 1, Len(s))[i] = u[1 + i - 1]
    BY <1>1, <2>1, SubSeqProperties
  <2> QED BY <1>1, <2>2, <2>3
<1>3. ASSUME Len(s) <= Len(t), \A i \in 1..Len(s) : s[i] = t[i]
      PROVE  SubSeq(s, 1, Len(s)) = SubSeq(t, 1, Len(s))
  <2> DEFINE a == SubSeq(s, 1, Len(s))
             b == SubSeq(t, 1, Len(s))
  <2>1. a \in Seq(S) /\ b \in Seq(S) /\ Len(a) = Len(s) /\ Len(b) = Len(s) BY <1>2, <1>3
  <2>2. \A i \in 1..Len(s) : a[i] = b[i] BY <1>2, <1>3
  <2> HIDE DEF a, b
  <2>3. a = b BY <2>1, <2>2, SeqEqual
  <2> QED BY <2>3 DEF a, b
<1>4. ASSUME IsPrefix(s, t) PROVE Len(s) <= Len(t) /\ \A i \in 1..Len(s) : s[i] = t[i]
  <2>1. Len(s) <= Len(t) /\ SubSeq(s, 1, Len(s)) = SubSeq(t, 1, Len(s)) BY <1>4 DEF IsPrefix
  <2>2. ASSUME NEW i \in 1..Len(s) PROVE s[i] = t[i]
    <3>1. SubSeq(s, 1, Len(s))[i] = s[i] /\ SubSeq(t, 1, Len(s))[i] = t[i] BY <1>2, <2>1
    <3> QED BY <3>1, <2>1
  <2> QED BY <2>1, <2>2
<1> QED BY <1>3, <1>4 DEF IsPrefix

\* The prefix order: it is reflexive and transitive, and only <<>> is below <<>>.
LEMMA PrefixOrder ==
  ASSUME NEW S
  PROVE  /\ \A s \in Seq(S) : IsPrefix(s, s)
         /\ \A s, t, u \in Seq(S) : IsPrefix(s, t) /\ IsPrefix(t, u) => IsPrefix(s, u)
         /\ \A s \in Seq(S) : IsPrefix(s, <<>>) => s = <<>>
<1>1. \A s \in Seq(S) : IsPrefix(s, s) BY PrefixMeans, LenProperties
<1>2. ASSUME NEW s \in Seq(S), NEW t \in Seq(S), NEW u \in Seq(S), IsPrefix(s, t), IsPrefix(t, u)
      PROVE  IsPrefix(s, u)
  <2>1. /\ Len(s) \in Nat /\ Len(t) \in Nat /\ Len(u) \in Nat
        /\ Len(s) <= Len(t) /\ \A i \in 1..Len(s) : s[i] = t[i]
        /\ Len(t) <= Len(u) /\ \A i \in 1..Len(t) : t[i] = u[i]
    BY <1>2, PrefixMeans, LenProperties
  <2>2. Len(s) <= Len(u) /\ \A i \in 1..Len(s) : i \in 1..Len(t) BY <2>1
  <2>3. \A i \in 1..Len(s) : s[i] = u[i] BY <2>1, <2>2
  <2> QED BY <2>2, <2>3, PrefixMeans
<1>3. ASSUME NEW s \in Seq(S), IsPrefix(s, <<>>) PROVE s = <<>>
  <2>1. <<>> \in Seq(S) /\ Len(<<>>) = 0 /\ Len(s) \in Nat BY EmptySeq, LenProperties
  <2>2. Len(s) <= 0 BY <1>3, <2>1, PrefixMeans
  <2> QED BY <2>1, <2>2, EmptySeq
<1> QED BY <1>1, <1>2, <1>3

\* The prefixes of a sequence, the empty one and itself included.
LEMMA PrefixesOf ==
  ASSUME NEW S, NEW t \in Seq(S)
  PROVE  /\ <<>> \in Prefixes(t) /\ t \in Prefixes(t)
         /\ \A s \in Prefixes(t) : s \in Seq(S) /\ IsPrefix(s, t)
         /\ \A s \in Seq(S) : IsPrefix(s, t) => s \in Prefixes(t)
<1>1. Len(t) \in Nat /\ \A i \in 1..Len(t) : t[i] \in S BY LenProperties, ElementOfSeq
<1>2. ASSUME NEW n \in 0..Len(t)
      PROVE  /\ SubSeq(t, 1, n) \in Seq(S) /\ Len(SubSeq(t, 1, n)) = n
             /\ \A i \in 1..n : SubSeq(t, 1, n)[i] = t[i]
  <2>1. n \in Int /\ \A i \in 1..n : t[i] \in S
    <3>1. \A i \in 1..n : i \in 1..Len(t) BY <1>1
    <3> QED BY <3>1, <1>1
  <2>2. /\ SubSeq(t, 1, n) \in Seq(S)
        /\ Len(SubSeq(t, 1, n)) = IF 1 <= n THEN n - 1 + 1 ELSE 0
        /\ \A i \in 1..n - 1 + 1 : SubSeq(t, 1, n)[i] = t[1 + i - 1]
    BY <2>1, SubSeqProperties
  <2>3. \A i \in 1..n : i \in 1..n - 1 + 1 /\ 1 + i - 1 = i BY <1>1
  <2> QED BY <1>1, <2>2, <2>3
<1>3. ASSUME NEW s \in Seq(S), IsPrefix(s, t) PROVE s \in Prefixes(t)
  <2>1. Len(s) \in 0..Len(t) /\ \A i \in 1..Len(s) : s[i] = t[i]
    BY <1>1, <1>3, PrefixMeans, LenProperties
  <2>2. s = SubSeq(t, 1, Len(s))
    <3> DEFINE u == SubSeq(t, 1, Len(s))
    <3>1. u \in Seq(S) /\ Len(u) = Len(s) /\ \A i \in 1..Len(s) : u[i] = s[i] BY <2>1, <1>2
    <3> HIDE DEF u
    <3>2. s = u BY <3>1, SeqEqual
    <3> QED BY <3>2 DEF u
  <2> QED BY <2>1, <2>2 DEF Prefixes
<1>4. ASSUME NEW s \in Prefixes(t) PROVE s \in Seq(S) /\ IsPrefix(s, t)
  <2>1. PICK n \in 0..Len(t) : s = SubSeq(t, 1, n) BY DEF Prefixes
  <2>2. s \in Seq(S) /\ Len(s) = n /\ \A i \in 1..n : s[i] = t[i] BY <2>1, <1>2
  <2>3. Len(s) <= Len(t) BY <2>2, <1>1
  <2> QED BY <2>2, <2>3, PrefixMeans
<1>5. t \in Prefixes(t) BY <1>3, PrefixOrder
<1>6. <<>> \in Prefixes(t)
  <2>1. <<>> \in Seq(S) /\ Len(<<>>) = 0 BY EmptySeq
  <2>2. Len(<<>>) <= Len(t) /\ \A i \in 1..Len(<<>>) : <<>>[i] = t[i] BY <2>1, <1>1
  <2>3. IsPrefix(<<>>, t) BY <2>1, <2>2, PrefixMeans
  <2> QED BY <2>1, <2>3, <1>3
<1> QED BY <1>3, <1>4, <1>5, <1>6

\* Routes are sequences of keys, the tuples among them.
LEMMA RoutesType ==
  /\ Routes \subseteq Seq(Keys) /\ <<>> \in Routes
  /\ Tuples \subseteq Routes /\ Tuples \subseteq Seq(Keys) \ {<<>>}
  /\ \A t \in Tuples : Prefixes(t) \subseteq Routes
BY TuplesAssumption, PrefixesOf, EmptySeq DEF Routes

-----------------------------------------------------------------------------
(* Pruning *)

\* What pruning leaves: all that has an entry, and only what leads to one.
LEMMA Pruning ==
  ASSUME routes \subseteq Routes, <<>> \in routes,
         NEW start \in Tuples, NEW ent,
         \A r \in Routes : r # start => ent[r] = entry[r],
         \A r \in routes \ {<<>>} : \E t \in routes : IsPrefix(r, t) /\ entry[t] # None
  PROVE  /\ Remaining(start, ent) \subseteq routes /\ <<>> \in Remaining(start, ent)
         /\ \A r \in routes : ent[r] # None => r \in Remaining(start, ent)
         /\ \A r \in Remaining(start, ent) \ {<<>>} :
              \E t \in Remaining(start, ent) : IsPrefix(r, t) /\ ent[t] # None
<1> DEFINE R == Remaining(start, ent)
           P == Pruned(start, ent)
<1>0. routes \subseteq Seq(Keys) /\ start \in Seq(Keys) /\ Prefixes(start) \subseteq Seq(Keys)
  BY RoutesType
<1>1. /\ R = {r \in routes : \A q \in P : ~IsPrefix(q, r)}
      /\ P = {q \in Prefixes(start) \ {<<>>} :
                \A r \in routes : IsPrefix(q, r) => IsPrefix(r, start) /\ ent[r] = None}
  BY DEF Remaining, Pruned
<1> HIDE DEF R, P
<1>2. R \subseteq routes /\ <<>> \in R
  <2>1. ASSUME NEW q \in P PROVE ~IsPrefix(q, <<>>) BY <1>0, <1>1, PrefixOrder
  <2> QED BY <1>1, <2>1
<1>3. \A r \in routes : ent[r] # None => r \in R BY <1>1
<1>4. ASSUME NEW r \in R \ {<<>>}
      PROVE  \E t \in R : IsPrefix(r, t) /\ ent[t] # None
  <2>1. PICK t \in routes : IsPrefix(r, t) /\ entry[t] # None BY <1>2
  <2>2. CASE ent[t] # None BY <2>1, <2>2, <1>3
  <2>3. CASE ent[t] = None
    <3>1. t = start BY <2>1, <2>3
    <3>2. r \in Prefixes(start) \ {<<>>} /\ r \notin P
      <4>1. r \in Prefixes(start) BY <2>1, <3>1, <1>0, <1>2, PrefixesOf
      <4>2. IsPrefix(r, r) BY <1>0, <1>2, PrefixOrder
      <4> QED BY <4>1, <4>2, <1>1
    <3>3. PICK r2 \in routes : IsPrefix(r, r2) /\ ~(IsPrefix(r2, start) /\ ent[r2] = None)
      BY <3>2, <1>1
    <3>4. CASE ent[r2] # None BY <3>3, <3>4, <1>3
    <3>5. CASE ~IsPrefix(r2, start)
      <4>1. r2 # <<>> BY <3>5, <1>0, PrefixesOf
      <4>2. PICK t2 \in routes : IsPrefix(r2, t2) /\ entry[t2] # None BY <4>1
      <4>3. t2 # start BY <3>5, <4>2
      <4>4. ent[t2] # None BY <4>2, <4>3
      <4>5. IsPrefix(r, t2)
        <5>1. r \in Seq(Keys) /\ r2 \in Seq(Keys) /\ t2 \in Seq(Keys) BY <1>0, <1>2
        <5> QED BY <5>1, <3>3, <4>2, PrefixOrder
      <4> QED BY <4>4, <4>5, <1>3
    <3> QED BY <3>3, <3>4, <3>5
  <2> QED BY <2>2, <2>3
<1> QED BY <1>2, <1>3, <1>4 DEF R

-----------------------------------------------------------------------------
(* The invariant *)

\* Entries of different kinds, frames or members differ.
LEMMA EntriesDiffer ==
  /\ \A i, m : Building(i) # Ready(m)
  /\ \A i, j : Building(i) = Building(j) => i = j
  /\ \A m, n : Ready(m) = Ready(n) => m = n
  /\ \A i \in 1..MaxDepth : Building(i) \in Entries
  /\ \A m \in Members : Ready(m) \in Entries
  /\ \A e \in Entries : \/ \E i \in 1..MaxDepth : e = Building(i)
                        \/ \E m \in Members : e = Ready(m)
BY DEF Building, Ready, Entries

\* What the innermost call in flight is known by.
LEMMA Innermost ==
  ASSUME IInv, stack # <<>>
  PROVE  /\ Len(stack) \in 1..MaxDepth /\ Len(stack) \in DOMAIN stack
         /\ Last(stack) = stack[Len(stack)]
         /\ Last(stack).route \in Tuples /\ Last(stack).route \in routes
         /\ entry[Last(stack).route] = Building(Len(stack))
         /\ Front(stack) \in Seq([route : Tuples, fault : BOOLEAN])
         /\ Len(Front(stack)) = Len(stack) - 1
         /\ DOMAIN Front(stack) = 1..Len(stack) - 1
         /\ \A i \in 1..Len(stack) - 1 : i \in DOMAIN stack /\ Front(stack)[i] = stack[i]
<1>1. stack \in Seq([route : Tuples, fault : BOOLEAN]) /\ Len(stack) <= MaxDepth
  BY DEF IInv, TypeOK
<1>2. DOMAIN stack = 1..Len(stack) BY <1>1, LenProperties
<1>3. /\ Len(stack) \in Nat \ {0} /\ Last(stack) = stack[Len(stack)]
      /\ Last(stack) \in [route : Tuples, fault : BOOLEAN]
      /\ Front(stack) \in Seq([route : Tuples, fault : BOOLEAN])
      /\ Len(Front(stack)) = Len(stack) - 1
      /\ \A i \in 1..Len(stack) - 1 : i \in 1..Len(stack) /\ Front(stack)[i] = stack[i]
  BY <1>1, FrontLast, Zenon
<1>4. DOMAIN Front(stack) = 1..Len(stack) - 1 BY <1>3, LenProperties
<1>5. Len(stack) \in 1..MaxDepth /\ Len(stack) \in 1..Len(stack)
  BY <1>1, <1>3, MaxDepthAssumption
<1>6. /\ Last(stack).route \in routes
      /\ entry[Last(stack).route] = Building(Len(stack))
  BY <1>2, <1>3, <1>5 DEF IInv, BuildsAttached
<1> QED BY <1>2, <1>3, <1>4, <1>5, <1>6

\* The trie starts empty.
LEMMA InitIInv == Init => IInv
<1> SUFFICES ASSUME Init PROVE IInv OBVIOUS
<1> USE DEF Init
<1>1. TypeOK BY EmptySeq, RoutesType, MaxDepthAssumption DEF TypeOK
<1>2. BuildsAttached BY DEF BuildsAttached
<1>3. EntriesAttached BY DEF EntriesAttached
<1>4. BuildsInFlight BY EntriesDiffer, NoneAssumption DEF BuildsInFlight
<1>5. Canonical BY DEF Canonical
<1>6. EveryRouteIsOfUse BY EntriesDiffer, NoneAssumption DEF EveryRouteIsOfUse
<1> QED BY <1>1, <1>2, <1>3, <1>4, <1>5, <1>6 DEF IInv

\* Looking up what is there, and dropping it, disturbs nothing in the trie.
LEMMA HitIInv ==
  ASSUME IInv, NEW t \in Tuples, Hit(t)
  PROVE  IInv'
<1> USE DEF IInv
<1>1. PICK m \in alive : entry[t] = Ready(m) BY DEF Hit, Found
<1>2. entry[t].of = m BY <1>1 DEF Ready
<1>3. /\ t \in routes /\ held' = held \cup {m} /\ given' = [given EXCEPT ![t] = m]
      /\ UNCHANGED <<routes, entry, stack, cells, alive>>
  BY <1>2 DEF Hit, Found
<1>4. TypeOK' BY <1>3 DEF TypeOK
<1>5. Canonical' BY <1>1, <1>3 DEF Canonical, TypeOK
<1>6. EntriesAttached' /\ BuildsAttached' /\ BuildsInFlight' /\ EveryRouteIsOfUse'
  BY <1>3 DEF EntriesAttached, BuildsAttached, BuildsInFlight, EveryRouteIsOfUse
<1> QED BY <1>4, <1>5, <1>6

\* A call marked as faulty is still the same call.
LEMMA Marked ==
  ASSUME NEW f \in [route : Tuples, fault : BOOLEAN]
  PROVE  /\ [f EXCEPT !.fault = TRUE] \in [route : Tuples, fault : BOOLEAN]
         /\ [f EXCEPT !.fault = TRUE].route = f.route
  OBVIOUS

\* A recursive lookup marks the call in flight.
LEMMA RecurseIInv ==
  ASSUME IInv, NEW t \in Tuples, Recurse(t)
  PROVE  IInv'
<1> USE DEF IInv
<1>1. t \in Routes /\ entry[t] \in Entries BY RoutesType DEF Recurse, TypeOK
<1>2. PICK i \in 1..MaxDepth : entry[t] = Building(i)
  BY <1>1, EntriesDiffer DEF Recurse, Ready
<1>3. i \in DOMAIN stack /\ entry[t].of = i BY <1>1, <1>2 DEF BuildsInFlight, Building
<1>4. /\ stack' = [stack EXCEPT ![i].fault = TRUE]
      /\ UNCHANGED <<routes, entry, cells, alive, held, given>>
  BY <1>3 DEF Recurse
<1>5. stack \in Seq([route : Tuples, fault : BOOLEAN]) /\ DOMAIN stack = 1..Len(stack)
  BY LenProperties DEF TypeOK
<1>6. /\ stack' \in Seq([route : Tuples, fault : BOOLEAN])
      /\ Len(stack') = Len(stack) /\ DOMAIN stack' = DOMAIN stack
      /\ \A j \in DOMAIN stack : stack'[j].route = stack[j].route
  <2> DEFINE f == [stack[i] EXCEPT !.fault = TRUE]
  <2>1. f \in [route : Tuples, fault : BOOLEAN] /\ f.route = stack[i].route
    <3>1. stack[i] \in [route : Tuples, fault : BOOLEAN] BY <1>3, <1>5, ElementOfSeq
    <3> QED BY <3>1, Marked
  <2>2. stack' = [stack EXCEPT ![i] = f] BY <1>4
  <2> HIDE DEF f
  <2>3. /\ stack' \in Seq([route : Tuples, fault : BOOLEAN])
        /\ Len(stack') = Len(stack)
        /\ \A j \in 1..Len(stack) : stack'[j] = IF j = i THEN f ELSE stack[j]
    BY <2>1, <2>2, <1>3, <1>5, ExceptSeq
  <2> QED BY <2>1, <2>3, <1>5, LenProperties
<1>7. TypeOK' BY <1>4, <1>6 DEF TypeOK
<1>8. BuildsAttached' BY <1>4, <1>6 DEF BuildsAttached
<1>9. BuildsInFlight' BY <1>4, <1>6 DEF BuildsInFlight
<1>10. EntriesAttached' /\ Canonical' /\ EveryRouteIsOfUse'
  BY <1>4 DEF EntriesAttached, Canonical, EveryRouteIsOfUse
<1> QED BY <1>7, <1>8, <1>9, <1>10

\* A build attaches its route.  The member it replaces is dead.
LEMMA BuildIInv ==
  ASSUME IInv, NEW t \in Tuples, Build(t)
  PROVE  IInv'
<1> USE DEF IInv
<1> DEFINE n == Len(stack) + 1
<1>1. /\ routes' = routes \cup Prefixes(t)
      /\ entry' = [entry EXCEPT ![t] = Building(n)]
      /\ stack' = Append(stack, [route |-> t, fault |-> FALSE])
      /\ UNCHANGED <<alive, held, given>>
      /\ cells' \subseteq cells
      /\ \A c \in cells : c.route # t => c \in cells'
  BY DEF Build
<1>2. /\ stack \in Seq([route : Tuples, fault : BOOLEAN])
      /\ Len(stack) \in Nat /\ DOMAIN stack = 1..Len(stack) /\ Len(stack) < MaxDepth
  BY LenProperties DEF TypeOK, Build
<1>3. n \in 1..MaxDepth /\ n \notin DOMAIN stack BY <1>2, MaxDepthAssumption
<1>4. /\ stack' \in Seq([route : Tuples, fault : BOOLEAN]) /\ Len(stack') = n
      /\ DOMAIN stack' = DOMAIN stack \cup {n} /\ stack'[n].route = t
      /\ \A i \in DOMAIN stack : stack'[i] = stack[i]
  <2>1. [route |-> t, fault |-> FALSE] \in [route : Tuples, fault : BOOLEAN] OBVIOUS
  <2>2. /\ stack' \in Seq([route : Tuples, fault : BOOLEAN]) /\ Len(stack') = n
        /\ stack'[n] = [route |-> t, fault |-> FALSE]
        /\ \A i \in 1..Len(stack) : stack'[i] = stack[i]
    BY <1>1, <1>2, <2>1, AppendProperties
  <2>3. DOMAIN stack' = 1..n BY <2>2, LenProperties
  <2> QED BY <2>2, <2>3, <1>2
<1> HIDE DEF n
<1>5. t \in Routes /\ t \in Prefixes(t) /\ Prefixes(t) \subseteq Routes
  BY RoutesType, PrefixesOf
<1>6. entry[t] = None \/ \E m \in Members \ alive : entry[t] = Ready(m)
  <2>1. CASE t \notin routes BY <2>1, <1>5 DEF EntriesAttached
  <2>2. CASE t \in routes /\ entry[t] # None
    <3>1. entry[t].kind = "ready" /\ entry[t].of \notin alive /\ entry[t] \in Entries
      BY <2>2, <1>5 DEF Build, Vacant, Dead, TypeOK
    <3>2. ASSUME NEW i, entry[t] = Building(i) PROVE FALSE
      <4>1. Building(i).kind = "building" BY DEF Building
      <4> QED BY <4>1, <3>1, <3>2
    <3>3. PICK m \in Members : entry[t] = Ready(m) BY <3>1, <3>2, EntriesDiffer
    <3> QED BY <3>1, <3>3 DEF Ready
  <2> QED BY <2>1, <2>2
<1>7. \A i \in DOMAIN stack : stack[i].route # t
  BY <1>6, EntriesDiffer, NoneAssumption, <1>2, <1>3, MaxDepthAssumption DEF BuildsAttached
<1>8. TypeOK'
  BY <1>1, <1>2, <1>3, <1>4, <1>5, EntriesDiffer, MaxDepthAssumption DEF TypeOK
<1>9. EntriesAttached' BY <1>1, <1>5 DEF EntriesAttached, TypeOK
<1>10. BuildsAttached' BY <1>1, <1>4, <1>5, <1>7 DEF BuildsAttached, TypeOK
<1>11. BuildsInFlight' BY <1>1, <1>4, <1>5, <1>7, EntriesDiffer DEF BuildsInFlight, TypeOK
<1>12. Canonical'
  <2>1. given[t] = None
    <3> SUFFICES ASSUME given[t] # None PROVE FALSE OBVIOUS
    <3>1. given[t] \in alive /\ given[t] \in Members /\ entry[t] = Ready(given[t])
      BY DEF Canonical, TypeOK
    <3>2. entry[t] # None BY <3>1, EntriesDiffer, NoneAssumption
    <3>3. PICK m \in Members \ alive : entry[t] = Ready(m) BY <3>2, <1>6
    <3> QED BY <3>1, <3>3, EntriesDiffer
  <2> QED BY <2>1, <1>1 DEF Canonical, TypeOK
<1>13. EveryRouteIsOfUse'
  <2>1. ASSUME NEW r \in Prefixes(t) PROVE \E u \in routes' : IsPrefix(r, u) /\ entry'[u] # None
    <3>1. IsPrefix(r, t) /\ t \in routes' /\ entry'[t] = Building(n)
      BY <1>1, <1>5, PrefixesOf, RoutesType DEF TypeOK
    <3> QED BY <3>1, <1>3, EntriesDiffer, NoneAssumption
  <2>2. ASSUME NEW r \in routes \ {<<>>}
        PROVE \E u \in routes' : IsPrefix(r, u) /\ entry'[u] # None
    <3>1. PICK u \in routes : IsPrefix(r, u) /\ entry[u] # None BY DEF EveryRouteIsOfUse
    <3>2. u \in Routes /\ entry'[u] # None
      BY <3>1, <1>1, <1>3, <1>5, EntriesDiffer, NoneAssumption DEF TypeOK
    <3> QED BY <3>1, <3>2, <1>1
  <2>3. ASSUME NEW r \in Routes, NEW m \in Members, entry'[r] = Ready(m)
        PROVE  [route |-> r, member |-> m] \in cells'
    <3>1. r # t /\ entry[r] = Ready(m) BY <2>3, <1>1, <1>5, EntriesDiffer DEF TypeOK
    <3>2. [route |-> r, member |-> m] \in cells BY <3>1 DEF EveryRouteIsOfUse
    <3> QED BY <3>1, <3>2, <1>1
  <2> QED BY <2>1, <2>2, <2>3, <1>1 DEF EveryRouteIsOfUse
<1> QED BY <1>8, <1>9, <1>10, <1>11, <1>12, <1>13

\* A member takes the place of its building entry.
LEMMA ReturnIInv ==
  ASSUME IInv, NEW m \in Members, Return(m)
  PROVE  IInv'
<1> USE DEF IInv
<1> DEFINE t == Last(stack).route
           n == Len(stack)
<1>1. /\ stack # <<>>
      /\ entry' = [entry EXCEPT ![t] = Ready(m)]
      /\ cells' = cells \cup {[route |-> t, member |-> m]}
      /\ alive' = alive \cup {m} /\ held' = held \cup {m}
      /\ given' = [given EXCEPT ![t] = m]
      /\ stack' = Front(stack) /\ routes' = routes
  BY DEF Return
<1>2. /\ n \in 1..MaxDepth /\ n \in DOMAIN stack /\ t = stack[n].route
      /\ t \in Tuples /\ t \in routes /\ entry[t] = Building(n)
      /\ stack' \in Seq([route : Tuples, fault : BOOLEAN])
      /\ Len(stack') = n - 1 /\ DOMAIN stack' = 1..n - 1
      /\ \A i \in 1..n - 1 : i \in DOMAIN stack /\ stack'[i] = stack[i]
  BY <1>1, Innermost
<1>3. t \in Routes /\ n <= MaxDepth /\ DOMAIN stack = 1..n
  BY <1>2, RoutesType, LenProperties DEF TypeOK
<1> HIDE DEF t, n
<1>4. \A i \in 1..n - 1 : stack[i].route # t BY <1>2, EntriesDiffer DEF BuildsAttached
<1>5. TypeOK'
  <2>1. n - 1 <= MaxDepth BY <1>2, <1>3, MaxDepthAssumption
  <2> QED BY <2>1, <1>1, <1>2, <1>3, EntriesDiffer DEF TypeOK
<1>6. EntriesAttached' BY <1>1, <1>2 DEF EntriesAttached, TypeOK
<1>7. BuildsAttached'
  <2> SUFFICES ASSUME NEW i \in 1..n - 1
               PROVE  stack'[i].route \in routes' /\ entry'[stack'[i].route] = Building(i)
    BY <1>2 DEF BuildsAttached
  <2>1. stack'[i].route = stack[i].route /\ stack[i].route # t BY <1>2, <1>4
  <2>2. stack[i].route \in routes /\ entry[stack[i].route] = Building(i)
    BY <1>2 DEF BuildsAttached
  <2> QED BY <2>1, <2>2, <1>1 DEF TypeOK
<1>8. BuildsInFlight'
  <2> SUFFICES ASSUME NEW r \in Routes, NEW i \in 1..MaxDepth, entry'[r] = Building(i)
               PROVE  i \in 1..n - 1 /\ stack'[i].route = r
    BY <1>2 DEF BuildsInFlight
  <2>1. r # t /\ entry[r] = Building(i) BY <1>1, <1>3, EntriesDiffer DEF TypeOK
  <2>2. i \in 1..n /\ stack[i].route = r BY <2>1, <1>3 DEF BuildsInFlight
  <2>3. i # n BY <2>1, <2>2, <1>2
  <2> QED BY <2>2, <2>3, <1>2
<1>9. Canonical' BY <1>1, <1>2, <1>3 DEF Canonical, TypeOK
<1>10. EveryRouteIsOfUse'
  <2>1. Ready(m) # None BY EntriesDiffer, NoneAssumption
  <2>2. \A r \in Routes : entry[r] # None => entry'[r] # None BY <1>1, <2>1 DEF TypeOK
  <2>3. \A r \in routes' \ {<<>>} : \E u \in routes' : IsPrefix(r, u) /\ entry'[u] # None
    BY <1>1, <2>2 DEF EveryRouteIsOfUse, TypeOK
  <2>4. ASSUME NEW r \in Routes, NEW x \in Members, entry'[r] = Ready(x)
        PROVE  [route |-> r, member |-> x] \in cells'
    <3>1. CASE r = t
      <4>1. x = m BY <2>4, <3>1, <1>1, <1>3, EntriesDiffer DEF TypeOK
      <4> QED BY <4>1, <3>1, <1>1
    <3>2. CASE r # t BY <2>4, <3>2, <1>1 DEF EveryRouteIsOfUse, TypeOK
    <3> QED BY <3>1, <3>2
  <2> QED BY <2>3, <2>4 DEF EveryRouteIsOfUse
<1> QED BY <1>5, <1>6, <1>7, <1>8, <1>9, <1>10

\* A failed build takes its own entry with it, and the routes only it used.
LEMMA FailIInv ==
  ASSUME IInv, Fail
  PROVE  IInv'
<1> USE DEF IInv
<1> DEFINE t == Last(stack).route
           n == Len(stack)
           ent == [entry EXCEPT ![t] = None]
<1>1. /\ n \in 1..MaxDepth /\ n \in DOMAIN stack /\ t = stack[n].route
      /\ t \in Tuples /\ t \in routes /\ entry[t] = Building(n)
      /\ Front(stack) \in Seq([route : Tuples, fault : BOOLEAN])
      /\ Len(Front(stack)) = n - 1 /\ DOMAIN Front(stack) = 1..n - 1
      /\ \A i \in 1..n - 1 : i \in DOMAIN stack /\ Front(stack)[i] = stack[i]
  BY Innermost DEF Fail
<1>2. /\ entry' = ent /\ routes' = Remaining(t, ent) /\ stack' = Front(stack)
      /\ UNCHANGED <<cells, alive, held, given>>
  <2>1. [entry EXCEPT ![t] = IF @ = Building(n) THEN None ELSE @] = ent BY <1>1
  <2> QED BY <2>1 DEF Fail
<1>3. t \in Routes /\ DOMAIN stack = 1..n BY <1>1, RoutesType, LenProperties DEF TypeOK
<1> HIDE DEF t, n
<1>4. /\ \A r \in Routes : r # t => ent[r] = entry[r]
      /\ ent[t] = None /\ ent \in [Routes -> Entries \cup {None}]
  BY <1>3 DEF TypeOK
<1> HIDE DEF ent
<1>5. /\ routes' \subseteq routes /\ <<>> \in routes'
      /\ \A r \in routes : ent[r] # None => r \in routes'
      /\ \A r \in routes' \ {<<>>} : \E u \in routes' : IsPrefix(r, u) /\ ent[u] # None
  BY <1>1, <1>2, <1>4, Pruning DEF TypeOK, EveryRouteIsOfUse
<1>6. \A i \in 1..n - 1 : stack[i].route # t
  BY <1>1, EntriesDiffer DEF BuildsAttached
<1>7. TypeOK'
  <2>1. n - 1 <= MaxDepth BY <1>1, MaxDepthAssumption
  <2> QED BY <2>1, <1>1, <1>2, <1>4, <1>5 DEF TypeOK
<1>8. EntriesAttached' BY <1>2, <1>4, <1>5 DEF EntriesAttached
<1>9. BuildsAttached'
  <2> SUFFICES ASSUME NEW i \in 1..n - 1
               PROVE  stack'[i].route \in routes' /\ entry'[stack'[i].route] = Building(i)
    BY <1>1, <1>2 DEF BuildsAttached
  <2>1. stack'[i].route = stack[i].route /\ stack[i].route # t BY <1>1, <1>2, <1>6
  <2>2. /\ stack[i].route \in routes /\ entry[stack[i].route] = Building(i)
        /\ stack[i].route \in Routes
    BY <1>1 DEF BuildsAttached, TypeOK
  <2>3. ent[stack[i].route] = Building(i) BY <2>1, <2>2, <1>4
  <2>4. Building(i) # None
    <3>1. i \in 1..MaxDepth BY <1>1, MaxDepthAssumption
    <3> QED BY <3>1, EntriesDiffer, NoneAssumption
  <2> QED BY <2>1, <2>2, <2>3, <2>4, <1>2, <1>5
<1>10. BuildsInFlight'
  <2> SUFFICES ASSUME NEW r \in Routes, NEW i \in 1..MaxDepth, entry'[r] = Building(i)
               PROVE  i \in 1..n - 1 /\ stack'[i].route = r
    BY <1>1, <1>2 DEF BuildsInFlight
  <2>0. Building(i) # None BY EntriesDiffer, NoneAssumption
  <2>1. r # t /\ entry[r] = Building(i) BY <2>0, <1>2, <1>4
  <2>2. i \in 1..n /\ stack[i].route = r BY <2>1, <1>3 DEF BuildsInFlight
  <2>3. i # n BY <2>1, <2>2, <1>1
  <2> QED BY <2>2, <2>3, <1>1, <1>2
<1>11. Canonical'
  <2> SUFFICES ASSUME NEW u \in Tuples, given[u] # None
               PROVE  u \in routes' /\ entry'[u] = Ready(given[u])
    BY <1>2 DEF Canonical
  <2>1. /\ u \in routes /\ u \in Routes /\ entry[u] = Ready(given[u])
        /\ given[u] \in Members
    BY DEF Canonical, TypeOK
  <2>2. u # t BY <2>1, <1>1, EntriesDiffer
  <2>3. ent[u] = Ready(given[u]) /\ ent[u] # None
    BY <2>1, <2>2, <1>4, EntriesDiffer, NoneAssumption
  <2> QED BY <2>1, <2>3, <1>2, <1>5
<1>12. EveryRouteIsOfUse'
  <2>1. ASSUME NEW r \in Routes, NEW x \in Members, entry'[r] = Ready(x)
        PROVE  [route |-> r, member |-> x] \in cells'
    <3>1. r # t BY <2>1, <1>2, <1>4, EntriesDiffer, NoneAssumption
    <3> QED BY <3>1, <2>1, <1>2, <1>4 DEF EveryRouteIsOfUse
  <2> QED BY <2>1, <1>2, <1>5 DEF EveryRouteIsOfUse
<1> QED BY <1>7, <1>8, <1>9, <1>10, <1>11, <1>12

\* A finalizer takes the entry of a dead member, and the routes only it used.
LEMMA FinalizeIInv ==
  ASSUME IInv, NEW c \in cells, Finalize(c)
  PROVE  IInv'
<1> USE DEF IInv
<1> DEFINE t == c.route
           ent == [entry EXCEPT ![t] = None]
<1>1. /\ stack = <<>> /\ c.member \notin alive /\ cells' = cells \ {c}
      /\ UNCHANGED <<stack, alive, held, given>>
      /\ t \in Tuples /\ c.member \in Members /\ c = [route |-> t, member |-> c.member]
  BY DEF Finalize, TypeOK
<1>2. CASE ~Finalized(c)
  <2>1. entry' = entry /\ routes' = routes /\ entry[t] # Ready(c.member)
    BY <1>2 DEF Finalize, Finalized
  <2>2. TypeOK' BY <1>1, <2>1 DEF TypeOK
  <2>3. EveryRouteIsOfUse'
    <3>1. ASSUME NEW r \in Routes, NEW x \in Members, entry[r] = Ready(x)
          PROVE  [route |-> r, member |-> x] \in cells'
      <4>1. [route |-> r, member |-> x] \in cells BY <3>1 DEF EveryRouteIsOfUse
      <4>2. [route |-> r, member |-> x] # c BY <3>1, <2>1, <1>1
      <4> QED BY <4>1, <4>2, <1>1
    <3> QED BY <3>1, <2>1 DEF EveryRouteIsOfUse
  <2>4. EntriesAttached' /\ BuildsAttached' /\ BuildsInFlight' /\ Canonical'
    BY <1>1, <2>1 DEF EntriesAttached, BuildsAttached, BuildsInFlight, Canonical
  <2> QED BY <2>2, <2>3, <2>4
<1>3. CASE Finalized(c)
  <2>1. entry' = ent /\ routes' = Remaining(t, ent) /\ entry[t] = Ready(c.member)
    BY <1>3 DEF Finalize, Finalized
  <2>2. t \in Routes BY <1>1, RoutesType
  <2> HIDE DEF t
  <2>3. /\ \A r \in Routes : r # t => ent[r] = entry[r]
        /\ ent[t] = None /\ ent \in [Routes -> Entries \cup {None}]
    BY <2>2 DEF TypeOK
  <2> HIDE DEF ent
  <2>4. /\ routes' \subseteq routes /\ <<>> \in routes'
        /\ \A r \in routes : ent[r] # None => r \in routes'
        /\ \A r \in routes' \ {<<>>} : \E u \in routes' : IsPrefix(r, u) /\ ent[u] # None
    BY <1>1, <2>1, <2>3, Pruning DEF TypeOK, EveryRouteIsOfUse
  <2>5. TypeOK' BY <1>1, <2>1, <2>3, <2>4 DEF TypeOK
  <2>6. EntriesAttached' BY <2>1, <2>3, <2>4 DEF EntriesAttached
  <2>7. BuildsAttached' BY <1>1 DEF BuildsAttached
  <2>8. BuildsInFlight'
    BY <1>1, <2>1, <2>3, EntriesDiffer, NoneAssumption DEF BuildsInFlight
  <2>9. Canonical'
    <3> SUFFICES ASSUME NEW u \in Tuples, given[u] # None
                 PROVE  u \in routes' /\ entry'[u] = Ready(given[u])
      BY <1>1 DEF Canonical
    <3>1. /\ u \in routes /\ u \in Routes /\ entry[u] = Ready(given[u])
          /\ given[u] \in Members /\ given[u] \in alive
      BY DEF Canonical, TypeOK
    <3>2. u # t BY <3>1, <1>1, <2>1, EntriesDiffer
    <3>3. ent[u] = Ready(given[u]) /\ ent[u] # None
      BY <3>1, <3>2, <2>3, EntriesDiffer, NoneAssumption
    <3> QED BY <3>1, <3>3, <2>1, <2>4
  <2>10. EveryRouteIsOfUse'
    <3>1. ASSUME NEW r \in Routes, NEW x \in Members, entry'[r] = Ready(x)
          PROVE  [route |-> r, member |-> x] \in cells'
      <4>1. r # t /\ entry[r] = Ready(x)
        BY <3>1, <2>1, <2>3, EntriesDiffer, NoneAssumption
      <4>2. [route |-> r, member |-> x] \in cells BY <4>1 DEF EveryRouteIsOfUse
      <4>3. [route |-> r, member |-> x] # c BY <4>1, <1>1
      <4> QED BY <4>2, <4>3, <1>1
    <3> QED BY <3>1, <2>1, <2>4 DEF EveryRouteIsOfUse
  <2> QED BY <2>5, <2>6, <2>7, <2>8, <2>9, <2>10
<1> QED BY <1>2, <1>3

\* No step disturbs the invariant.
LEMMA NextIInv == IInv /\ [Next]_vars => IInv'
<1> SUFFICES ASSUME IInv, [Next]_vars PROVE IInv' OBVIOUS
<1> USE DEF IInv
<1>1. ASSUME NEW t \in Tuples, Hit(t) PROVE IInv' BY <1>1, HitIInv
<1>2. ASSUME NEW t \in Tuples, Recurse(t) PROVE IInv' BY <1>2, RecurseIInv
<1>3. ASSUME NEW t \in Tuples, Build(t) PROVE IInv' BY <1>3, BuildIInv
<1>4. ASSUME NEW m \in Members, Return(m) PROVE IInv' BY <1>4, ReturnIInv
<1>5. ASSUME NEW m \in Members, Drop(m) PROVE IInv'
  <2>1. held' \subseteq held /\ UNCHANGED <<routes, entry, stack, cells, alive, given>>
    BY <1>5 DEF Drop
  <2> QED BY <2>1 DEF TypeOK, EntriesAttached, BuildsAttached, BuildsInFlight, Canonical,
                      EveryRouteIsOfUse
<1>6. ASSUME NEW m \in Members, Collect(m) PROVE IInv'
  <2>1. /\ alive' = alive \ {m} /\ held \subseteq alive'
        /\ given' = [t \in Tuples |-> IF given[t] = m THEN None ELSE given[t]]
        /\ UNCHANGED <<routes, entry, stack, cells, held>>
    BY <1>6 DEF Collect, TypeOK
  <2>2. TypeOK' BY <2>1 DEF TypeOK
  <2>3. Canonical' BY <2>1 DEF Canonical
  <2>4. EntriesAttached' /\ BuildsAttached' /\ BuildsInFlight' /\ EveryRouteIsOfUse'
    BY <2>1 DEF EntriesAttached, BuildsAttached, BuildsInFlight, EveryRouteIsOfUse
  <2> QED BY <2>2, <2>3, <2>4
<1>7. ASSUME Fail PROVE IInv' BY <1>7, FailIInv
<1>8. ASSUME NEW c \in cells, Finalize(c) PROVE IInv' BY <1>8, FinalizeIInv
<1>9. ASSUME UNCHANGED vars PROVE IInv'
  BY <1>9 DEF vars, TypeOK, EntriesAttached, BuildsAttached, BuildsInFlight, Canonical,
              EveryRouteIsOfUse
<1> QED BY <1>1, <1>2, <1>3, <1>4, <1>5, <1>6, <1>7, <1>8, <1>9 DEF Next

\* The invariant holds throughout.
LEMMA Invariant == Spec => []IInv
BY InitIInv, NextIInv, PTL DEF Spec

\* Routes, entries, calls in flight and members keep their types.
THEOREM TypeCorrect == Spec => []TypeOK
<1>1. IInv => TypeOK BY DEF IInv
<1> QED BY <1>1, Invariant, PTL

\* A live member stays the one its tuple is looked up to: lookups are canonical
\* although the cache holds members weakly (weak-member-cache.ts:63).
THEOREM MembersCanonical == Spec => []Canonical
<1>1. IInv => Canonical BY DEF IInv
<1> QED BY <1>1, Invariant, PTL

\* A build in flight is found by every lookup of its tuple, so that recursion
\* fails (weak-member-cache.ts:171).
THEOREM RecursionFindsBuild == Spec => []BuildsAttached
<1>1. IInv => BuildsAttached BY DEF IInv
<1> QED BY <1>1, Invariant, PTL

\* Each route leads to an entry, whose finalizer will prune it
\* (weak-member-cache.ts:66).
THEOREM NoRouteLeaks == Spec => []EveryRouteIsOfUse
<1>1. IInv => EveryRouteIsOfUse BY DEF IInv
<1> QED BY <1>1, Invariant, PTL
=============================================================================
