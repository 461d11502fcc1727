------------------------ MODULE NotificationsProofs ------------------------
(***************************************************************************)
(* Notification boundaries for every set of states, selectors,             *)
(* subscriptions and wave limit: pending flags mirror the queues, reactions *)
(* settle before anything is published, and the boundary implements        *)
(* module Publication.                                                     *)
(***************************************************************************)
EXTENDS Notifications, SequenceTheorems, FiniteSetTheorems, TLAPS

\* No registration precedes itself in the list of a target.
OrderIsStrict == \A r \in Regs : <<r, r>> \notin earlier

\* What each phase has left behind.
PhaseOrder ==
  /\ phase # "propagating" => changed = {}
  /\ phase \in {"idle", "notifying"} => queue = <<>> /\ wave = <<>> /\ reached = <<>>
  /\ phase # "notifying" => snapshot = <<>> /\ told = <<>>
  /\ phase \in {"propagating", "reacting"} => stale \subseteq reactions

\* A target enters the notification set once, and so does a callback the snapshot,
\* which holds none that has run.
NotifiedOnce ==
  /\ IsInjective(reached) /\ IsInjective(snapshot)
  /\ Range(told) \cap Range(snapshot) = {}

\* A reaction whose state changed waits for its turn, or for that state to be
\* reached, unless the boundary gave up.
StaleWaits ==
  "limit" \notin errors => \A r \in stale : r \in pending \/ target[r] \in changed

IInv ==
  /\ TypeOK
  /\ PendingMeansQueued
  /\ OrderIsStrict
  /\ PhaseOrder
  /\ NotifiedOnce
  /\ StaleWaits

-----------------------------------------------------------------------------
(* Sequences as the sets they list *)

\* The empty sequence lists nothing.
LEMMA EmptyRange == Range(<<>>) = {} /\ IsInjective(<<>>)
  BY DEF Range, IsInjective

\* A sequence lists elements of the set it is typed with.
LEMMA RangeType ==
  ASSUME NEW S, NEW s \in Seq(S)
  PROVE  Range(s) \subseteq S
  BY LenProperties DEF Range

\* Concatenation lists both parts, without repetition when neither part repeats
\* itself or the other.
LEMMA ConcatRange ==
  ASSUME NEW S, NEW s \in Seq(S), NEW t \in Seq(S)
  PROVE  /\ s \o t \in Seq(S)
         /\ Range(s \o t) = Range(s) \cup Range(t)
         /\ IsInjective(s \o t) <=>
              IsInjective(s) /\ IsInjective(t) /\ Range(s) \cap Range(t) = {}
<1> DEFINE m == Len(s)
           n == Len(t)
           u == s \o t
<1>1. /\ m \in Nat /\ n \in Nat
      /\ DOMAIN s = 1..m /\ DOMAIN t = 1..n
  BY LenProperties
<1>2. /\ u \in Seq(S) /\ Len(u) = m + n
      /\ \A i \in 1..(m + n) : u[i] = IF i <= m THEN s[i] ELSE t[i - m]
  BY ConcatProperties
<1>3. DOMAIN u = 1..(m + n) BY <1>2, LenProperties
<1> HIDE DEF m, n, u
<1>4. /\ \A i \in 1..m : i \in 1..(m + n) /\ u[i] = s[i]
      /\ \A i \in 1..n : m + i \in 1..(m + n) /\ u[m + i] = t[i]
  <2>1. ASSUME NEW i \in 1..n PROVE m + i \in 1..(m + n) /\ u[m + i] = t[i]
    <3>1. m + i \in 1..(m + n) /\ ~(m + i <= m) /\ (m + i) - m = i BY <1>1
    <3> QED BY <3>1, <1>2
  <2>2. ASSUME NEW i \in 1..m PROVE i \in 1..(m + n) /\ u[i] = s[i]
    BY <1>1, <1>2
  <2> QED BY <2>1, <2>2
<1>5. \A i \in 1..(m + n) : i \in 1..m \/ (i - m \in 1..n /\ i = m + (i - m))
  BY <1>1
<1>6. Range(u) = Range(s) \cup Range(t)
  <2>1. Range(s) \subseteq Range(u) /\ Range(t) \subseteq Range(u)
    BY <1>1, <1>3, <1>4 DEF Range
  <2>2. ASSUME NEW i \in 1..(m + n) PROVE u[i] \in Range(s) \cup Range(t)
    <3>1. CASE i \in 1..m BY <3>1, <1>1, <1>4 DEF Range
    <3>2. CASE i - m \in 1..n /\ i = m + (i - m)
      <4>1. u[i] = t[i - m] BY <3>2, <1>4
      <4> QED BY <4>1, <3>2, <1>1 DEF Range
    <3> QED BY <3>1, <3>2, <1>5
  <2> QED BY <2>1, <2>2, <1>3 DEF Range
<1>7. ASSUME IsInjective(u)
      PROVE  IsInjective(s) /\ IsInjective(t) /\ Range(s) \cap Range(t) = {}
  <2>1. \A i, j \in 1..(m + n) : u[i] = u[j] => i = j BY <1>7, <1>3 DEF IsInjective
  <2>2. IsInjective(s) BY <2>1, <1>1, <1>4 DEF IsInjective
  <2>3. ASSUME NEW i \in 1..n, NEW j \in 1..n, t[i] = t[j] PROVE i = j
    <3>1. u[m + i] = u[m + j] /\ m + i \in 1..(m + n) /\ m + j \in 1..(m + n) BY <2>3, <1>4
    <3>2. m + i = m + j BY <3>1, <2>1
    <3> QED BY <3>2, <1>1
  <2>4. ASSUME NEW i \in 1..m, NEW j \in 1..n PROVE s[i] # t[j]
    <3>1. /\ i \in 1..(m + n) /\ u[i] = s[i]
          /\ m + j \in 1..(m + n) /\ u[m + j] = t[j]
      BY <1>4
    <3>2. i # m + j BY <1>1
    <3> QED BY <3>1, <3>2, <2>1
  <2> QED BY <2>2, <2>3, <2>4, <1>1 DEF IsInjective, Range
<1>8. ASSUME IsInjective(s), IsInjective(t), Range(s) \cap Range(t) = {}
      PROVE  IsInjective(u)
  <2> SUFFICES ASSUME NEW i \in 1..(m + n), NEW j \in 1..(m + n), u[i] = u[j]
               PROVE  i = j
    BY <1>3 DEF IsInjective
  <2>0. \A x \in 1..m, y \in 1..n : s[x] # t[y] BY <1>8, <1>1 DEF Range
  <2>1. CASE i \in 1..m /\ j \in 1..m BY <2>1, <1>1, <1>4, <1>8 DEF IsInjective
  <2>2. CASE i \in 1..m /\ j - m \in 1..n /\ j = m + (j - m)
    <3>1. u[i] = s[i] /\ u[j] = t[j - m] BY <2>2, <1>4
    <3> QED BY <3>1, <2>0, <2>2
  <2>3. CASE j \in 1..m /\ i - m \in 1..n /\ i = m + (i - m)
    <3>1. u[j] = s[j] /\ u[i] = t[i - m] BY <2>3, <1>4
    <3> QED BY <3>1, <2>0, <2>3
  <2>4. CASE /\ i - m \in 1..n /\ i = m + (i - m)
             /\ j - m \in 1..n /\ j = m + (j - m)
    <3>1. u[i] = t[i - m] /\ u[j] = t[j - m] BY <2>4, <1>4
    <3>2. i - m = j - m BY <3>1, <2>4, <1>1, <1>8 DEF IsInjective
    <3> QED BY <3>2, <2>4
  <2> QED BY <2>1, <2>2, <2>3, <2>4, <1>5
<1> QED BY <1>2, <1>6, <1>7, <1>8 DEF u

\* Appending lists one more element, a new one without repetition.
LEMMA AppendRange ==
  ASSUME NEW S, NEW s \in Seq(S), NEW x \in S
  PROVE  /\ Append(s, x) \in Seq(S)
         /\ Range(Append(s, x)) = Range(s) \cup {x}
         /\ IsInjective(s) /\ x \notin Range(s) => IsInjective(Append(s, x))
<1>1. /\ Append(s, x) \in Seq(S)
      /\ Len(s) \in Nat
      /\ DOMAIN s = 1..Len(s)
      /\ DOMAIN Append(s, x) = 1..(Len(s) + 1)
      /\ \A i \in 1..Len(s) : Append(s, x)[i] = s[i]
      /\ Append(s, x)[Len(s) + 1] = x
  OBVIOUS
<1>2. \A i \in 1..(Len(s) + 1) : i \in 1..Len(s) \/ i = Len(s) + 1 BY <1>1
<1>3. \A i \in 1..Len(s) : i \in 1..(Len(s) + 1) BY <1>1
<1>4. Len(s) + 1 \in 1..(Len(s) + 1) BY <1>1
<1>5. Range(Append(s, x)) = Range(s) \cup {x} BY <1>1, <1>2, <1>3, <1>4 DEF Range
<1>6. ASSUME IsInjective(s), x \notin Range(s) PROVE IsInjective(Append(s, x))
  BY <1>1, <1>2, <1>6 DEF IsInjective, Range
<1> QED BY <1>1, <1>5, <1>6

\* Without repetitions, the tail lists everything but the head.
LEMMA TailRange ==
  ASSUME NEW S, NEW s \in Seq(S), s # <<>>
  PROVE  /\ Head(s) \in Range(s)
         /\ Tail(s) \in Seq(S)
         /\ Range(Tail(s)) \subseteq Range(s)
         /\ IsInjective(s) => IsInjective(Tail(s)) /\ Range(Tail(s)) = Range(s) \ {Head(s)}
<1>1. /\ Len(s) \in Nat /\ Len(s) # 0 /\ DOMAIN s = 1..Len(s)
      /\ Tail(s) \in Seq(S) /\ DOMAIN Tail(s) = 1..(Len(s) - 1)
      /\ \A i \in 1..(Len(s) - 1) : Tail(s)[i] = s[i + 1]
      /\ Head(s) = s[1]
  BY HeadTailProperties, LenProperties, EmptySeq
<1>2. \A i \in 1..(Len(s) - 1) : i + 1 \in 1..Len(s) /\ i + 1 # 1 BY <1>1
<1>3. \A i \in 1..Len(s) : i = 1 \/ (i - 1 \in 1..(Len(s) - 1) /\ i = (i - 1) + 1) BY <1>1
<1>4. Head(s) \in Range(s) BY <1>1 DEF Range
<1>5. Range(Tail(s)) \subseteq Range(s) BY <1>1, <1>2 DEF Range
<1>6. ASSUME IsInjective(s) PROVE IsInjective(Tail(s)) /\ Range(Tail(s)) = Range(s) \ {Head(s)}
  <2>0. \A i, j \in 1..Len(s) : s[i] = s[j] => i = j BY <1>6, <1>1 DEF IsInjective
  <2>1. ASSUME NEW i \in 1..(Len(s) - 1), NEW j \in 1..(Len(s) - 1), Tail(s)[i] = Tail(s)[j]
        PROVE  i = j
    <3>1. s[i + 1] = s[j + 1] BY <2>1, <1>1
    <3>2. i + 1 = j + 1 BY <3>1, <2>0, <1>2
    <3> QED BY <3>2
  <2>2. IsInjective(Tail(s)) BY <2>1, <1>1 DEF IsInjective
  <2>3. Head(s) \notin Range(Tail(s))
    <3> SUFFICES ASSUME NEW i \in 1..(Len(s) - 1), Tail(s)[i] = Head(s) PROVE FALSE
      BY <1>1 DEF Range
    <3>1. s[i + 1] = s[1] /\ i + 1 \in 1..Len(s) /\ 1 \in 1..Len(s) /\ i + 1 # 1 BY <1>1, <1>2
    <3> QED BY <3>1, <2>0
  <2>4. ASSUME NEW i \in 1..Len(s), s[i] # Head(s) PROVE s[i] \in Range(Tail(s))
    <3>1. i - 1 \in 1..(Len(s) - 1) /\ i = (i - 1) + 1 BY <2>4, <1>1, <1>3
    <3>2. Tail(s)[i - 1] = s[i] BY <3>1, <1>1
    <3> QED BY <3>1, <3>2, <1>1 DEF Range
  <2>5. Range(s) \ {Head(s)} \subseteq Range(Tail(s)) BY <2>4, <1>1 DEF Range
  <2> QED BY <2>2, <2>3, <2>5, <1>5
<1> QED BY <1>1, <1>4, <1>5, <1>6

\* A listing of a finite set in a strict order lists that set without repetition.
LEMMA ListingRange ==
  ASSUME NEW S, IsFiniteSet(S), NEW before, \A x \in S : <<x, x>> \notin before,
         NEW s \in Listings(S, before)
  PROVE  s \in Seq(S) /\ Range(s) = S /\ IsInjective(s)
<1>1. Cardinality(S) \in Nat BY FS_CardinalityType
<1>2. /\ s \in [1..Cardinality(S) -> S]
      /\ \A r \in S : \E i \in DOMAIN s : s[i] = r
      /\ \A i, j \in DOMAIN s : i < j => <<s[i], s[j]>> \in before
  BY DEF Listings
<1>3. s \in Seq(S) BY <1>1, <1>2, SeqDef
<1>4. Range(s) = S BY <1>2 DEF Range
<1>5. ASSUME NEW i \in DOMAIN s, NEW j \in DOMAIN s, s[i] = s[j], i # j PROVE FALSE
  <2>1. i \in Int /\ j \in Int BY <1>1, <1>2
  <2>2. i < j \/ j < i BY <2>1, <1>5
  <2>3. <<s[i], s[j]>> \in before \/ <<s[j], s[i]>> \in before BY <2>2, <1>2
  <2>4. s[i] \in S BY <1>2
  <2> QED BY <2>3, <2>4, <1>5
<1> QED BY <1>3, <1>4, <1>5 DEF IsInjective

-----------------------------------------------------------------------------
(* The inductive invariant *)

\* A store without subscriptions, outside any boundary, satisfies the invariant.
LEMMA InitIInv == Init => IInv
<1> SUFFICES ASSUME Init PROVE IInv
  OBVIOUS
<1>1. /\ <<>> \in Seq(States) /\ <<>> \in Seq(Regs)
      /\ <<>> \o <<>> = <<>>
  OBVIOUS
<1>2. TypeOK BY <1>1, WaveLimitAssumption DEF Init, TypeOK, Live
<1>3. PendingMeansQueued BY <1>1, EmptyRange DEF Init, PendingMeansQueued
<1>4. NotifiedOnce BY EmptyRange DEF Init, NotifiedOnce
<1> QED BY <1>2, <1>3, <1>4 DEF Init, IInv, OrderIsStrict, PhaseOrder, StaleWaits

\* `sub` touches no boundary, and a registration that was not live has nothing
\* before or after it.
LEMMA SubIInv ==
  ASSUME IInv, NEW r \in Regs, NEW c \in States, NEW settle \in BOOLEAN, NEW notify \in BOOLEAN,
         Sub(r, c, settle, notify)
  PROVE  IInv'
<1> USE DEF IInv
<1>1. /\ r \notin Live /\ r \notin reactions /\ r \notin callbacks
      /\ target \in [Regs -> States \cup {None}]
      /\ target' = [target EXCEPT ![r] = c]
      /\ c # None
  BY StatesAssumption DEF Sub, TypeOK, States
<1>2. Live' = Live \cup {r} BY <1>1 DEF Live
<1>3. /\ earlier' = earlier \cup (Live \X {r})
      /\ reactions' \subseteq reactions \cup {r} /\ reactions \subseteq reactions'
      /\ callbacks' \subseteq callbacks \cup {r}
      /\ earlier \subseteq Live \X Live
  BY DEF Sub, TypeOK
<1>4. earlier' \subseteq Live' \X Live' /\ OrderIsStrict'
  BY <1>1, <1>2, <1>3 DEF OrderIsStrict
<1>5. /\ UNCHANGED <<value, phase, changed, reached, queue, wave, waves, pending, stale,
                     snapshot, told, errors>>
      /\ phase = "idle"
  BY DEF Sub, reactionVars
<1>6. TypeOK' BY <1>1, <1>2, <1>3, <1>4, <1>5 DEF TypeOK
<1>7. StaleWaits'
  <2>1. changed = {} BY <1>5 DEF PhaseOrder
  <2> QED BY <2>1, <1>5 DEF StaleWaits
<1> QED BY <1>3, <1>4, <1>5, <1>6, <1>7 DEF PendingMeansQueued, PhaseOrder, NotifiedOnce

\* Removing registrations outside a boundary, or while it is published, leaves
\* their captured callbacks and nothing else behind.
LEMMA UnlinkedType ==
  ASSUME IInv, NEW R \in SUBSET Regs, Unlinked(R)
  PROVE  /\ target' \in [Regs -> States \cup {None}]
         /\ Live' = Live \ R
         /\ earlier' \subseteq Live' \X Live'
         /\ reactions' \subseteq Live' /\ callbacks' \subseteq Live'
         /\ OrderIsStrict'
<1>1. /\ target \in [Regs -> States \cup {None}]
      /\ target' = [q \in Regs |-> IF q \in R THEN None ELSE target[q]]
      /\ earlier' = {p \in earlier : p[1] \notin R /\ p[2] \notin R}
      /\ earlier \subseteq Live \X Live
      /\ reactions' = reactions \ R /\ callbacks' = callbacks \ R
      /\ reactions \subseteq Live /\ callbacks \subseteq Live
  BY DEF IInv, TypeOK, Unlinked
<1>2. Live' = Live \ R BY <1>1 DEF Live
<1>3. earlier' \subseteq Live' \X Live' BY <1>1, <1>2
<1>4. OrderIsStrict' BY <1>1 DEF IInv, OrderIsStrict
<1> QED BY <1>1, <1>2, <1>3, <1>4

\* `unsubscribe` and `dispose` outside a boundary preserve the invariant.
LEMMA IdleUnlinkIInv ==
  ASSUME IInv, NEW R \in SUBSET Regs, Unlinked(R), phase = "idle",
         UNCHANGED <<value, phase, changed, reached, reactionVars, snapshot, told, errors>>
  PROVE  IInv'
<1> USE DEF IInv, reactionVars
<1>1. TypeOK' BY UnlinkedType DEF TypeOK
<1>2. StaleWaits'
  <2>1. changed = {} BY DEF PhaseOrder
  <2> QED BY <2>1 DEF StaleWaits
<1> QED BY <1>1, <1>2, UnlinkedType DEF PendingMeansQueued, PhaseOrder, NotifiedOnce

\* The states that differ are states, and reactions on them are live.
LEMMA DifferingType ==
  ASSUME TypeOK, NEW after
  PROVE  /\ Differing(value, after) \subseteq States
         /\ Concerned(after) \subseteq reactions
         /\ reactions \subseteq Regs
         /\ \A r \in Concerned(after) : target[r] \in Differing(value, after)
  BY DEF TypeOK, Differing, Concerned, Live

\* A commit outside a reaction begins a boundary with nothing queued.
LEMMA CommitIInv ==
  ASSUME IInv, NEW after \in [Sources -> Values], NEW failure \in MayFail("selector"),
         Commit(after, failure)
  PROVE  IInv'
<1> USE DEF IInv
<1>1. errors' \subseteq {"selector", "reaction", "limit", "subscriber"}
  BY DEF Commit, MayFail
<1>2. /\ UNCHANGED <<target, earlier, reactions, callbacks, reached, queue, wave, waves,
                     pending, snapshot, told>>
      /\ value' = after /\ phase = "idle" /\ phase' = "propagating"
      /\ changed' = Differing(value, after) /\ stale' = Concerned(after)
  BY DEF Commit, subVars
<1>3. TypeOK' BY <1>1, <1>2, DifferingType DEF TypeOK, Live
<1>4. PhaseOrder' BY <1>2, DifferingType DEF PhaseOrder
<1>5. StaleWaits' BY <1>2, DifferingType DEF StaleWaits
<1> QED BY <1>2, <1>3, <1>4, <1>5 DEF PendingMeansQueued, OrderIsStrict, NotifiedOnce

\* The pieces of the queue are finite listings of registrations.
LEMMA QueueableListing ==
  ASSUME IInv, NEW c \in States, NEW s \in Listings(Queueable(c), earlier)
  PROVE  /\ s \in Seq(Regs) /\ Range(s) = Queueable(c) /\ IsInjective(s)
         /\ Queueable(c) \subseteq Regs /\ Queueable(c) \cap pending = {}
<1>1. Queueable(c) \subseteq Regs /\ Queueable(c) \cap pending = {}
  BY DEF IInv, TypeOK, Queueable, Live
<1>2. IsFiniteSet(Queueable(c)) BY <1>1, RegsAssumption, FS_Subset
<1>3. \A r \in Queueable(c) : <<r, r>> \notin earlier BY <1>1 DEF IInv, OrderIsStrict
<1>4. s \in Seq(Queueable(c)) /\ Range(s) = Queueable(c) /\ IsInjective(s)
  BY <1>2, <1>3, ListingRange
<1>5. s \in Seq(Regs) BY <1>1, <1>4, SeqMonotonic
<1> QED BY <1>1, <1>4, <1>5

\* Reaching a target keeps flags and queues together, enters it once, and leaves
\* each of its reactions pending.
LEMMA ReachTargetFacts ==
  ASSUME IInv, NEW c \in States, ReachTarget(c)
  PROVE  /\ queue' \in Seq(Regs) /\ pending' \subseteq Regs
         /\ pending' = Range(queue') \cup Range(wave)
         /\ IsInjective(queue' \o wave)
         /\ reached' \in Seq(States) /\ IsInjective(reached')
         /\ Range(reached') = Range(reached) \cup {c}
         /\ \A r \in reactions : target[r] = c => r \in pending'
         /\ pending \subseteq pending'
<1> USE DEF IInv
<1>1. PICK s \in Listings(Queueable(c), earlier) : queue' = queue \o s
  BY DEF ReachTarget
<1>2. /\ s \in Seq(Regs) /\ Range(s) = Queueable(c) /\ IsInjective(s)
      /\ Queueable(c) \subseteq Regs /\ Queueable(c) \cap pending = {}
  BY QueueableListing
<1>3. /\ queue \in Seq(Regs) /\ wave \in Seq(Regs) /\ pending \subseteq Regs
      /\ reached \in Seq(States)
  BY DEF TypeOK
<1>4. /\ pending = Range(queue) \cup Range(wave)
      /\ IsInjective(queue) /\ IsInjective(wave) /\ Range(queue) \cap Range(wave) = {}
  BY <1>3, ConcatRange DEF PendingMeansQueued
<1>5. /\ queue' \in Seq(Regs) /\ Range(queue') = Range(queue) \cup Queueable(c)
      /\ IsInjective(queue')
  BY <1>1, <1>2, <1>3, <1>4, ConcatRange
<1>6. pending' = pending \cup Queueable(c) BY DEF ReachTarget
<1>7. IsInjective(queue' \o wave)
  <2>1. Range(queue') \cap Range(wave) = {} BY <1>2, <1>4, <1>5
  <2> QED BY <2>1, <1>3, <1>4, <1>5, ConcatRange
<1>8. /\ reached' \in Seq(States) /\ IsInjective(reached')
      /\ Range(reached') = Range(reached) \cup {c}
  <2>1. CASE c \in Range(reached) BY <2>1, <1>3 DEF ReachTarget, NotifiedOnce
  <2>2. CASE c \notin Range(reached)
    <3>1. reached' = Append(reached, c) BY <2>2 DEF ReachTarget
    <3> QED BY <3>1, <2>2, <1>3, AppendRange DEF NotifiedOnce
  <2> QED BY <2>1, <2>2
<1>9. \A r \in reactions : target[r] = c => r \in pending' BY <1>6 DEF Queueable
<1> QED BY <1>2, <1>3, <1>4, <1>5, <1>6, <1>7, <1>8, <1>9

\* reachSubscriptionTarget preserves the invariant: what waited for this state
\* to be reached is pending afterwards.
LEMMA ReachIInv ==
  ASSUME IInv, NEW c \in States, Reach(c)
  PROVE  IInv'
<1> USE DEF IInv
<1>1. /\ UNCHANGED <<value, target, earlier, reactions, callbacks, phase, wave, waves, stale,
                     snapshot, told, errors>>
      /\ phase = "propagating" /\ changed' = changed \ {c}
  BY DEF Reach, subVars
<1>2. CASE \E r \in Live : target[r] = c
  <2>1. ReachTarget(c) BY <1>2 DEF Reach
  <2>2. TypeOK' BY <1>1, <2>1, ReachTargetFacts DEF TypeOK, Live
  <2>3. PendingMeansQueued' BY <1>1, <2>1, ReachTargetFacts DEF PendingMeansQueued
  <2>4. NotifiedOnce' BY <1>1, <2>1, ReachTargetFacts DEF NotifiedOnce
  <2>5. StaleWaits'
    <3> SUFFICES ASSUME "limit" \notin errors, NEW r \in stale
                 PROVE  r \in pending' \/ target[r] \in changed'
      BY <1>1 DEF StaleWaits
    <3>1. r \in reactions BY <1>1 DEF PhaseOrder
    <3>2. r \in pending \/ target[r] \in changed BY DEF StaleWaits
    <3> QED BY <3>1, <3>2, <1>1, <2>1, ReachTargetFacts
  <2> QED BY <1>1, <2>2, <2>3, <2>4, <2>5 DEF PhaseOrder, OrderIsStrict
<1>3. CASE ~\E r \in Live : target[r] = c
  <2>1. UNCHANGED <<queue, pending, reached>> BY <1>3 DEF Reach
  <2>2. TypeOK' BY <1>1, <2>1 DEF TypeOK, Live
  <2>3. StaleWaits'
    <3> SUFFICES ASSUME "limit" \notin errors, NEW r \in stale
                 PROVE  r \in pending' \/ target[r] \in changed'
      BY <1>1 DEF StaleWaits
    <3>1. r \in Live BY <1>1 DEF PhaseOrder, TypeOK
    <3>2. r \in pending \/ target[r] \in changed BY DEF StaleWaits
    <3> QED BY <3>1, <3>2, <1>1, <1>3, <2>1
  <2> QED BY <1>1, <2>1, <2>2, <2>3 DEF PhaseOrder, OrderIsStrict, PendingMeansQueued, NotifiedOnce
<1> QED BY <1>2, <1>3

\* The end of propagation preserves the invariant.
LEMMA SettledIInv == ASSUME IInv, Settled PROVE IInv'
<1> USE DEF IInv, subVars, reactionVars
<1>1. TypeOK' BY DEF Settled, TypeOK, Live
<1> QED BY <1>1 DEF Settled, PendingMeansQueued, OrderIsStrict, PhaseOrder, NotifiedOnce, StaleWaits

\* Starting a wave moves the queue without losing or repeating a reaction.
LEMMA NextWaveIInv == ASSUME IInv, NextWave PROVE IInv'
<1> USE DEF IInv, subVars
<1>1. queue \in Seq(Regs) /\ <<>> \o queue = queue /\ queue \o <<>> = queue
  BY ConcatEmptySeq DEF TypeOK
<1>2. TypeOK'
  <2>1. waves' \in 0..WaveLimit BY WaveLimitAssumption DEF NextWave, TypeOK
  <2>2. queue' \in Seq(Regs) BY DEF NextWave
  <2> QED BY <1>1, <2>1, <2>2 DEF NextWave, TypeOK, Live
<1>3. PendingMeansQueued' BY <1>1, EmptyRange DEF NextWave, PendingMeansQueued
<1> QED BY <1>2, <1>3 DEF NextWave, OrderIsStrict, PhaseOrder, NotifiedOnce, StaleWaits

\* At the limit the abandoned reactions lose their flags with their places.
LEMMA LimitReachedIInv == ASSUME IInv, LimitReached PROVE IInv'
<1> USE DEF IInv, subVars
<1>1. TypeOK'
  <2>1. queue' \in Seq(Regs) BY DEF LimitReached
  <2> QED BY <2>1 DEF LimitReached, TypeOK, Live
<1>2. PendingMeansQueued'
  <2>1. <<>> \o <<>> = <<>> OBVIOUS
  <2>2. pending' = {} BY EmptyRange DEF LimitReached, PendingMeansQueued
  <2> QED BY <2>1, <2>2, EmptyRange DEF LimitReached, PendingMeansQueued
<1> QED BY <1>1, <1>2 DEF LimitReached, OrderIsStrict, PhaseOrder, NotifiedOnce, StaleWaits

\* A reaction gives up its flag with its place in the wave, and what its commit
\* makes stale waits to be reached.
LEMMA RunReactionIInv ==
  ASSUME IInv, NEW after \in [Sources -> Values], NEW failure \in MayFail("reaction"),
         RunReaction(after, failure)
  PROVE  IInv'
<1> USE DEF IInv
<1>1. /\ UNCHANGED <<target, earlier, reactions, callbacks, reached, queue, waves, snapshot, told>>
      /\ phase = "reacting" /\ wave # <<>> /\ wave' = Tail(wave)
      /\ value' = after /\ changed' = Differing(value, after)
      /\ pending' = pending \ {Head(wave)}
      /\ stale' = (stale \ {Head(wave)}) \cup Concerned(after)
      /\ errors' = errors \cup failure
      /\ phase' = IF changed' = {} THEN "reacting" ELSE "propagating"
  BY DEF RunReaction, subVars
<1>2. /\ wave \in Seq(Regs) /\ queue \in Seq(Regs)
      /\ pending = Range(queue) \cup Range(wave)
      /\ IsInjective(queue) /\ IsInjective(wave) /\ Range(queue) \cap Range(wave) = {}
  BY ConcatRange DEF TypeOK, PendingMeansQueued
<1>3. /\ Head(wave) \in Range(wave) /\ wave' \in Seq(Regs)
      /\ Range(wave') = Range(wave) \ {Head(wave)} /\ IsInjective(wave')
  BY <1>1, <1>2, TailRange
<1>4. PendingMeansQueued'
  <2>1. pending' = Range(queue) \cup Range(wave') BY <1>1, <1>2, <1>3
  <2>2. IsInjective(queue \o wave') BY <1>2, <1>3, ConcatRange
  <2> QED BY <1>1, <2>1, <2>2 DEF PendingMeansQueued
<1>5. TypeOK'
  <2>1. errors' \subseteq {"selector", "reaction", "limit", "subscriber"}
    BY <1>1 DEF MayFail, TypeOK
  <2>2. pending' \subseteq Regs /\ stale' \subseteq Regs BY <1>1, DifferingType DEF TypeOK
  <2> QED BY <1>1, <1>3, <2>1, <2>2, DifferingType DEF TypeOK, Live
<1>6. PhaseOrder' BY <1>1, DifferingType DEF PhaseOrder
<1>7. StaleWaits'
  <2> SUFFICES ASSUME "limit" \notin errors', NEW r \in stale'
               PROVE  r \in pending' \/ target[r] \in changed'
    BY <1>1 DEF StaleWaits
  <2>1. CASE r \in Concerned(after) BY <2>1, <1>1, DifferingType
  <2>2. CASE r \in stale /\ r # Head(wave)
    <3>1. "limit" \notin errors /\ changed = {} BY <1>1 DEF PhaseOrder
    <3>2. r \in pending BY <2>2, <3>1 DEF StaleWaits
    <3> QED BY <2>2, <3>2, <1>1
  <2> QED BY <2>1, <2>2, <1>1
<1> QED BY <1>1, <1>4, <1>5, <1>6, <1>7 DEF OrderIsStrict, NotifiedOnce

\* The snapshot holds each callback of a reached target exactly once.
LEMMA DeliverFacts ==
  ASSUME IInv, Deliver
  PROVE  /\ snapshot' \in Seq(Regs) /\ IsInjective(snapshot')
         /\ Range(snapshot') = {r \in callbacks : target[r] \in Range(reached)}
<1> USE DEF IInv
<1>1. PICK s \in Listings(Captured, CapturedBefore) : snapshot' = [i \in DOMAIN s |-> s[i][2]]
  BY DEF Deliver
<1>2. /\ reached \in Seq(States) /\ Len(reached) \in Nat /\ DOMAIN reached = 1..Len(reached)
      /\ callbacks \subseteq Regs /\ IsInjective(reached)
  BY LenProperties DEF TypeOK, Live, NotifiedOnce
<1>3. Captured = {x \in (1..Len(reached)) \X callbacks : target[x[2]] = reached[x[1]]}
  BY <1>2 DEF Captured
<1>4. IsFiniteSet(Captured)
  <2>1. IsFiniteSet(callbacks) BY <1>2, RegsAssumption, FS_Subset
  <2>2. IsFiniteSet(1..Len(reached)) BY <1>2, FS_Interval
  <2>3. IsFiniteSet((1..Len(reached)) \X callbacks) BY <2>1, <2>2, FS_Product
  <2> QED BY <1>3, <2>3, FS_Subset
<1>5. \A x \in Captured : <<x, x>> \notin CapturedBefore
  <2> SUFFICES ASSUME NEW x \in Captured, <<x, x>> \in CapturedBefore PROVE FALSE
    OBVIOUS
  <2>1. x[1] \in 1..Len(reached) /\ x[2] \in Regs BY <1>2, <1>3
  <2>2. x[1] < x[1] \/ <<x[2], x[2]>> \in earlier BY DEF CapturedBefore
  <2>3. ~(x[1] < x[1]) BY <2>1, <1>2
  <2> QED BY <2>1, <2>2, <2>3 DEF OrderIsStrict
<1>6. s \in Seq(Captured) /\ Range(s) = Captured /\ IsInjective(s)
  BY <1>4, <1>5, ListingRange
<1>7. Len(s) \in Nat /\ DOMAIN s = 1..Len(s) /\ \A i \in 1..Len(s) : s[i] \in Captured
  BY <1>6, LenProperties
<1>8. \A i \in 1..Len(s) : s[i][2] \in Regs /\ s[i] = <<s[i][1], s[i][2]>>
  BY <1>7, <1>3, <1>2
<1>9. snapshot' \in Seq(Regs)
  <2>1. snapshot' \in [1..Len(s) -> Regs] BY <1>1, <1>7, <1>8
  <2> QED BY <2>1, <1>7, SeqDef
<1>10. DOMAIN snapshot' = 1..Len(s) /\ \A i \in 1..Len(s) : snapshot'[i] = s[i][2]
  BY <1>1, <1>7
<1>11. IsInjective(snapshot')
  <2> SUFFICES ASSUME NEW i \in 1..Len(s), NEW j \in 1..Len(s), s[i][2] = s[j][2]
               PROVE  i = j
    BY <1>10 DEF IsInjective
  <2>1. /\ s[i][1] \in 1..Len(reached) /\ s[j][1] \in 1..Len(reached)
        /\ reached[s[i][1]] = reached[s[j][1]]
    BY <1>3, <1>7
  <2>2. s[i][1] = s[j][1] BY <2>1, <1>2 DEF IsInjective
  <2>3. s[i] = s[j] BY <2>2, <1>8
  <2> QED BY <2>3, <1>6, <1>7 DEF IsInjective
<1>12. Range(snapshot') = {r \in callbacks : target[r] \in Range(reached)}
  <2>1. ASSUME NEW i \in 1..Len(s)
        PROVE  snapshot'[i] \in {r \in callbacks : target[r] \in Range(reached)}
    <3>1. /\ s[i][2] \in callbacks /\ s[i][1] \in 1..Len(reached)
          /\ target[s[i][2]] = reached[s[i][1]]
      BY <1>3, <1>7
    <3> QED BY <3>1, <1>2, <1>10 DEF Range
  <2>2. ASSUME NEW r \in callbacks, target[r] \in Range(reached) PROVE r \in Range(snapshot')
    <3>1. PICK k \in 1..Len(reached) : reached[k] = target[r] BY <2>2, <1>2 DEF Range
    <3>2. <<k, r>> \in Captured BY <3>1, <1>3
    <3>3. PICK i \in 1..Len(s) : s[i] = <<k, r>> BY <3>2, <1>6, <1>7 DEF Range
    <3>4. snapshot'[i] = r BY <3>3, <1>10
    <3> QED BY <3>4, <1>10 DEF Range
  <2> QED BY <2>1, <2>2, <1>10 DEF Range
<1> QED BY <1>9, <1>11, <1>12

\* Publication starts with every reaction settled, or with the limit reported.
LEMMA DeliverIInv == ASSUME IInv, Deliver PROVE IInv'
<1> USE DEF IInv, subVars, reactionVars
<1>1. reached' \in Seq(States) BY DEF Deliver
<1>2. TypeOK' BY <1>1, DeliverFacts DEF Deliver, TypeOK, Live
<1>3. NotifiedOnce'
  <2>1. told' = <<>> BY DEF Deliver, PhaseOrder
  <2> QED BY <2>1, DeliverFacts, EmptyRange DEF Deliver, NotifiedOnce
<1> QED BY <1>2, <1>3 DEF Deliver, OrderIsStrict, PhaseOrder, PendingMeansQueued, StaleWaits

\* While callbacks run nothing is pending, and what is not settled was reported.
LEMMA RunCallbackIInv ==
  ASSUME IInv, NEW R \in SUBSET Live, NEW failure \in MayFail("subscriber"),
         RunCallback(R, failure)
  PROVE  IInv'
<1> USE DEF IInv
<1>1. /\ UNCHANGED <<value, phase, changed, reached, queue, wave, waves, pending, stale>>
      /\ phase = "notifying" /\ snapshot # <<>> /\ snapshot' = Tail(snapshot)
      /\ told' = Append(told, Head(snapshot))
      /\ Unlinked(R) /\ errors' = errors \cup failure
  BY DEF RunCallback, reactionVars
<1>2. R \in SUBSET Regs BY DEF Live
<1>3. /\ snapshot \in Seq(Regs) /\ snapshot' \in Seq(Regs) /\ IsInjective(snapshot')
      /\ Head(snapshot) \in Regs /\ Range(snapshot') = Range(snapshot) \ {Head(snapshot)}
  BY <1>1, TailRange, RangeType DEF TypeOK, NotifiedOnce
<1>7. told' \in Seq(Regs) /\ Range(told') = Range(told) \cup {Head(snapshot)}
  BY <1>1, <1>3, AppendRange DEF TypeOK
<1>8. NotifiedOnce' BY <1>1, <1>3, <1>7 DEF NotifiedOnce
<1>4. errors' \subseteq {"selector", "reaction", "limit", "subscriber"}
  BY <1>1 DEF MayFail, TypeOK
<1>5. TypeOK' BY <1>1, <1>2, <1>3, <1>4, <1>7, UnlinkedType DEF TypeOK
<1>6. StaleWaits'
  <2>1. changed = {} /\ pending = {} BY <1>1, EmptyRange DEF PhaseOrder, PendingMeansQueued
  <2>2. "limit" \notin errors' => stale = {} BY <2>1, <1>1 DEF StaleWaits
  <2> QED BY <2>2, <1>1 DEF StaleWaits
<1> QED BY <1>1, <1>2, <1>5, <1>6, <1>8, UnlinkedType
        DEF PendingMeansQueued, PhaseOrder

\* A boundary that ends leaves nothing behind.
LEMMA ReturnIInv == ASSUME IInv, Return PROVE IInv'
<1> USE DEF IInv, subVars
<1>1. TypeOK' BY WaveLimitAssumption DEF Return, TypeOK, Live
<1>2. NotifiedOnce' BY EmptyRange DEF Return, NotifiedOnce
<1> QED BY <1>1, <1>2 DEF Return, OrderIsStrict, PhaseOrder, NotifiedOnce, PendingMeansQueued, StaleWaits

\* Every step of the boundary and of its callers preserves the invariant.
LEMMA NextIInv == IInv /\ [Next]_vars => IInv'
<1> SUFFICES ASSUME IInv, [Next]_vars PROVE IInv'
  OBVIOUS
<1>1. CASE UNCHANGED vars
  <2> USE <1>1 DEF vars, subVars, reactionVars, IInv
  <2>1. TypeOK' BY DEF TypeOK, Live
  <2> QED BY <2>1 DEF PendingMeansQueued, OrderIsStrict, PhaseOrder, NotifiedOnce, StaleWaits
<1>2. ASSUME NEW r \in Regs, NEW c \in States, NEW settle \in BOOLEAN, NEW notify \in BOOLEAN,
             Sub(r, c, settle, notify)
      PROVE  IInv'
  BY <1>2, SubIInv
<1>3. ASSUME NEW r \in Regs, RemoveSubscription(r) PROVE IInv'
  <2>1. {r} \in SUBSET Regs OBVIOUS
  <2> QED BY <1>3, <2>1, IdleUnlinkIInv DEF RemoveSubscription
<1>4. ASSUME NEW C \in Disposable, DropSubscriptions(C) PROVE IInv'
  <2>1. {r \in Live : target[r] \in C} \in SUBSET Regs BY DEF Live
  <2> QED BY <1>4, <2>1, IdleUnlinkIInv DEF DropSubscriptions
<1>5. ASSUME NEW after \in [Sources -> Values], NEW failure \in MayFail("selector"),
             Commit(after, failure)
      PROVE  IInv'
  BY <1>5, CommitIInv
<1>6. ASSUME NEW c \in States, Reach(c) PROVE IInv'
  BY <1>6, ReachIInv
<1>7. ASSUME NEW after \in [Sources -> Values], NEW failure \in MayFail("reaction"),
             RunReaction(after, failure)
      PROVE  IInv'
  BY <1>7, RunReactionIInv
<1>8. ASSUME NEW R \in SUBSET Live, NEW failure \in MayFail("subscriber"), RunCallback(R, failure)
      PROVE  IInv'
  BY <1>8, RunCallbackIInv
<1> QED
  BY <1>1, <1>2, <1>3, <1>4, <1>5, <1>6, <1>7, <1>8, SettledIInv, NextWaveIInv,
     LimitReachedIInv, DeliverIInv, ReturnIInv
  DEF Next

\* The inductive invariant holds in every reachable state.
THEOREM Invariance == Spec => []IInv
BY InitIInv, NextIInv, PTL DEF Spec

\* The variables of a boundary keep their types.
THEOREM TypeCorrect == Spec => []TypeOK
<1>1. IInv => TypeOK BY DEF IInv
<1> QED BY <1>1, Invariance, PTL

\* A reaction is flagged as pending exactly while it is queued, and queued once,
\* so that no flag can keep it from running again.
THEOREM NoStrayFlag == Spec => []PendingMeansQueued
<1>1. IInv => PendingMeansQueued BY DEF IInv
<1> QED BY <1>1, Invariance, PTL

\* Subscribers are notified only after every reaction has run on the latest
\* change of its state, unless the boundary reports that it gave up.
THEOREM PublishedSettled == Spec => []SettledBeforePublication
<1>1. IInv => SettledBeforePublication
  <2> SUFFICES ASSUME IInv, phase = "notifying", "limit" \notin errors PROVE stale = {}
    BY DEF SettledBeforePublication
  <2>1. changed = {} /\ pending = {}
    BY EmptyRange DEF IInv, PhaseOrder, PendingMeansQueued
  <2> QED BY <2>1 DEF IInv, StaleWaits
<1> QED BY <1>1, Invariance, PTL

-----------------------------------------------------------------------------
(* Refinement: the boundary implements Publication. *)

\* Between boundaries nobody is due, and the two modules mean the same states.
LEMMA SameStates ==
  /\ Promise!States = States
  /\ \A v, w : Promise!Differing(v, w) = Differing(v, w)
  BY DEF Promise!States, States, Promise!Differing, Differing, Promise!Served, Served

\* `sub` with a callback is a new listener; a reaction alone hears nothing.
LEMMA SubRefines ==
  ASSUME IInv, NEW r \in Regs, NEW c \in States, NEW settle \in BOOLEAN, NEW notify \in BOOLEAN,
         Sub(r, c, settle, notify)
  PROVE  [Promise!Next]_(Promise!vars)
<1> DEFINE heardNow == [s \in States |-> {q \in callbacks : target[q] = s}]
<1>1. /\ r \notin callbacks /\ callbacks \subseteq Regs /\ target \in [Regs -> States \cup {None}]
      /\ target' = [target EXCEPT ![r] = c]
      /\ callbacks' = IF notify THEN callbacks \cup {r} ELSE callbacks
      /\ phase = "idle"
      /\ UNCHANGED <<value, phase, changed, reached, snapshot, told>>
  BY DEF Sub, IInv, TypeOK, Live
<1>2. \A q \in callbacks : target'[q] = target[q] BY <1>1
<1>3. UNCHANGED Stage BY <1>1 DEF Stage
<1>4. Due = {} /\ Due' = {}
  <2>1. changed = {} /\ reached = <<>> BY <1>1 DEF IInv, PhaseOrder
  <2> QED BY <2>1, <1>1, EmptyRange DEF Due
<1>5. CASE notify
  <2>1. heardNow' = [heardNow EXCEPT ![c] = @ \cup {r}]
    <3>1. \A s \in States : heardNow'[s] =
            IF s = c THEN {q \in callbacks : target[q] = s} \cup {r}
                     ELSE {q \in callbacks : target[q] = s}
      BY <1>1, <1>2, <1>5
    <3> QED BY <3>1
  <2>2. Promise!Listen(r, c) BY <2>1, <1>1, <1>3, <1>4 DEF Promise!Listen, Stage
  <2> QED BY <2>2, SameStates DEF Promise!Next
<1>6. CASE ~notify
  <2>1. heardNow' = heardNow BY <1>1, <1>2, <1>6
  <2> QED BY <2>1, <1>1, <1>3, <1>4 DEF Promise!vars
<1> QED BY <1>5, <1>6

\* Unlinking registrations removes them from what each state's listeners hear.
LEMMA UnlinkedHeard ==
  ASSUME IInv, NEW R \in SUBSET Regs, Unlinked(R)
  PROVE  [s \in States |-> {q \in callbacks : target[q] = s}]' =
           [s \in States |-> {q \in callbacks : target[q] = s} \ R]
<1>1. /\ callbacks' = callbacks \ R /\ callbacks \subseteq Regs
      /\ \A q \in Regs : q \notin R => target'[q] = target[q]
  BY DEF Unlinked, IInv, TypeOK, Live
<1> QED BY <1>1

\* Removing registrations outside a boundary is leaving.
LEMMA IdleUnlinkRefines ==
  ASSUME IInv, NEW R \in SUBSET Regs, Unlinked(R), phase = "idle",
         UNCHANGED <<value, phase, changed, reached, snapshot, told>>
  PROVE  Promise!Next
<1>1. Due = {} /\ Due' = {}
  <2>1. changed = {} /\ reached = <<>> BY DEF IInv, PhaseOrder
  <2> QED BY <2>1, EmptyRange DEF Due
<1>2. UNCHANGED Stage /\ Stage = "idle" BY DEF Stage
<1>3. Promise!Leave(R) BY <1>1, <1>2, UnlinkedHeard, SameStates DEF Promise!Leave
<1> QED BY <1>3 DEF Promise!Next

\* The listeners of the states that a write changes become due.
LEMMA WriteRefines ==
  ASSUME IInv, NEW after \in [Sources -> Values], Stage # "publishing", Stage' = "updating",
         value' = after, changed = {}, changed' = Differing(value, after),
         UNCHANGED <<target, callbacks, reached, told>>,
         phase # "notifying", phase' # "notifying"
  PROVE  Promise!Next
<1>1. /\ Due = {r \in callbacks : target[r] \in Range(reached)}
      /\ Due' = {r \in callbacks : target[r] \in Differing(value, after) \cup Range(reached)}
  BY DEF Due
<1>2. Differing(value, after) \subseteq States BY DEF Differing
<1>3. Due' = Due \cup UNION {[s \in States |-> {q \in callbacks : target[q] = s}][c] :
                               c \in Differing(value, after)}
  <2> DEFINE heardNow == [s \in States |-> {q \in callbacks : target[q] = s}]
  <2>1. \A c \in Differing(value, after) : heardNow[c] = {q \in callbacks : target[q] = c}
    BY <1>2
  <2> HIDE DEF heardNow
  <2>2. UNION {heardNow[c] : c \in Differing(value, after)}
          = {q \in callbacks : target[q] \in Differing(value, after)}
    BY <2>1
  <2>3. Due' = Due \cup UNION {heardNow[c] : c \in Differing(value, after)}
    BY <1>1, <2>2
  <2> QED BY <2>3 DEF heardNow
<1>4. Promise!Write(after) BY <1>3, SameStates DEF Promise!Write
<1> QED BY <1>4 DEF Promise!Next

\* Reaching a target moves it from the changed states to the reached ones.
LEMMA ReachRefines ==
  ASSUME IInv, NEW c \in States, Reach(c)
  PROVE  UNCHANGED Promise!vars
<1>1. /\ phase = "propagating" /\ c \in changed /\ changed' = changed \ {c}
      /\ UNCHANGED <<value, target, callbacks, phase, told>>
  BY DEF Reach, subVars
<1>2. Due' = Due
  <2>1. CASE \E r \in Live : target[r] = c
    <3>1. Range(reached') = Range(reached) \cup {c}
      BY <2>1, ReachTargetFacts DEF Reach
    <3> QED BY <3>1, <1>1 DEF Due
  <2>2. CASE ~\E r \in Live : target[r] = c
    <3>1. reached' = reached /\ \A r \in callbacks : target[r] # c
      BY <2>2 DEF Reach, IInv, TypeOK
    <3> QED BY <3>1, <1>1 DEF Due
  <2> QED BY <2>1, <2>2
<1>3. UNCHANGED Stage BY <1>1 DEF Stage
<1> QED BY <1>1, <1>2, <1>3 DEF Promise!vars

\* The snapshot is what is due when the last reaction is done.
LEMMA DeliverRefines ==
  ASSUME IInv, Deliver
  PROVE  Promise!Next
<1>1. /\ phase = "reacting" /\ phase' = "notifying" /\ changed = {}
      /\ UNCHANGED <<value, target, callbacks, told>>
  BY DEF Deliver, subVars, IInv, PhaseOrder
<1>2. Due' = Due BY <1>1, DeliverFacts DEF Due
<1>3. Stage = "updating" /\ Stage' = "publishing" BY <1>1 DEF Stage
<1>4. Promise!Publish BY <1>1, <1>2, <1>3 DEF Promise!Publish
<1> QED BY <1>4 DEF Promise!Next

\* A callback that runs is due and is not due again, whoever unsubscribes it.
LEMMA RunCallbackRefines ==
  ASSUME IInv, NEW R \in SUBSET Live, NEW failure, RunCallback(R, failure)
  PROVE  Promise!Next
<1>1. /\ phase = "notifying" /\ phase' = "notifying" /\ value' = value
      /\ snapshot # <<>> /\ snapshot' = Tail(snapshot) /\ Unlinked(R)
      /\ told' = Append(told, Head(snapshot))
      /\ R \in SUBSET Regs
  BY DEF RunCallback, Live
<1>2. snapshot \in Seq(Regs) /\ IsInjective(snapshot) BY DEF IInv, TypeOK, NotifiedOnce
<1>3. /\ Head(snapshot) \in Range(snapshot)
      /\ Range(snapshot') = Range(snapshot) \ {Head(snapshot)}
      /\ Head(snapshot) \in Regs
  BY <1>1, <1>2, TailRange, RangeType
<1>4. Due = Range(snapshot) /\ Due' = Range(snapshot') BY <1>1 DEF Due
<1>5. Stage = "publishing" /\ Stage' = "publishing" BY <1>1 DEF Stage
<1>6. PICK r \in Regs : r = Head(snapshot) BY <1>3
<1>9. \A i \in DOMAIN told : told[i] # r
  BY <1>3, <1>6 DEF IInv, NotifiedOnce, Range
<1>7. Promise!Notify(r, R)
  BY <1>1, <1>3, <1>4, <1>5, <1>6, <1>9, UnlinkedHeard, SameStates DEF Promise!Notify
<1>8. \E q \in Regs, Q \in SUBSET Regs : Promise!Notify(q, Q) BY <1>1, <1>7
<1> QED BY <1>8 DEF Promise!Next

\* A boundary ends when nobody is due.
LEMMA ReturnRefines ==
  ASSUME IInv, Return
  PROVE  Promise!Next
<1>1. /\ phase = "notifying" /\ phase' = "idle" /\ snapshot = <<>> /\ told' = <<>>
      /\ changed = {} /\ reached = <<>>
      /\ UNCHANGED <<value, target, callbacks, changed, reached>>
  BY DEF Return, subVars, IInv, PhaseOrder
<1>2. Due = {} /\ Due' = {} BY <1>1, EmptyRange DEF Due
<1>3. Stage = "publishing" /\ Stage' = "idle" BY <1>1 DEF Stage
<1>4. Promise!Close BY <1>1, <1>2, <1>3 DEF Promise!Close
<1> QED BY <1>4 DEF Promise!Next

\* Every step of a boundary is a step of Publication, or invisible to it.
LEMMA NextRefines == IInv /\ [Next]_vars => [Promise!Next]_(Promise!vars)
<1> SUFFICES ASSUME IInv, [Next]_vars PROVE [Promise!Next]_(Promise!vars)
  OBVIOUS
<1>1. ASSUME UNCHANGED <<value, target, callbacks, changed, reached, snapshot, told>>,
             Stage' = Stage, phase = "notifying" <=> phase' = "notifying"
      PROVE  UNCHANGED Promise!vars
  <2>1. UNCHANGED Due BY <1>1 DEF Due
  <2> QED BY <1>1, <2>1 DEF Promise!vars
<1>2. CASE UNCHANGED vars
  BY <1>1, <1>2 DEF vars, subVars, Stage
<1>3. ASSUME NEW r \in Regs, NEW c \in States, NEW settle \in BOOLEAN, NEW notify \in BOOLEAN,
             Sub(r, c, settle, notify)
      PROVE  [Promise!Next]_(Promise!vars)
  BY <1>3, SubRefines
<1>4. ASSUME NEW r \in Regs, RemoveSubscription(r) PROVE Promise!Next
  <2>1. {r} \in SUBSET Regs OBVIOUS
  <2> QED BY <1>4, <2>1, IdleUnlinkRefines DEF RemoveSubscription
<1>5. ASSUME NEW C \in Disposable, DropSubscriptions(C) PROVE Promise!Next
  <2>1. {r \in Live : target[r] \in C} \in SUBSET Regs BY DEF Live
  <2> QED BY <1>5, <2>1, IdleUnlinkRefines DEF DropSubscriptions
<1>6. ASSUME NEW after \in [Sources -> Values], NEW failure \in MayFail("selector"),
             Commit(after, failure)
      PROVE  Promise!Next
  <2>1. Stage # "publishing" /\ Stage' = "updating" BY <1>6 DEF Commit, Stage
  <2>2. changed = {} BY <1>6 DEF Commit, IInv, PhaseOrder
  <2> QED BY <1>6, <2>1, <2>2, WriteRefines DEF Commit, subVars
<1>7. ASSUME NEW c \in States, Reach(c) PROVE UNCHANGED Promise!vars
  BY <1>7, ReachRefines
<1>8. CASE Settled
  BY <1>1, <1>8 DEF Settled, subVars, Stage
<1>9. CASE NextWave
  BY <1>1, <1>9 DEF NextWave, subVars, Stage
<1>10. CASE LimitReached
  BY <1>1, <1>10 DEF LimitReached, subVars, Stage
<1>11. ASSUME NEW after \in [Sources -> Values], NEW failure \in MayFail("reaction"),
              RunReaction(after, failure)
       PROVE  Promise!Next
  <2>1. /\ phase = "reacting" /\ phase' \in {"reacting", "propagating"}
        /\ value' = after /\ changed' = Differing(value, after)
        /\ UNCHANGED <<target, callbacks, reached, told>>
    BY <1>11 DEF RunReaction, subVars
  <2>2. Stage # "publishing" /\ Stage' = "updating" BY <2>1 DEF Stage
  <2>3. changed = {} BY <2>1 DEF IInv, PhaseOrder
  <2> QED BY <2>1, <2>2, <2>3, WriteRefines
<1>12. CASE Deliver BY <1>12, DeliverRefines
<1>13. ASSUME NEW R \in SUBSET Live, NEW failure \in MayFail("subscriber"), RunCallback(R, failure)
       PROVE  Promise!Next
  BY <1>13, RunCallbackRefines
<1>14. CASE Return BY <1>14, ReturnRefines
<1> QED
  BY <1>2, <1>3, <1>4, <1>5, <1>6, <1>7, <1>8, <1>9, <1>10, <1>11, <1>12, <1>13, <1>14
  DEF Next

\* A boundary calls each subscriber of a changed state once, neither twice nor
\* never, after the last write of any reaction.
THEOREM Refinement == Spec => ImplementsPublication
<1>1. Init => Promise!Init
  <2> SUFFICES ASSUME Init PROVE Promise!Init
    OBVIOUS
  <2>1. Due = {} /\ Stage = "idle" BY EmptyRange DEF Init, Due, Stage
  <2>2. [s \in States |-> {q \in callbacks : target[q] = s}] = [s \in States |-> {}]
    BY DEF Init
  <2> QED BY <2>1, <2>2, SameStates DEF Init, Promise!Init
<1> QED BY <1>1, NextRefines, Invariance, PTL DEF Spec, ImplementsPublication, Promise!Spec
=============================================================================
