-------------------------- MODULE CommitHooksProofs --------------------------
(***************************************************************************)
(* Delivery of commit callbacks, for every number of scopes, callbacks,    *)
(* budget and dropped tasks: the FIFO is well formed, no callback is       *)
(* stranded, no drain outruns its budget, and the whole implements the     *)
(* in-order, at-most-once queue of module CommitQueue.                     *)
(***************************************************************************)
EXTENDS CommitHooks, SequenceTheorems, TLAPS

\* Between drains nothing is consumed and no callback is on the stack.
QuietBetweenDrains == ~draining => cursor = 0 /\ running = None

\* Callbacks lie in the FIFO in the order of their publication.
InPublicationOrder ==
  /\ \A i \in DOMAIN pending : pending[i] # None => pending[i].id <= published
  /\ \A i, j \in DOMAIN pending :
       i < j /\ pending[i] # None /\ pending[j] # None => pending[i].id < pending[j].id

\* What has been consumed since the last timer task came out of the budget.
SpentFromBudget == sinceTask + budget <= EntriesPerTask

IInv ==
  /\ TypeOK
  /\ QuietBetweenDrains
  /\ ReleasesEntries
  /\ InPublicationOrder
  /\ SpentFromBudget
  /\ RouteToDelivery

-----------------------------------------------------------------------------
\* The module starts with an empty FIFO, a full budget and nothing scheduled,
\* which satisfies the inductive invariant.
LEMMA InitIInv == Init => IInv
<1> SUFFICES ASSUME Init PROVE IInv
  OBVIOUS
<1>1. pending = <<>> /\ Len(<<>>) = 0 /\ <<>> \in Seq(Entry \cup {None})
  <2>1. pending = <<>> BY DEF Init
  <2>2. Len(<<>>) = 0 OBVIOUS
  <2>3. <<>> \in Seq(Entry \cup {None}) OBVIOUS
  <2> QED BY <2>1, <2>2, <2>3
<1>2. TypeOK
  <2>1. cursor \in 0..Len(pending) BY <1>1 DEF Init
  <2>2. budget \in 0..EntriesPerTask /\ published \in 0..MaxPublished /\ discards \in 0..MaxDiscards
    BY EntriesPerTaskAssumption, BoundsAssumption DEF Init
  <2>3. nextId \in Nat /\ sinceTask \in Nat /\ draining \in BOOLEAN /\ lost \in BOOLEAN
    BY DEF Init
  <2>4. pending \in Seq(Entry \cup {None}) BY <1>1
  <2> QED BY <2>1, <2>2, <2>3, <2>4 DEF Init, TypeOK
<1>3. SpentFromBudget
  BY EntriesPerTaskAssumption DEF Init, SpentFromBudget
<1> QED
  BY <1>1, <1>2, <1>3
  DEF Init, IInv, QuietBetweenDrains, ReleasesEntries, InPublicationOrder, RouteToDelivery

\* The callbacks publishCommit appends are well-formed entries.
LEMMA BatchType ==
  ASSUME TypeOK, NEW n \in Nat, NEW scopeOf \in [1..n -> Scopes]
  PROVE  [i \in 1..n |-> [id |-> published + i, scope |-> scopeOf[i]]] \in Seq(Entry)
  BY BoundsAssumption DEF TypeOK, Entry

\* publishCommit preserves the invariant: new callbacks are younger than all
\* waiting ones, and outside a drain a fresh wake becomes the route.
LEMMA PublishIInv ==
  ASSUME IInv, NEW n \in 1..MaxBatch, NEW scopeOf \in [1..n -> Scopes], Publish(n, scopeOf)
  PROVE  IInv'
<1> DEFINE batch == [i \in 1..n |-> [id |-> published + i, scope |-> scopeOf[i]]]
<1>1. n \in Nat /\ n > 0 BY BoundsAssumption
<1>2. batch \in Seq(Entry) BY <1>1, BatchType DEF IInv
<1>3. Len(batch) = n /\ \A i \in 1..n : batch[i] = [id |-> published + i, scope |-> scopeOf[i]]
  BY <1>1
<1>4. pending' = pending \o batch BY DEF Publish
<1>5. pending \in Seq(Entry \cup {None}) BY DEF IInv, TypeOK
<1>6. /\ pending' \in Seq(Entry \cup {None})
      /\ Len(pending') = Len(pending) + n
      /\ DOMAIN pending' = 1..(Len(pending) + n)
      /\ \A i \in 1..Len(pending) : pending'[i] = pending[i]
      /\ \A i \in (Len(pending) + 1)..(Len(pending) + n) :
           pending'[i] = batch[i - Len(pending)]
  <2> HIDE DEF batch
  <2>1. batch \in Seq(Entry \cup {None}) BY <1>2
  <2>2. /\ pending \o batch \in Seq(Entry \cup {None})
        /\ Len(pending \o batch) = Len(pending) + Len(batch)
        /\ \A i \in 1..Len(pending) + Len(batch) : (pending \o batch)[i] =
             IF i <= Len(pending) THEN pending[i] ELSE batch[i - Len(pending)]
    BY <2>1, <1>5, ConcatProperties
  <2>3. Len(pending) \in Nat BY <1>5
  <2> QED BY <1>1, <1>3, <1>4, <2>2, <2>3
<1>7. \A i \in (Len(pending) + 1)..(Len(pending) + n) :
        /\ pending'[i].id = published + (i - Len(pending))
        /\ pending'[i].scope \in live
  <2> TAKE i \in (Len(pending) + 1)..(Len(pending) + n)
  <2>1. Len(pending) \in Nat BY <1>5
  <2>2. i - Len(pending) \in 1..n BY <2>1, <1>1
  <2>3. pending'[i] = [id |-> published + (i - Len(pending)), scope |-> scopeOf[i - Len(pending)]]
    BY <1>3, <1>6, <2>2
  <2>4. scopeOf[i - Len(pending)] \in live BY <2>2 DEF Publish
  <2> QED BY <2>3, <2>4
<1> HIDE DEF batch
<1>8. /\ live' = live /\ cursor' = cursor /\ published' = published + n
      /\ published \in Nat /\ Len(pending) \in Nat /\ DOMAIN pending = 1..Len(pending)
  BY <1>5, BoundsAssumption DEF Publish, IInv, TypeOK
<1>9. TypeOK'
  <2>1. /\ scheduled' \in Nat \cup {None} /\ microtasks' \subseteq Nat /\ nextId' \in Nat
    <3>1. /\ nextId \in Nat /\ microtasks \subseteq Nat /\ scheduled \in Nat \cup {None}
          /\ draining \in BOOLEAN /\ Schedule
      BY DEF IInv, TypeOK, Publish
    <3>2. CASE draining BY <3>1, <3>2 DEF Schedule
    <3>3. CASE ~draining
      <4>1. scheduled' = nextId /\ microtasks' = microtasks \cup {nextId} /\ nextId' = nextId + 1
        BY <3>1, <3>3 DEF Schedule
      <4> QED BY <3>1, <4>1
    <3> QED BY <3>2, <3>3
  <2>2. cursor' \in 0..Len(pending')
    BY <1>1, <1>6, <1>8 DEF IInv, TypeOK
  <2>3. published' \in 0..MaxPublished
    BY <1>1, <1>8 DEF Publish
  <2> QED BY <1>6, <2>1, <2>2, <2>3 DEF IInv, TypeOK, Publish
<1>10. QuietBetweenDrains' BY DEF IInv, QuietBetweenDrains, Publish
<1>11. ReleasesEntries'
  <2> SUFFICES ASSUME NEW i \in DOMAIN pending', pending'[i] # None
               PROVE  i > cursor' /\ pending'[i].scope \in live'
    BY DEF ReleasesEntries
  <2>1. CASE i \in 1..Len(pending)
    BY <2>1, <1>6, <1>8 DEF IInv, ReleasesEntries
  <2>2. CASE i \in (Len(pending) + 1)..(Len(pending) + n)
    BY <2>2, <1>7, <1>8 DEF IInv, TypeOK
  <2> QED BY <2>1, <2>2, <1>6, <1>8, <1>1
<1>12. InPublicationOrder'
  <2>1. \A i \in DOMAIN pending' : pending'[i] # None => pending'[i].id <= published'
    <3> SUFFICES ASSUME NEW i \in DOMAIN pending', pending'[i] # None
                 PROVE  pending'[i].id <= published'
      OBVIOUS
    <3>1. CASE i \in 1..Len(pending)
      <4>1. pending[i] \in Entry /\ pending[i].id <= published
        BY <3>1, <1>5, <1>6, <1>8 DEF IInv, InPublicationOrder
      <4> QED BY <4>1, <3>1, <1>1, <1>6, <1>8 DEF Entry
    <3>2. CASE i \in (Len(pending) + 1)..(Len(pending) + n)
      BY <3>2, <1>1, <1>7, <1>8
    <3> QED BY <3>1, <3>2, <1>6, <1>8, <1>1
  <2>2. \A i, j \in DOMAIN pending' :
          i < j /\ pending'[i] # None /\ pending'[j] # None => pending'[i].id < pending'[j].id
    <3> SUFFICES ASSUME NEW i \in DOMAIN pending', NEW j \in DOMAIN pending',
                        i < j, pending'[i] # None, pending'[j] # None
                 PROVE  pending'[i].id < pending'[j].id
      OBVIOUS
    <3>1. CASE j \in 1..Len(pending)
      <4>1. i \in 1..Len(pending) BY <3>1, <1>6, <1>8
      <4> QED BY <3>1, <4>1, <1>6, <1>8 DEF IInv, InPublicationOrder
    <3>2. CASE i \in 1..Len(pending) /\ j \in (Len(pending) + 1)..(Len(pending) + n)
      <4>1. pending[i] \in Entry /\ pending[i].id <= published
        BY <3>2, <1>5, <1>6, <1>8 DEF IInv, InPublicationOrder
      <4> QED BY <4>1, <3>2, <1>1, <1>6, <1>7, <1>8 DEF Entry
    <3>3. CASE i \in (Len(pending) + 1)..(Len(pending) + n) /\ j \in (Len(pending) + 1)..(Len(pending) + n)
      BY <3>3, <1>1, <1>7, <1>8
    <3> QED BY <3>1, <3>2, <3>3, <1>1, <1>6, <1>8
  <2> QED BY <2>1, <2>2 DEF InPublicationOrder
<1>13. SpentFromBudget' BY DEF IInv, SpentFromBudget, Publish
<1>14. RouteToDelivery'
  BY DEF IInv, TypeOK, RouteToDelivery, Publish, Schedule
<1> QED BY <1>9, <1>10, <1>11, <1>12, <1>13, <1>14 DEF IInv

\* Disposing a scope only releases slots, and it sweeps those still to come.
LEMMA DisposeIInv ==
  ASSUME IInv, NEW s \in Scopes, Dispose(s)
  PROVE  IInv'
<1>1. pending \in Seq(Entry \cup {None}) BY DEF IInv, TypeOK
<1>2. \A i \in 1..Len(pending) : pending[i] \in Entry \cup {None}
  BY <1>1, ElementOfSeq
<1>3. /\ pending' = [i \in 1..Len(pending) |->
                      IF i > cursor /\ pending[i] # None /\ pending[i].scope \notin live'
                        THEN None ELSE pending[i]]
      /\ live' = live \ {s}
      /\ DOMAIN pending = 1..Len(pending) /\ Len(pending) \in Nat
  BY <1>1 DEF Dispose
<1>4. /\ pending' \in Seq(Entry \cup {None})
      /\ Len(pending') = Len(pending)
      /\ DOMAIN pending' = DOMAIN pending
  BY <1>2, <1>3
<1>5. /\ cursor' = cursor /\ scheduled' = scheduled /\ draining' = draining
      /\ running' = running /\ budget' = budget /\ resetGeneration' = resetGeneration
      /\ microtasks' = microtasks /\ timers' = timers /\ nextId' = nextId
      /\ published' = published /\ delivered' = delivered /\ lost' = lost
      /\ discards' = discards /\ sinceTask' = sinceTask
  BY DEF Dispose, hostVars, historyVars
<1>6. \A i \in DOMAIN pending : pending'[i] # None => pending'[i] = pending[i] /\ pending[i] # None
  BY <1>3
<1>7. TypeOK' BY <1>3, <1>4, <1>5 DEF IInv, TypeOK
<1>8. QuietBetweenDrains' BY <1>5 DEF IInv, QuietBetweenDrains
<1>9. ReleasesEntries'
  <2> SUFFICES ASSUME NEW i \in DOMAIN pending, pending'[i] # None
               PROVE  i > cursor /\ pending'[i].scope \in live'
    BY <1>4, <1>5 DEF ReleasesEntries
  <2>1. i > cursor BY <1>6 DEF IInv, ReleasesEntries
  <2> QED BY <1>3, <2>1
<1>10. InPublicationOrder' BY <1>4, <1>5, <1>6 DEF IInv, InPublicationOrder
<1>11. SpentFromBudget' BY <1>5 DEF IInv, SpentFromBudget
<1>12. RouteToDelivery'
  <2>1. pending' # <<>> => pending # <<>>
    BY <1>1, <1>4
  <2> QED BY <2>1, <1>5 DEF IInv, RouteToDelivery
<1> QED BY <1>7, <1>8, <1>9, <1>10, <1>11, <1>12 DEF IInv

\* Steps that touch neither the FIFO nor the scopes keep what is said of them.
LEMMA FifoUntouched ==
  ASSUME IInv, UNCHANGED <<live, pending, cursor, published>>
  PROVE  ReleasesEntries' /\ InPublicationOrder'
<1>1. live' = live /\ pending' = pending /\ cursor' = cursor /\ published' = published
  OBVIOUS
<1> QED BY <1>1 DEF IInv, ReleasesEntries, InPublicationOrder

\* An inert wake was no route; the current one turns into a running drain.
LEMMA RunWakeIInv ==
  ASSUME IInv, NEW w \in microtasks, RunWake(w)
  PROVE  IInv'
<1>1. /\ live' = live /\ pending' = pending /\ cursor' = cursor /\ running' = running
      /\ budget' = budget /\ published' = published /\ delivered' = delivered
      /\ lost' = lost /\ discards' = discards /\ sinceTask' = sinceTask
      /\ microtasks' = microtasks \ {w}
  BY DEF RunWake, fifoVars, historyVars
<1>2. ReleasesEntries' /\ InPublicationOrder' BY <1>1, FifoUntouched
<1>3. SpentFromBudget' BY <1>1 DEF IInv, SpentFromBudget
<1>4. CASE scheduled # w
  <2>1. /\ scheduled' = scheduled /\ draining' = draining
        /\ resetGeneration' = resetGeneration /\ timers' = timers /\ nextId' = nextId
    BY <1>4 DEF RunWake
  <2>2. TypeOK' BY <1>1, <2>1 DEF IInv, TypeOK
  <2>3. RouteToDelivery' BY <1>1, <1>4, <2>1 DEF IInv, RouteToDelivery
  <2>4. QuietBetweenDrains' BY <1>1, <2>1 DEF IInv, QuietBetweenDrains
  <2> QED BY <1>2, <1>3, <2>2, <2>3, <2>4 DEF IInv
<1>5. CASE scheduled = w /\ (draining \/ pending = <<>>)
  <2>1. /\ scheduled' = None /\ draining' = draining
        /\ resetGeneration' = resetGeneration /\ timers' = timers /\ nextId' = nextId
    BY <1>5 DEF RunWake
  <2>2. TypeOK' BY <1>1, <2>1 DEF IInv, TypeOK
  <2>3. RouteToDelivery' BY <1>1, <1>5, <2>1 DEF RouteToDelivery
  <2>4. QuietBetweenDrains' BY <1>1, <2>1 DEF IInv, QuietBetweenDrains
  <2> QED BY <1>2, <1>3, <2>2, <2>3, <2>4 DEF IInv
<1>6. CASE scheduled = w /\ ~(draining \/ pending = <<>>)
  <2>1. /\ StartDrain(resetGeneration)
        /\ timers' = IF resetGeneration = None
                       THEN timers \cup {[id |-> nextId, generation |-> nextId]}
                       ELSE timers
    BY <1>6 DEF RunWake
  <2>2. draining' = TRUE /\ scheduled' = None BY <2>1 DEF StartDrain
  <2>3. nextId \in Nat /\ timers \subseteq Attempt BY DEF IInv, TypeOK
  <2>4. resetGeneration' \in Nat \cup {None} /\ nextId' \in Nat /\ timers' \subseteq Attempt
    <3>1. CASE resetGeneration = None
      <4>1. resetGeneration' = nextId /\ nextId' = nextId + 1
        BY <2>1, <3>1 DEF StartDrain
      <4>2. timers' = timers \cup {[id |-> nextId, generation |-> nextId]} BY <2>1, <3>1
      <4>3. timers' \subseteq Attempt BY <2>3, <4>2 DEF Attempt
      <4> QED BY <2>3, <4>1, <4>3
    <3>2. CASE resetGeneration # None
      <4>1. resetGeneration' = resetGeneration /\ nextId' = nextId /\ timers' = timers
        BY <2>1, <3>2 DEF StartDrain
      <4> QED BY <4>1 DEF IInv, TypeOK
    <3> QED BY <3>1, <3>2
  <2>5. TypeOK' BY <1>1, <2>2, <2>4 DEF IInv, TypeOK
  <2> QED BY <1>2, <1>3, <2>2, <2>5 DEF IInv, RouteToDelivery, QuietBetweenDrains
<1> QED BY <1>4, <1>5, <1>6

\* A timer task that is inert was no route; the first of its generation refills
\* the budget and drains whatever waits.
LEMMA RunTimerIInv ==
  ASSUME IInv, NEW t \in timers, RunTimer(t)
  PROVE  IInv'
<1>1. /\ live' = live /\ pending' = pending /\ cursor' = cursor /\ running' = running
      /\ published' = published /\ delivered' = delivered
      /\ lost' = lost /\ discards' = discards /\ microtasks' = microtasks
      /\ sinceTask' = IF draining THEN sinceTask ELSE 0
  BY DEF RunTimer, fifoVars
<1>2. ReleasesEntries' /\ InPublicationOrder' BY <1>1, FifoUntouched
<1>3. /\ sinceTask \in Nat /\ budget \in Nat /\ EntriesPerTask \in Nat /\ nextId \in Nat
      /\ sinceTask' \in Nat
  <2>1. sinceTask \in Nat /\ budget \in Nat /\ EntriesPerTask \in Nat /\ nextId \in Nat
    BY EntriesPerTaskAssumption DEF IInv, TypeOK
  <2> QED BY <1>1, <2>1
<1>4. CASE resetGeneration # t.generation \/ draining
  <2>1. /\ scheduled' = scheduled /\ draining' = draining /\ timers' = timers \ {t}
        /\ resetGeneration' = resetGeneration /\ budget' = budget /\ nextId' = nextId
    BY <1>4 DEF RunTimer
  <2>2. TypeOK' BY <1>1, <1>3, <2>1 DEF IInv, TypeOK
  <2>3. RouteToDelivery' BY <1>1, <1>4, <2>1 DEF IInv, RouteToDelivery
  <2>4. QuietBetweenDrains' BY <1>1, <2>1 DEF IInv, QuietBetweenDrains
  <2>5. SpentFromBudget'
    <3>1. sinceTask + budget <= EntriesPerTask BY DEF IInv, SpentFromBudget
    <3>2. budget' = budget BY <2>1
    <3>3. CASE draining
      <4>1. sinceTask' = sinceTask BY <1>1, <3>3
      <4> QED BY <3>1, <3>2, <4>1 DEF SpentFromBudget
    <3>4. CASE ~draining
      <4>1. sinceTask' = 0 BY <1>1, <3>4
      <4> QED BY <1>3, <3>1, <3>2, <4>1 DEF SpentFromBudget
    <3> QED BY <3>3, <3>4
  <2> QED BY <1>2, <2>2, <2>3, <2>4, <2>5 DEF IInv
<1>5. CASE resetGeneration = t.generation /\ ~draining
  <2>1. budget' = EntriesPerTask /\ sinceTask' = 0 BY <1>1, <1>5 DEF RunTimer
  <2>2. SpentFromBudget' BY <1>3, <2>1 DEF SpentFromBudget
  <2>3. CASE pending = <<>>
    <3>1. /\ resetGeneration' = None /\ timers' = timers \ {t} /\ scheduled' = scheduled
          /\ draining' = draining /\ nextId' = nextId
      BY <1>5, <2>3 DEF RunTimer
    <3>2. TypeOK'
      <4>1. budget' \in 0..EntriesPerTask BY <1>3, <2>1
      <4>2. timers' \subseteq Attempt BY <3>1 DEF IInv, TypeOK
      <4>3. resetGeneration' \in Nat \cup {None} BY <3>1
      <4> QED BY <1>1, <1>3, <3>1, <4>1, <4>2, <4>3 DEF IInv, TypeOK
    <3>3. QuietBetweenDrains' BY <1>1, <3>1 DEF IInv, QuietBetweenDrains
    <3>4. RouteToDelivery' BY <1>1, <2>3 DEF RouteToDelivery
    <3> QED BY <1>2, <2>2, <3>2, <3>3, <3>4 DEF IInv
  <2>4. CASE pending # <<>>
    <3>1. /\ StartDrain(None)
          /\ timers' = (timers \ {t}) \cup {[id |-> nextId, generation |-> nextId]}
      BY <1>5, <2>4 DEF RunTimer
    <3>2. draining' = TRUE /\ scheduled' = None /\ resetGeneration' = nextId /\ nextId' = nextId + 1
      BY <3>1 DEF StartDrain
    <3>3. timers' \subseteq Attempt
      <4>1. timers \subseteq Attempt BY DEF IInv, TypeOK
      <4> QED BY <1>3, <3>1, <4>1 DEF Attempt
    <3>4. resetGeneration' \in Nat \cup {None} /\ nextId' \in Nat /\ budget' \in 0..EntriesPerTask
      BY <1>3, <2>1, <3>2
    <3>5. TypeOK' BY <1>1, <1>3, <3>2, <3>3, <3>4 DEF IInv, TypeOK
    <3> QED BY <1>2, <2>2, <3>2, <3>5 DEF IInv, RouteToDelivery, QuietBetweenDrains
  <2> QED BY <2>3, <2>4
<1> QED BY <1>4, <1>5

\* The loop consumes one slot for one unit of budget and releases it.
LEMMA DrainNextIInv ==
  ASSUME IInv, DrainNext
  PROVE  IInv'
<1> DEFINE entry == pending[cursor + 1]
<1>1. /\ live' = live /\ scheduled' = scheduled /\ draining' = draining /\ draining
      /\ resetGeneration' = resetGeneration /\ microtasks' = microtasks /\ timers' = timers
      /\ nextId' = nextId /\ published' = published /\ lost' = lost /\ discards' = discards
      /\ cursor < Len(pending) /\ budget > 0
      /\ pending' = [pending EXCEPT ![cursor + 1] = None]
      /\ cursor' = cursor + 1 /\ budget' = budget - 1 /\ sinceTask' = sinceTask + 1
  BY DEF DrainNext, hostVars
<1>2. pending \in Seq(Entry \cup {None}) /\ Len(pending) \in Nat /\ cursor \in Nat
  BY DEF IInv, TypeOK
<1>3. cursor + 1 \in 1..Len(pending) BY <1>1, <1>2
<1>4. entry \in Entry \cup {None} BY <1>2, <1>3, ElementOfSeq
<1>5. /\ running' \in Entry \cup {None}
      /\ delivered' \subseteq Entry
  <2>1. CASE entry # None /\ entry.scope \in live
    <3>1. running' = entry /\ delivered' = delivered \cup {entry} BY <2>1 DEF DrainNext
    <3> QED BY <1>4, <2>1, <3>1 DEF IInv, TypeOK
  <2>2. CASE ~(entry # None /\ entry.scope \in live)
    <3>1. running' = None /\ delivered' = delivered BY <2>2 DEF DrainNext
    <3> QED BY <3>1 DEF IInv, TypeOK
  <2> QED BY <2>1, <2>2
<1> HIDE DEF entry
<1>6. /\ pending' \in Seq(Entry \cup {None})
      /\ Len(pending') = Len(pending)
      /\ DOMAIN pending' = DOMAIN pending
      /\ DOMAIN pending = 1..Len(pending)
      /\ \A i \in DOMAIN pending : pending'[i] = IF i = cursor + 1 THEN None ELSE pending[i]
  BY <1>1, <1>2, <1>3
<1>7. budget \in Nat /\ sinceTask \in Nat /\ EntriesPerTask \in Nat /\ budget <= EntriesPerTask
  BY EntriesPerTaskAssumption DEF IInv, TypeOK
<1>8. TypeOK'
  <2>1. cursor' \in 0..Len(pending') /\ budget' \in 0..EntriesPerTask /\ sinceTask' \in Nat
    BY <1>1, <1>2, <1>6, <1>7
  <2> QED BY <1>1, <1>5, <1>6, <2>1 DEF IInv, TypeOK
<1>9. ReleasesEntries'
  <2> SUFFICES ASSUME NEW i \in DOMAIN pending, pending'[i] # None
               PROVE  i > cursor' /\ pending'[i].scope \in live'
    BY <1>6 DEF ReleasesEntries
  <2>1. i # cursor + 1 /\ pending'[i] = pending[i] BY <1>6
  <2>2. i > cursor /\ pending[i].scope \in live BY <2>1 DEF IInv, ReleasesEntries
  <2> QED BY <1>1, <1>2, <1>6, <2>1, <2>2
<1>10. InPublicationOrder' BY <1>1, <1>6 DEF IInv, InPublicationOrder
<1>11. SpentFromBudget' BY <1>1, <1>7 DEF IInv, SpentFromBudget
<1>12. QuietBetweenDrains' /\ RouteToDelivery'
  BY <1>1 DEF QuietBetweenDrains, RouteToDelivery
<1> QED BY <1>8, <1>9, <1>10, <1>11, <1>12 DEF IInv

\* A callback returns to the drain that called it.
LEMMA CallbackEndsIInv ==
  ASSUME IInv, CallbackEnds
  PROVE  IInv'
<1>1. /\ live' = live /\ pending' = pending /\ cursor' = cursor /\ scheduled' = scheduled
      /\ draining' = draining /\ budget' = budget /\ resetGeneration' = resetGeneration
      /\ microtasks' = microtasks /\ timers' = timers /\ nextId' = nextId
      /\ published' = published /\ delivered' = delivered /\ lost' = lost
      /\ discards' = discards /\ sinceTask' = sinceTask /\ running' = None
  BY DEF CallbackEnds, fifoVars, hostVars, historyVars
<1>2. ReleasesEntries' /\ InPublicationOrder' BY <1>1, FifoUntouched
<1>3. TypeOK' BY <1>1 DEF IInv, TypeOK
<1> QED BY <1>1, <1>2, <1>3 DEF IInv, QuietBetweenDrains, SpentFromBudget, RouteToDelivery

\* Cutting the consumed slots shifts the remaining ones to the front.
LEMMA DrainEndArray ==
  ASSUME IInv, DrainEnd
  PROVE  /\ Len(pending) \in Nat /\ cursor \in Nat /\ cursor <= Len(pending)
         /\ pending' \in Seq(Entry \cup {None})
         /\ Len(pending') = Len(pending) - cursor
         /\ DOMAIN pending' = 1..(Len(pending) - cursor)
         /\ \A i \in 1..(Len(pending) - cursor) : pending'[i] = pending[cursor + i]
<1>1. pending' = SubSeq(pending, cursor + 1, Len(pending)) BY DEF DrainEnd
<1>2. /\ pending \in Seq(Entry \cup {None}) /\ Len(pending) \in Nat
      /\ DOMAIN pending = 1..Len(pending) /\ cursor \in Nat /\ cursor <= Len(pending)
  BY DEF IInv, TypeOK
<1>3. \A i \in (cursor + 1)..Len(pending) : pending[i] \in Entry \cup {None}
  BY <1>2, ElementOfSeq
<1>4. /\ pending' \in Seq(Entry \cup {None})
      /\ Len(pending') = Len(pending) - cursor
      /\ DOMAIN pending' = 1..(Len(pending) - cursor)
      /\ \A i \in 1..(Len(pending) - cursor) : pending'[i] = pending[cursor + i]
  <2> DEFINE rest == SubSeq(pending, cursor + 1, Len(pending))
  <2>1. Len(pending) \in Nat /\ cursor \in Nat /\ cursor <= Len(pending) BY <1>2
  <2>2. cursor + 1 \in Int /\ Len(pending) \in Int BY <2>1
  <2>3. /\ rest \in Seq(Entry \cup {None})
        /\ Len(rest) = IF cursor + 1 <= Len(pending) THEN Len(pending) - (cursor + 1) + 1 ELSE 0
        /\ \A i \in 1..Len(pending) - (cursor + 1) + 1 : rest[i] = pending[cursor + 1 + i - 1]
    BY <1>3, <2>2, SubSeqProperties
  <2>4. pending' = rest BY <1>1
  <2> HIDE DEF rest
  <2>5. Len(rest) = Len(pending) - cursor
    <3>1. Len(rest) = IF cursor + 1 <= Len(pending) THEN Len(pending) - (cursor + 1) + 1 ELSE 0
      BY <2>3
    <3> QED BY <2>1, <3>1
  <2>6. \A i \in 1..(Len(pending) - cursor) : rest[i] = pending[cursor + i]
    <3> TAKE i \in 1..(Len(pending) - cursor)
    <3>1. cursor + 1 + i - 1 = cursor + i /\ i \in 1..Len(pending) - (cursor + 1) + 1
      BY <2>1
    <3>2. \A k \in 1..Len(pending) - (cursor + 1) + 1 : rest[k] = pending[cursor + 1 + k - 1]
      BY <2>3
    <3> QED BY <3>1, <3>2
  <2> QED BY <2>3, <2>4, <2>5, <2>6
<1> QED BY <1>2, <1>4

\* The slots the drain cuts were consumed; if it leaves any, the budget is spent
\* and a refill attempt of the current generation is queued.
LEMMA DrainEndIInv ==
  ASSUME IInv, DrainEnd
  PROVE  IInv'
<1>1. /\ live' = live /\ scheduled' = scheduled /\ running' = running /\ running = None
      /\ budget' = budget /\ microtasks' = microtasks /\ published' = published
      /\ delivered' = delivered /\ lost' = lost /\ discards' = discards
      /\ sinceTask' = sinceTask /\ draining' = FALSE /\ cursor' = 0
      /\ pending' = SubSeq(pending, cursor + 1, Len(pending))
      /\ (cursor = Len(pending) \/ budget = 0)
  BY DEF DrainEnd, historyVars
<1>2. /\ pending \in Seq(Entry \cup {None}) /\ Len(pending) \in Nat
      /\ DOMAIN pending = 1..Len(pending) /\ cursor \in Nat /\ cursor <= Len(pending)
  BY DEF IInv, TypeOK
<1>4. /\ pending' \in Seq(Entry \cup {None})
      /\ Len(pending') = Len(pending) - cursor
      /\ DOMAIN pending' = 1..(Len(pending) - cursor)
      /\ \A i \in 1..(Len(pending) - cursor) : pending'[i] = pending[cursor + i]
  BY DrainEndArray
<1>5. \A i \in DOMAIN pending' : cursor + i \in DOMAIN pending
  BY <1>2, <1>4
<1>6. /\ resetGeneration' \in Nat \cup {None} /\ timers' \subseteq Attempt /\ nextId' \in Nat
      /\ cursor < Len(pending) => \E t \in timers' : t.generation = resetGeneration'
  <2>1. nextId \in Nat /\ resetGeneration \in Nat \cup {None} /\ timers \subseteq Attempt
    BY DEF IInv, TypeOK
  <2>2. CASE cursor < Len(pending)
    <3> DEFINE g == IF resetGeneration = None THEN nextId ELSE resetGeneration
               t == [id |-> nextId, generation |-> g]
    <3>1. ScheduleReset
      <4>1. budget = 0
        <5>1. cursor = Len(pending) \/ budget = 0 BY DEF DrainEnd
        <5>2. cursor \in Nat /\ Len(pending) \in Nat BY <1>2
        <5> QED BY <2>2, <5>1, <5>2
      <4> QED BY <2>2, <4>1 DEF DrainEnd
    <3>2. resetGeneration' = g /\ timers' = timers \cup {t} /\ nextId' = nextId + 1
      BY <3>1 DEF ScheduleReset
    <3>3. g \in Nat BY <2>1
    <3>4. t \in Attempt /\ t.generation = g BY <2>1, <3>3 DEF Attempt
    <3> QED BY <2>1, <3>2, <3>3, <3>4
  <2>3. CASE ~(cursor < Len(pending))
    <3>1. resetGeneration' = resetGeneration /\ timers' = timers /\ nextId' = nextId
      BY <2>3 DEF DrainEnd
    <3> QED BY <2>1, <2>3, <3>1
  <2> QED BY <2>2, <2>3
<1>7. TypeOK'
  <2>1. cursor' \in 0..Len(pending') BY <1>1, <1>2, <1>4
  <2> QED BY <1>1, <1>4, <1>6, <2>1 DEF IInv, TypeOK
<1>8. ReleasesEntries'
  <2> SUFFICES ASSUME NEW i \in DOMAIN pending', pending'[i] # None
               PROVE  i > cursor' /\ pending'[i].scope \in live'
    BY DEF ReleasesEntries
  <2>1. pending'[i] = pending[cursor + i] /\ cursor + i \in DOMAIN pending /\ i > 0
    BY <1>2, <1>4, <1>5
  <2> QED BY <1>1, <2>1 DEF IInv, ReleasesEntries
<1>9. InPublicationOrder'
  <2>1. \A i \in DOMAIN pending' : pending'[i] # None => pending'[i].id <= published'
    BY <1>1, <1>4, <1>5 DEF IInv, InPublicationOrder
  <2>2. \A i, j \in DOMAIN pending' : i < j => cursor + i < cursor + j
    BY <1>2, <1>4
  <2>3. \A i, j \in DOMAIN pending' :
          i < j /\ pending'[i] # None /\ pending'[j] # None => pending'[i].id < pending'[j].id
    BY <1>4, <1>5, <2>2 DEF IInv, InPublicationOrder
  <2> QED BY <2>1, <2>3 DEF InPublicationOrder
<1>10. RouteToDelivery'
  <2>1. pending' # <<>> => cursor < Len(pending)
    BY <1>2, <1>4, EmptySeq
  <2> QED BY <1>6, <2>1 DEF RouteToDelivery
<1> QED BY <1>1, <1>7, <1>8, <1>9, <1>10 DEF IInv, QuietBetweenDrains, SpentFromBudget

\* A dropped task is recorded as such.
LEMMA HostDiscardsIInv ==
  ASSUME IInv, HostDiscards
  PROVE  IInv'
<1>1. /\ live' = live /\ pending' = pending /\ cursor' = cursor /\ scheduled' = scheduled
      /\ draining' = draining /\ running' = running /\ budget' = budget
      /\ resetGeneration' = resetGeneration /\ nextId' = nextId /\ published' = published
      /\ delivered' = delivered /\ sinceTask' = sinceTask /\ lost' = TRUE
      /\ discards < MaxDiscards /\ discards' = discards + 1
  BY DEF HostDiscards, fifoVars
<1>2. microtasks' \subseteq microtasks /\ timers' \subseteq timers
  BY DEF HostDiscards
<1>3. ReleasesEntries' /\ InPublicationOrder' BY <1>1, FifoUntouched
<1>4. TypeOK'
  <2>1. discards' \in 0..MaxDiscards BY <1>1, BoundsAssumption DEF IInv, TypeOK
  <2> QED BY <1>1, <1>2, <2>1 DEF IInv, TypeOK
<1> QED BY <1>1, <1>3, <1>4 DEF IInv, QuietBetweenDrains, SpentFromBudget, RouteToDelivery

\* Every step of the module preserves the inductive invariant.
LEMMA NextIInv == IInv /\ [Next]_vars => IInv'
<1> SUFFICES ASSUME IInv, [Next]_vars PROVE IInv'
  OBVIOUS
<1>1. ASSUME NEW n \in 1..MaxBatch, NEW scopeOf \in [1..n -> Scopes], Publish(n, scopeOf)
      PROVE  IInv'
  BY <1>1, PublishIInv
<1>2. ASSUME NEW s \in Scopes, Dispose(s) PROVE IInv'
  BY <1>2, DisposeIInv
<1>3. ASSUME NEW w \in microtasks, RunWake(w) PROVE IInv'
  BY <1>3, RunWakeIInv
<1>4. ASSUME NEW t \in timers, RunTimer(t) PROVE IInv'
  BY <1>4, RunTimerIInv
<1>5. CASE DrainNext BY <1>5, DrainNextIInv
<1>6. CASE CallbackEnds BY <1>6, CallbackEndsIInv
<1>7. CASE DrainEnd BY <1>7, DrainEndIInv
<1>8. CASE HostDiscards BY <1>8, HostDiscardsIInv
<1>9. CASE UNCHANGED vars
  BY <1>9 DEF vars, IInv, TypeOK, QuietBetweenDrains, ReleasesEntries, InPublicationOrder,
              SpentFromBudget, RouteToDelivery
<1> QED BY <1>1, <1>2, <1>3, <1>4, <1>5, <1>6, <1>7, <1>8, <1>9 DEF Next

\* The inductive invariant holds in every state of the commit FIFO.
THEOREM Invariance == Spec => []IInv
BY InitIInv, NextIInv, PTL DEF Spec

\* The commit FIFO's variables keep their types.
THEOREM TypeCorrect == Spec => []TypeOK
<1>1. IInv => TypeOK BY DEF IInv
<1> QED BY <1>1, Invariance, PTL

\* Outside a drain, waiting callbacks always have a queued task that resumes
\* their delivery, unless the host dropped one since the last commit.
THEOREM NeverStranded == Spec => []RouteToDelivery
<1>1. IInv => RouteToDelivery BY DEF IInv
<1> QED BY <1>1, Invariance, PTL

\* The FIFO never holds a disposed scope's callback or one that was consumed.
THEOREM NothingRetained == Spec => []ReleasesEntries
<1>1. IInv => ReleasesEntries BY DEF IInv
<1> QED BY <1>1, Invariance, PTL

\* No chain of wakes consumes more than EntriesPerTask slots between two timer
\* tasks.
THEOREM Yields == Spec => []YieldsToTasks
<1>1. IInv => YieldsToTasks
  BY EntriesPerTaskAssumption DEF IInv, TypeOK, SpentFromBudget, YieldsToTasks
<1> QED BY <1>1, Invariance, PTL

-----------------------------------------------------------------------------
(* Refinement: the FIFO implements CommitQueue. *)

\* Publishing adds exactly the new callbacks to those that wait.
LEMMA PublishRefines ==
  ASSUME IInv, NEW n \in 1..MaxBatch, NEW scopeOf \in [1..n -> Scopes], Publish(n, scopeOf)
  PROVE  Queue!Publish(n, scopeOf)
<1> DEFINE batch == [i \in 1..n |-> [id |-> published + i, scope |-> scopeOf[i]]]
<1>1. n \in Nat /\ n > 0 BY BoundsAssumption
<1>2. /\ pending \in Seq(Entry \cup {None}) /\ Len(pending) \in Nat
      /\ DOMAIN pending = 1..Len(pending)
  BY DEF IInv, TypeOK
<1>3. batch \in Seq(Entry \cup {None}) /\ Len(batch) = n
  <2>1. batch \in Seq(Entry) BY <1>1, BatchType DEF IInv
  <2> QED BY <1>1, <2>1
<1>4. \A i \in 1..n : batch[i] = [id |-> published + i, scope |-> scopeOf[i]] /\ batch[i] # None
  <2>1. \A i \in 1..n : [id |-> published + i, scope |-> scopeOf[i]] \in Entry
    BY <1>1 DEF IInv, TypeOK, Entry
  <2> QED BY <2>1, NoneAssumption DEF Entry
<1>5. pending' = pending \o batch BY DEF Publish
<1> HIDE DEF batch
<1>6. /\ DOMAIN pending' = 1..(Len(pending) + n)
      /\ \A i \in 1..Len(pending) : pending'[i] = pending[i]
      /\ \A i \in 1..n : pending'[Len(pending) + i] = batch[i]
  <2>1. /\ pending \o batch \in Seq(Entry \cup {None})
        /\ Len(pending \o batch) = Len(pending) + Len(batch)
        /\ \A i \in 1..Len(pending) + Len(batch) : (pending \o batch)[i] =
             IF i <= Len(pending) THEN pending[i] ELSE batch[i - Len(pending)]
    BY <1>2, <1>3, ConcatProperties
  <2> QED BY <1>1, <1>2, <1>3, <1>5, <2>1
<1>7. Waiting' = Waiting \cup {batch[i] : i \in 1..n}
  <2>1. ASSUME NEW e \in Waiting' PROVE e \in Waiting \cup {batch[i] : i \in 1..n}
    <3>1. PICK k \in DOMAIN pending' : pending'[k] # None /\ e = pending'[k]
      BY <2>1 DEF Waiting
    <3>2. CASE k \in 1..Len(pending) BY <1>2, <1>6, <3>1, <3>2 DEF Waiting
    <3>3. CASE k \notin 1..Len(pending)
      <4>1. k - Len(pending) \in 1..n /\ k = Len(pending) + (k - Len(pending))
        BY <1>1, <1>2, <1>6, <3>3
      <4>2. e = batch[k - Len(pending)] BY <1>6, <3>1, <4>1
      <4> QED BY <4>1, <4>2
    <3> QED BY <3>2, <3>3
  <2>2. ASSUME NEW e \in Waiting PROVE e \in Waiting'
    <3>1. PICK k \in DOMAIN pending : pending[k] # None /\ e = pending[k]
      BY <2>2 DEF Waiting
    <3>2. k \in DOMAIN pending' /\ pending'[k] = e BY <1>1, <1>2, <1>6, <3>1
    <3> QED BY <3>1, <3>2 DEF Waiting
  <2>3. ASSUME NEW i \in 1..n PROVE batch[i] \in Waiting'
    <3>1. Len(pending) + i \in DOMAIN pending' BY <1>1, <1>2, <1>6
    <3>2. pending'[Len(pending) + i] = batch[i] /\ batch[i] # None BY <1>4, <1>6
    <3> QED BY <3>1, <3>2 DEF Waiting
  <2> QED BY <2>1, <2>2, <2>3
<1>8. {batch[i] : i \in 1..n} = {[id |-> published + i, scope |-> scopeOf[i]] : i \in 1..n}
  BY <1>4
<1>9. scopeOf \in [1..n -> live] /\ published' = published + n /\ live' = live /\ delivered' = delivered
  BY DEF Publish
<1> QED BY <1>7, <1>8, <1>9 DEF Queue!Publish

\* Releasing the disposed scope's slots removes just its callbacks.
LEMMA DisposeRefines ==
  ASSUME IInv, NEW s \in Scopes, Dispose(s)
  PROVE  Queue!Dispose(s)
<1>1. /\ s \in live /\ live' = live \ {s} /\ published' = published /\ delivered' = delivered
      /\ DOMAIN pending' = DOMAIN pending
      /\ \A i \in DOMAIN pending : pending'[i] =
           IF i > cursor /\ pending[i] # None /\ pending[i].scope \notin live'
             THEN None ELSE pending[i]
  BY DEF Dispose, historyVars
<1>2. \A i \in DOMAIN pending : pending[i] # None => i > cursor /\ pending[i].scope \in live
  BY DEF IInv, ReleasesEntries
<1>3. \A i \in DOMAIN pending :
        /\ pending'[i] # None => pending'[i] = pending[i] /\ pending[i] # None /\ pending[i].scope # s
        /\ pending[i] # None /\ pending[i].scope # s => pending'[i] = pending[i]
  BY <1>1, <1>2
<1>4. Waiting' = {e \in Waiting : e.scope # s}
  <2>1. ASSUME NEW e \in Waiting' PROVE e \in Waiting /\ e.scope # s
    BY <1>1, <1>3, <2>1 DEF Waiting
  <2>2. ASSUME NEW e \in Waiting, e.scope # s PROVE e \in Waiting'
    BY <1>1, <1>3, <2>2 DEF Waiting
  <2> QED BY <2>1, <2>2
<1> QED BY <1>1, <1>4 DEF Queue!Dispose

\* The loop runs the oldest waiting callback, or skips a released slot.
LEMMA DrainNextRefines ==
  ASSUME IInv, DrainNext
  PROVE  (\E e \in Waiting : Queue!Deliver(e)) \/ UNCHANGED Queue!vars
<1> DEFINE entry == pending[cursor + 1]
<1>1. /\ live' = live /\ published' = published /\ cursor < Len(pending)
      /\ pending' = [pending EXCEPT ![cursor + 1] = None]
  BY DEF DrainNext
<1>2. /\ pending \in Seq(Entry \cup {None}) /\ Len(pending) \in Nat /\ cursor \in Nat
      /\ DOMAIN pending = 1..Len(pending)
  BY DEF IInv, TypeOK
<1>3. cursor + 1 \in DOMAIN pending BY <1>1, <1>2
<1>4. /\ DOMAIN pending' = DOMAIN pending
      /\ pending'[cursor + 1] = None
      /\ \A i \in DOMAIN pending : i # cursor + 1 => pending'[i] = pending[i]
  BY <1>1, <1>2, <1>3
<1>5. CASE entry = None
  <2>1. delivered' = delivered BY <1>5 DEF DrainNext
  <2>2. \A i \in DOMAIN pending : pending'[i] = pending[i] BY <1>4, <1>5
  <2>3. Waiting' = Waiting BY <1>4, <2>2 DEF Waiting
  <2> QED BY <1>1, <2>1, <2>3 DEF Queue!vars
<1>6. CASE entry # None
  <2>1. entry.scope \in live BY <1>3, <1>6 DEF IInv, ReleasesEntries
  <2>2. delivered' = delivered \cup {entry} BY <1>6, <2>1 DEF DrainNext
  <2>3. entry \in Waiting BY <1>3, <1>6 DEF Waiting
  <2>4. \A i \in DOMAIN pending : pending[i] # None /\ i # cursor + 1 => entry.id < pending[i].id
    <3> SUFFICES ASSUME NEW i \in DOMAIN pending, pending[i] # None, i # cursor + 1
                 PROVE  entry.id < pending[i].id
      OBVIOUS
    <3>1. i > cursor BY DEF IInv, ReleasesEntries
    <3>2. cursor + 1 < i BY <1>2, <3>1
    <3> QED BY <1>3, <1>6, <3>2 DEF IInv, InPublicationOrder
  <2>5. \A i \in DOMAIN pending : pending[i] # None => pending[i].id \in Nat
    <3>1. \A i \in DOMAIN pending : pending[i] \in Entry \cup {None} BY <1>2, ElementOfSeq
    <3> QED BY <3>1 DEF Entry
  <2>6. \A f \in Waiting : entry.id <= f.id
    <3> SUFFICES ASSUME NEW i \in DOMAIN pending, pending[i] # None
                 PROVE  entry.id <= pending[i].id
      BY DEF Waiting
    <3>1. entry.id \in Nat /\ pending[i].id \in Nat BY <1>3, <1>6, <2>5
    <3>2. CASE i = cursor + 1 BY <3>1, <3>2
    <3>3. CASE i # cursor + 1
      <4>1. entry.id < pending[i].id BY <2>4, <3>3
      <4> QED BY <3>1, <4>1
    <3> QED BY <3>2, <3>3
  <2>7. Waiting' = Waiting \ {entry}
    <3>1. ASSUME NEW e \in Waiting' PROVE e \in Waiting /\ e # entry
      <4>1. PICK i \in DOMAIN pending : pending'[i] # None /\ e = pending'[i]
        BY <1>4, <3>1 DEF Waiting
      <4>2. i # cursor + 1 /\ e = pending[i] /\ pending[i] # None BY <1>4, <4>1
      <4>3. entry.id < e.id /\ entry.id \in Nat BY <1>3, <1>6, <2>4, <2>5, <4>2
      <4>4. e # entry BY <4>3
      <4> QED BY <4>2, <4>4 DEF Waiting
    <3>2. ASSUME NEW e \in Waiting, e # entry PROVE e \in Waiting'
      <4>1. PICK i \in DOMAIN pending : pending[i] # None /\ e = pending[i]
        BY <3>2 DEF Waiting
      <4>2. i # cursor + 1 BY <3>2, <4>1
      <4> QED BY <1>4, <4>1, <4>2 DEF Waiting
    <3> QED BY <3>1, <3>2
  <2>8. Queue!Deliver(entry) BY <1>1, <2>2, <2>3, <2>6, <2>7 DEF Queue!Deliver
  <2> QED BY <2>3, <2>8
<1> QED BY <1>5, <1>6

\* Cutting consumed slots off the array takes no waiting callback with it.
LEMMA DrainEndRefines ==
  ASSUME IInv, DrainEnd
  PROVE  UNCHANGED Queue!vars
<1>1. live' = live /\ published' = published /\ delivered' = delivered
  BY DEF DrainEnd, historyVars
<1>2. /\ pending \in Seq(Entry \cup {None}) /\ DOMAIN pending = 1..Len(pending)
      /\ \A i \in DOMAIN pending : pending[i] # None => i > cursor
  BY DEF IInv, TypeOK, ReleasesEntries
<1>3. /\ Len(pending) \in Nat /\ cursor \in Nat /\ cursor <= Len(pending)
      /\ DOMAIN pending' = 1..(Len(pending) - cursor)
      /\ \A i \in 1..(Len(pending) - cursor) : pending'[i] = pending[cursor + i]
  BY DrainEndArray
<1>4. Waiting' = Waiting
  <2>1. ASSUME NEW e \in Waiting' PROVE e \in Waiting
    <3>1. PICK i \in DOMAIN pending' : pending'[i] # None /\ e = pending'[i]
      BY <2>1 DEF Waiting
    <3>2. cursor + i \in DOMAIN pending BY <1>2, <1>3
    <3>3. e = pending[cursor + i] /\ e # None BY <1>3, <3>1
    <3> QED BY <3>2, <3>3 DEF Waiting
  <2>2. ASSUME NEW e \in Waiting PROVE e \in Waiting'
    <3>1. PICK i \in DOMAIN pending : pending[i] # None /\ e = pending[i]
      BY <2>2 DEF Waiting
    <3>2. i > cursor BY <1>2, <3>1
    <3>3. i - cursor \in DOMAIN pending' /\ cursor + (i - cursor) = i
      BY <1>2, <1>3, <3>2
    <3>4. pending'[i - cursor] = e BY <1>3, <3>1, <3>3
    <3> QED BY <3>1, <3>3, <3>4 DEF Waiting
  <2> QED BY <2>1, <2>2
<1> QED BY <1>1, <1>4 DEF Queue!vars

\* Tasks of the host and returning callbacks change no promise of the queue.
LEMMA QueueUntouched ==
  ASSUME UNCHANGED <<live, pending, published, delivered>>
  PROVE  UNCHANGED Queue!vars
BY DEF Queue!vars, Waiting

\* The commit FIFO, with its cursor, budget, wakes and timers, delivers each
\* published callback of a live scope in publication order and at most once.
THEOREM Refinement == Spec => ImplementsQueue
<1>1. Init => Queue!Init
  <2> SUFFICES ASSUME Init PROVE Queue!Init
    OBVIOUS
  <2>1. pending = <<>> BY DEF Init
  <2>2. Waiting = {} BY <2>1 DEF Waiting
  <2> QED BY <2>2 DEF Init, Queue!Init
<1>2. IInv /\ [Next]_vars => [Queue!Next]_(Queue!vars)
  <2> SUFFICES ASSUME IInv, [Next]_vars PROVE [Queue!Next]_(Queue!vars)
    OBVIOUS
  <2>1. ASSUME NEW n \in 1..MaxBatch, NEW scopeOf \in [1..n -> Scopes], Publish(n, scopeOf)
        PROVE  Queue!Next
    BY <2>1, PublishRefines DEF Queue!Next
  <2>2. ASSUME NEW s \in Scopes, Dispose(s) PROVE Queue!Next
    BY <2>2, DisposeRefines DEF Queue!Next
  <2>3. ASSUME NEW w \in microtasks, RunWake(w) PROVE UNCHANGED Queue!vars
    BY <2>3, QueueUntouched DEF RunWake, fifoVars, historyVars
  <2>4. ASSUME NEW t \in timers, RunTimer(t) PROVE UNCHANGED Queue!vars
    BY <2>4, QueueUntouched DEF RunTimer, fifoVars
  <2>5. CASE DrainNext BY <2>5, DrainNextRefines DEF Queue!Next
  <2>6. CASE CallbackEnds BY <2>6, QueueUntouched DEF CallbackEnds, fifoVars, historyVars
  <2>7. CASE DrainEnd BY <2>7, DrainEndRefines
  <2>8. CASE HostDiscards BY <2>8, QueueUntouched DEF HostDiscards, fifoVars
  <2>9. CASE UNCHANGED vars BY <2>9, QueueUntouched DEF vars
  <2> QED BY <2>1, <2>2, <2>3, <2>4, <2>5, <2>6, <2>7, <2>8, <2>9 DEF Next
<1> QED BY <1>1, <1>2, Invariance, PTL DEF Spec, ImplementsQueue, Queue!Spec
=============================================================================
