----------------------- MODULE ExternalProjectionProofs -----------------------
(***************************************************************************)
(* The projection of external resources for every set of sources and       *)
(* readers and every bound of a campaign: no accepted report is lost,      *)
(* attachments follow the readers, and a refused subscription leaves       *)
(* nothing behind.                                                         *)
(***************************************************************************)
EXTENDS ExternalProjection, FiniteSetTheorems, TLAPS

PlaneType ==
  [status : [Sources -> Statuses], counts : [Sources -> 0 .. Cardinality(Readers)],
   edges : [Readers -> SUBSET Sources], attachments : SUBSET Sources,
   releases : SUBSET Sources, unattached : SUBSET Sources, dirty : SUBSET Sources]

Owners(p, x) == {t \in Readers : x \in p.edges[t]}

\* A source without edges is dormant or waits for the flush; one with edges
\* is active or kept for an attempt to attach it.
Owed(p) == \A x \in Sources : /\ p.counts[x] = 0 /\ p.status[x] # "dormant" => x \in p.releases
                              /\ p.counts[x] > 0 /\ p.status[x] # "active" => x \in p.unattached

PlaneOK(p) ==
  /\ p \in PlaneType
  /\ \A x \in Sources : p.counts[x] = Cardinality(Owners(p, x))
  /\ p.dirty \subseteq {x \in Sources : p.status[x] # "dormant"}
  /\ Owed(p)

\* No source is attaching.
Settled(p) == \A x \in Sources : p.status[x] # "attaching"

\* Only a subscribe callback finds a source attaching: the one it is of.
OneAttaching ==
  \A x \in Sources : plane.status[x] = "attaching" =>
    /\ op.at = "subscribe" /\ plane.counts[x] > 0
    /\ \A y \in Sources : plane.status[y] = "attaching" => y = x

\* A wave leads to the admission or the flush, a flush to the drain or the end.
Course ==
  /\ op.at \in {"wave", "subscribe", "notify"} => op.next \in {"admit", "flush"}
  /\ op.at = "flush" => op.next \in {"drain", "idle"}

\* The flush of an admission that was rolled back ends the operation.
Finishing == op.at \in {"idle", "verdict"} \/ (op.at = "flush" /\ op.next = "idle")

ReportsDirty ==
  /\ reported \subseteq plane.dirty
  /\ Finishing => plane.dirty = {}

Flushed == op.at \in {"idle", "drain", "verdict"} => plane.releases = {}

\* Every registration has a handle but the one the operation is admitting.
Registered ==
  /\ op.admitting => /\ op.reader \in Readers /\ op.at # "idle"
                     /\ op.at = "flush" => op.next = "drain"
  /\ \A t \in Readers : subs[t] = handles[t] + IF Provisional(t) THEN 1 ELSE 0

\* The operation is a subscription whose reader is still to be registered.
Pending == op.at = "admit" \/ (op.at \in {"wave", "subscribe", "notify"} /\ op.next = "admit")

Admissible ==
  Pending => /\ ~op.admitting /\ op.reader \in Readers
             /\ subs[op.reader] < MaxRegistrations
             /\ \/ reads[op.reader] # None
                \/ op.at \in {"wave", "subscribe"} /\ op.reader \in wave.marked

\* The edges are those the records of the registered readers call for.
EdgesFollow ==
  \A t \in Readers : /\ subs[t] > 0 => reads[t] # None /\ plane.edges[t] = reads[t]
                     /\ subs[t] = 0 => plane.edges[t] = {}

OpType ==
  [at : Stages, next : Stages, reader : Readers \cup {None}, admitting : BOOLEAN,
   notified : BOOLEAN, failed : BOOLEAN, terminal : BOOLEAN,
   rounds : 0 .. Rounds, samples : 0 .. Samples, attached : 0 .. Samples]

WaveType ==
  [marked : SUBSET Readers, reached : SUBSET Readers,
   pulled : SUBSET Sources, attaching : SUBSET Sources]

\* The rest of TypeOK.
DataOK ==
  /\ view \in [Sources -> Views]
  /\ reported \subseteq {x \in Sources : view[x] # "current"}
  /\ reads \in [Readers -> {None} \cup SUBSET Sources]
  /\ subs \in [Readers -> 0 .. MaxRegistrations]
  /\ handles \in [Readers -> 0 .. MaxRegistrations]
  /\ wave \in WaveType
  /\ op \in OpType

IInv ==
  /\ DataOK
  /\ PlaneOK(plane)
  /\ OneAttaching
  /\ Course
  /\ ReportsDirty
  /\ Flushed
  /\ Registered
  /\ Admissible
  /\ EdgesFollow

-----------------------------------------------------------------------------
(* The operators on the plane *)

\* A plane by its fields.
Plane(s, c, e, a, r, u, d) ==
  [status |-> s, counts |-> c, edges |-> e, attachments |-> a,
   releases |-> r, unattached |-> u, dirty |-> d]

\* reconcile: the reader's edges are replaced, the counts of what it gains and
\* loses follow, and no source changes status or becomes dirty.
LEMMA ReconcileFields ==
  ASSUME NEW p \in PlaneType, NEW t \in Readers, NEW wanted \in SUBSET Sources
  PROVE  LET gained == wanted \ p.edges[t]
             lost == p.edges[t] \ wanted
             first == {x \in gained : p.counts[x] = 0}
         IN Reconcile(p, t, wanted) =
              Plane(p.status,
                    [x \in Sources |-> IF x \in gained THEN p.counts[x] + 1
                                       ELSE IF x \in lost THEN p.counts[x] - 1
                                       ELSE p.counts[x]],
                    [p.edges EXCEPT ![t] = wanted],
                    p.attachments \cup (first \cap Dormant(p)),
                    (p.releases \ first) \cup {x \in lost : p.counts[x] = 1},
                    p.unattached \cup (first \cap Dormant(p)),
                    p.dirty)
<1> DEFINE gained == wanted \ p.edges[t]
           lost == p.edges[t] \ wanted
           first == {x \in gained : p.counts[x] = 0}
           more == [x \in Sources |-> IF x \in gained THEN p.counts[x] + 1 ELSE p.counts[x]]
           kept == p.releases \ first
           attachments == p.attachments \cup (first \cap Dormant(p))
           unattached == p.unattached \cup (first \cap Dormant(p))
           edges == [p.edges EXCEPT ![t] = wanted]
           m == Plane(p.status, more, p.edges, attachments, kept, unattached, p.dirty)
           r == Plane(p.status, more, edges, attachments, kept, unattached, p.dirty)
           counts == [x \in Sources |-> IF x \in lost THEN more[x] - 1 ELSE more[x]]
           releases == kept \cup {x \in lost : more[x] = 1}
           q == Plane(p.status, counts, edges, attachments, releases, unattached, p.dirty)
<1>1. Retain(p, gained) = m
  <2> DEFINE p1 == [p EXCEPT !.counts = more]
             p2 == [p1 EXCEPT !.releases = kept]
             p3 == [p2 EXCEPT !.attachments = attachments]
  <2>1. Retain(p, gained) = [p EXCEPT !.counts = more, !.releases = kept,
                                      !.attachments = attachments, !.unattached = unattached]
    BY Zenon DEF Retain
  <2> HIDE DEF more, kept, attachments, unattached
  <2>2. Retain(p, gained) = [p3 EXCEPT !.unattached = unattached] BY <2>1
  <2>3. p1 = Plane(p.status, more, p.edges, p.attachments, p.releases, p.unattached, p.dirty)
    BY DEF Plane, PlaneType
  <2> HIDE DEF p1
  <2>4. p2 = Plane(p.status, more, p.edges, p.attachments, kept, p.unattached, p.dirty)
    BY <2>3 DEF Plane
  <2> HIDE DEF p2
  <2>5. p3 = Plane(p.status, more, p.edges, attachments, kept, p.unattached, p.dirty)
    BY <2>4 DEF Plane
  <2> HIDE DEF p3
  <2>6. [p3 EXCEPT !.unattached = unattached] = m BY <2>5 DEF Plane
  <2> QED BY <2>2, <2>6
<1>2. [Retain(p, gained) EXCEPT !.edges[t] = wanted] = r
  <2> HIDE DEF more, kept, attachments, unattached
  <2>1. m.edges = p.edges BY DEF Plane
  <2>2. [m EXCEPT !.edges[t] = wanted] = [m EXCEPT !.edges = edges]
    <3> HIDE DEF m
    <3> QED BY <2>1
  <2>3. [m EXCEPT !.edges = edges] = r
    <3> HIDE DEF edges
    <3> QED BY DEF Plane
  <2> QED BY Zenon, <1>1, <2>2, <2>3
<1>3. Reconcile(p, t, wanted) = Release(r, lost) BY <1>2, Zenon DEF Reconcile
<1>4. r.counts = more /\ r.releases = kept
  <2> HIDE DEF more, kept, attachments, unattached, edges
  <2> QED BY DEF Plane
<1>5. Release(r, lost) = q
  <2> DEFINE r1 == [r EXCEPT !.counts = counts]
  <2>1. Release(r, lost) = [r EXCEPT !.counts = counts, !.releases = releases]
    <3> HIDE DEF r, more, kept, lost
    <3> QED BY Zenon, <1>4 DEF Release
  <2> HIDE DEF more, kept, attachments, unattached, edges, counts, releases
  <2>2. Release(r, lost) = [r1 EXCEPT !.releases = releases] BY <2>1
  <2>3. r1 = Plane(p.status, counts, edges, attachments, kept, unattached, p.dirty)
    BY DEF Plane
  <2> HIDE DEF r1
  <2>4. [r1 EXCEPT !.releases = releases] = q BY <2>3 DEF Plane
  <2> QED BY <2>2, <2>4
<1>6. lost \subseteq Sources /\ lost \cap gained = {} BY DEF PlaneType
<1>7. /\ counts = [x \in Sources |-> IF x \in gained THEN p.counts[x] + 1
                                     ELSE IF x \in lost THEN p.counts[x] - 1
                                     ELSE p.counts[x]]
      /\ releases = kept \cup {x \in lost : p.counts[x] = 1}
  <2> HIDE DEF lost, gained, kept
  <2> QED BY <1>6 DEF more
<1> QED BY <1>3, <1>5, <1>7, Zenon


\* A source's owners are finitely many readers, and it has some iff it counts.
LEMMA OwnersCount ==
  ASSUME NEW p, NEW x \in Sources, p.counts[x] = Cardinality(Owners(p, x))
  PROVE  /\ IsFiniteSet(Owners(p, x)) /\ p.counts[x] \in 0 .. Cardinality(Readers)
         /\ p.counts[x] = 0 <=> Owners(p, x) = {}
         /\ p.counts[x] > 0 <=> \E t \in Readers : x \in p.edges[t]
<1>1. Owners(p, x) \in SUBSET Readers BY DEF Owners
<1>2. /\ IsFiniteSet(Owners(p, x)) /\ Cardinality(Owners(p, x)) \in Nat
      /\ Cardinality(Owners(p, x)) <= Cardinality(Readers) /\ Cardinality(Readers) \in Nat
  BY <1>1, FinitenessAssumption, FS_Subset, FS_CardinalityType
<1>3. Cardinality(Owners(p, x)) = 0 <=> Owners(p, x) = {} BY <1>2, FS_EmptySet
<1>4. Owners(p, x) = {} <=> ~\E t \in Readers : x \in p.edges[t] BY DEF Owners
<1> QED BY <1>2, <1>3, <1>4

\* reconcile keeps the plane in order while no source is attaching, and
\* changes no status, no dirty source and no other reader's edges.
LEMMA ReconcileOK ==
  ASSUME NEW p, PlaneOK(p), Settled(p), NEW t \in Readers, NEW wanted \in SUBSET Sources
  PROVE  /\ PlaneOK(Reconcile(p, t, wanted)) /\ Settled(Reconcile(p, t, wanted))
         /\ Reconcile(p, t, wanted).status = p.status
         /\ Reconcile(p, t, wanted).dirty = p.dirty
         /\ Reconcile(p, t, wanted).edges = [p.edges EXCEPT ![t] = wanted]
<1> DEFINE q == Reconcile(p, t, wanted)
           gained == wanted \ p.edges[t]
           lost == p.edges[t] \ wanted
           first == {x \in gained : p.counts[x] = 0}
           counts == [x \in Sources |-> IF x \in gained THEN p.counts[x] + 1
                                        ELSE IF x \in lost THEN p.counts[x] - 1
                                        ELSE p.counts[x]]
           edges == [p.edges EXCEPT ![t] = wanted]
           attachments == p.attachments \cup (first \cap Dormant(p))
           releases == (p.releases \ first) \cup {x \in lost : p.counts[x] = 1}
           unattached == p.unattached \cup (first \cap Dormant(p))
<1>1. p \in PlaneType BY DEF PlaneOK
<1>2. q = Plane(p.status, counts, edges, attachments, releases, unattached, p.dirty)
  BY <1>1, ReconcileFields, Zenon
<1>3. /\ p.status \in [Sources -> Statuses] /\ p.counts \in [Sources -> 0 .. Cardinality(Readers)]
      /\ p.edges \in [Readers -> SUBSET Sources] /\ p.attachments \subseteq Sources
      /\ p.releases \subseteq Sources /\ p.unattached \subseteq Sources /\ p.dirty \subseteq Sources
  BY <1>1 DEF PlaneType
<1>4. /\ q.status = p.status /\ q.counts = counts /\ q.edges = edges /\ q.dirty = p.dirty
      /\ q.attachments = attachments /\ q.releases = releases /\ q.unattached = unattached
  <2> HIDE DEF q, counts, edges, attachments, releases, unattached
  <2> QED BY <1>2 DEF Plane
<1>5. gained \subseteq Sources /\ lost \subseteq Sources /\ first \subseteq Sources /\ lost \cap gained = {}
  BY <1>3
<1>6. Cardinality(Readers) \in Nat BY FinitenessAssumption, FS_CardinalityType
<1>7. ASSUME NEW x \in Sources PROVE counts[x] = Cardinality(Owners(q, x))
  <2> DEFINE own == Owners(p, x)
  <2>1. p.counts[x] = Cardinality(own) BY DEF PlaneOK
  <2>2. IsFiniteSet(own) BY <2>1, OwnersCount
  <2>3. t \in own <=> x \in p.edges[t] BY DEF Owners
  <2>4. Owners(q, x) = IF x \in wanted THEN own \cup {t} ELSE own \ {t}
    BY <1>3, <1>4 DEF Owners
  <2>5. Cardinality(own \cup {t}) = IF t \in own THEN Cardinality(own) ELSE Cardinality(own) + 1
    BY <2>2, FS_AddElement
  <2>6. Cardinality(own \ {t}) = IF t \in own THEN Cardinality(own) - 1 ELSE Cardinality(own)
    BY <2>2, FS_RemoveElement
  <2> HIDE DEF own, q
  <2> QED BY <2>1, <2>3, <2>4, <2>5, <2>6
<1>8. counts \in [Sources -> 0 .. Cardinality(Readers)]
  <2>1. ASSUME NEW x \in Sources PROVE counts[x] \in 0 .. Cardinality(Readers)
    BY <1>4, <1>7, OwnersCount
  <2> QED BY <2>1
<1>9. q \in PlaneType
  <2> HIDE DEF q
  <2>1. edges \in [Readers -> SUBSET Sources] BY <1>3
  <2>2. /\ attachments \in SUBSET Sources /\ releases \in SUBSET Sources
        /\ unattached \in SUBSET Sources /\ p.dirty \in SUBSET Sources
    BY <1>3, <1>5
  <2> HIDE DEF counts, edges, attachments, releases, unattached
  <2> QED BY <1>2, <1>3, <1>8, <2>1, <2>2 DEF Plane, PlaneType
<1>10. Owed(q)
  <2> SUFFICES ASSUME NEW x \in Sources
               PROVE  /\ counts[x] = 0 /\ p.status[x] # "dormant" => x \in releases
                      /\ counts[x] > 0 /\ p.status[x] # "active" => x \in unattached
    BY <1>4 DEF Owed
  <2>1. p.counts[x] \in Nat /\ p.status[x] \in {"dormant", "active"}
    BY <1>3, <1>6 DEF Statuses, Settled
  <2>2. /\ p.counts[x] = 0 /\ p.status[x] # "dormant" => x \in p.releases
        /\ p.counts[x] > 0 /\ p.status[x] # "active" => x \in p.unattached
    BY DEF PlaneOK, Owed
  <2>3. p.counts[x] = 0 /\ x \in gained /\ p.status[x] # "active" => x \in first \cap Dormant(p)
    BY <2>1 DEF Dormant
  <2> HIDE DEF gained, lost
  <2> QED BY <1>5, <2>1, <2>2, <2>3
<1>11. /\ q.dirty \subseteq {x \in Sources : q.status[x] # "dormant"} /\ Settled(q)
  BY <1>4 DEF PlaneOK, Settled
<1> QED BY <1>4, <1>7, <1>9, <1>10, <1>11 DEF PlaneOK


\* An update that leaves edges and counts alone keeps the plane in order if it
\* keeps track of the dormant sources and of those owed an attempt.
LEMMA SameEdgesOK ==
  ASSUME NEW p, PlaneOK(p), NEW q \in PlaneType, q.edges = p.edges, q.counts = p.counts,
         q.dirty \subseteq {x \in Sources : q.status[x] # "dormant"}, Owed(q)
  PROVE  PlaneOK(q)
<1>1. \A x \in Sources : Owners(q, x) = Owners(p, x) BY DEF Owners
<1> QED BY <1>1 DEF PlaneOK

\* begin asks for attachments and does nothing else.
LEMMA BegunOK ==
  ASSUME NEW p, PlaneOK(p)
  PROVE  /\ PlaneOK(Begun(p))
         /\ Begun(p).status = p.status /\ Begun(p).dirty = p.dirty /\ Begun(p).edges = p.edges
         /\ Begun(p).counts = p.counts
<1> DEFINE more == p.attachments \cup {x \in p.unattached : p.counts[x] > 0 /\ p.status[x] = "dormant"}
           q == [p EXCEPT !.attachments = more]
<1>1. p \in PlaneType BY DEF PlaneOK
<1>2. more \in SUBSET Sources BY <1>1 DEF PlaneType
<1>3. Begun(p) = q BY Zenon DEF Begun
<1>4. /\ q \in PlaneType
      /\ q.status = p.status /\ q.dirty = p.dirty /\ q.edges = p.edges /\ q.counts = p.counts
      /\ q.releases = p.releases /\ q.unattached = p.unattached
  <2> HIDE DEF more
  <2> QED BY <1>1, <1>2 DEF PlaneType
<1> HIDE DEF q
<1>5. Owed(q) /\ q.dirty \subseteq {x \in Sources : q.status[x] # "dormant"}
  BY <1>4 DEF PlaneOK, Owed
<1> QED BY <1>3, <1>4, <1>5, SameEdgesOK

-----------------------------------------------------------------------------
(* The steps of an operation *)

\* A reader evaluates: the invariant holds afterwards.
LEMMA EvaluateKeeps ==
  ASSUME IInv, NEW t \in Readers, Evaluate(t)
  PROVE  IInv'
<1>1. PICK sources \in Branches[t], tokenChanges \in BOOLEAN :
        LET asked == {x \in sources : plane.status[x] # "active"} \ wave.pulled
            heard == tokenChanges /\ reads[t] # None /\ subs[t] > 0
        IN /\ view' = Sampled(asked)
           /\ reads' = [reads EXCEPT ![t] = sources]
           /\ plane' = Reconcile(plane, t, IF subs[t] > 0 THEN sources ELSE {})
           /\ wave' = [wave EXCEPT !.marked = (@ \cup Routed(Changed(asked))) \ {t},
                                   !.reached = IF heard THEN @ \cup {t} ELSE @,
                                   !.pulled = @ \cup asked]
  BY DEF Evaluate
<1> DEFINE asked == {x \in sources : plane.status[x] # "active"} \ wave.pulled
           heard == tokenChanges /\ reads[t] # None /\ subs[t] > 0
           wanted == IF subs[t] > 0 THEN sources ELSE {}
           marked == (wave.marked \cup Routed(Changed(asked))) \ {t}
           reached == IF heard THEN wave.reached \cup {t} ELSE wave.reached
           pulled == wave.pulled \cup asked
<1>2. /\ op.at = "wave" /\ wave.attaching = {} /\ t \in wave.marked
      /\ reported' = reported /\ subs' = subs /\ handles' = handles /\ op' = op
  BY DEF Evaluate
<1>3. /\ view' = Sampled(asked) /\ reads' = [reads EXCEPT ![t] = sources]
      /\ plane' = Reconcile(plane, t, wanted)
      /\ wave' = [wave EXCEPT !.marked = marked, !.reached = reached, !.pulled = pulled]
  BY <1>1
<1>4. sources \in SUBSET Sources /\ asked \in SUBSET Sources /\ wanted \in SUBSET Sources
  BY BoundsAssumption
<1>5. Settled(plane) BY <1>2 DEF IInv, OneAttaching, Settled
<1>6. /\ PlaneOK(plane') /\ Settled(plane')
      /\ plane'.status = plane.status /\ plane'.dirty = plane.dirty
      /\ plane'.edges = [plane.edges EXCEPT ![t] = wanted]
  <2>1. PlaneOK(plane) BY DEF IInv
  <2>2. plane' = Reconcile(plane, t, wanted) BY <1>3
  <2> HIDE DEF wanted
  <2> QED BY <1>4, <1>5, <2>1, <2>2, ReconcileOK
<1>7. wave' \in WaveType /\ wave'.marked = marked
  <2>1. /\ marked \in SUBSET Readers /\ reached \in SUBSET Readers /\ pulled \in SUBSET Sources
    BY <1>4 DEF IInv, DataOK, WaveType, Routed
  <2> HIDE DEF marked, reached, pulled
  <2> QED BY <1>3, <2>1 DEF IInv, DataOK, WaveType
<1>8. DataOK'
  <2>1. \A x \in asked : x \notin reported
    BY <1>5 DEF IInv, ReportsDirty, PlaneOK, PlaneType, Statuses, Settled
  <2>2. \A x \in reported' : view'[x] = view[x] /\ x \in Sources
    BY <1>2, <1>3, <2>1 DEF IInv, DataOK, Sampled
  <2>3. view' \in [Sources -> Views] BY <1>3 DEF IInv, DataOK, Sampled, Views
  <2> QED BY <1>2, <1>3, <1>4, <1>7, <2>2, <2>3 DEF IInv, DataOK
<1>9. OneAttaching' BY <1>6 DEF Settled, OneAttaching
<1>10. Course' /\ ReportsDirty' /\ Flushed' /\ Registered'
  BY <1>2, <1>6 DEF IInv, Course, ReportsDirty, Finishing, Flushed, Registered, Provisional
<1>11. \A u \in Readers : reads'[u] = IF u = t THEN sources ELSE reads[u]
  BY <1>3 DEF IInv, DataOK
<1>12. sources # None BY <1>4, BoundsAssumption
<1>13. Admissible'
  BY <1>2, <1>4, <1>7, <1>11, <1>12 DEF IInv, Admissible, Pending
<1>14. EdgesFollow'
  BY <1>2, <1>4, <1>6, <1>11, <1>12 DEF IInv, EdgesFollow, DataOK, PlaneOK, PlaneType
<1> QED BY <1>6, <1>8, <1>9, <1>10, <1>13, <1>14 DEF IInv

\* settleLifecycle moves the requests into the wave.
LEMMA SettleLifecycleKeeps == IInv /\ SettleLifecycle => IInv'
<1> SUFFICES ASSUME IInv, SettleLifecycle PROVE IInv' OBVIOUS
<1>1. /\ plane \in PlaneType /\ wave \in WaveType BY DEF IInv, PlaneOK, DataOK
<1>2. /\ view' = view /\ reported' = reported /\ reads' = reads /\ subs' = subs
      /\ handles' = handles /\ op' = op
      /\ wave' = [wave EXCEPT !.attaching = plane.attachments]
      /\ plane' = [plane EXCEPT !.attachments = {}]
  BY DEF SettleLifecycle
<1>3. wave' \in WaveType /\ wave'.marked = wave.marked BY <1>1, <1>2 DEF WaveType, PlaneType
<1>4. /\ plane' \in PlaneType
      /\ plane'.status = plane.status /\ plane'.dirty = plane.dirty /\ plane'.edges = plane.edges
      /\ plane'.counts = plane.counts /\ plane'.releases = plane.releases
      /\ plane'.unattached = plane.unattached
  BY <1>1, <1>2 DEF PlaneType
<1>5. PlaneOK(plane')
  <2>1. Owed(plane') /\ plane'.dirty \subseteq {x \in Sources : plane'.status[x] # "dormant"}
    BY <1>4 DEF IInv, PlaneOK, Owed
  <2> QED BY <1>4, <2>1, SameEdgesOK DEF IInv
<1>6. DataOK' BY <1>2, <1>3 DEF IInv, DataOK
<1>7. /\ OneAttaching' /\ Course' /\ ReportsDirty' /\ Flushed' /\ Registered' /\ Admissible'
      /\ EdgesFollow'
  BY <1>2, <1>3, <1>4 DEF IInv, OneAttaching, Course, ReportsDirty, Finishing, Flushed,
     Registered, Provisional, Admissible, Pending, EdgesFollow
<1> QED BY <1>5, <1>6, <1>7 DEF IInv

\* A request whose source is attached by now, or has no reader, is dropped.
LEMMA SkipAttachmentKeeps ==
  ASSUME IInv, NEW x \in Sources, SkipAttachment(x)
  PROVE  IInv'
<1>1. wave' \in WaveType /\ wave'.marked = wave.marked
  BY DEF SkipAttachment, IInv, DataOK, WaveType
<1>2. DataOK' BY <1>1 DEF SkipAttachment, IInv, DataOK
<1>3. /\ PlaneOK(plane') /\ OneAttaching' /\ Course' /\ ReportsDirty' /\ Flushed'
      /\ Registered' /\ Admissible' /\ EdgesFollow'
  BY <1>1 DEF SkipAttachment, IInv, OneAttaching, Course, ReportsDirty, Finishing, Flushed,
     Registered, Provisional, Admissible, Pending, EdgesFollow
<1> QED BY <1>2, <1>3 DEF IInv

\* Beyond the bound a request is refused and the operation fails.
LEMMA RefuseAttachmentKeeps ==
  ASSUME IInv, NEW x \in Sources, RefuseAttachment(x)
  PROVE  IInv'
<1>1. wave' \in WaveType /\ wave'.marked = wave.marked
  BY DEF RefuseAttachment, IInv, DataOK, WaveType
<1>2. /\ op' \in OpType /\ op'.at = op.at /\ op'.next = op.next /\ op'.reader = op.reader
      /\ op'.admitting = op.admitting
  BY DEF RefuseAttachment, IInv, DataOK, OpType
<1>3. DataOK' BY <1>1, <1>2 DEF RefuseAttachment, IInv, DataOK
<1>4. /\ PlaneOK(plane') /\ OneAttaching' /\ Course' /\ ReportsDirty' /\ Flushed'
      /\ Registered' /\ Admissible' /\ EdgesFollow'
  BY <1>1, <1>2 DEF RefuseAttachment, IInv, OneAttaching, Course, ReportsDirty, Finishing, Flushed,
     Registered, Provisional, Admissible, Pending, EdgesFollow
<1> QED BY <1>3, <1>4 DEF IInv

\* An attachment begins: its source, which has readers, is the one attaching.
LEMMA AttachKeeps ==
  ASSUME IInv, NEW x \in Sources, Attach(x)
  PROVE  IInv'
<1>1. /\ op.at = "wave" /\ plane.counts[x] > 0 /\ plane.status[x] = "dormant" /\ op.attached < Samples
      /\ view' = view /\ reported' = reported /\ reads' = reads /\ subs' = subs /\ handles' = handles
      /\ plane' = [plane EXCEPT !.status[x] = "attaching"]
      /\ wave' = [wave EXCEPT !.attaching = @ \ {x}]
      /\ op' = [op EXCEPT !.at = "subscribe", !.attached = @ + 1]
  BY DEF Attach, Attachable
<1>2. wave' \in WaveType /\ wave'.marked = wave.marked BY <1>1 DEF IInv, DataOK, WaveType
<1>3. /\ op' \in OpType /\ op'.at = "subscribe" /\ op'.next = op.next /\ op'.reader = op.reader
      /\ op'.admitting = op.admitting
  <2>1. op.attached + 1 \in 0 .. Samples BY <1>1, BoundsAssumption DEF IInv, DataOK, OpType
  <2> QED BY <1>1, <2>1 DEF IInv, DataOK, OpType, Stages
<1>4. /\ plane' \in PlaneType
      /\ plane'.status = [plane.status EXCEPT ![x] = "attaching"]
      /\ plane'.dirty = plane.dirty /\ plane'.edges = plane.edges /\ plane'.counts = plane.counts
      /\ plane'.releases = plane.releases /\ plane'.unattached = plane.unattached
  BY <1>1 DEF IInv, PlaneOK, PlaneType, Statuses
<1>5. \A y \in Sources : plane'.status[y] = IF y = x THEN "attaching" ELSE plane.status[y]
  BY <1>4 DEF IInv, PlaneOK, PlaneType
<1>6. PlaneOK(plane')
  <2>1. plane.counts[x] # 0 /\ x \in plane.unattached BY <1>1 DEF IInv, PlaneOK, PlaneType, Owed
  <2>2. Owed(plane') /\ plane'.dirty \subseteq {y \in Sources : plane'.status[y] # "dormant"}
    BY <1>1, <1>4, <1>5, <2>1 DEF IInv, PlaneOK, Owed
  <2> QED BY <1>4, <2>2, SameEdgesOK DEF IInv
<1>7. DataOK' BY <1>1, <1>2, <1>3 DEF IInv, DataOK
<1>8. OneAttaching' BY <1>1, <1>3, <1>4, <1>5 DEF IInv, OneAttaching
<1>9. /\ Course' /\ ReportsDirty' /\ Flushed' /\ Registered' /\ Admissible' /\ EdgesFollow'
  BY <1>1, <1>2, <1>3, <1>4 DEF IInv, Course, ReportsDirty, Finishing, Flushed,
     Registered, Provisional, Admissible, Pending, EdgesFollow
<1> QED BY <1>6, <1>7, <1>8, <1>9 DEF IInv

\* An attachment succeeds: the source is active, sampled, and owed nothing.
LEMMA AttachedKeeps ==
  ASSUME IInv, NEW x \in Sources, Attached(x)
  PROVE  IInv'
<1> DEFINE marked == wave.marked \cup Routed(Changed({x}))
           pulled == wave.pulled \cup {x}
<1>1. /\ op.at = "subscribe" /\ plane.status[x] = "attaching"
      /\ view' = Sampled({x}) /\ reported' = reported \ {x}
      /\ reads' = reads /\ subs' = subs /\ handles' = handles
      /\ op' = [op EXCEPT !.at = "wave"]
  BY DEF Attached, SampledOnAttach
<1>2. wave' \in WaveType /\ wave'.marked = marked
  <2>1. wave' = [wave EXCEPT !.marked = marked, !.pulled = pulled] BY DEF Attached
  <2>2. marked \in SUBSET Readers /\ pulled \in SUBSET Sources BY DEF IInv, DataOK, WaveType, Routed
  <2> HIDE DEF marked, pulled
  <2> QED BY <2>1, <2>2 DEF IInv, DataOK, WaveType
<1>3. /\ op' \in OpType /\ op'.at = "wave" /\ op'.next = op.next /\ op'.reader = op.reader
      /\ op'.admitting = op.admitting
  BY <1>1 DEF IInv, DataOK, OpType, Stages
<1>4. /\ plane' \in PlaneType
      /\ plane'.status = [plane.status EXCEPT ![x] = "active"]
      /\ plane'.dirty = plane.dirty \ {x} /\ plane'.edges = plane.edges
      /\ plane'.counts = plane.counts /\ plane'.releases = plane.releases
      /\ plane'.unattached = plane.unattached \ {x}
  <2> DEFINE status == [plane.status EXCEPT ![x] = "active"]
             dirty == plane.dirty \ {x}
             unattached == plane.unattached \ {x}
  <2>1. plane' = [plane EXCEPT !.status = status, !.dirty = dirty, !.unattached = unattached]
    BY DEF Attached
  <2>2. status \in [Sources -> Statuses] /\ dirty \in SUBSET Sources /\ unattached \in SUBSET Sources
    BY DEF IInv, PlaneOK, PlaneType, Statuses
  <2> HIDE DEF status, dirty, unattached
  <2>3. plane' \in PlaneType /\ plane'.status = status /\ plane'.dirty = dirty
        /\ plane'.unattached = unattached /\ plane'.edges = plane.edges
        /\ plane'.counts = plane.counts /\ plane'.releases = plane.releases
    BY <2>1, <2>2 DEF IInv, PlaneOK, PlaneType
  <2> QED BY <2>3 DEF status, dirty, unattached
<1>5. \A y \in Sources : plane'.status[y] = IF y = x THEN "active" ELSE plane.status[y]
  BY <1>4 DEF IInv, PlaneOK, PlaneType
<1>6. PlaneOK(plane')
  <2>1. plane.counts[x] # 0 BY <1>1 DEF IInv, OneAttaching
  <2>2. Owed(plane') /\ plane'.dirty \subseteq {y \in Sources : plane'.status[y] # "dormant"}
    BY <1>4, <1>5, <2>1 DEF IInv, PlaneOK, Owed
  <2> QED BY <1>4, <2>2, SameEdgesOK DEF IInv
<1>7. DataOK'
  <2>1. view' \in [Sources -> Views] /\ \A y \in Sources \ {x} : view'[y] = view[y]
    BY <1>1 DEF IInv, DataOK, Sampled, Views
  <2> QED BY <1>1, <1>2, <1>3, <2>1 DEF IInv, DataOK
<1>8. OneAttaching' BY <1>1, <1>5 DEF IInv, OneAttaching
<1>9. /\ Course' /\ ReportsDirty' /\ Flushed' /\ Registered' /\ Admissible' /\ EdgesFollow'
  BY <1>1, <1>2, <1>3, <1>4 DEF IInv, Course, ReportsDirty, Finishing, Flushed,
     Registered, Provisional, Admissible, Pending, EdgesFollow
<1> QED BY <1>6, <1>7, <1>8, <1>9 DEF IInv

\* Revoking the generation of a source that keeps its edges, or of one whose
\* last edge is flushed, leaves the plane in order.
LEMMA RevokedFields ==
  ASSUME NEW p \in PlaneType, NEW x \in Sources
  PROVE  /\ Revoked(p, x) \in PlaneType
         /\ Revoked(p, x).dirty = p.dirty \ {x} /\ Revoked(p, x).edges = p.edges
         /\ Revoked(p, x).counts = p.counts /\ Revoked(p, x).releases = p.releases
         /\ Revoked(p, x).unattached = p.unattached /\ Revoked(p, x).attachments = p.attachments
         /\ \A y \in Sources : Revoked(p, x).status[y] = IF y = x THEN "dormant" ELSE p.status[y]
<1> DEFINE status == [p.status EXCEPT ![x] = "dormant"]
           dirty == p.dirty \ {x}
           q == [p EXCEPT !.status = status, !.dirty = dirty]
<1>1. Revoked(p, x) = q BY DEF Revoked
<1>2. status \in [Sources -> Statuses] /\ dirty \in SUBSET Sources BY DEF PlaneType, Statuses
<1>3. \A y \in Sources : status[y] = IF y = x THEN "dormant" ELSE p.status[y] BY DEF PlaneType
<1>4. /\ q \in PlaneType /\ q.status = status /\ q.dirty = dirty /\ q.edges = p.edges
      /\ q.counts = p.counts /\ q.releases = p.releases /\ q.unattached = p.unattached
      /\ q.attachments = p.attachments
  <2> HIDE DEF status, dirty
  <2> QED BY <1>2 DEF PlaneType
<1> QED BY <1>1, <1>3, <1>4

\* An attachment fails: the source stays owed an attempt.
LEMMA AttachFailsKeeps ==
  ASSUME IInv, NEW x \in Sources, AttachFails(x)
  PROVE  IInv'
<1>1. /\ op.at = "subscribe" /\ plane.status[x] = "attaching"
      /\ plane' = Revoked(plane, x) /\ reported' = reported \ {x}
      /\ op' = [op EXCEPT !.at = "wave", !.failed = TRUE]
      /\ view' = view /\ reads' = reads /\ subs' = subs /\ handles' = handles /\ wave' = wave
  BY DEF AttachFails
<1>2. /\ op' \in OpType /\ op'.at = "wave" /\ op'.next = op.next /\ op'.reader = op.reader
      /\ op'.admitting = op.admitting
  BY <1>1 DEF IInv, DataOK, OpType, Stages
<1>3. /\ plane' \in PlaneType
      /\ plane'.dirty = plane.dirty \ {x} /\ plane'.edges = plane.edges
      /\ plane'.counts = plane.counts /\ plane'.releases = plane.releases
      /\ plane'.unattached = plane.unattached
      /\ \A y \in Sources : plane'.status[y] = IF y = x THEN "dormant" ELSE plane.status[y]
  <2>1. plane \in PlaneType BY DEF IInv, PlaneOK
  <2>2. plane' = Revoked(plane, x) BY <1>1
  <2> QED BY <2>1, <2>2, RevokedFields
<1>4. PlaneOK(plane')
  <2>1. Owed(plane') /\ plane'.dirty \subseteq {y \in Sources : plane'.status[y] # "dormant"}
    BY <1>1, <1>3 DEF IInv, PlaneOK, Owed
  <2> QED BY <1>3, <2>1, SameEdgesOK DEF IInv
<1>5. DataOK' BY <1>1, <1>2 DEF IInv, DataOK
<1>6. OneAttaching' BY <1>1, <1>3 DEF IInv, OneAttaching
<1>7. /\ Course' /\ ReportsDirty' /\ Flushed' /\ Registered' /\ Admissible' /\ EdgesFollow'
  BY <1>1, <1>2, <1>3 DEF IInv, Course, ReportsDirty, Finishing, Flushed,
     Registered, Provisional, Admissible, Pending, EdgesFollow
<1> QED BY <1>4, <1>5, <1>6, <1>7 DEF IInv

\* A wave ends: a pending subscription has its record.
LEMMA WaveEndsKeeps == IInv /\ WaveEnds => IInv'
<1> SUFFICES ASSUME IInv, WaveEnds PROVE IInv' OBVIOUS
<1>1. /\ op.at = "wave" /\ wave.marked = {}
      /\ wave' = NoWave /\ view' = view /\ reported' = reported /\ plane' = plane
      /\ reads' = reads /\ subs' = subs /\ handles' = handles
      /\ \/ op' = [op EXCEPT !.at = "notify", !.notified = @ \/ HearsProvisional]
         \/ op' = [op EXCEPT !.at = op.next, !.next = "drain"]
  BY DEF WaveEnds, AfterWave
<1>2. wave' \in WaveType BY <1>1 DEF NoWave, WaveType
<1>3. /\ op' \in OpType /\ op'.reader = op.reader /\ op'.admitting = op.admitting
      /\ \/ op'.at = "notify" /\ op'.next = op.next
         \/ op'.at = op.next /\ op'.next = "drain"
  <2> DEFINE heard == op.notified \/ HearsProvisional
  <2>1. heard \in BOOLEAN OBVIOUS
  <2>2. CASE op' = [op EXCEPT !.at = "notify", !.notified = heard]
    <3> HIDE DEF heard
    <3> QED BY <2>1, <2>2 DEF IInv, DataOK, OpType, Stages
  <2>3. CASE op' = [op EXCEPT !.at = op.next, !.next = "drain"]
    BY <2>3 DEF IInv, DataOK, OpType, Stages
  <2> QED BY <1>1, <2>2, <2>3
<1>4. DataOK' BY <1>1, <1>2, <1>3 DEF IInv, DataOK
<1>5. PlaneOK(plane') /\ OneAttaching' BY <1>1 DEF IInv, OneAttaching
<1>6. op.next \in {"admit", "flush"} BY <1>1 DEF IInv, Course
<1>7. /\ Course' /\ ReportsDirty' /\ Flushed' /\ Registered' /\ Admissible' /\ EdgesFollow'
  BY <1>1, <1>3, <1>6 DEF IInv, Course, ReportsDirty, Finishing, Flushed,
     Registered, Provisional, Admissible, Pending, EdgesFollow
<1> QED BY <1>4, <1>5, <1>7 DEF IInv

\* The subscriber callbacks have run.
LEMMA CallbacksReturnKeeps ==
  ASSUME IInv, NEW throws \in BOOLEAN, CallbacksReturn(throws)
  PROVE  IInv'
<1> DEFINE after == [op EXCEPT !.at = op.next, !.next = "drain"]
<1>1. /\ op.at = "notify"
      /\ op' = [after EXCEPT !.failed = @ \/ throws]
      /\ view' = view /\ reported' = reported /\ plane' = plane /\ wave' = wave
      /\ reads' = reads /\ subs' = subs /\ handles' = handles
  BY DEF CallbacksReturn, AfterWave
<1>2. /\ after \in OpType /\ after.reader = op.reader /\ after.admitting = op.admitting
      /\ after.at = op.next /\ after.next = "drain"
  BY DEF IInv, DataOK, OpType, Stages
<1>3. /\ op' \in OpType /\ op'.reader = op.reader /\ op'.admitting = op.admitting
      /\ op'.at = op.next /\ op'.next = "drain"
  <2> HIDE DEF after
  <2> QED BY <1>1, <1>2 DEF OpType
<1>4. op.next \in {"admit", "flush"} BY <1>1 DEF IInv, Course
<1>5. DataOK' /\ PlaneOK(plane') /\ OneAttaching' BY <1>1, <1>3 DEF IInv, DataOK, OneAttaching
<1>6. /\ Course' /\ ReportsDirty' /\ Flushed' /\ Registered' /\ Admissible' /\ EdgesFollow'
  BY <1>1, <1>3, <1>4 DEF IInv, Course, ReportsDirty, Finishing, Flushed,
     Registered, Provisional, Admissible, Pending, EdgesFollow
<1> QED BY <1>5, <1>6 DEF IInv

\* A release is flushed: a source that has edges again is kept, another is
\* revoked.
LEMMA CleanupKeeps ==
  ASSUME IInv, NEW x \in Sources, NEW throws \in BOOLEAN, Cleanup(x, throws)
  PROVE  IInv'
<1> DEFINE kept == [plane EXCEPT !.releases = @ \ {x}]
           revoked == Revoked(kept, x)
<1>1. /\ op.at = "flush" /\ x \in plane.releases
      /\ plane' = IF plane.counts[x] = 0 THEN Cleaned(kept, x) ELSE kept
      /\ reported' = IF plane.counts[x] = 0 THEN reported \ {x} ELSE reported
      /\ op' = [op EXCEPT !.failed = @ \/ throws]
      /\ view' = view /\ reads' = reads /\ subs' = subs /\ handles' = handles /\ wave' = wave
  BY DEF Cleanup
<1>2. /\ op' \in OpType /\ op'.at = op.at /\ op'.next = op.next /\ op'.reader = op.reader
      /\ op'.admitting = op.admitting
  BY <1>1 DEF IInv, DataOK, OpType
<1>3. /\ kept \in PlaneType /\ kept.releases = plane.releases \ {x}
      /\ kept.status = plane.status /\ kept.dirty = plane.dirty /\ kept.edges = plane.edges
      /\ kept.counts = plane.counts /\ kept.unattached = plane.unattached
  BY DEF IInv, PlaneOK, PlaneType
<1> HIDE DEF kept
<1>4. /\ Cleaned(kept, x) \in PlaneType
      /\ Cleaned(kept, x).releases = kept.releases /\ Cleaned(kept, x).dirty = kept.dirty \ {x}
      /\ Cleaned(kept, x).edges = kept.edges /\ Cleaned(kept, x).counts = kept.counts
      /\ Cleaned(kept, x).unattached = kept.unattached \ {x}
      /\ \A y \in Sources : Cleaned(kept, x).status[y] = IF y = x THEN "dormant" ELSE kept.status[y]
  <2> DEFINE unattached == revoked.unattached \ {x}
             attachments == revoked.attachments \ {x}
             q == [revoked EXCEPT !.unattached = unattached, !.attachments = attachments]
  <2>1. Cleaned(kept, x) = q BY DEF Cleaned
  <2>2. /\ revoked \in PlaneType /\ revoked.releases = kept.releases
        /\ revoked.dirty = kept.dirty \ {x} /\ revoked.edges = kept.edges
        /\ revoked.counts = kept.counts /\ revoked.unattached = kept.unattached
        /\ \A y \in Sources : revoked.status[y] = IF y = x THEN "dormant" ELSE kept.status[y]
    BY <1>3, RevokedFields
  <2> HIDE DEF revoked
  <2>3. unattached \in SUBSET Sources /\ attachments \in SUBSET Sources BY <2>2 DEF PlaneType
  <2>4. /\ q \in PlaneType /\ q.releases = revoked.releases /\ q.dirty = revoked.dirty
        /\ q.edges = revoked.edges /\ q.counts = revoked.counts /\ q.unattached = unattached
        /\ q.status = revoked.status
    <3> HIDE DEF unattached, attachments
    <3> QED BY <2>2, <2>3 DEF PlaneType
  <2> HIDE DEF q
  <2> QED BY <2>1, <2>2, <2>4
<1>5. /\ plane' \in PlaneType /\ plane'.edges = plane.edges /\ plane'.counts = plane.counts
      /\ plane'.releases = plane.releases \ {x}
      /\ plane'.dirty = IF plane.counts[x] = 0 THEN plane.dirty \ {x} ELSE plane.dirty
      /\ plane'.unattached = IF plane.counts[x] = 0 THEN plane.unattached \ {x} ELSE plane.unattached
      /\ \A y \in Sources : plane'.status[y] = IF y = x /\ plane.counts[x] = 0 THEN "dormant"
                                               ELSE plane.status[y]
  BY <1>1, <1>3, <1>4
<1>6. PlaneOK(plane')
  <2>1. Owed(plane') /\ plane'.dirty \subseteq {y \in Sources : plane'.status[y] # "dormant"}
    BY <1>1, <1>5 DEF IInv, PlaneOK, Owed
  <2> QED BY <1>5, <2>1, SameEdgesOK DEF IInv
<1>7. DataOK' BY <1>1, <1>2 DEF IInv, DataOK
<1>8. OneAttaching' BY <1>1, <1>5 DEF IInv, OneAttaching
<1>9. /\ Course' /\ ReportsDirty' /\ Flushed' /\ Registered' /\ Admissible' /\ EdgesFollow'
  BY <1>1, <1>2, <1>5 DEF IInv, Course, ReportsDirty, Finishing, Flushed,
     Registered, Provisional, Admissible, Pending, EdgesFollow
<1> QED BY <1>6, <1>7, <1>8, <1>9 DEF IInv

\* The record of an operation that is not one.
LEMMA IdleFields ==
  /\ Idle \in OpType /\ Idle.at = "idle" /\ ~Idle.admitting /\ Idle.next = "drain"
  /\ Idle.reader = None
BY BoundsAssumption DEF Idle, OpType, Stages

\* The flush ends with nothing left to release.
LEMMA FlushEndsKeeps == IInv /\ FlushEnds => IInv'
<1> SUFFICES ASSUME IInv, FlushEnds PROVE IInv' OBVIOUS
<1>1. /\ op.at = "flush" /\ plane.releases = {}
      /\ op' = IF op.next = "idle" THEN Idle ELSE [op EXCEPT !.at = "drain"]
      /\ view' = view /\ reported' = reported /\ plane' = plane /\ wave' = wave
      /\ reads' = reads /\ subs' = subs /\ handles' = handles
  BY DEF FlushEnds
<1>2. op.next \in {"drain", "idle"} BY <1>1 DEF IInv, Course
<1>3. CASE op.next = "idle"
  <2>1. op' = Idle BY <1>1, <1>3
  <2>2. ~op.admitting BY <1>1, <1>3 DEF IInv, Registered
  <2>3. DataOK' /\ PlaneOK(plane') /\ OneAttaching'
    BY <1>1, <2>1, IdleFields DEF IInv, DataOK, OneAttaching
  <2>4. /\ Course' /\ ReportsDirty' /\ Flushed' /\ Registered' /\ Admissible' /\ EdgesFollow'
    BY <1>1, <1>3, <2>1, <2>2, IdleFields DEF IInv, Course, ReportsDirty, Finishing, Flushed,
       Registered, Provisional, Admissible, Pending, EdgesFollow
  <2> QED BY <2>3, <2>4 DEF IInv
<1>4. CASE op.next = "drain"
  <2>1. /\ op' \in OpType /\ op'.at = "drain" /\ op'.next = "drain" /\ op'.reader = op.reader
        /\ op'.admitting = op.admitting
    BY <1>1, <1>4 DEF IInv, DataOK, OpType, Stages
  <2>2. DataOK' /\ PlaneOK(plane') /\ OneAttaching' BY <1>1, <2>1 DEF IInv, DataOK, OneAttaching
  <2>3. /\ Course' /\ ReportsDirty' /\ Flushed' /\ Registered' /\ Admissible' /\ EdgesFollow'
    BY <1>1, <2>1 DEF IInv, Course, ReportsDirty, Finishing, Flushed,
       Registered, Provisional, Admissible, Pending, EdgesFollow
  <2> QED BY <2>2, <2>3 DEF IInv
<1> QED BY <1>2, <1>3, <1>4

\* A round of the drain serves every report: what it does not sample gets the
\* error that ends the campaign.
LEMMA DrainRoundKeeps == IInv /\ DrainRound => IInv'
<1> SUFFICES ASSUME IInv, DrainRound PROVE IInv' OBVIOUS
<1>1. PICK batch \in SUBSET plane.dirty :
        LET beyond == plane.dirty \ batch
        IN /\ Cardinality(batch) <= Allowance
           /\ view' = [x \in Sources |-> IF x \in beyond THEN "error" ELSE Sampled(batch)[x]]
           /\ wave' = Wave(Routed(Changed(batch) \cup beyond), plane.dirty)
           /\ op' = [op EXCEPT !.at = "wave", !.next = "flush",
                               !.rounds = IF Allowance = 0 THEN @ ELSE @ + 1,
                               !.samples = @ + Cardinality(batch),
                               !.failed = @ \/ beyond # {}, !.terminal = @ \/ beyond # {}]
  BY DEF DrainRound
<1> DEFINE beyond == plane.dirty \ batch
           failed == op.failed \/ beyond # {}
           terminal == op.terminal \/ beyond # {}
           rounds == IF Allowance = 0 THEN op.rounds ELSE op.rounds + 1
           samples == op.samples + Cardinality(batch)
           marked == Routed(Changed(batch) \cup beyond)
<1>2. /\ op.at = "drain"
      /\ plane' = [plane EXCEPT !.dirty = {}] /\ reported' = reported \ plane.dirty
      /\ reads' = reads /\ subs' = subs /\ handles' = handles
      /\ view' = [x \in Sources |-> IF x \in beyond THEN "error" ELSE Sampled(batch)[x]]
      /\ wave' = Wave(marked, plane.dirty)
  BY <1>1 DEF DrainRound
<1>3. /\ op' = [op EXCEPT !.at = "wave", !.next = "flush", !.rounds = rounds, !.samples = samples,
                          !.failed = failed, !.terminal = terminal]
      /\ Cardinality(batch) <= Allowance
  BY <1>1
<1>4. plane.dirty \in SUBSET Sources /\ plane \in PlaneType BY DEF IInv, PlaneOK, PlaneType
<1>5. /\ op' \in OpType /\ op'.at = "wave" /\ op'.next = "flush" /\ op'.reader = op.reader
      /\ op'.admitting = op.admitting
  <2>1. Cardinality(batch) \in Nat
    BY <1>4, FinitenessAssumption, FS_Subset, FS_CardinalityType
  <2>2. op.rounds \in 0 .. Rounds /\ op.samples \in 0 .. Samples BY DEF IInv, DataOK, OpType
  <2>3. rounds \in 0 .. Rounds BY <2>2, BoundsAssumption DEF Allowance
  <2>4. samples \in 0 .. Samples BY <1>3, <2>1, <2>2, BoundsAssumption DEF Allowance
  <2>5. failed \in BOOLEAN /\ terminal \in BOOLEAN OBVIOUS
  <2> HIDE DEF rounds, samples, failed, terminal
  <2> QED BY <1>3, <2>3, <2>4, <2>5 DEF IInv, DataOK, OpType, Stages
<1>6. wave' \in WaveType
  <2>1. marked \in SUBSET Readers BY DEF Routed
  <2> HIDE DEF marked
  <2> QED BY <1>2, <1>4, <2>1 DEF Wave, NoWave, WaveType
<1>7. /\ plane' \in PlaneType
      /\ plane'.status = plane.status /\ plane'.dirty = {} /\ plane'.edges = plane.edges
      /\ plane'.counts = plane.counts /\ plane'.releases = plane.releases
      /\ plane'.unattached = plane.unattached
  BY <1>2, <1>4 DEF PlaneType
<1>8. PlaneOK(plane')
  <2>1. Owed(plane') BY <1>7 DEF IInv, PlaneOK, Owed
  <2> QED BY <1>7, <2>1, SameEdgesOK DEF IInv
<1>9. reported' = {} BY <1>2 DEF IInv, ReportsDirty
<1>10. DataOK'
  <2>1. view' \in [Sources -> Views] BY <1>2 DEF IInv, DataOK, Sampled, Views
  <2> QED BY <1>2, <1>5, <1>6, <1>9, <2>1 DEF IInv, DataOK
<1>11. OneAttaching' BY <1>2, <1>7 DEF IInv, OneAttaching
<1>12. /\ Course' /\ ReportsDirty' /\ Flushed' /\ Registered' /\ Admissible' /\ EdgesFollow'
  BY <1>2, <1>5, <1>7, <1>9 DEF IInv, Course, ReportsDirty, Finishing, Flushed,
     Registered, Provisional, Admissible, Pending, EdgesFollow
<1> QED BY <1>8, <1>10, <1>11, <1>12 DEF IInv

\* The drain ends with no source dirty.
LEMMA DrainEndsKeeps == IInv /\ DrainEnds => IInv'
<1> SUFFICES ASSUME IInv, DrainEnds PROVE IInv' OBVIOUS
<1>1. /\ op.at = "drain" /\ plane.dirty = {} /\ op' = [op EXCEPT !.at = "verdict"]
      /\ view' = view /\ reported' = reported /\ plane' = plane /\ wave' = wave
      /\ reads' = reads /\ subs' = subs /\ handles' = handles
  BY DEF DrainEnds
<1>2. /\ op' \in OpType /\ op'.at = "verdict" /\ op'.next = op.next /\ op'.reader = op.reader
      /\ op'.admitting = op.admitting
  BY <1>1 DEF IInv, DataOK, OpType, Stages
<1>3. DataOK' /\ PlaneOK(plane') /\ OneAttaching' BY <1>1, <1>2 DEF IInv, DataOK, OneAttaching
<1>4. /\ Course' /\ ReportsDirty' /\ Flushed' /\ Registered' /\ Admissible' /\ EdgesFollow'
  BY <1>1, <1>2 DEF IInv, Course, ReportsDirty, Finishing, Flushed,
     Registered, Provisional, Admissible, Pending, EdgesFollow
<1> QED BY <1>3, <1>4 DEF IInv

\* The operation succeeds: an admitted registration gets its handle.
LEMMA AcceptKeeps == IInv /\ Accept => IInv'
<1> SUFFICES ASSUME IInv, Accept PROVE IInv' OBVIOUS
<1>1. /\ op.at = "verdict" /\ op' = Idle
      /\ handles' = IF op.admitting THEN [handles EXCEPT ![op.reader] = @ + 1] ELSE handles
      /\ view' = view /\ reported' = reported /\ plane' = plane /\ wave' = wave
      /\ reads' = reads /\ subs' = subs
  BY DEF Accept
<1>2. \A t \in Readers : handles[t] \in Nat /\ subs[t] \in 0 .. MaxRegistrations
  BY BoundsAssumption DEF IInv, DataOK
<1>3. /\ handles' \in [Readers -> 0 .. MaxRegistrations]
      /\ \A t \in Readers : subs'[t] = handles'[t]
  <2>1. CASE op.admitting
    <3>1. /\ op.reader \in Readers
          /\ \A t \in Readers : subs[t] = handles[t] + IF op.reader = t THEN 1 ELSE 0
      BY <2>1 DEF IInv, Registered, Provisional
    <3>2. handles' = [handles EXCEPT ![op.reader] = handles[op.reader] + 1] BY <1>1, <2>1
    <3>3. \A t \in Readers : handles'[t] = subs[t] BY <1>2, <3>1, <3>2 DEF IInv, DataOK
    <3>4. handles[op.reader] + 1 \in 0 .. MaxRegistrations BY <1>2, <3>1
    <3>5. handles' \in [Readers -> 0 .. MaxRegistrations] BY <3>1, <3>2, <3>4 DEF IInv, DataOK
    <3> QED BY <1>1, <3>3, <3>5
  <2>2. CASE ~op.admitting
    BY <1>1, <1>2, <2>2 DEF IInv, DataOK, Registered, Provisional
  <2> QED BY <2>1, <2>2
<1>4. DataOK' /\ PlaneOK(plane') /\ OneAttaching'
  BY <1>1, <1>3, IdleFields DEF IInv, DataOK, OneAttaching
<1>5. Registered'
  <2>1. \A t \in Readers : handles'[t] \in Nat BY <1>3, BoundsAssumption
  <2> QED BY <1>1, <1>3, <2>1, IdleFields DEF Registered, Provisional
<1>6. /\ Course' /\ ReportsDirty' /\ Flushed' /\ Admissible' /\ EdgesFollow'
  BY <1>1, IdleFields DEF IInv, Course, ReportsDirty, Finishing, Flushed,
     Admissible, Pending, EdgesFollow
<1> QED BY <1>4, <1>5, <1>6 DEF IInv

\* startup goes to a wave or straight to the flush, whoever it is for.
LEMMA StartingFields ==
  ASSUME NEW o \in OpType, NEW p
  PROVE  /\ Starting(o, p) \in OpType
         /\ Starting(o, p).reader = o.reader /\ Starting(o, p).admitting = o.admitting
         /\ \/ Starting(o, p).at = "flush" /\ Starting(o, p).next = "drain"
            \/ Starting(o, p).at = "wave" /\ Starting(o, p).next = "flush"
<1>1. CASE p.attachments = {}
  <2>1. Starting(o, p) = [o EXCEPT !.at = "flush", !.next = "drain"] BY <1>1 DEF Starting
  <2> QED BY <2>1 DEF OpType, Stages
<1>2. CASE p.attachments # {}
  <2>1. Starting(o, p) = [o EXCEPT !.at = "wave", !.next = "flush"] BY <1>2 DEF Starting
  <2> QED BY <2>1 DEF OpType, Stages
<1> QED BY <1>1, <1>2

\* removeSubscription on a plane that begin may have changed: the reader's
\* edges go with its last registration.
LEMMA RemovalOK ==
  ASSUME IInv, op.at # "subscribe", NEW t \in Readers, subs[t] > 0,
         NEW p, PlaneOK(p), p.status = plane.status, p.edges = plane.edges, p.dirty = plane.dirty,
         subs' = [subs EXCEPT ![t] = @ - 1], reads' = reads,
         plane' = IF subs[t] = 1 THEN Reconcile(p, t, {}) ELSE p
  PROVE  /\ PlaneOK(plane') /\ plane'.status = plane.status /\ plane'.dirty = plane.dirty
         /\ subs' \in [Readers -> 0 .. MaxRegistrations]
         /\ \A u \in Readers : subs'[u] = IF u = t THEN subs[u] - 1 ELSE subs[u]
         /\ EdgesFollow'
<1>1. /\ subs[t] \in 1 .. MaxRegistrations
      /\ \A u \in Readers : subs[u] \in Nat
      /\ \A u \in Readers : subs'[u] = IF u = t THEN subs[u] - 1 ELSE subs[u]
      /\ subs' \in [Readers -> 0 .. MaxRegistrations]
  BY BoundsAssumption DEF IInv, DataOK
<1>2. Settled(p) BY DEF IInv, OneAttaching, Settled
<1>3. /\ PlaneOK(plane') /\ plane'.status = plane.status /\ plane'.dirty = plane.dirty
      /\ plane'.edges = IF subs[t] = 1 THEN [plane.edges EXCEPT ![t] = {}] ELSE plane.edges
  <2>1. CASE subs[t] = 1
    <3> DEFINE none == {}
    <3>1. none \in SUBSET Sources /\ plane' = Reconcile(p, t, none) BY <2>1
    <3> HIDE DEF none
    <3>2. /\ PlaneOK(plane') /\ plane'.status = p.status /\ plane'.dirty = p.dirty
          /\ plane'.edges = [p.edges EXCEPT ![t] = none]
      BY <1>2, <3>1, ReconcileOK
    <3> QED BY <2>1, <3>2 DEF none
  <2>2. CASE subs[t] # 1 BY <2>2
  <2> QED BY <2>1, <2>2
<1>4. \A u \in Readers : plane'.edges[u] = IF u = t /\ subs[t] = 1 THEN {} ELSE plane.edges[u]
  BY <1>3 DEF IInv, PlaneOK, PlaneType
<1>5. EdgesFollow' BY <1>1, <1>4 DEF IInv, EdgesFollow
<1> QED BY <1>1, <1>3, <1>5

\* A failed admission is rolled back: its registration goes, and no other.
LEMMA RollBackKeeps == IInv /\ RollBack => IInv'
<1> SUFFICES ASSUME IInv, RollBack PROVE IInv' OBVIOUS
<1> DEFINE t == op.reader
<1>1. /\ op.at = "verdict" /\ op.admitting
      /\ subs' = [subs EXCEPT ![t] = @ - 1]
      /\ plane' = IF subs[t] = 1 THEN Reconcile(plane, t, {}) ELSE plane
      /\ op' = [op EXCEPT !.at = "flush", !.next = "idle", !.admitting = FALSE]
      /\ view' = view /\ reported' = reported /\ reads' = reads /\ handles' = handles /\ wave' = wave
  BY DEF RollBack, Removed
<1>2. /\ t \in Readers
      /\ \A u \in Readers : subs[u] = handles[u] + IF u = t THEN 1 ELSE 0
      /\ \A u \in Readers : handles[u] \in Nat
  <2>1. \A u \in Readers : handles[u] \in Nat BY BoundsAssumption DEF IInv, DataOK
  <2> QED BY <1>1, <2>1 DEF IInv, Registered, Provisional
<1>3. subs[t] > 0 BY <1>2
<1>4. PlaneOK(plane) /\ op.at # "subscribe" BY <1>1 DEF IInv
<1> HIDE DEF t
<1>5. /\ PlaneOK(plane') /\ plane'.status = plane.status /\ plane'.dirty = plane.dirty
      /\ subs' \in [Readers -> 0 .. MaxRegistrations]
      /\ \A u \in Readers : subs'[u] = IF u = t THEN subs[u] - 1 ELSE subs[u]
      /\ EdgesFollow'
  BY <1>1, <1>2, <1>3, <1>4, RemovalOK
<1>6. /\ op' \in OpType /\ op'.at = "flush" /\ op'.next = "idle" /\ ~op'.admitting
  BY <1>1 DEF IInv, DataOK, OpType, Stages
<1>7. DataOK' BY <1>1, <1>5, <1>6 DEF IInv, DataOK
<1>8. OneAttaching' BY <1>1, <1>5 DEF IInv, OneAttaching
<1>9. Registered' BY <1>1, <1>2, <1>5, <1>6 DEF Registered, Provisional
<1>10. /\ Course' /\ ReportsDirty' /\ Flushed' /\ Admissible'
  BY <1>1, <1>5, <1>6 DEF IInv, Course, ReportsDirty, Finishing, Flushed, Admissible, Pending
<1> QED BY <1>5, <1>7, <1>8, <1>9, <1>10 DEF IInv

\* An unsubscribe closure is called: its registration goes with it.
LEMMA UnsubscribeKeeps ==
  ASSUME IInv, NEW t \in Readers, Unsubscribe(t)
  PROVE  IInv'
<1>1. /\ op.at \in {"idle", "notify"} /\ handles[t] > 0
      /\ handles' = [handles EXCEPT ![t] = @ - 1]
      /\ subs' = [subs EXCEPT ![t] = @ - 1]
      /\ view' = view /\ reported' = reported /\ reads' = reads /\ wave' = wave
      /\ \/ /\ op.at = "notify" /\ op' = op
            /\ plane' = IF subs[t] = 1 THEN Reconcile(plane, t, {}) ELSE plane
         \/ /\ op.at = "idle" /\ op' = Starting(Idle, plane')
            /\ plane' = IF subs[t] = 1 THEN Reconcile(Begun(plane), t, {}) ELSE Begun(plane)
  BY DEF Unsubscribe, Removed
<1>2. \A u \in Readers : handles[u] \in Nat BY BoundsAssumption DEF IInv, DataOK
<1>3. \A u \in Readers : subs[u] = handles[u] + IF Provisional(u) THEN 1 ELSE 0
  BY DEF IInv, Registered
<1>4. subs[t] > 0 /\ op.at # "subscribe" BY <1>1, <1>2, <1>3
<1>5. PlaneOK(plane) BY DEF IInv
<1>6. /\ PlaneOK(plane') /\ plane'.status = plane.status /\ plane'.dirty = plane.dirty
      /\ subs' \in [Readers -> 0 .. MaxRegistrations]
      /\ \A u \in Readers : subs'[u] = IF u = t THEN subs[u] - 1 ELSE subs[u]
      /\ EdgesFollow'
  <2>1. CASE op.at = "notify"
    <3>1. plane' = IF subs[t] = 1 THEN Reconcile(plane, t, {}) ELSE plane BY <1>1, <2>1
    <3> QED BY <1>1, <1>4, <1>5, <3>1, RemovalOK
  <2>2. CASE op.at = "idle"
    <3> DEFINE begun == Begun(plane)
    <3>1. plane' = IF subs[t] = 1 THEN Reconcile(begun, t, {}) ELSE begun BY <1>1, <2>2
    <3>2. /\ PlaneOK(begun) /\ begun.status = plane.status /\ begun.dirty = plane.dirty
          /\ begun.edges = plane.edges
      BY <1>5, BegunOK
    <3> HIDE DEF begun
    <3> QED BY <1>1, <1>4, <3>1, <3>2, RemovalOK
  <2> QED BY <1>1, <2>1, <2>2
<1>7. /\ handles' \in [Readers -> 0 .. MaxRegistrations]
      /\ \A u \in Readers : handles'[u] = IF u = t THEN handles[u] - 1 ELSE handles[u]
  BY <1>1, BoundsAssumption DEF IInv, DataOK
<1>8. /\ op' \in OpType /\ op'.admitting = op.admitting
      /\ op'.admitting => op'.reader = op.reader
      /\ \/ op' = op /\ op.at = "notify"
         \/ op'.at = "flush" /\ op'.next = "drain" /\ op.at = "idle"
         \/ op'.at = "wave" /\ op'.next = "flush" /\ op.at = "idle"
  <2>1. CASE op.at = "notify" BY <1>1, <2>1 DEF IInv, DataOK
  <2>2. CASE op.at = "idle"
    <3>1. ~op.admitting BY <2>2 DEF IInv, Registered
    <3>2. op.admitting \in BOOLEAN /\ Idle.admitting \in BOOLEAN BY IdleFields DEF IInv, DataOK, OpType
    <3> QED BY <1>1, <2>2, <3>1, <3>2, IdleFields, StartingFields
  <2> QED BY <1>1, <2>1, <2>2
<1>9. DataOK' BY <1>1, <1>6, <1>7, <1>8 DEF IInv, DataOK
<1>10. OneAttaching' BY <1>4, <1>6 DEF IInv, OneAttaching
<1>11. Registered'
  BY <1>2, <1>3, <1>6, <1>7, <1>8 DEF IInv, Registered, Provisional
<1>12. Admissible'
  <2>1. Pending' => Pending /\ op' = op BY <1>8 DEF Pending
  <2>2. \A u \in Readers : subs[u] \in Nat /\ subs'[u] <= subs[u]
    BY <1>6, BoundsAssumption DEF IInv, DataOK
  <2>3. MaxRegistrations \in Nat BY BoundsAssumption
  <2> QED BY <1>1, <2>1, <2>2, <2>3 DEF IInv, Admissible
<1>13. /\ Course' /\ ReportsDirty' /\ Flushed'
  BY <1>1, <1>6, <1>8 DEF IInv, Course, ReportsDirty, Finishing, Flushed
<1> QED BY <1>6, <1>9, <1>10, <1>11, <1>12, <1>13 DEF IInv

\* sub begins: the reader is not registered yet, but may be, and is marked if
\* it has no record.
LEMMA SubscribeKeeps ==
  ASSUME IInv, NEW t \in Readers, Subscribe(t)
  PROVE  IInv'
<1> DEFINE recorded == IF reads[t] = None THEN {} ELSE reads[t]
           asked == recorded \cap Dormant(plane)
           fresh == IF reads[t] = None THEN {t} ELSE {}
           marked == fresh \cup Routed(Changed(asked))
           begun == [Idle EXCEPT !.at = "admit", !.reader = t]
<1>1. /\ op.at = "idle" /\ subs[t] < MaxRegistrations
      /\ view' = Sampled(asked) /\ plane' = Begun(plane)
      /\ \/ wave' = Wave(marked, asked) /\ op' = [begun EXCEPT !.at = "wave", !.next = "admit"]
         \/ fresh = {} /\ wave' = NoWave /\ op' = begun
      /\ reported' = reported /\ reads' = reads /\ subs' = subs /\ handles' = handles
  BY DEF Subscribe
<1>2. /\ PlaneOK(plane') /\ plane'.status = plane.status /\ plane'.dirty = plane.dirty
      /\ plane'.edges = plane.edges
  BY <1>1, BegunOK DEF IInv
<1>3. recorded \subseteq Sources /\ asked \subseteq Sources BY DEF IInv, DataOK
<1>4. begun \in OpType /\ begun.at = "admit" /\ begun.reader = t /\ ~begun.admitting /\ begun.next = "drain"
  BY IdleFields DEF OpType, Stages
<1>5. /\ op' \in OpType /\ op'.reader = t /\ ~op'.admitting
      /\ \/ op'.at = "wave" /\ op'.next = "admit"
         \/ op'.at = "admit" /\ op'.next = "drain"
  <2> HIDE DEF begun
  <2>1. CASE op' = [begun EXCEPT !.at = "wave", !.next = "admit"]
    BY <1>4, <2>1 DEF OpType, Stages
  <2> QED BY <1>1, <1>4, <2>1
<1>6. /\ wave' \in WaveType
      /\ reads[t] # None \/ (op'.at = "wave" /\ t \in wave'.marked)
  <2>1. marked \in SUBSET Readers BY DEF Routed
  <2>2. reads[t] = None => t \in marked /\ fresh # {} OBVIOUS
  <2>3. begun.at # "wave" BY <1>4
  <2> HIDE DEF marked, asked, fresh, begun
  <2>4. CASE wave' = Wave(marked, asked) /\ op' = [begun EXCEPT !.at = "wave", !.next = "admit"]
    <3>1. wave' \in WaveType /\ wave'.marked = marked
      BY <1>3, <2>1, <2>4 DEF Wave, NoWave, WaveType
    <3>2. op'.at = "wave" BY <1>4, <2>4 DEF OpType
    <3> QED BY <2>2, <3>1, <3>2
  <2>5. CASE fresh = {} /\ wave' = NoWave /\ op' = begun
    BY <2>2, <2>5 DEF NoWave, WaveType
  <2> QED BY <1>1, <2>4, <2>5
<1>7. DataOK'
  <2>1. reported = {} BY <1>1 DEF IInv, ReportsDirty, Finishing
  <2>2. view' \in [Sources -> Views] BY <1>1 DEF IInv, DataOK, Sampled, Views
  <2> QED BY <1>1, <1>5, <1>6, <2>1, <2>2 DEF IInv, DataOK
<1>8. OneAttaching' BY <1>1, <1>2 DEF IInv, OneAttaching
<1>9. Registered'
  <2>1. ~op.admitting BY <1>1 DEF IInv, Registered
  <2> QED BY <1>1, <1>5, <2>1 DEF IInv, Registered, Provisional
<1>10. /\ Course' /\ ReportsDirty' /\ Flushed' /\ Admissible' /\ EdgesFollow'
  BY <1>1, <1>2, <1>5, <1>6 DEF IInv, Course, ReportsDirty, Finishing, Flushed, Admissible, Pending,
     EdgesFollow
<1> QED BY <1>2, <1>7, <1>8, <1>9, <1>10 DEF IInv

\* The reader is registered and its edges are acquired, or the pull has failed
\* and nothing is registered.
LEMMA AdmitKeeps == IInv /\ Admit => IInv'
<1> SUFFICES ASSUME IInv, Admit PROVE IInv' OBVIOUS
<1> DEFINE t == op.reader
           admitted == [op EXCEPT !.admitting = TRUE]
<1>1. /\ op.at = "admit"
      /\ view' = view /\ reported' = reported /\ reads' = reads /\ handles' = handles /\ wave' = wave
      /\ \/ plane' = plane /\ subs' = subs /\ op' = Starting(op, plane)
         \/ /\ subs' = [subs EXCEPT ![t] = @ + 1]
            /\ plane' = Reconcile(plane, t, reads[t])
            /\ op' = Starting(admitted, plane')
  BY DEF Admit
<1>2. /\ ~op.admitting /\ t \in Readers /\ subs[t] < MaxRegistrations /\ reads[t] # None
  BY <1>1 DEF IInv, Admissible, Pending
<1>3. op \in OpType /\ PlaneOK(plane) /\ Settled(plane)
  BY <1>1 DEF IInv, DataOK, OneAttaching, Settled
<1>4. CASE plane' = plane /\ subs' = subs /\ op' = Starting(op, plane)
  <2>1. /\ op' \in OpType /\ op'.reader = op.reader /\ op'.admitting = op.admitting
        /\ \/ op'.at = "flush" /\ op'.next = "drain"
           \/ op'.at = "wave" /\ op'.next = "flush"
    BY <1>3, <1>4, StartingFields
  <2>2. DataOK' /\ PlaneOK(plane') /\ OneAttaching'
    BY <1>1, <1>4, <2>1 DEF IInv, DataOK, OneAttaching
  <2>3. /\ Course' /\ ReportsDirty' /\ Flushed' /\ Registered' /\ Admissible' /\ EdgesFollow'
    BY <1>1, <1>4, <2>1 DEF IInv, Course, ReportsDirty, Finishing, Flushed,
       Registered, Provisional, Admissible, Pending, EdgesFollow
  <2> QED BY <2>2, <2>3 DEF IInv
<1>5. CASE /\ subs' = [subs EXCEPT ![t] = @ + 1]
           /\ plane' = Reconcile(plane, t, reads[t])
           /\ op' = Starting(admitted, plane')
  <2>1. admitted \in OpType /\ admitted.reader = t /\ admitted.admitting BY <1>3 DEF OpType
  <2> HIDE DEF admitted
  <2>2. /\ op' \in OpType /\ op'.reader = t /\ op'.admitting = admitted.admitting
        /\ \/ op'.at = "flush" /\ op'.next = "drain"
           \/ op'.at = "wave" /\ op'.next = "flush"
    BY <1>5, <2>1, StartingFields
  <2> HIDE DEF t
  <2>3. reads[t] \in SUBSET Sources BY <1>2 DEF IInv, DataOK
  <2>4. /\ PlaneOK(plane') /\ plane'.status = plane.status /\ plane'.dirty = plane.dirty
        /\ plane'.edges = [plane.edges EXCEPT ![t] = reads[t]]
    <3> DEFINE wanted == reads[t]
    <3>1. wanted \in SUBSET Sources /\ plane' = Reconcile(plane, t, wanted) BY <1>5, <2>3
    <3> HIDE DEF wanted
    <3>2. /\ PlaneOK(plane') /\ plane'.status = plane.status /\ plane'.dirty = plane.dirty
          /\ plane'.edges = [plane.edges EXCEPT ![t] = wanted]
      BY <1>2, <1>3, <3>1, ReconcileOK
    <3> QED BY <3>2 DEF wanted
  <2>5. /\ subs' \in [Readers -> 0 .. MaxRegistrations]
        /\ \A u \in Readers : subs[u] \in Nat /\ subs'[u] = IF u = t THEN subs[u] + 1 ELSE subs[u]
    <3>1. subs[t] + 1 \in 0 .. MaxRegistrations BY <1>2, BoundsAssumption DEF IInv, DataOK
    <3>2. \A u \in Readers : subs[u] \in Nat BY BoundsAssumption DEF IInv, DataOK
    <3> QED BY <1>5, <3>1, <3>2 DEF IInv, DataOK
  <2>6. DataOK' BY <1>1, <2>2, <2>5 DEF IInv, DataOK
  <2>7. OneAttaching' BY <1>3, <2>4 DEF OneAttaching, Settled
  <2>8. Registered'
    <3>1. \A u \in Readers : subs[u] = handles[u] /\ handles[u] \in Nat
      BY <1>2, BoundsAssumption DEF IInv, Registered, Provisional, DataOK
    <3> QED BY <1>1, <1>2, <2>1, <2>2, <2>5, <3>1 DEF Registered, Provisional
  <2>9. EdgesFollow'
    <3>1. \A u \in Readers : plane'.edges[u] = IF u = t THEN reads[t] ELSE plane.edges[u]
      BY <2>4 DEF IInv, PlaneOK, PlaneType
    <3> QED BY <1>1, <1>2, <2>5, <3>1 DEF IInv, EdgesFollow
  <2>10. /\ Course' /\ ReportsDirty' /\ Flushed' /\ Admissible'
    BY <1>1, <2>2, <2>4 DEF IInv, Course, ReportsDirty, Finishing, Flushed, Admissible, Pending
  <2> QED BY <2>4, <2>6, <2>7, <2>8, <2>9, <2>10 DEF IInv
<1> QED BY <1>1, <1>4, <1>5

\* A commit to an atom propagates to a reader.
LEMMA CommitKeeps ==
  ASSUME IInv, NEW t \in Readers, Commit(t)
  PROVE  IInv'
<1>1. /\ op.at = "idle" /\ plane' = Begun(plane) /\ wave' = Wave({t}, {})
      /\ op' = [Idle EXCEPT !.at = "wave", !.next = "flush"]
      /\ view' = view /\ reported' = reported /\ reads' = reads /\ subs' = subs /\ handles' = handles
  BY DEF Commit
<1>2. /\ PlaneOK(plane') /\ plane'.status = plane.status /\ plane'.dirty = plane.dirty
      /\ plane'.edges = plane.edges
  BY <1>1, BegunOK DEF IInv
<1>3. wave' \in WaveType BY <1>1 DEF Wave, NoWave, WaveType
<1>4. op' \in OpType /\ op'.at = "wave" /\ op'.next = "flush" /\ ~op'.admitting
  BY <1>1, IdleFields DEF OpType, Stages
<1>5. ~op.admitting BY <1>1 DEF IInv, Registered
<1>6. DataOK' BY <1>1, <1>3, <1>4 DEF IInv, DataOK
<1>7. /\ OneAttaching' /\ Course' /\ ReportsDirty' /\ Flushed' /\ Registered' /\ Admissible'
      /\ EdgesFollow'
  BY <1>1, <1>2, <1>4, <1>5 DEF IInv, OneAttaching, Course, ReportsDirty, Finishing, Flushed,
     Registered, Provisional, Admissible, Pending, EdgesFollow
<1> QED BY <1>2, <1>6, <1>7 DEF IInv

\* A resource changes behind a projection that was current.
LEMMA ResourceChangesKeeps ==
  ASSUME IInv, NEW x \in Sources, ResourceChanges(x)
  PROVE  IInv'
<1>1. DataOK' BY DEF ResourceChanges, IInv, DataOK, Views
<1>2. /\ PlaneOK(plane') /\ OneAttaching' /\ Course' /\ ReportsDirty' /\ Flushed' /\ Registered'
      /\ Admissible' /\ EdgesFollow'
  BY DEF ResourceChanges, IInv, OneAttaching, Course, ReportsDirty, Finishing, Flushed,
     Registered, Provisional, Admissible, Pending, EdgesFollow
<1> QED BY <1>1, <1>2 DEF IInv

\* A report is accepted: its source, which is not dormant, is dirty, and an
\* operation begins if none is under way.
LEMMA ReportKeeps ==
  ASSUME IInv, NEW x \in Sources, Report(x)
  PROVE  IInv'
<1>1. /\ \/ op.at \in {"idle", "notify"} /\ plane.status[x] = "active"
         \/ op.at = "subscribe" /\ plane.status[x] = "attaching"
      /\ reported' = IF view[x] # "current" THEN reported \cup {x} ELSE reported
      /\ view' = view /\ reads' = reads /\ subs' = subs /\ handles' = handles /\ wave' = wave
  BY DEF Report
<1>2. plane \in PlaneType BY DEF IInv, PlaneOK
<1>3. /\ plane' \in PlaneType /\ plane'.dirty = plane.dirty \cup {x}
      /\ plane'.status = plane.status /\ plane'.edges = plane.edges /\ plane'.counts = plane.counts
      /\ plane'.releases = plane.releases /\ plane'.unattached = plane.unattached
  <2>1. CASE op.at = "idle"
    <3> DEFINE begun == Begun(plane)
               dirty == begun.dirty \cup {x}
               more == plane.attachments \cup
                         {y \in plane.unattached : plane.counts[y] > 0 /\ plane.status[y] = "dormant"}
    <3>1. plane' = [begun EXCEPT !.dirty = dirty] BY <2>1 DEF Report
    <3>2. begun = [plane EXCEPT !.attachments = more] BY Zenon DEF Begun
    <3>3. more \in SUBSET Sources BY <1>2 DEF PlaneType
    <3>4. /\ begun \in PlaneType /\ begun.dirty = plane.dirty
          /\ begun.status = plane.status /\ begun.edges = plane.edges /\ begun.counts = plane.counts
          /\ begun.releases = plane.releases /\ begun.unattached = plane.unattached
      <4> HIDE DEF more, begun
      <4> QED BY <1>2, <3>2, <3>3 DEF PlaneType
    <3> HIDE DEF begun
    <3>5. dirty \in SUBSET Sources BY <3>4 DEF PlaneType
    <3> HIDE DEF dirty
    <3>6. /\ plane' \in PlaneType /\ plane'.dirty = dirty
          /\ plane'.status = begun.status /\ plane'.edges = begun.edges /\ plane'.counts = begun.counts
          /\ plane'.releases = begun.releases /\ plane'.unattached = begun.unattached
      BY <3>1, <3>4, <3>5 DEF PlaneType
    <3> QED BY <3>4, <3>6 DEF dirty
  <2>2. CASE op.at # "idle"
    <3>1. plane' = [plane EXCEPT !.dirty = @ \cup {x}] BY <2>2 DEF Report
    <3> QED BY <1>2, <3>1 DEF PlaneType
  <2> QED BY <2>1, <2>2
<1>4. PlaneOK(plane')
  <2>1. Owed(plane') /\ plane'.dirty \subseteq {y \in Sources : plane'.status[y] # "dormant"}
    BY <1>1, <1>3 DEF IInv, PlaneOK, Owed
  <2> QED BY <1>3, <2>1, SameEdgesOK DEF IInv
<1>5. /\ op' \in OpType
      /\ \/ op' = op /\ op.at \in {"notify", "subscribe"}
         \/ /\ op.at = "idle" /\ ~op'.admitting
            /\ \/ op'.at = "flush" /\ op'.next = "drain"
               \/ op'.at = "wave" /\ op'.next = "flush"
  <2>1. CASE op.at = "idle"
    <3>1. op' = Starting(Idle, plane') BY <2>1 DEF Report
    <3> QED BY <2>1, <3>1, IdleFields, StartingFields
  <2>2. CASE op.at # "idle" BY <1>1, <2>2 DEF Report, IInv, DataOK
  <2> QED BY <2>1, <2>2
<1>6. DataOK' BY <1>1, <1>5 DEF IInv, DataOK
<1>7. OneAttaching' BY <1>1, <1>3, <1>5 DEF IInv, OneAttaching
<1>8. op.at = "idle" => ~op.admitting BY DEF IInv, Registered
<1>9. /\ Course' /\ ReportsDirty' /\ Flushed' /\ Registered' /\ Admissible' /\ EdgesFollow'
  BY <1>1, <1>3, <1>5, <1>8 DEF IInv, Course, ReportsDirty, Finishing, Flushed,
     Registered, Provisional, Admissible, Pending, EdgesFollow
<1> QED BY <1>4, <1>6, <1>7, <1>9 DEF IInv

-----------------------------------------------------------------------------
(* The theorems *)

\* An idle tree that never subscribed anything is in order.
LEMMA InitInvariant == Init => IInv
<1> SUFFICES ASSUME Init PROVE IInv OBVIOUS
<1>1. /\ plane.status = [x \in Sources |-> "dormant"] /\ plane.counts = [x \in Sources |-> 0]
      /\ plane.edges = [t \in Readers |-> {}] /\ plane.attachments = {}
      /\ plane.releases = {} /\ plane.unattached = {} /\ plane.dirty = {}
  BY DEF Init
<1>2. Cardinality(Readers) \in Nat BY FinitenessAssumption, FS_CardinalityType
<1>3. plane \in PlaneType BY <1>2 DEF Init, PlaneType, Statuses
<1>4. PlaneOK(plane)
  <2>1. \A x \in Sources : Owners(plane, x) = {} BY <1>1 DEF Owners
  <2>2. Cardinality({}) = 0 BY FS_EmptySet
  <2> QED BY <1>1, <1>3, <2>1, <2>2 DEF PlaneOK, Owed
<1>5. DataOK BY IdleFields, BoundsAssumption DEF Init, DataOK, Views, NoWave, WaveType
<1>6. /\ OneAttaching /\ Course /\ ReportsDirty /\ Flushed /\ Registered /\ Admissible /\ EdgesFollow
  BY <1>1, IdleFields DEF Init, OneAttaching, Course, ReportsDirty, Finishing, Flushed, Registered,
     Provisional, Admissible, Pending, EdgesFollow
<1> QED BY <1>4, <1>5, <1>6 DEF IInv

\* Every step keeps the invariant.
LEMMA NextInvariant == IInv /\ [Next]_vars => IInv'
<1> SUFFICES ASSUME IInv, [Next]_vars PROVE IInv' OBVIOUS
<1>1. CASE Step
  BY <1>1, EvaluateKeeps, SettleLifecycleKeeps, SkipAttachmentKeeps, RefuseAttachmentKeeps,
     AttachKeeps, AttachedKeeps, AttachFailsKeeps, WaveEndsKeeps, CallbacksReturnKeeps,
     CleanupKeeps, FlushEndsKeeps, DrainRoundKeeps, DrainEndsKeeps, AcceptKeeps, RollBackKeeps,
     AdmitKeeps DEF Step
<1>2. CASE Next /\ ~Step
  BY <1>2, SubscribeKeeps, UnsubscribeKeeps, CommitKeeps, ResourceChangesKeeps, ReportKeeps DEF Next
<1>3. CASE UNCHANGED vars
  BY <1>3 DEF vars, IInv, DataOK, PlaneOK, Owed, OneAttaching, Course, ReportsDirty, Finishing, Flushed,
     Registered, Provisional, Admissible, Pending, EdgesFollow, Owners
<1> QED BY <1>1, <1>2, <1>3 DEF Next

\* The inductive invariant holds in every reachable state.
LEMMA Invariance == Spec => []IInv
BY InitInvariant, NextInvariant, PTL DEF Spec

\* The types, and that a source is counted once per reader that owns an edge
\* to it and is dirty only while its generation lives (#retain, #release,
\* reconcile, #revoke).
THEOREM TypeCorrect == Spec => []TypeOK
<1>1. IInv => TypeOK
  BY DEF IInv, DataOK, PlaneOK, PlaneType, OpType, WaveType, TypeOK, Owners
<1> QED BY <1>1, Invariance, PTL

\* Whenever the tree is idle every report it accepted has been served,
\* whatever arrived from subscribe and subscriber callbacks (#drain).
THEOREM NoAcceptedReportIsLost == Spec => []NoReportLost
<1>1. IInv => NoReportLost BY DEF IInv, ReportsDirty, Finishing, NoReportLost
<1> QED BY <1>1, Invariance, PTL

\* Whenever the tree is idle exactly the sources subscribed readers read are
\* attached or owed an attempt (reconcile, #flushReleases, begin).
THEOREM AttachedIffRead == Spec => []AttachmentsFollowReaders
<1>1. IInv => AttachmentsFollowReaders
  <2> SUFFICES ASSUME IInv, op.at = "idle", NEW x \in Sources
               PROVE  LET read == \E t \in Readers : subs[t] > 0 /\ reads[t] # None /\ x \in reads[t]
                      IN /\ plane.status[x] = "active" => read
                         /\ read => plane.status[x] = "active" \/ x \in plane.unattached
    BY DEF AttachmentsFollowReaders
  <2> DEFINE read == \E t \in Readers : subs[t] > 0 /\ reads[t] # None /\ x \in reads[t]
  <2>1. \A t \in Readers : subs[t] \in Nat BY BoundsAssumption DEF IInv, DataOK
  <2>2. read <=> \E t \in Readers : x \in plane.edges[t] BY <2>1 DEF IInv, EdgesFollow
  <2>3. plane.counts[x] > 0 <=> \E t \in Readers : x \in plane.edges[t]
    BY OwnersCount DEF IInv, PlaneOK
  <2>4. plane.counts[x] \in Nat
    BY FinitenessAssumption, FS_CardinalityType DEF IInv, PlaneOK, PlaneType
  <2>5. plane.releases = {} BY DEF IInv, Flushed
  <2> HIDE DEF read
  <2>6. plane.status[x] = "active" => read BY <2>2, <2>3, <2>4, <2>5 DEF IInv, PlaneOK, Owed
  <2>7. read => plane.status[x] = "active" \/ x \in plane.unattached
    BY <2>2, <2>3 DEF IInv, PlaneOK, Owed
  <2> QED BY <2>6, <2>7 DEF read
<1> QED BY <1>1, Invariance, PTL

\* Whenever the tree is idle every registration has a closure its subscriber
\* holds: a refused or failed subscription left none (finish,
\* removeSubscription).
THEOREM RegistrationsHaveHandles == Spec => []HandlesOwnRegistrations
<1>1. IInv => HandlesOwnRegistrations
  <2> SUFFICES ASSUME IInv, op.at = "idle" PROVE subs = handles BY DEF HandlesOwnRegistrations
  <2>1. ~op.admitting BY DEF IInv, Registered
  <2>2. \A t \in Readers : handles[t] \in Nat BY BoundsAssumption DEF IInv, DataOK
  <2>3. \A t \in Readers : subs[t] = handles[t] BY <2>1, <2>2 DEF IInv, Registered, Provisional
  <2> QED BY <2>3 DEF IInv, DataOK
<1> QED BY <1>1, Invariance, PTL

-----------------------------------------------------------------------------
(* Sources shared by branches stay attached *)

\* Outside a wave no reader waits for its evaluation.
WavesOver == op.at \notin {"wave", "subscribe"} => wave.marked = {}

\* A source that is attached is detached only once every reader a change concerns
\* has been evaluated, and none that is subscribed reads it: while branches are
\* exchanged, one reader at a time, no source detaches to be attached again for the
\* next.
DetachesUnread ==
  [][\A x \in Sources : plane.status[x] = "active" /\ plane'.status[x] # "active" =>
       /\ wave.marked = {}
       /\ \A t \in Readers : subs[t] > 0 => reads[t] # None /\ x \notin reads[t]]_vars

\* A wave that ends has evaluated all its readers.
LEMMA NextWavesOver == IInv /\ WavesOver /\ [Next]_vars => WavesOver'
<1> SUFFICES ASSUME IInv, WavesOver, [Next]_vars PROVE WavesOver' OBVIOUS
<1>1. op \in OpType BY DEF IInv, DataOK
<1>2. ASSUME NEW t \in Readers, Evaluate(t) \/ Subscribe(t) \/ Unsubscribe(t) \/ Commit(t)
      PROVE  WavesOver'
  <2>1. CASE Evaluate(t) BY <2>1 DEF Evaluate, WavesOver
  <2>2. CASE Subscribe(t)
    <3>1. CASE wave' = NoWave BY <3>1 DEF NoWave, WavesOver
    <3>2. CASE op' = [[Idle EXCEPT !.at = "admit", !.reader = t] EXCEPT !.at = "wave", !.next = "admit"]
      <4>1. op'.at = "wave" BY <3>2 DEF Idle
      <4> QED BY <4>1 DEF WavesOver
    <3> QED BY <2>2, <3>1, <3>2 DEF Subscribe
  <2>3. CASE Unsubscribe(t) BY <2>3 DEF Unsubscribe, WavesOver
  <2>4. CASE Commit(t)
    <3>1. op'.at = "wave" BY <2>4 DEF Commit, Idle
    <3> QED BY <3>1 DEF WavesOver
  <2> QED BY <1>2, <2>1, <2>2, <2>3, <2>4
<1>3. ASSUME NEW x \in Sources,
             \/ SkipAttachment(x) \/ RefuseAttachment(x) \/ Attach(x) \/ Attached(x) \/ AttachFails(x)
             \/ ResourceChanges(x) \/ Report(x)
      PROVE  WavesOver'
  <2>1. CASE SkipAttachment(x) BY <2>1 DEF SkipAttachment, WavesOver
  <2>2. CASE RefuseAttachment(x) \/ Attach(x) \/ Attached(x) \/ AttachFails(x)
    <3>1. op'.at \in {"wave", "subscribe"}
      BY <1>1, <2>2 DEF RefuseAttachment, Attach, Attached, AttachFails, OpType
    <3> QED BY <3>1 DEF WavesOver
  <2>3. CASE ResourceChanges(x) BY <2>3 DEF ResourceChanges, WavesOver
  <2>4. CASE Report(x) BY <2>4 DEF Report, WavesOver
  <2> QED BY <1>3, <2>1, <2>2, <2>3, <2>4
<1>4. CASE WaveEnds \/ SettleLifecycle
  <2>1. CASE WaveEnds BY <2>1 DEF WaveEnds, NoWave, WavesOver
  <2>2. CASE SettleLifecycle BY <2>2 DEF SettleLifecycle, WavesOver
  <2> QED BY <1>4, <2>1, <2>2
<1>5. ASSUME NEW throws \in BOOLEAN, NEW x \in Sources, CallbacksReturn(throws) \/ Cleanup(x, throws)
      PROVE  WavesOver'
  BY <1>5 DEF CallbacksReturn, Cleanup, WavesOver
<1>6. CASE FlushEnds \/ DrainEnds \/ Accept \/ RollBack \/ Admit
  BY <1>6 DEF FlushEnds, DrainEnds, Accept, RollBack, Admit, WavesOver
<1>7. CASE DrainRound
  <2>1. op'.at = "wave" BY <1>1, <1>7 DEF DrainRound, OpType
  <2> QED BY <2>1 DEF WavesOver
<1>8. ASSUME NEW throws \in BOOLEAN, CallbacksReturn(throws) PROVE WavesOver'
  BY <1>8 DEF CallbacksReturn, WavesOver
<1>9. CASE UNCHANGED vars BY <1>9 DEF vars, WavesOver
<1> QED BY <1>2, <1>3, <1>4, <1>5, <1>6, <1>7, <1>8, <1>9 DEF Next, Step

\* Edges and requests change without a source changing its status.
LEMMA StatusStays ==
  ASSUME NEW p \in PlaneType, NEW t \in Readers, NEW wanted \in SUBSET Sources
  PROVE  Reconcile(p, t, wanted).status = p.status
<1> DEFINE gained == wanted \ p.edges[t]
           lost == p.edges[t] \ wanted
           first == {x \in gained : p.counts[x] = 0}
           counts == [x \in Sources |-> IF x \in gained THEN p.counts[x] + 1
                                        ELSE IF x \in lost THEN p.counts[x] - 1
                                        ELSE p.counts[x]]
           edges == [p.edges EXCEPT ![t] = wanted]
           attachments == p.attachments \cup (first \cap Dormant(p))
           releases == (p.releases \ first) \cup {x \in lost : p.counts[x] = 1}
           unattached == p.unattached \cup (first \cap Dormant(p))
<1>1. Reconcile(p, t, wanted) = Plane(p.status, counts, edges, attachments, releases, unattached, p.dirty)
  BY ReconcileFields, Zenon
<1> HIDE DEF counts, edges, attachments, releases, unattached
<1> QED BY <1>1 DEF Plane

\* Nothing but a failed attachment and the flush takes a source's generation.
LEMMA OnlyFlushDetaches ==
  ASSUME IInv, [Next]_vars, NEW x \in Sources,
         plane.status[x] = "active", plane'.status[x] # "active"
  PROVE  \E throws \in BOOLEAN : Cleanup(x, throws) /\ plane.counts[x] = 0
<1>1. plane \in PlaneType /\ PlaneOK(plane) BY DEF IInv, PlaneOK
<1>2. plane'.status # plane.status OBVIOUS
<1>3. Begun(plane).status = plane.status BY <1>1, BegunOK
<1>4. Begun(plane) \in PlaneType BY <1>1, BegunOK DEF PlaneOK
<1>5. \A t \in Readers : {} \in SUBSET Sources /\ reads[t] \in {None} \cup SUBSET Sources
  BY DEF IInv, DataOK
<1>6. ASSUME NEW t \in Readers PROVE ~(Evaluate(t) \/ Subscribe(t) \/ Unsubscribe(t) \/ Commit(t))
  <2>1. ASSUME Evaluate(t) PROVE FALSE
    <3>1. PICK wanted \in SUBSET Sources : plane' = Reconcile(plane, t, wanted)
      <4>1. PICK sources \in Branches[t] :
              plane' = Reconcile(plane, t, IF subs[t] > 0 THEN sources ELSE {})
        BY <2>1, Zenon DEF Evaluate
      <4>2. sources \in SUBSET Sources BY BoundsAssumption
      <4> QED BY <4>1, <4>2
    <3> QED BY <1>1, <1>2, <3>1, StatusStays
  <2>2. ~Subscribe(t) /\ ~Commit(t) BY <1>2, <1>3 DEF Subscribe, Commit
  <2>3. ASSUME Unsubscribe(t) PROVE FALSE
    <3>1. PICK p \in {plane, Begun(plane)} : plane' = p \/ plane' = Reconcile(p, t, {})
      BY <2>3, Zenon DEF Unsubscribe, Removed
    <3> QED BY <1>1, <1>2, <1>3, <1>4, <1>5, <3>1, StatusStays
  <2> QED BY <2>1, <2>2, <2>3
<1>7. ~RollBack /\ ~Admit
  <2>1. ASSUME RollBack PROVE FALSE
    <3>1. op.reader \in Readers BY <2>1 DEF RollBack, IInv, Registered
    <3>2. plane' = plane \/ plane' = Reconcile(plane, op.reader, {})
      BY <2>1, Zenon DEF RollBack, Removed
    <3> QED BY <1>1, <1>2, <1>5, <3>1, <3>2, StatusStays
  <2>2. ASSUME Admit PROVE FALSE
    <3>1. op.reader \in Readers /\ reads[op.reader] # None
      BY <2>2 DEF Admit, IInv, Admissible, Pending
    <3>2. plane' = plane \/ plane' = Reconcile(plane, op.reader, reads[op.reader])
      BY <2>2, Zenon DEF Admit
    <3> QED BY <1>1, <1>2, <1>5, <3>1, <3>2, StatusStays
  <2> QED BY <2>1, <2>2
<1>8. ASSUME NEW y \in Sources
      PROVE  /\ ~SkipAttachment(y) /\ ~RefuseAttachment(y) /\ ~Attach(y) /\ ~Attached(y)
             /\ ~AttachFails(y) /\ ~ResourceChanges(y) /\ ~Report(y)
  <2>1. ~SkipAttachment(y) /\ ~RefuseAttachment(y) /\ ~ResourceChanges(y)
    BY <1>2 DEF SkipAttachment, RefuseAttachment, ResourceChanges
  <2>2. ~Attach(y)
    <3> SUFFICES ASSUME Attach(y) PROVE FALSE OBVIOUS
    <3>1. x # y /\ plane' = [plane EXCEPT !.status[y] = "attaching"] BY DEF Attach, Attachable
    <3>2. plane'.status[x] = plane.status[x] BY <1>1, <3>1 DEF PlaneType
    <3> QED BY <3>2
  <2>5. ~Attached(y)
    <3> SUFFICES ASSUME Attached(y) PROVE FALSE OBVIOUS
    <3> DEFINE status == [plane.status EXCEPT ![y] = "active"]
               dirty == plane.dirty \ {y}
               unattached == plane.unattached \ {y}
    <3>1. plane' = [plane EXCEPT !.status = status, !.dirty = dirty, !.unattached = unattached]
      BY DEF Attached
    <3>2. status[x] = "active" BY <1>1 DEF PlaneType
    <3> HIDE DEF status, dirty, unattached
    <3>3. plane'.status = status BY <1>1, <3>1 DEF PlaneType
    <3> QED BY <3>2, <3>3
  <2>3. ASSUME AttachFails(y) PROVE FALSE
    <3>1. plane'.status[x] = IF x = y THEN "dormant" ELSE plane.status[x]
      BY <1>1, <2>3, RevokedFields DEF AttachFails
    <3> QED BY <2>3, <3>1 DEF AttachFails
  <2>4. ASSUME Report(y) PROVE FALSE
    <3>1. CASE op.at = "idle"
      <4>1. plane' = [Begun(plane) EXCEPT !.dirty = @ \cup {y}] BY <2>4, <3>1 DEF Report
      <4>2. plane'.status = Begun(plane).status
        <5> DEFINE b == Begun(plane)
        <5> HIDE DEF b
        <5>1. [b EXCEPT !.dirty = @ \cup {y}].status = b.status
          BY <1>4 DEF b, PlaneType
        <5> QED BY <4>1, <5>1 DEF b
      <4> QED BY <1>2, <1>3, <4>2
    <3>2. CASE op.at # "idle" BY <1>1, <1>2, <2>4, <3>2 DEF Report, PlaneType
    <3> QED BY <3>1, <3>2
  <2> QED BY <2>1, <2>2, <2>3, <2>4, <2>5
<1>9. /\ ~SettleLifecycle /\ ~WaveEnds /\ ~FlushEnds /\ ~DrainRound /\ ~DrainEnds /\ ~Accept
      /\ \A throws \in BOOLEAN : ~CallbacksReturn(throws)
  BY <1>1, <1>2 DEF SettleLifecycle, WaveEnds, FlushEnds, DrainRound, DrainEnds, Accept,
     CallbacksReturn, PlaneType
<1>10. ~UNCHANGED vars BY <1>2 DEF vars
<1>11. PICK y \in Sources, throws \in BOOLEAN : Cleanup(y, throws)
  BY <1>6, <1>7, <1>8, <1>9, <1>10 DEF Next, Step
<1>12. y = x /\ plane.counts[x] = 0
  <2> DEFINE kept == [plane EXCEPT !.releases = @ \ {y}]
             q == Revoked(kept, y)
  <2>1. kept \in PlaneType /\ kept.status = plane.status BY <1>1 DEF PlaneType
  <2> HIDE DEF kept
  <2>2. q \in PlaneType /\ q.status[x] = IF x = y THEN "dormant" ELSE plane.status[x]
    BY <2>1, RevokedFields
  <2>3. plane' = IF plane.counts[y] = 0 THEN Cleaned(kept, y) ELSE kept
    BY <1>11 DEF Cleanup, kept
  <2>4. Cleaned(kept, y) = [q EXCEPT !.unattached = @ \ {y}, !.attachments = @ \ {y}]
    BY DEF Cleaned
  <2> HIDE DEF q
  <2>5. Cleaned(kept, y).status = q.status BY <2>2, <2>4 DEF PlaneType
  <2> QED BY <2>1, <2>2, <2>3, <2>5
<1> QED BY <1>11, <1>12

\* While branches are exchanged no source that is still read, or that another reader
\* is yet to read, loses its attachment (reconcile, #flushReleases).
THEOREM SharedStaysAttached == Spec => DetachesUnread
<1>1. Init => WavesOver BY DEF Init, NoWave, WavesOver
<1>2. IInv /\ WavesOver /\ [Next]_vars =>
        [\A x \in Sources : plane.status[x] = "active" /\ plane'.status[x] # "active" =>
           /\ wave.marked = {}
           /\ \A t \in Readers : subs[t] > 0 => reads[t] # None /\ x \notin reads[t]]_vars
  <2> SUFFICES ASSUME IInv, WavesOver, [Next]_vars, NEW x \in Sources,
                      plane.status[x] = "active", plane'.status[x] # "active"
               PROVE  /\ wave.marked = {}
                      /\ \A t \in Readers : subs[t] > 0 => reads[t] # None /\ x \notin reads[t]
    OBVIOUS
  <2>1. op.at = "flush" /\ plane.counts[x] = 0 BY OnlyFlushDetaches DEF Cleanup
  <2>2. \A t \in Readers : x \notin plane.edges[t]
    BY <2>1, OwnersCount DEF IInv, PlaneOK
  <2> QED BY <2>1, <2>2 DEF WavesOver, IInv, EdgesFollow
<1> QED BY <1>1, <1>2, NextWavesOver, Invariance, PTL DEF Spec, DetachesUnread

=============================================================================
