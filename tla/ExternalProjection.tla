-------------------------- MODULE ExternalProjection --------------------------
(***************************************************************************)
(* external-projection.ts: how one tree follows external resources.  A     *)
(* projection holds the last outcome taken from its resource; it is        *)
(* attached (subscribed to the resource) while some subscribed selector,   *)
(* here a reader, reads it.  Resources report changes through the          *)
(* invalidator of their generation; an operation of the tree attaches,     *)
(* samples, settles the readers, notifies, releases and drains reports     *)
(* until none is left or a bound ends the campaign.                        *)
(*                                                                         *)
(* Values are reduced to what their order of arrival tells apart: a        *)
(* projection is current, stale (its resource has changed since), holds    *)
(* the non-convergence error, or was never sampled.                        *)
(***************************************************************************)
EXTENDS Integers, FiniteSets

CONSTANTS
  Sources,           \* external atoms
  Readers,           \* selectors that can be subscribed
  Branches,          \* the sets of sources each reader's getter may read
  Rounds,            \* bound of dirty rounds in an operation
  Samples,           \* bound of samples, and of attachments, in an operation
  MaxRegistrations,  \* bound of the model: registrations of one reader
  None

ASSUME BoundsAssumption == /\ Rounds \in Nat \ {0}
                           /\ Samples \in Nat \ {0}
                           /\ MaxRegistrations \in Nat \ {0}
                           /\ None \notin Readers /\ \A xs \in SUBSET Sources : xs # None
                           /\ Branches \in [Readers -> SUBSET SUBSET Sources]

\* A program makes finitely many external atoms and selectors.
ASSUME FinitenessAssumption == IsFiniteSet(Sources) /\ IsFiniteSet(Readers)

VARIABLES
  view,      \* what each projection's outcome is to its resource
  reported,  \* history: projections out of date whose report was accepted
  plane,     \* the lifecycle state of the plane
  reads,     \* sources a reader's record depends on; None: no record
  subs,      \* registrations of a reader
  handles,   \* history: unsubscribe closures given out and unused
  wave,      \* the propagation wave of the operation
  op         \* the operation and where it is

vars == <<view, reported, plane, reads, subs, handles, wave, op>>

Views == {"none", "current", "stale", "error"}
Statuses == {"dormant", "attaching", "active"}
Stages == {"idle", "admit", "wave", "subscribe", "notify", "flush", "drain", "verdict"}

TypeOK ==
  /\ view \in [Sources -> Views]
  /\ reported \subseteq {x \in Sources : view[x] # "current"}
  /\ plane \in [status : [Sources -> Statuses], counts : [Sources -> 0 .. Cardinality(Readers)],
                edges : [Readers -> SUBSET Sources], attachments : SUBSET Sources,
                releases : SUBSET Sources, unattached : SUBSET Sources, dirty : SUBSET Sources]
  /\ \A x \in Sources : plane.counts[x] = Cardinality({t \in Readers : x \in plane.edges[t]})
  /\ plane.dirty \subseteq {x \in Sources : plane.status[x] # "dormant"}
  /\ reads \in [Readers -> {None} \cup SUBSET Sources]
  /\ subs \in [Readers -> 0 .. MaxRegistrations]
  /\ handles \in [Readers -> 0 .. MaxRegistrations]
  /\ wave \in [marked : SUBSET Readers, reached : SUBSET Readers,
               pulled : SUBSET Sources, attaching : SUBSET Sources]
  /\ op \in [at : Stages, next : Stages, reader : Readers \cup {None}, admitting : BOOLEAN,
             notified : BOOLEAN, failed : BOOLEAN, terminal : BOOLEAN,
             rounds : 0 .. Rounds, samples : 0 .. Samples, attached : 0 .. Samples]

NoWave == [marked |-> {}, reached |-> {}, pulled |-> {}, attaching |-> {}]
Idle == [at |-> "idle", next |-> "drain", reader |-> None, admitting |-> FALSE,
         notified |-> FALSE, failed |-> FALSE, terminal |-> FALSE,
         rounds |-> 0, samples |-> 0, attached |-> 0]

Init ==
  /\ view = [x \in Sources |-> "none"]
  /\ reported = {}
  /\ plane = [status |-> [x \in Sources |-> "dormant"], counts |-> [x \in Sources |-> 0],
              edges |-> [t \in Readers |-> {}], attachments |-> {},
              releases |-> {}, unattached |-> {}, dirty |-> {}]
  /\ reads = [t \in Readers |-> None]
  /\ subs = [t \in Readers |-> 0]
  /\ handles = [t \in Readers |-> 0]
  /\ wave = NoWave
  /\ op = Idle

-----------------------------------------------------------------------------
(* Lifecycle edges                                                          *)

Dormant(p) == {x \in Sources : p.status[x] = "dormant"}

\* #retain: the first edge to a source cancels its release and, if it is
\* dormant, asks for its attachment.
Retain(p, xs) ==
  LET first == {x \in xs : p.counts[x] = 0}
  IN [p EXCEPT !.counts = [x \in Sources |-> IF x \in xs THEN @[x] + 1 ELSE @[x]],
               !.releases = @ \ first,
               !.attachments = @ \cup (first \cap Dormant(p)),
               !.unattached = @ \cup (first \cap Dormant(p))]

\* #release: the last edge leaves the source to the next flush.
Release(p, xs) ==
  [p EXCEPT !.counts = [x \in Sources |-> IF x \in xs THEN @[x] - 1 ELSE @[x]],
            !.releases = @ \cup {x \in xs : p.counts[x] = 1}]

\* reconcile, retainRoot and releaseRoot: reader t owns exactly the sources
\* `wanted`; new branches are acquired before old ones are released.
Reconcile(p, t, wanted) ==
  LET owned == [Retain(p, wanted \ p.edges[t]) EXCEPT !.edges[t] = wanted]
  IN Release(owned, p.edges[t] \ wanted)

\* begin: retained sources that failed to attach are tried again.
Begun(p) == [p EXCEPT !.attachments =
               @ \cup {x \in p.unattached : p.counts[x] > 0 /\ p.status[x] = "dormant"}]

\* Mutant of Revoked: the dirty set keeps a revoked generation.
RevokedStillDirty(p, x) == [p EXCEPT !.status[x] = "dormant"]

\* #revoke: the generation no longer counts, and is not dirty any more.
Revoked(p, x) == [p EXCEPT !.status[x] = "dormant", !.dirty = @ \ {x}]

-----------------------------------------------------------------------------
(* Waves                                                                    *)

Routed(xs) == {t \in Readers : reads[t] # None /\ reads[t] \cap xs # {}}
Sampled(xs) == [x \in Sources |-> IF x \in xs THEN "current" ELSE view[x]]
Changed(xs) == {x \in xs : view[x] # "current"}
Wave(marked, pulled) == [NoWave EXCEPT !.marked = marked, !.pulled = pulled]

\* startup: a wave if a source waits to be attached, then the first flush.
Starting(o, p) == IF p.attachments = {} THEN [o EXCEPT !.at = "flush", !.next = "drain"]
                  ELSE [o EXCEPT !.at = "wave", !.next = "flush"]

\* A reader evaluates and its record is installed: it reads active sources
\* from their projections and samples dormant ones once per wave.
Evaluate(t) ==
  /\ op.at = "wave" /\ wave.attaching = {} /\ t \in wave.marked
  /\ \E sources \in Branches[t], tokenChanges \in BOOLEAN :
       LET asked == {x \in sources : plane.status[x] # "active"} \ wave.pulled
           heard == tokenChanges /\ reads[t] # None /\ subs[t] > 0
       IN /\ view' = Sampled(asked)
          /\ reads' = [reads EXCEPT ![t] = sources]
          /\ plane' = Reconcile(plane, t, IF subs[t] > 0 THEN sources ELSE {})
          /\ wave' = [wave EXCEPT !.marked = (@ \cup Routed(Changed(asked))) \ {t},
                                  !.reached = IF heard THEN @ \cup {t} ELSE @,
                                  !.pulled = @ \cup asked]
  /\ UNCHANGED <<reported, subs, handles, op>>

\* settleLifecycle, entered when the queue of readers is empty.
SettleLifecycle ==
  /\ op.at = "wave" /\ wave.marked = {} /\ wave.attaching = {}
  /\ plane.attachments # {}
  /\ wave' = [wave EXCEPT !.attaching = plane.attachments]
  /\ plane' = [plane EXCEPT !.attachments = {}]
  /\ UNCHANGED <<view, reported, reads, subs, handles, op>>

Attachable(x) == plane.counts[x] > 0 /\ plane.status[x] = "dormant" /\ ~op.terminal

SkipAttachment(x) ==
  /\ op.at = "wave" /\ x \in wave.attaching /\ ~Attachable(x)
  /\ wave' = [wave EXCEPT !.attaching = @ \ {x}]
  /\ UNCHANGED <<view, reported, plane, reads, subs, handles, op>>

RefuseAttachment(x) ==
  /\ op.at = "wave" /\ x \in wave.attaching /\ Attachable(x)
  /\ op.attached = Samples
  /\ op' = [op EXCEPT !.terminal = TRUE, !.failed = TRUE]
  /\ wave' = [wave EXCEPT !.attaching = @ \ {x}]
  /\ UNCHANGED <<view, reported, plane, reads, subs, handles>>

\* #attach up to the subscribe callback of the resource, which may report.
Attach(x) ==
  /\ op.at = "wave" /\ x \in wave.attaching /\ Attachable(x)
  /\ op.attached < Samples
  /\ plane' = [plane EXCEPT !.status[x] = "attaching"]
  /\ wave' = [wave EXCEPT !.attaching = @ \ {x}]
  /\ op' = [op EXCEPT !.at = "subscribe", !.attached = @ + 1]
  /\ UNCHANGED <<view, reported, reads, subs, handles>>

\* The sources whose outcome an attachment samples: the one attached, after
\* its resource has taken the invalidator.
SampledOnAttach(x) == {x}

Attached(x) ==
  /\ op.at = "subscribe" /\ plane.status[x] = "attaching"
  /\ view' = Sampled(SampledOnAttach(x))
  /\ reported' = reported \ SampledOnAttach(x)
  /\ plane' = [plane EXCEPT !.status[x] = "active", !.dirty = @ \ {x}, !.unattached = @ \ {x}]
  /\ wave' = [wave EXCEPT !.marked = @ \cup Routed(Changed({x})), !.pulled = @ \cup {x}]
  /\ op' = [op EXCEPT !.at = "wave"]
  /\ UNCHANGED <<reads, subs, handles>>

\* The subscribe callback throws or returns no cleanup function.
AttachFails(x) ==
  /\ op.at = "subscribe" /\ plane.status[x] = "attaching"
  /\ plane' = Revoked(plane, x)
  /\ reported' = reported \ {x}
  /\ op' = [op EXCEPT !.at = "wave", !.failed = TRUE]
  /\ UNCHANGED <<view, reads, subs, handles, wave>>

\* notificationCallback: a provisional registration hears at most once, and
\* only while nothing has failed.
Provisional(t) == op.admitting /\ op.reader = t
HearsProvisional == op.admitting /\ op.reader \in wave.reached /\ ~op.failed /\ ~op.notified
Hears(t) == \/ subs[t] > (IF Provisional(t) THEN 1 ELSE 0)
            \/ Provisional(t) /\ HearsProvisional

\* Mutant of AfterWave: rounds of the drain loop flush no releases.
AfterWaveUnflushed(o) == [o EXCEPT !.at = IF o.rounds > 0 THEN "drain" ELSE o.next, !.next = "drain"]

\* Mutant of AfterWave: the bounds count within a round, not an operation.
AfterWaveRecounted(o) == [o EXCEPT !.at = o.next, !.next = "drain", !.rounds = 0, !.samples = 0]

AfterWave(o) == [o EXCEPT !.at = o.next, !.next = "drain"]

WaveEnds ==
  /\ op.at = "wave" /\ wave.marked = {} /\ wave.attaching = {} /\ plane.attachments = {}
  /\ op' = IF \E t \in wave.reached : Hears(t)
           THEN [op EXCEPT !.at = "notify", !.notified = @ \/ HearsProvisional]
           ELSE AfterWave(op)
  /\ wave' = NoWave
  /\ UNCHANGED <<view, reported, plane, reads, subs, handles>>

\* Subscriber callbacks run; Report and Unsubscribe below may interleave.
CallbacksReturn(throws) ==
  /\ op.at = "notify"
  /\ op' = [AfterWave(op) EXCEPT !.failed = @ \/ throws]
  /\ UNCHANGED <<view, reported, plane, reads, subs, handles, wave>>

-----------------------------------------------------------------------------
(* Finishing: flush the releases, drain the reports, decide the admission   *)

Cleaned(p, x) == [Revoked(p, x) EXCEPT !.unattached = @ \ {x}, !.attachments = @ \ {x}]

\* #flushReleases and #cleanup: the generation is revoked before its cleanup
\* callback, which may throw.
Cleanup(x, throws) ==
  /\ op.at = "flush" /\ x \in plane.releases
  /\ LET kept == [plane EXCEPT !.releases = @ \ {x}]
     IN plane' = IF plane.counts[x] = 0 THEN Cleaned(kept, x) ELSE kept
  /\ reported' = IF plane.counts[x] = 0 THEN reported \ {x} ELSE reported
  /\ throws => plane.status[x] = "active" /\ plane.counts[x] = 0
  /\ op' = [op EXCEPT !.failed = @ \/ throws]
  /\ UNCHANGED <<view, reads, subs, handles, wave>>

\* Mutant of FlushEnds: the round clears the dirty set when it ends.
FlushEndsClearing ==
  /\ op.at = "flush" /\ plane.releases = {}
  /\ op' = IF op.next = "idle" THEN Idle ELSE [op EXCEPT !.at = "drain"]
  /\ plane' = [plane EXCEPT !.dirty = IF op.rounds > 0 THEN {} ELSE @]
  /\ UNCHANGED <<view, reported, reads, subs, handles, wave>>

FlushEnds ==
  /\ op.at = "flush" /\ plane.releases = {}
  /\ op' = IF op.next = "idle" THEN Idle ELSE [op EXCEPT !.at = "drain"]
  /\ UNCHANGED <<view, reported, plane, reads, subs, handles, wave>>

\* How many of the dirty sources the bounds still let a round sample.
Allowance == IF op.rounds = Rounds THEN 0 ELSE Samples - op.samples

\* #drain, one round: sample the batch and publish the outcomes in one wave.
\* Sources beyond the bounds get the error that ends the campaign (#exhaust).
DrainRound ==
  /\ op.at = "drain" /\ plane.dirty # {}
  /\ \E batch \in SUBSET plane.dirty :
       LET beyond == plane.dirty \ batch
       IN /\ batch = plane.dirty \/ Cardinality(batch) = Allowance
          /\ Cardinality(batch) <= Allowance
          /\ view' = [x \in Sources |-> IF x \in beyond THEN "error" ELSE Sampled(batch)[x]]
          /\ wave' = Wave(Routed(Changed(batch) \cup beyond), plane.dirty)
          /\ op' = [op EXCEPT !.at = "wave", !.next = "flush",
                              !.rounds = IF Allowance = 0 THEN @ ELSE @ + 1,
                              !.samples = @ + Cardinality(batch),
                              !.failed = @ \/ beyond # {}, !.terminal = @ \/ beyond # {}]
  /\ plane' = [plane EXCEPT !.dirty = {}]
  /\ reported' = reported \ plane.dirty
  /\ UNCHANGED <<reads, subs, handles>>

DrainEnds ==
  /\ op.at = "drain" /\ plane.dirty = {}
  /\ op' = [op EXCEPT !.at = "verdict"]
  /\ UNCHANGED <<view, reported, plane, reads, subs, handles, wave>>

\* removeSubscription: the last registration of a reader releases its root.
Removed(t) ==
  /\ subs' = [subs EXCEPT ![t] = @ - 1]
  /\ plane' = IF subs[t] = 1 THEN Reconcile(plane, t, {}) ELSE plane

\* finish: an admission becomes active or is rolled back.
Accept ==
  /\ op.at = "verdict" /\ ~(op.admitting /\ op.failed)
  /\ handles' = IF op.admitting THEN [handles EXCEPT ![op.reader] = @ + 1] ELSE handles
  /\ op' = Idle
  /\ UNCHANGED <<view, reported, plane, reads, subs, wave>>

\* Mutant of RollBack: the registration of a failed admission stays.
RollBackForgotten ==
  /\ op.at = "verdict" /\ op.admitting /\ op.failed
  /\ op' = Idle
  /\ UNCHANGED <<view, reported, plane, reads, subs, handles, wave>>

RollBack ==
  /\ op.at = "verdict" /\ op.admitting /\ op.failed
  /\ Removed(op.reader)
  /\ op' = [op EXCEPT !.at = "flush", !.next = "idle", !.admitting = FALSE]
  /\ UNCHANGED <<view, reported, reads, handles, wave>>

-----------------------------------------------------------------------------
(* Operations begun while idle, and what resources and callbacks do         *)

\* sub: a reader that was never evaluated or reaches a dormant source is
\* pulled first, in a wave of its own.
Subscribe(t) ==
  LET recorded == IF reads[t] = None THEN {} ELSE reads[t]
      asked == recorded \cap Dormant(plane)
      fresh == IF reads[t] = None THEN {t} ELSE {}
      begun == [Idle EXCEPT !.at = "admit", !.reader = t]
  IN /\ op.at = "idle" /\ subs[t] < MaxRegistrations
     /\ view' = Sampled(asked)
     /\ plane' = Begun(plane)
     /\ IF fresh # {} \/ asked # {}
        THEN /\ wave' = Wave(fresh \cup Routed(Changed(asked)), asked)
             /\ op' = [begun EXCEPT !.at = "wave", !.next = "admit"]
        ELSE /\ wave' = NoWave
             /\ op' = begun
     /\ UNCHANGED <<reported, reads, subs, handles>>

\* The rest of sub: register, retain, start up; nothing if the pull failed.
Admit ==
  /\ op.at = "admit"
  /\ IF op.failed
     THEN /\ plane' = plane /\ subs' = subs
          /\ op' = Starting(op, plane)
     ELSE /\ subs' = [subs EXCEPT ![op.reader] = @ + 1]
          /\ plane' = Reconcile(plane, op.reader, reads[op.reader])
          /\ op' = Starting([op EXCEPT !.admitting = TRUE], plane')
  /\ UNCHANGED <<view, reported, reads, handles, wave>>

\* A call of an unsubscribe closure, while idle or by a subscriber callback.
Unsubscribe(t) ==
  /\ op.at \in {"idle", "notify"} /\ handles[t] > 0
  /\ handles' = [handles EXCEPT ![t] = @ - 1]
  /\ IF op.at = "notify"
     THEN Removed(t) /\ op' = op
     ELSE LET begun == Begun(plane)
          IN /\ subs' = [subs EXCEPT ![t] = @ - 1]
             /\ plane' = IF subs[t] = 1 THEN Reconcile(begun, t, {}) ELSE begun
             /\ op' = Starting(Idle, plane')
  /\ UNCHANGED <<view, reported, reads, wave>>

\* A commit to an atom that reader t reads: its propagation evaluates t.
Commit(t) ==
  /\ op.at = "idle" /\ reads[t] # None
  /\ plane' = Begun(plane)
  /\ wave' = Wave({t}, {})
  /\ op' = [Idle EXCEPT !.at = "wave", !.next = "flush"]
  /\ UNCHANGED <<view, reported, reads, subs, handles>>

\* The resource changes, in any code of its own that runs.
ResourceChanges(x) ==
  /\ view[x] = "current"
  /\ view' = [view EXCEPT ![x] = "stale"]
  /\ UNCHANGED <<reported, plane, reads, subs, handles, wave, op>>

\* invalidate, by the generation of x, where the plane accepts it: outside
\* operations, in subscriber callbacks and in its own subscribe callback.
Report(x) ==
  /\ \/ op.at \in {"idle", "notify"} /\ plane.status[x] = "active"
     \/ op.at = "subscribe" /\ plane.status[x] = "attaching"
  /\ ~op.terminal
  /\ reported' = IF view[x] # "current" THEN reported \cup {x} ELSE reported
  /\ IF op.at = "idle"
     THEN /\ plane' = [Begun(plane) EXCEPT !.dirty = @ \cup {x}]
          /\ op' = Starting(Idle, plane')
     ELSE /\ plane' = [plane EXCEPT !.dirty = @ \cup {x}]
          /\ op' = op
  /\ UNCHANGED <<view, reads, subs, handles, wave>>

Step ==
  \/ \E t \in Readers : Evaluate(t)
  \/ SettleLifecycle
  \/ \E x \in Sources : SkipAttachment(x) \/ RefuseAttachment(x) \/ Attach(x)
  \/ \E x \in Sources : Attached(x) \/ AttachFails(x)
  \/ WaveEnds
  \/ \E throws \in BOOLEAN : CallbacksReturn(throws)
  \/ \E x \in Sources, throws \in BOOLEAN : Cleanup(x, throws)
  \/ FlushEnds
  \/ DrainRound
  \/ DrainEnds
  \/ Accept
  \/ RollBack
  \/ Admit

Next ==
  \/ Step
  \/ \E t \in Readers : Subscribe(t) \/ Unsubscribe(t) \/ Commit(t)
  \/ \E x \in Sources : ResourceChanges(x) \/ Report(x)

Spec == Init /\ [][Next]_vars

\* An operation is one synchronous call: once begun, its steps follow.
FairSpec == Spec /\ WF_vars(Step)

-----------------------------------------------------------------------------
(* Properties                                                               *)

\* A report the plane accepted is served by the end of the operation: when
\* the tree is idle no attached projection is stale, or still in the error of an
\* earlier campaign, although its resource reported since, however reports, waves
\* and notifications interleaved (#drain, #attach, invalidate).
NoReportLost == op.at = "idle" => reported = {}

\* When the tree is idle exactly the sources that a subscribed reader reads
\* are attached, or kept for the next attempt if attaching failed
\* (#retain, #release, reconcile, #flushReleases, begin).
AttachmentsFollowReaders ==
  op.at = "idle" =>
    \A x \in Sources :
      LET read == \E t \in Readers : subs[t] > 0 /\ reads[t] # None /\ x \in reads[t]
      IN /\ plane.status[x] = "active" => read
         /\ read => plane.status[x] = "active" \/ x \in plane.unattached

\* A subscription that was refused leaves nothing behind: every registration
\* that outlives an operation has an unsubscribe closure its caller holds
\* (finish, removeSubscription).
HandlesOwnRegistrations == op.at = "idle" => subs = handles

\* Every operation ends, whatever resources report from its callbacks: the
\* bounds of #drain and settleLifecycle stop a campaign that feeds itself.
OperationsEnd == op.at # "idle" ~> op.at = "idle"

=============================================================================
