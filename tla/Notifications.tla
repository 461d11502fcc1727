--------------------------- MODULE Notifications ---------------------------
(***************************************************************************)
(* Subscriptions, settle reactions and subscriber notification of one      *)
(* StoreTree: `sub`, `removeSubscription` and the notification boundary of *)
(* committed-store-tree.ts.                                                *)
(*                                                                         *)
(* A commit outside a reaction opens a boundary.  It reaches the target of *)
(* every state whose served value changed (Reach), then runs the reached   *)
(* `settle` reactions in waves, each a transaction whose commit reaches    *)
(* more targets, then captures the callbacks of all reached targets and    *)
(* runs them.  Reactions may use nothing but their own transaction and     *)
(* callbacks may only read and unsubscribe: the runtime's activity guards  *)
(* reject everything else, so each is one action, and a queued reaction is *)
(* never removed before its turn.                                          *)
(*                                                                         *)
(* A target is known by its state, its list of registrations by `target`   *)
(* and by `earlier`, the order of registration.  A registration of `Regs`  *)
(* is used again once it is removed and no boundary is open.  Settling the *)
(* store's own views and selectors is abstracted to Served, the value each *)
(* state has after a commit.                                               *)
(***************************************************************************)
EXTENDS Naturals, Sequences, FiniteSets, Functions

CONSTANTS
  Sources,     \* atom views that transactions write
  Derived,     \* selectors, and atom views that inherit
  Values,
  Compute,     \* Compute[d][value]: what d \in Derived serves
  Regs,        \* subscription registrations
  Disposable,  \* the states of the scopes that `dispose` drops together
  WaveLimit,   \* REACTION_WAVE_LIMIT
  Failing,     \* bound: what may fail, of "selector", "reaction", "subscriber"
  None         \* `undefined`

States == Sources \cup Derived

ASSUME WaveLimitAssumption == WaveLimit \in Nat \ {0}
ASSUME ComputeAssumption == Compute \in [Derived -> [[Sources -> Values] -> Values]]
ASSUME RegsAssumption == IsFiniteSet(Regs)
ASSUME StatesAssumption ==
  /\ Sources \cap Derived = {}
  /\ None \notin States
  /\ Disposable \subseteq SUBSET States

VARIABLES
  value,      \* committed values of Sources
  target,     \* target[r]: the state r observes, or None
  earlier,    \* pairs of live registrations, the first one registered first
  reactions,  \* live registrations with a `settle` handler
  callbacks,  \* live registrations with a subscriber callback
  phase,      \* where propagateFromSources is
  changed,    \* states that changed and whose target is still to be reached
  reached,    \* #notificationTarget and #remainingNotificationTargets
  queue,      \* #reactionQueue
  wave,       \* what #drainReactions has left of the current wave
  waves,      \* waves started in this boundary
  pending,    \* registrations whose `pending` flag is set
  snapshot,   \* captured callbacks that have not run
  told,       \* history: those that have run, one entry for each call
  errors,     \* kinds of failure the boundary will throw
  stale       \* history: reactions whose state changed after they last started

\* A failure of this kind happens or does not; the bound may rule it out.
MayFail(kind) == {{}, {kind} \cap Failing}

subVars == <<target, earlier, reactions, callbacks>>
reactionVars == <<queue, wave, waves, pending, stale>>
vars == <<value, subVars, phase, changed, reached, reactionVars, snapshot, told, errors>>

Live == {r \in Regs : target[r] # None}

Served(v, c) == IF c \in Sources THEN v[c] ELSE Compute[c][v]

Differing(v, w) == {c \in States : Served(v, c) # Served(w, c)}

\* The sequences that list S in the order `before`: one if it is total on S.
Listings(S, before) ==
  {s \in [1..Cardinality(S) -> S] :
     /\ \A r \in S : \E i \in DOMAIN s : s[i] = r
     /\ \A i, j \in DOMAIN s : i < j => <<s[i], s[j]>> \in before}

Init ==
  /\ value \in [Sources -> Values]
  /\ target = [r \in Regs |-> None]
  /\ earlier = {}
  /\ reactions = {}
  /\ callbacks = {}
  /\ phase = "idle"
  /\ changed = {}
  /\ reached = <<>>
  /\ queue = <<>>
  /\ wave = <<>>
  /\ waves = 0
  /\ pending = {}
  /\ snapshot = <<>>
  /\ told = <<>>
  /\ errors = {}
  /\ stale = {}

-----------------------------------------------------------------------------
(* Subscriptions *)

\* `sub`: appended to the list of its target, with either handler or both.
Sub(r, c, settle, notify) ==
  /\ phase = "idle"
  /\ r \notin Live
  /\ settle \/ notify
  /\ target' = [target EXCEPT ![r] = c]
  /\ earlier' = earlier \cup (Live \X {r})
  /\ reactions' = IF settle THEN reactions \cup {r} ELSE reactions
  /\ callbacks' = IF notify THEN callbacks \cup {r} ELSE callbacks
  /\ UNCHANGED <<value, phase, changed, reached, reactionVars, snapshot, told, errors>>

\* Mutant of Unlinked: the `settle` handler is kept.
UnlinkedButReaction(R) ==
  /\ target' = [r \in Regs |-> IF r \in R THEN None ELSE target[r]]
  /\ earlier' = {p \in earlier : p[1] \notin R /\ p[2] \notin R}
  /\ callbacks' = callbacks \ R
  /\ UNCHANGED reactions

\* Unlinks the registrations R and forgets their handlers.
Unlinked(R) ==
  /\ target' = [r \in Regs |-> IF r \in R THEN None ELSE target[r]]
  /\ earlier' = {p \in earlier : p[1] \notin R /\ p[2] \notin R}
  /\ reactions' = reactions \ R
  /\ callbacks' = callbacks \ R

\* `unsubscribe` outside any boundary.
RemoveSubscription(r) ==
  /\ phase = "idle"
  /\ r \in Live
  /\ Unlinked({r})
  /\ UNCHANGED <<value, phase, changed, reached, reactionVars, snapshot, told, errors>>

\* `dispose` drops the subscriptions of a scope and of those below it.
DropSubscriptions(C) ==
  /\ phase = "idle"
  /\ \E r \in Live : target[r] \in C
  /\ Unlinked({r \in Live : target[r] \in C})
  /\ UNCHANGED <<value, phase, changed, reached, reactionVars, snapshot, told, errors>>

-----------------------------------------------------------------------------
(* The boundary *)

\* The reactions that a change of `value` concerns.
Concerned(after) == {r \in reactions : target[r] \in Differing(value, after)}

\* A commit outside a reaction begins a boundary, which is over at once when
\* nothing it serves changed.  A selector may fail while it settles.
Commit(after, failure) ==
  /\ phase = "idle"
  /\ Differing(value, after) # {}
  /\ value' = after
  /\ changed' = Differing(value, after)
  /\ stale' = Concerned(after)
  /\ errors' = failure
  /\ phase' = "propagating"
  /\ UNCHANGED <<subVars, reached, queue, wave, waves, pending, snapshot, told>>

\* The reactions #queueReactions adds: those of the target not already pending.
Queueable(c) == {r \in reactions : target[r] = c /\ r \notin pending}

\* Mutant of ReachTarget: reactions are queued on the first reach only.
ReachTargetOnce(c) ==
  IF c \in Range(reached) THEN UNCHANGED <<queue, pending, reached>>
  ELSE /\ \E s \in Listings(Queueable(c), earlier) : queue' = queue \o s
       /\ pending' = pending \cup Queueable(c)
       /\ reached' = Append(reached, c)

\* Mutant of ReachTarget: the target is entered again on every reach.
ReachTargetAgain(c) ==
  /\ \E s \in Listings(Queueable(c), earlier) : queue' = queue \o s
  /\ pending' = pending \cup Queueable(c)
  /\ reached' = Append(reached, c)

\* reachSubscriptionTarget: queues reactions on every reach, but enters the
\* target in the boundary's notification set once.
ReachTarget(c) ==
  /\ \E s \in Listings(Queueable(c), earlier) : queue' = queue \o s
  /\ pending' = pending \cup Queueable(c)
  /\ reached' = IF c \in Range(reached) THEN reached ELSE Append(reached, c)

\* A changed view or selector is reached; a state nobody observes has no target.
Reach(c) ==
  /\ phase = "propagating"
  /\ c \in changed
  /\ changed' = changed \ {c}
  /\ IF \E r \in Live : target[r] = c
       THEN ReachTarget(c)
       ELSE UNCHANGED <<queue, pending, reached>>
  /\ UNCHANGED <<value, subVars, phase, wave, waves, stale, snapshot, told, errors>>

\* Propagation has settled everything; the reactions of the boundary are next.
Settled ==
  /\ phase = "propagating"
  /\ changed = {}
  /\ phase' = "reacting"
  /\ UNCHANGED <<value, subVars, changed, reached, reactionVars, snapshot, told, errors>>

-----------------------------------------------------------------------------
(* #drainReactions *)

\* Mutant of NextWave: the wave counter is never advanced.
NextWaveUncounted ==
  /\ phase = "reacting"
  /\ wave = <<>>
  /\ queue # <<>>
  /\ waves < WaveLimit
  /\ wave' = queue
  /\ queue' = <<>>
  /\ UNCHANGED <<value, subVars, phase, changed, reached, waves, pending, snapshot, told, errors, stale>>

\* The reactions queued so far become the next wave.
NextWave ==
  /\ phase = "reacting"
  /\ wave = <<>>
  /\ queue # <<>>
  /\ waves < WaveLimit
  /\ wave' = queue
  /\ queue' = <<>>
  /\ waves' = waves + 1
  /\ UNCHANGED <<value, subVars, phase, changed, reached, pending, snapshot, told, errors, stale>>

\* Mutant of LimitReached: the abandoned wave keeps its pending flags.
LimitReachedPending ==
  /\ phase = "reacting"
  /\ wave = <<>>
  /\ queue # <<>>
  /\ waves = WaveLimit
  /\ queue' = <<>>
  /\ errors' = errors \cup {"limit"}
  /\ UNCHANGED <<value, subVars, phase, changed, reached, wave, waves, snapshot, told, stale, pending>>

\* Too many waves: the next one is abandoned and its flags are cleared.
LimitReached ==
  /\ phase = "reacting"
  /\ wave = <<>>
  /\ queue # <<>>
  /\ waves = WaveLimit
  /\ queue' = <<>>
  /\ pending' = pending \ Range(queue)
  /\ errors' = errors \cup {"limit"}
  /\ UNCHANGED <<value, subVars, phase, changed, reached, wave, waves, snapshot, told, stale>>

\* #runReaction: clears the flag, then runs the handler as one transaction.
\* It may throw and apply nothing, apply and fail, or apply; what it changed
\* is reached in this same boundary.
RunReaction(after, failure) ==
  LET r == Head(wave) IN
  /\ phase = "reacting"
  /\ wave # <<>>
  /\ r \in reactions
  /\ wave' = Tail(wave)
  /\ value' = after
  /\ changed' = Differing(value, after)
  /\ pending' = pending \ {r}
  /\ stale' = (stale \ {r}) \cup Concerned(after)
  /\ errors' = errors \cup failure
  /\ phase' = IF changed' = {} THEN "reacting" ELSE "propagating"
  /\ UNCHANGED <<subVars, reached, queue, waves, snapshot, told>>

-----------------------------------------------------------------------------
(* #deliverSubscriptionSnapshot *)

\* The callbacks of the targets reached, by the position of the target.
Captured == {x \in (DOMAIN reached) \X callbacks : target[x[2]] = reached[x[1]]}

\* Targets in the order they were reached, each in registration order.
CapturedBefore ==
  {p \in Captured \X Captured :
     \/ p[1][1] < p[2][1]
     \/ p[1][1] = p[2][1] /\ <<p[1][2], p[2][2]>> \in earlier}

\* All callbacks are captured before any of them runs, and the boundary's
\* notification set is cleared.
Deliver ==
  /\ phase = "reacting"
  /\ wave = <<>>
  /\ queue = <<>>
  /\ \E s \in Listings(Captured, CapturedBefore) :
       snapshot' = [i \in DOMAIN s |-> s[i][2]]
  /\ reached' = <<>>
  /\ phase' = "notifying"
  /\ UNCHANGED <<value, subVars, changed, reactionVars, told, errors>>

\* The next captured callback runs.  It may unsubscribe R, captured ones among
\* them, and it may throw, which does not keep the others from running.
RunCallback(R, failure) ==
  /\ phase = "notifying"
  /\ snapshot # <<>>
  /\ snapshot' = Tail(snapshot)
  /\ told' = Append(told, Head(snapshot))
  /\ Unlinked(R)
  /\ errors' = errors \cup failure
  /\ UNCHANGED <<value, phase, changed, reached, reactionVars>>

\* propagateFromSources returns, or throws what the boundary collected.
Return ==
  /\ phase = "notifying"
  /\ snapshot = <<>>
  /\ phase' = "idle"
  /\ waves' = 0
  /\ told' = <<>>
  /\ errors' = {}
  /\ stale' = {}
  /\ UNCHANGED <<value, subVars, changed, reached, queue, wave, pending, snapshot>>

Next ==
  \/ \E r \in Regs, c \in States, settle, notify \in BOOLEAN : Sub(r, c, settle, notify)
  \/ \E r \in Regs : RemoveSubscription(r)
  \/ \E C \in Disposable : DropSubscriptions(C)
  \/ \E after \in [Sources -> Values], failure \in MayFail("selector") : Commit(after, failure)
  \/ \E c \in States : Reach(c)
  \/ Settled
  \/ NextWave
  \/ LimitReached
  \/ \E after \in [Sources -> Values], failure \in MayFail("reaction") : RunReaction(after, failure)
  \/ Deliver
  \/ \E R \in SUBSET Live, failure \in MayFail("subscriber") : RunCallback(R, failure)
  \/ Return

Spec == Init /\ [][Next]_vars

\* A boundary is one synchronous call whose user code returns.  Nobody has to
\* subscribe, unsubscribe, commit or dispose.
Fairness ==
  /\ WF_vars(\E c \in States : Reach(c))
  /\ WF_vars(Settled)
  /\ WF_vars(NextWave)
  /\ WF_vars(LimitReached)
  /\ WF_vars(\E after \in [Sources -> Values], failure \in MayFail("reaction") : RunReaction(after, failure))
  /\ WF_vars(Deliver)
  /\ WF_vars(\E R \in SUBSET Live, failure \in MayFail("subscriber") : RunCallback(R, failure))
  /\ WF_vars(Return)

FairSpec == Spec /\ Fairness

-----------------------------------------------------------------------------
(* Properties *)

\* Every variable keeps the shape the module declares for it.
TypeOK ==
  /\ value \in [Sources -> Values]
  /\ target \in [Regs -> States \cup {None}]
  /\ earlier \subseteq Live \X Live
  /\ reactions \subseteq Live
  /\ callbacks \subseteq Live
  /\ phase \in {"idle", "propagating", "reacting", "notifying"}
  /\ changed \subseteq States
  /\ reached \in Seq(States)
  /\ queue \in Seq(Regs)
  /\ wave \in Seq(Regs)
  /\ waves \in 0..WaveLimit
  /\ pending \subseteq Regs
  /\ snapshot \in Seq(Regs)
  /\ told \in Seq(Regs)
  /\ errors \subseteq {"selector", "reaction", "limit", "subscriber"}
  /\ stale \subseteq Regs

\* No flag outlives its queue entry: a registration is flagged as pending exactly
\* while it waits once in the queue or in the running wave, whether it ran, made
\* itself due again, or was abandoned at the limit.  A stray flag would keep the
\* reaction from ever running again.
PendingMeansQueued ==
  /\ pending = Range(queue) \cup Range(wave)
  /\ IsInjective(queue \o wave)

\* Reactions settle before anything is published: unless the boundary reports
\* the limit, no reaction's state changed after that reaction last started, also
\* when reactions change each other's states and their own.
SettledBeforePublication ==
  phase = "notifying" /\ "limit" \notin errors => stale = {}

\* The registrations whose callback the open boundary still has to run.
Due ==
  IF phase = "notifying"
    THEN Range(snapshot)
    ELSE {r \in callbacks : target[r] \in changed \cup Range(reached)}

Stage ==
  IF phase \in {"propagating", "reacting"} THEN "updating"
  ELSE IF phase = "notifying" THEN "publishing" ELSE "idle"

\* Waves, targets and frozen snapshots together notify each subscriber of a
\* changed state once per boundary, neither twice nor never, after the last write
\* of any reaction: however often its target is reached, and also when callbacks
\* throw or unsubscribe one another meanwhile.
Promise == INSTANCE Publication WITH
  heard <- [c \in States |-> {r \in callbacks : target[r] = c}],
  due <- Due,
  stage <- Stage
ImplementsPublication == Promise!Spec

\* Reactions that keep triggering one another cannot hold up a commit: every
\* boundary that opens ends.
BoundariesEnd == phase # "idle" ~> phase = "idle"
=============================================================================
