---------------------------- MODULE CommitHooks ----------------------------
(***************************************************************************)
(* The delivery of commit callbacks: committed-store-tree/commit-hooks.ts. *)
(*                                                                         *)
(* One FIFO serves every Store of the module.  A commit hands its          *)
(* callbacks over (Publish); a queued microtask (RunWake) or a refill      *)
(* timer (RunTimer) starts a drain, which runs callbacks until the FIFO or *)
(* the budget is exhausted.  JavaScript is single threaded, so the only    *)
(* interleaving is re-entrance: while a callback runs it may commit again, *)
(* dispose a Store, or make a host with mocked timers run queued tasks.    *)
(* A host may also discard a queued task, as restoring real timers does.   *)
(*                                                                         *)
(* `undefined` array slots are None.  `pending` = <<>> stands for the      *)
(* module's `pending === undefined`: the code never keeps an empty array.  *)
(* Microtasks, refill timers and refill generations are object identities  *)
(* in the code and are numbered by `nextId` here.                          *)
(***************************************************************************)
EXTENDS Naturals, Sequences

CONSTANTS
  Scopes,           \* the store scopes callbacks are registered for
  EntriesPerTask,   \* ENTRIES_PER_TASK
  MaxPublished,     \* bound: callbacks published in a run
  MaxBatch,         \* bound: callbacks one commit publishes
  MaxDiscards,      \* bound: queued tasks the host drops
  None              \* `undefined`

ASSUME EntriesPerTaskAssumption == EntriesPerTask \in Nat \ {0}
ASSUME BoundsAssumption == MaxPublished \in Nat /\ MaxBatch \in Nat /\ MaxDiscards \in Nat
ASSUME NoneAssumption ==
  None \notin [id : Nat \ {0}, scope : Scopes] /\ None \notin Nat

VARIABLES
  live,             \* scopes whose status is "live"
  pending,          \* the FIFO; None in a slot that was released
  cursor,           \* slots of `pending` the running drain has consumed
  scheduled,        \* the wake that may still drain, or None
  draining,
  running,          \* the callback on the JavaScript stack, or None
  budget,
  resetGeneration,  \* the refill generation, or None
  microtasks,       \* wakes queued at the host
  timers,           \* refill attempts queued at the host
  nextId,           \* the next fresh identity
  published,        \* history: callbacks published
  delivered,        \* history: callbacks run
  lost,             \* history: the host dropped a task after the last Publish
  discards,         \* history: tasks dropped
  sinceTask         \* history: slots consumed since a timer task last ran

fifoVars == <<pending, cursor>>
hostVars == <<microtasks, timers, nextId>>
historyVars == <<published, delivered, lost, discards, sinceTask>>
vars == <<live, pending, cursor, scheduled, draining, running, budget,
          resetGeneration, microtasks, timers, nextId, published, delivered,
          lost, discards, sinceTask>>

Entry == [id : Nat \ {0}, scope : Scopes]
Attempt == [id : Nat, generation : Nat]

Init ==
  /\ live = Scopes
  /\ pending = <<>>
  /\ cursor = 0
  /\ scheduled = None
  /\ draining = FALSE
  /\ running = None
  /\ budget = EntriesPerTask
  /\ resetGeneration = None
  /\ microtasks = {}
  /\ timers = {}
  /\ nextId = 0
  /\ published = 0
  /\ delivered = {}
  /\ lost = FALSE
  /\ discards = 0
  /\ sinceTask = 0

\* Code outside the drain runs between tasks, or inside a callback.
UserCode == ~draining \/ running # None

-----------------------------------------------------------------------------
\* Mutant of ScheduleReset: a generation that exists is trusted to have a timer.
ScheduleResetOnce ==
  IF resetGeneration # None
    THEN UNCHANGED <<resetGeneration, timers, nextId>>
    ELSE /\ resetGeneration' = nextId
         /\ timers' = timers \cup {[id |-> nextId, generation |-> nextId]}
         /\ nextId' = nextId + 1

\* The host queues one more refill attempt; attempts share a generation.
ScheduleReset ==
  LET generation == IF resetGeneration = None THEN nextId ELSE resetGeneration IN
  /\ resetGeneration' = generation
  /\ timers' = timers \cup {[id |-> nextId, generation |-> generation]}
  /\ nextId' = nextId + 1

\* Mutant of Schedule: a wake that is already scheduled is not replaced.
ScheduleKeepingWake ==
  IF draining \/ scheduled # None
    THEN UNCHANGED <<scheduled, microtasks, nextId>>
    ELSE /\ scheduled' = nextId
         /\ microtasks' = microtasks \cup {nextId}
         /\ nextId' = nextId + 1

\* The wake that replaces any earlier one; none while a drain is running.
Schedule ==
  IF draining
    THEN UNCHANGED <<scheduled, microtasks, nextId>>
    ELSE /\ scheduled' = nextId
         /\ microtasks' = microtasks \cup {nextId}
         /\ nextId' = nextId + 1

\* publishCommit: the callbacks of one draft, each for a scope that was live.
Publish(n, scopeOf) ==
  /\ UserCode
  /\ published + n <= MaxPublished
  /\ scopeOf \in [1..n -> live]
  /\ pending' = pending \o [i \in 1..n |-> [id |-> published + i, scope |-> scopeOf[i]]]
  /\ published' = published + n
  /\ Schedule
  /\ lost' = FALSE
  /\ UNCHANGED <<live, cursor, draining, running, budget, resetGeneration,
                 timers, delivered, discards, sinceTask>>

\* Mutant of Dispose: the FIFO is swept only when no drain is running.
DisposeOutsideDrain(s) ==
  /\ UserCode
  /\ s \in live
  /\ live' = live \ {s}
  /\ pending' = [i \in DOMAIN pending |->
                   IF ~draining /\ pending[i] # None /\ pending[i].scope \notin live'
                     THEN None ELSE pending[i]]
  /\ UNCHANGED <<cursor, scheduled, draining, running, budget, resetGeneration,
                 hostVars, historyVars>>

\* Disposing a Store ends with discardDisposedCommits.
Dispose(s) ==
  /\ UserCode
  /\ s \in live
  /\ live' = live \ {s}
  /\ pending' = [i \in DOMAIN pending |->
                   IF i > cursor /\ pending[i] # None /\ pending[i].scope \notin live'
                     THEN None ELSE pending[i]]
  /\ UNCHANGED <<cursor, scheduled, draining, running, budget, resetGeneration,
                 hostVars, historyVars>>

-----------------------------------------------------------------------------
\* Entering drain() when it may run; RunTimer has cleared the generation.
StartDrain(generation) ==
  /\ draining' = TRUE
  /\ scheduled' = None
  /\ IF generation = None
       THEN resetGeneration' = nextId /\ nextId' = nextId + 1
       ELSE UNCHANGED <<resetGeneration, nextId>>

\* A queued wake runs; it is inert unless it is the current one.
RunWake(w) ==
  /\ UserCode
  /\ w \in microtasks
  /\ microtasks' = microtasks \ {w}
  /\ IF scheduled # w
       THEN UNCHANGED <<scheduled, draining, resetGeneration, timers, nextId>>
       ELSE IF draining \/ pending = <<>>
         THEN /\ scheduled' = None
              /\ UNCHANGED <<draining, resetGeneration, timers, nextId>>
         ELSE /\ StartDrain(resetGeneration)
              /\ timers' = IF resetGeneration = None
                             THEN timers \cup {[id |-> nextId, generation |-> nextId]}
                             ELSE timers
  /\ UNCHANGED <<live, fifoVars, running, budget, historyVars>>

\* A refill attempt runs; only the first of the current generation refills.
RunTimer(t) ==
  /\ UserCode
  /\ t \in timers
  /\ IF resetGeneration # t.generation \/ draining
       THEN /\ timers' = timers \ {t}
            /\ UNCHANGED <<scheduled, draining, resetGeneration, budget, nextId>>
       ELSE /\ budget' = EntriesPerTask
            /\ IF pending = <<>>
                 THEN /\ resetGeneration' = None
                      /\ timers' = timers \ {t}
                      /\ UNCHANGED <<scheduled, draining, nextId>>
                 ELSE /\ StartDrain(None)
                      /\ timers' = (timers \ {t}) \cup {[id |-> nextId, generation |-> nextId]}
  /\ sinceTask' = IF draining THEN sinceTask ELSE 0
  /\ UNCHANGED <<live, fifoVars, running, microtasks, published, delivered, lost, discards>>

\* Mutant of DrainNext: the budget is looked at only before the loop.
DrainNextUnbudgeted ==
  /\ draining /\ running = None
  /\ cursor < Len(pending) /\ (budget > 0 \/ cursor > 0)
  /\ LET entry == pending[cursor + 1]
         runs  == entry # None /\ entry.scope \in live
     IN /\ running' = IF runs THEN entry ELSE None
        /\ delivered' = IF runs THEN delivered \cup {entry} ELSE delivered
  /\ pending' = [pending EXCEPT ![cursor + 1] = None]
  /\ cursor' = cursor + 1
  /\ budget' = budget - 1
  /\ sinceTask' = sinceTask + 1
  /\ UNCHANGED <<live, scheduled, draining, resetGeneration, hostVars,
                 published, lost, discards>>

\* One turn of the drain's loop: consume a slot, run its callback if it is live.
DrainNext ==
  /\ draining /\ running = None
  /\ cursor < Len(pending) /\ budget > 0
  /\ LET entry == pending[cursor + 1]
         runs  == entry # None /\ entry.scope \in live
     IN /\ running' = IF runs THEN entry ELSE None
        /\ delivered' = IF runs THEN delivered \cup {entry} ELSE delivered
  /\ pending' = [pending EXCEPT ![cursor + 1] = None]
  /\ cursor' = cursor + 1
  /\ budget' = budget - 1
  /\ sinceTask' = sinceTask + 1
  /\ UNCHANGED <<live, scheduled, draining, resetGeneration, hostVars,
                 published, lost, discards>>

\* The callback returns or throws; either way the loop goes on.
CallbackEnds ==
  /\ running # None
  /\ running' = None
  /\ UNCHANGED <<live, fifoVars, scheduled, draining, budget, resetGeneration,
                 hostVars, historyVars>>

\* Mutant of DrainEnd: a drain that empties the FIFO restores the budget.
DrainEndRefilling ==
  /\ draining /\ running = None
  /\ cursor = Len(pending) \/ budget = 0
  /\ draining' = FALSE
  /\ pending' = SubSeq(pending, cursor + 1, Len(pending))
  /\ cursor' = 0
  /\ IF cursor < Len(pending) /\ budget = 0
       THEN ScheduleReset /\ UNCHANGED budget
       ELSE budget' = EntriesPerTask /\ UNCHANGED <<resetGeneration, timers, nextId>>
  /\ UNCHANGED <<live, scheduled, running, microtasks, historyVars>>

\* Mutant of DrainEnd: the cursor is not reset after the consumed slots are cut.
DrainEndKeepingCursor ==
  /\ draining /\ running = None
  /\ cursor = Len(pending) \/ budget = 0
  /\ draining' = FALSE
  /\ pending' = SubSeq(pending, cursor + 1, Len(pending))
  /\ IF cursor < Len(pending) /\ budget = 0
       THEN ScheduleReset
       ELSE UNCHANGED <<resetGeneration, timers, nextId>>
  /\ UNCHANGED <<live, cursor, scheduled, running, budget, microtasks, historyVars>>

\* The `finally` of drain().
DrainEnd ==
  /\ draining /\ running = None
  /\ cursor = Len(pending) \/ budget = 0
  /\ draining' = FALSE
  /\ pending' = SubSeq(pending, cursor + 1, Len(pending))
  /\ cursor' = 0
  /\ IF cursor < Len(pending) /\ budget = 0
       THEN ScheduleReset
       ELSE UNCHANGED <<resetGeneration, timers, nextId>>
  /\ UNCHANGED <<live, scheduled, running, budget, microtasks, historyVars>>

\* The host drops a queued task without running it.
HostDiscards ==
  /\ UserCode
  /\ discards < MaxDiscards
  /\ \/ \E w \in microtasks : microtasks' = microtasks \ {w} /\ UNCHANGED timers
     \/ \E t \in timers : timers' = timers \ {t} /\ UNCHANGED microtasks
  /\ discards' = discards + 1
  /\ lost' = TRUE
  /\ UNCHANGED <<live, fifoVars, scheduled, draining, running, budget,
                 resetGeneration, nextId, published, delivered, sinceTask>>

-----------------------------------------------------------------------------
Next ==
  \/ \E n \in 1..MaxBatch : \E scopeOf \in [1..n -> Scopes] : Publish(n, scopeOf)
  \/ \E s \in Scopes : Dispose(s)
  \/ \E w \in microtasks : RunWake(w)
  \/ \E t \in timers : RunTimer(t)
  \/ DrainNext
  \/ CallbackEnds
  \/ DrainEnd
  \/ HostDiscards

Spec == Init /\ [][Next]_vars

\* The host runs what stays queued, callbacks return, and drain() is ordinary
\* synchronous code.  Nobody has to publish, dispose or drop anything.
Fairness ==
  /\ WF_vars(\E w \in microtasks : RunWake(w))
  /\ WF_vars(\E t \in timers : RunTimer(t))
  /\ WF_vars(DrainNext)
  /\ WF_vars(CallbackEnds)
  /\ WF_vars(DrainEnd)

FairSpec == Spec /\ Fairness

-----------------------------------------------------------------------------
(* Properties *)

\* Every variable keeps the shape the module declares for it.
TypeOK ==
  /\ live \subseteq Scopes
  /\ pending \in Seq(Entry \cup {None})
  /\ cursor \in 0..Len(pending)
  /\ scheduled \in Nat \cup {None}
  /\ draining \in BOOLEAN
  /\ running \in Entry \cup {None}
  /\ budget \in 0..EntriesPerTask
  /\ resetGeneration \in Nat \cup {None}
  /\ microtasks \subseteq Nat
  /\ timers \subseteq Attempt
  /\ nextId \in Nat
  /\ published \in 0..MaxPublished
  /\ delivered \subseteq Entry
  /\ lost \in BOOLEAN
  /\ discards \in 0..MaxDiscards
  /\ sinceTask \in Nat

\* Callbacks left behind by a drain are never stranded: whatever mix of
\* re-entrant commits, exhausted budgets, replaced wakes and duplicate refill
\* attempts led here, a task that can still resume delivery is queued, unless
\* the host has dropped one since the last commit.
RouteToDelivery ==
  ~draining /\ pending # <<>> =>
    \/ lost
    \/ scheduled \in microtasks
    \/ \E t \in timers : t.generation = resetGeneration

\* The FIFO keeps no disposed scope and no consumed callback reachable, also
\* when the scope is disposed from inside a callback of the running drain.
ReleasesEntries ==
  \A i \in DOMAIN pending : pending[i] # None =>
    /\ i > cursor
    /\ pending[i].scope \in live

\* Self-feeding callbacks yield: however wakes are replaced or replayed, at most
\* EntriesPerTask slots are consumed between two timer tasks of the host.
YieldsToTasks == sinceTask <= EntriesPerTask

\* The callbacks that still have to run.
Waiting ==
  {pending[i] : i \in {j \in DOMAIN pending : pending[j] # None}}

\* The FIFO with its wakes, budget and timers delivers in publication order, at
\* most once, and never to a disposed scope.
Queue == INSTANCE CommitQueue WITH waiting <- Waiting
ImplementsQueue == Queue!Spec

\* A published callback runs or its scope is disposed, unless the host drops a
\* task; after a drop, the next commit puts delivery back on its way.
EventuallyDelivered ==
  \A n \in 1..MaxPublished :
    (\E e \in Waiting : e.id = n) ~> ((\A e \in Waiting : e.id # n) \/ lost)

=============================================================================
