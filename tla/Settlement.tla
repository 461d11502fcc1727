---------------------------- MODULE Settlement ----------------------------
(***************************************************************************)
(* Reads of selectors and the propagation of committed atoms to them:      *)
(* `get`, propagateFromSources and #settleSelector of                      *)
(* committed-store-tree.ts.  A propagation settles the queued selectors in *)
(* turn.  To settle one is to settle its recorded dependencies first and   *)
(* to evaluate it if that, or the write, marked it dirty.  Evaluations     *)
(* read selectors that are not settled yet, which settles them at once,    *)
(* and may reenter a selector whose walk or evaluation is in flight.       *)
(***************************************************************************)
EXTENDS SelectorEvaluator

VARIABLES            \* history of the running operation:
  before,            \* the outcomes it started from
  evaluations        \* how often each getter has run

history == <<before, evaluations>>
settlementVars == <<vars, history>>

\* The call of #settleSelector(scope, s, session, reader); 0 is `undefined`.
Settling(s, session, reader) ==
  [call |-> "settle", selector |-> s, session |-> session, reader |-> reader,
   at |-> "entered",       \* or "walking", "evaluated"
   todo |-> <<>>,          \* recorded dependencies still to be settled
   currentness |-> "settled",
   version |-> graphVersion,
   provisional |-> provisional,
   entered |-> status[s],  \* its status when called
   owns |-> FALSE]         \* whether it opened the session of the evaluation

Outcomes == [s \in Selectors |-> IF record[s] = None THEN None ELSE record[s].out]

Init ==
  /\ body \in Programs
  /\ value \in [Atoms -> Values]
  /\ record = [s \in Selectors |-> None]
  /\ dirty = {}
  /\ routes = [s \in Selectors |-> None]
  /\ mode = "idle"
  /\ queue = <<>>
  /\ status = [s \in Selectors |-> {}]
  /\ graphVersion = 0
  /\ provisional = 0
  /\ nextToken = 1
  /\ sessions = <<>>
  /\ stack = <<>>
  /\ reached = {}
  /\ before = Outcomes
  /\ evaluations = [s \in Selectors |-> 0]

-----------------------------------------------------------------------------
(* Operations of the store *)

\* `get` of a selector that has no current record.
Get(s) ==
  /\ mode = "idle"
  /\ record[s] = None \/ s \in dirty
  /\ mode' = "reading"
  /\ sessions' = <<[outer |-> 0, publications |-> 0]>>
  /\ stack' = <<Evaluation(s, 1, 0)>>
  /\ before' = Outcomes
  /\ UNCHANGED <<evaluations, body, value, graphVars, nextToken>>

\* A commit: the dependents of the atoms that changed are queued.
Commit(after) ==
  LET E == UNION {Dependents(record, a) : a \in {a \in Atoms : after[a] # value[a]}} IN
  /\ mode = "idle"
  /\ after # value
  /\ value' = after
  /\ mode' = "propagating"
  /\ dirty' = dirty \cup E
  /\ queue' \in SetToSeqs(E)
  /\ status' = [s \in Selectors |-> IF s \in E THEN {"queued"} ELSE {}]
  /\ before' = Outcomes
  /\ UNCHANGED <<evaluations, body, record, routes, graphVersion, provisional, nextToken, sessions, stack, reached>>

\* The next queued selector.
SettleNext ==
  /\ mode = "propagating"
  /\ stack = <<>>
  /\ queue # <<>>
  /\ queue' = Tail(queue)
  /\ stack' = <<Settling(Head(queue), 0, 0)>>
  /\ UNCHANGED <<body, value, record, dirty, routes, mode, status, graphVersion, provisional,
                 nextToken, sessions, reached, history>>

\* The operation is over.  Versions and tokens are compared only within one, so
\* they are numbered anew.
Done ==
  /\ mode # "idle"
  /\ stack = <<>>
  /\ queue = <<>>
  /\ mode' = "idle"
  /\ status' = [s \in Selectors |-> {}]
  /\ record' = [s \in Selectors |-> IF record[s] = None THEN None ELSE [record[s] EXCEPT !.token = 0]]
  /\ graphVersion' = 0
  /\ provisional' = 0
  /\ nextToken' = 1
  /\ sessions' = <<>>
  /\ reached' = {}
  /\ before' = [s \in Selectors |-> None]
  /\ evaluations' = [s \in Selectors |-> 0]
  /\ UNCHANGED <<body, value, dirty, routes, queue, stack>>

-----------------------------------------------------------------------------
(* #settleSelector *)

\* foldCurrentness.
Fold(current, next) ==
  IF current \in {"cyclic", "unproven"} THEN current
  ELSE IF current = "settled" THEN next
  ELSE IF next = "settled" THEN current
  ELSE "unproven"

\* The stack after the innermost settle returns c to its caller.
Returning(c) ==
  LET rest == Front(stack) IN
  IF rest # <<>> /\ Last(rest).call = "settle"
    THEN [rest EXCEPT ![Len(rest)].currentness = Fold(@, c)]
    ELSE rest

\* The call in flight is a settle, at `at`.
SettleAt(at) == stack # <<>> /\ Top.call = "settle" /\ Top.at = at

\* The selectors among the recorded dependencies of s.
SelectorDeps(s) ==
  LET deps == Deps(record, s)
      upto[i \in 0..Len(deps)] ==
        IF i = 0 THEN <<>>
        ELSE IF deps[i] \in Selectors THEN Append(upto[i - 1], deps[i]) ELSE upto[i - 1]
  IN upto[Len(deps)]

InFlight(reader, s) == IF reader # 0 /\ IsActive(reader, s) THEN "cyclic" ELSE "pending"

\* #suspendedWalk: the recorded dependencies are folded in turn, until one is
\* unproven or cyclic.
SuspendedWalk(s0, reader) ==
  LET walk[x \in Selectors \X SUBSET Selectors] ==
        LET visited == x[2] \cup {x[1]}
            of(acc, d) ==
              IF "settled" \in status[d] THEN [seen |-> acc.seen, c |-> "settled"]
              ELSE IF "settling" \in status[d] THEN [seen |-> acc.seen, c |-> InFlight(reader, d)]
              ELSE IF "walking" \in status[d] /\ d \notin dirty /\ d \notin acc.seen
                THEN walk[<<d, acc.seen>>]
              ELSE [seen |-> acc.seen, c |-> "unproven"]
            step(acc, d) ==
              IF acc.c \in {"unproven", "cyclic"} THEN acc
              ELSE [seen |-> of(acc, d).seen, c |-> Fold(acc.c, of(acc, d).c)]
            end == FoldLeft(step, [seen |-> visited, c |-> "settled"], SelectorDeps(x[1]))
        IN IF end.c = "settled" THEN [end EXCEPT !.c = "pending"] ELSE end
  IN walk[<<s0, {}>>].c

\* The selector was entered before: what its caller is told, if it need not be
\* walked or evaluated (again).
Known(f) ==
  LET s == f.selector IN
  IF "settled" \in f.entered THEN "settled"
  ELSE IF "settling" \in f.entered THEN IF f.session # 0 THEN "pending" ELSE InFlight(f.reader, s)
  ELSE IF "walking" \in f.entered /\ s \notin dirty
    THEN LET c == SuspendedWalk(s, f.reader) IN
         IF c = "unproven" /\ f.session # 0 THEN None ELSE c
  ELSE None

\* A read is told that what it gets may still change.
ServesPending(f) ==
  /\ f.session # 0
  /\ \/ "settling" \in f.entered /\ f.selector \notin dirty
     \/ "settling" \notin f.entered /\ Known(f) # "settled"

EnterKnown ==
  /\ SettleAt("entered")
  /\ Known(Top) # None
  /\ provisional' = IF ServesPending(Top) THEN provisional + 1 ELSE provisional
  /\ stack' = Returning(Known(Top))
  /\ UNCHANGED <<body, value, record, dirty, routes, queue, status, graphVersion, reached,
                 mode, nextToken, sessions, history>>

\* The walk over the recorded dependencies starts.  One reentered by a read is
\* evaluated instead: its old reads may be obsolete.
EnterWalk ==
  LET s == Top.selector
      reentered == "walking" \in Top.entered
  IN
  /\ SettleAt("entered")
  /\ Known(Top) = None
  /\ dirty' = IF reentered THEN dirty \cup {s} ELSE dirty
  /\ status' = [status EXCEPT ![s] = @ \cup {"walking"}]
  /\ stack' = WithTop([Top EXCEPT !.at = "walking", !.version = graphVersion,
                         !.todo = IF reentered THEN <<>> ELSE SelectorDeps(s)])
  /\ UNCHANGED <<body, value, record, routes, queue, graphVersion, provisional, reached,
                 mode, nextToken, sessions, history>>

\* The next recorded dependency is settled, by a call without a session.
Walk ==
  /\ SettleAt("walking")
  /\ Top.todo # <<>>
  /\ stack' = Append(WithTop([Top EXCEPT !.todo = Tail(@)]), Settling(Head(Top.todo), 0, Top.reader))
  /\ UNCHANGED <<body, value, graphVars, mode, nextToken, sessions, history>>

\* After the walk, the selector is evaluated if it is dirty: in the session of
\* the reader if the walk published nothing, else in one opened inside it.
Evaluate ==
  LET s == Top.selector
      unproven == Top.currentness = "unproven" /\ Top.session # 0
      reuse == Top.session # 0 /\ Top.version = graphVersion
      opened == Append(sessions, [outer |-> Top.reader, publications |-> 0])
      frame == [Top EXCEPT !.at = "evaluated", !.provisional = provisional, !.owns = ~reuse]
  IN
  /\ SettleAt("walking")
  /\ Top.todo = <<>>
  /\ s \in dirty \/ unproven
  /\ dirty' = dirty \cup {s}
  /\ status' = [status EXCEPT ![s] = @ \cup {"settling"}]
  /\ sessions' = IF reuse THEN sessions ELSE opened
  /\ stack' = Append(WithTop(frame),
                IF reuse THEN Evaluation(s, Top.session, Publications(Top.session))
                ELSE Evaluation(s, Len(opened), 0))
  /\ UNCHANGED <<body, value, record, routes, queue, graphVersion, provisional, reached,
                 mode, nextToken, history>>

\* The status when a settle returns c: a reentrant call leaves the bits of the
\* outer one.
Left(f, c) ==
  [status EXCEPT ![f.selector] =
     (@ \ ({"walking", "settling"} \ f.entered)) \cup (IF c = "settled" THEN {"settled"} ELSE {})]

\* After the walk, a selector that is not dirty is as current as its reads.
LeaveClean ==
  LET c == Top.currentness IN
  /\ SettleAt("walking")
  /\ Top.todo = <<>>
  /\ Top.selector \notin dirty
  /\ ~(c = "unproven" /\ Top.session # 0)
  /\ provisional' = IF c # "settled" /\ Top.session # 0 THEN provisional + 1 ELSE provisional
  /\ status' = Left(Top, c)
  /\ stack' = Returning(c)
  /\ UNCHANGED <<body, value, record, dirty, routes, queue, graphVersion, reached,
                 mode, nextToken, sessions, history>>

\* The evaluation is installed, or superseded and queued to settle again.
LeaveEvaluated ==
  LET c == IF Top.provisional # provisional /\ Top.selector \in dirty THEN "unproven" ELSE "settled" IN
  /\ SettleAt("evaluated")
  /\ status' = Left(Top, c)
  /\ stack' = Returning(c)
  /\ sessions' = IF Top.owns THEN Front(sessions) ELSE sessions
  /\ UNCHANGED <<body, value, record, dirty, routes, queue, graphVersion, provisional, reached,
                 mode, nextToken, history>>

\* Mutant of Serving: a clean record is served as it is.
ServingRecords == <<>>

\* Reads settle what has a record, once a commit has applied its atoms.
Serving ==
  LET d == NextRead(Top) IN
  IF mode = "propagating" /\ d \in Selectors /\ record[d] # None
    THEN <<Settling(d, Top.session, Top.session)>> ELSE <<>>

Next ==
  \/ \E s \in Selectors : Get(s)
  \/ \E after \in [Atoms -> Values] : Commit(after)
  \/ SettleNext
  \/ Done
  \/ (ReadActive \/ Read(Serving) \/ Serve \/ Accept) /\ UNCHANGED history
  \/ /\ Install
     /\ evaluations' = [evaluations EXCEPT ![Top.selector] = @ + 1]
     /\ UNCHANGED before
  \/ EnterKnown \/ EnterWalk \/ Walk \/ Evaluate \/ LeaveClean \/ LeaveEvaluated

Spec == Init /\ [][Next]_settlementVars

-----------------------------------------------------------------------------
(* Properties *)

\* The outcomes a getter reads when d serves out[d], up to the first failure.
RunOf(b, out) ==
  LET got[i \in 0..MaxReads] ==
        IF i = 0 THEN <<>>
        ELSE LET g == got[i - 1] IN
             IF Len(g) < i - 1 \/ (i > 1 /\ Last(g) = Error) \/ b.next[g] = None
               THEN g ELSE Append(g, out[b.next[g]])
  IN got[MaxReads]

\* What getters return when every read is recomputed: Error where a chain of
\* reads is longer than an acyclic one can be.
Recomputed ==
  LET eval[n \in 0..Cardinality(Selectors)] ==
        LET shorter == eval[n - 1]
            of(s) == IF n = 0 THEN Error ELSE
                     LET last == Last(RunOf(body[s], shorter))
                     IN IF last = Error THEN Error ELSE body[s].gives[last]
        IN [d \in Nodes |-> IF d \in Atoms THEN value[d] ELSE of(d)]
  IN eval[Cardinality(Selectors)]

\* The reads the getters may come to, whatever values they get.
MayRead == {e \in Selectors \X Selectors : \E d \in Decisions : body[e[1]].next[d] = e[2]}

\* No getter can come to read itself, whatever values it gets.
CannotCycle == \A e \in MayRead : e[1] \notin ReachableFrom(MayRead, e[2])

TypeOK ==
  /\ body \in Programs
  /\ value \in [Atoms -> Values]
  /\ \A s \in Selectors :
       /\ record[s] # None =>
            /\ record[s].out \in Values \cup {Error}
            /\ record[s].token \in 0..nextToken
            /\ record[s].deps \in Seq(Nodes) /\ IsInjective(record[s].deps)
            /\ record[s].success \in Values \cup {None}
       /\ routes[s] # None => {routes[s].reported, routes[s].path} \subseteq Seq(Selectors \ {s})
  /\ dirty \subseteq Selectors
  /\ mode \in {"idle", "reading", "propagating"}
  /\ queue \in Seq(Selectors)
  /\ status \in [Selectors -> SUBSET {"queued", "walking", "settling", "settled"}]
  /\ {graphVersion, provisional, nextToken} \subseteq Nat
  /\ \A i \in DOMAIN sessions : sessions[i].outer \in 0..i - 1 /\ sessions[i].publications \in Nat
  /\ \A i \in DOMAIN stack : stack[i].call \in {"settle", "evaluate"} /\ stack[i].selector \in Selectors
  /\ reached \subseteq Selectors

\* Between operations every recorded selector serves what recomputing it from
\* the committed atoms gives, whatever order the reads and the walks were in.
\* In particular no latched cycle outlives the cycle, and none is missed.
ServesRecomputed ==
  mode = "idle" => \A s \in Selectors : record[s] # None => s \notin dirty /\ record[s].out = Recomputed[s]

\* The propagation has settled everything; notifications are next.
Settled == mode = "propagating" /\ stack = <<>> /\ queue = <<>>

Changed == {s \in Selectors : before[s] # None /\ record[s].out # before[s]}

\* No subscription of a selector whose outcome changed is missed, however often, in
\* whatever order and nesting the selector was settled, and at any time.
ReachesChanged == Changed \subseteq reached

\* Nobody is reached whose outcome did not change; failures are new each time.
ReachesOnlyChanged == \A s \in reached : s \in Changed \/ record[s].out = Error

\* Where no getter can come to read itself, a getter never gets a value from
\* before the write: what it reads during a propagation is what it would read
\* if everything were recomputed first.  Nor is a subscription reached because its
\* selector had another outcome in between.
GlitchFree ==
  LET now == Recomputed IN
  CannotCycle =>
    /\ \A i \in DOMAIN stack :
         IsEvaluation(stack[i]) => IsPrefix(stack[i].reads, RunOf(body[stack[i].selector], now))
    /\ Settled => ReachesOnlyChanged

\* There, one operation runs no getter twice; elsewhere it comes to rest all the
\* same: a cycle that persists is settled once, a stale read is repeated once.
EvaluatesOnce == \A s \in Selectors : evaluations[s] > 1 => ~CannotCycle /\ evaluations[s] <= 2

\* Skipping a search never lets a cycle into the graph: the read that would close
\* one is rejected, so whenever no call is in flight no recorded path leads from a
\* selector back to it.  (A walk along such a path would not end.)
RecordedAcyclic ==
  stack = <<>> => \A e \in Edges(record) : e[1] \notin ReachableFrom(Edges(record), e[2])
=============================================================================
