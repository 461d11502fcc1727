------------------------- MODULE SelectorEvaluator -------------------------
(***************************************************************************)
(* One evaluation of a getter (selector-evaluator/evaluate.ts, with the    *)
(* sessions of types.ts and the install of scope-node.ts).  The call in    *)
(* flight is the last frame of `stack`.  An evaluation accepts each read   *)
(* only when the dependency has no path back to it; the effective graph    *)
(* takes the accepted prefixes of the evaluations in flight and the        *)
(* records of all other selectors.  The searches are skipped where version *)
(* counters show that nothing foreign was published since the last proof;  *)
(* how a search runs (reverse first, memo of closed sets) is left out.     *)
(***************************************************************************)
EXTENDS SelectorRecords

Top == Last(stack)

\* The stack with its last frame replaced.
WithTop(frame) == [stack EXCEPT ![Len(stack)] = frame]

Publications(id) == sessions[id].publications

\* An evaluation as evaluateSelector sets it up, in a session that has published
\* so many records.
Evaluation(s, session, published) ==
  [call |-> "evaluate", selector |-> s, session |-> session,
   at |-> "running",   \* or "serving", "served", "failed"
   pending |-> None,   \* the node being read
   deps |-> <<>>,      \* the accepted reads and the tokens they served
   tokens |-> <<>>,
   reads |-> <<>>,     \* the outcomes the getter got
   known |-> IF record[s] = None THEN None ELSE record[s].deps,
   baseline |->
     IF record[s] = None \/ record[s].success = None THEN None
     ELSE [value |-> record[s].success,
           token |-> IF record[s].out = Error THEN None ELSE record[s].token],
   entry |-> <<graphVersion, published>>,
   proof |-> <<graphVersion, published>>,
   observed |-> None,  \* edges published since the last look at them
   cycle |-> None,     \* the cycle latched for it, from the closing read on
   provisional |-> provisional]

IsEvaluation(frame) == frame.call = "evaluate"

\* The call in flight is an evaluation, at `at`.
EvaluationAt(at) == stack # <<>> /\ IsEvaluation(Top) /\ Top.at = at

\* The session `id` and those it was opened inside of.
Chain(id) ==
  LET chain[n \in 0..Len(sessions)] == IF n = 0 THEN {} ELSE {n} \cup chain[sessions[n].outer]
  IN chain[id]

\* The evaluations of s in flight that `id` knows of.
Frames(stk, id, s) ==
  {i \in DOMAIN stk : IsEvaluation(stk[i]) /\ stk[i].selector = s /\ stk[i].session \in Chain(id)}

\* getTransientDependencies for evaluations in flight, committed records else.
EffectiveEdges(stk, id) ==
  {e \in Selectors \X Selectors :
     IF Frames(stk, id, e[1]) = {}
       THEN Contains(Deps(record, e[1]), e[2])
       ELSE Contains(stk[Max(Frames(stk, id, e[1]))].deps, e[2])}

\* findDependencyPath: whether a path in the effective graph leads from a to b.
PathExists(stk, id, a, b) ==
  a \in Selectors /\ b \in ReachableFrom(EffectiveEdges(stk, id), a)

ClosingCycle(stk, id, a, b) == Front(PathOf(EffectiveEdges(stk, id), a, b))

-----------------------------------------------------------------------------
(* Prefix proofs *)

\* Only this session published since `since`.
OnlyAttributed(frame, since) ==
  graphVersion - since[1] = Publications(frame.session) - since[2]

Proved(frame) == [frame EXCEPT !.proof = <<graphVersion, Publications(frame.session)>>]

\* The accepted reads that have become part of a cycle.
ClosingReads(stk, i) ==
  {n \in DOMAIN stk[i].deps : PathExists(stk, stk[i].session, stk[i].deps[n], stk[i].selector)}

\* The prefix is cut before the first such read, and the cycle latched.
Truncated(stk, i) ==
  LET first == Min(ClosingReads(stk, i))
      f == stk[i]
  IN [f EXCEPT
       !.deps = SubSeq(@, 1, first - 1),
       !.tokens = SubSeq(@, 1, first - 1),
       !.observed = {},
       !.cycle = IF @ = None THEN ClosingCycle(stk, f.session, f.deps[first], f.selector) ELSE @]

\* revalidateOwnPrefix of the i-th frame.
OwnPrefix(stk, i) ==
  LET f == stk[i]
      addedClose == \E e \in f.observed : PathExists(stk, f.session, e[2], e[1])
  IN IF graphVersion = f.proof[1] THEN f
     ELSE IF f.observed = None THEN Proved(f)
     ELSE IF OnlyAttributed(f, f.proof) THEN Proved([f EXCEPT !.observed = {}])
     ELSE IF addedClose /\ ClosingReads(stk, i) # {} THEN Truncated(stk, i)
     ELSE Proved([f EXCEPT !.observed = {}])

\* revalidateAcceptedPrefix: the outer evaluations of the session first, unless
\* the session itself published everything.
Revalidated(stk) ==
  LET f == Last(stk)
      due == IF OnlyAttributed(f, f.proof) THEN {Len(stk)}
             ELSE {i \in DOMAIN stk : IsEvaluation(stk[i]) /\ stk[i].session = f.session}
      upto[i \in 0..Len(stk)] ==
        IF i = 0 THEN stk
        ELSE IF i \in due THEN [upto[i - 1] EXCEPT ![i] = OwnPrefix(upto[i - 1], i)]
        ELSE upto[i - 1]
  IN upto[Len(stk)]

-----------------------------------------------------------------------------
(* The getter and its reads *)

\* The node the getter reads next, None if it is done.
NextRead(f) == IF Len(f.reads) = MaxReads THEN None ELSE body[f.selector].next[f.reads]

Returned(f) == body[f.selector].gives[Last(f.reads)]

\* The evaluations of the session from s to the one outside the innermost.
ActiveFrom(id, s) ==
  LET upto[i \in 0..Len(stack) - 1] ==
        IF i = 0 THEN <<>>
        ELSE LET f == stack[i] IN
             IF IsEvaluation(f) /\ f.session = id /\ (f.selector = s \/ upto[i - 1] # <<>>)
               THEN Append(upto[i - 1], f.selector)
               ELSE upto[i - 1]
  IN upto[Len(stack) - 1]

IsActive(id, s) == \E i \in DOMAIN stack :
  IsEvaluation(stack[i]) /\ stack[i].session = id /\ stack[i].selector = s

\* suppliedGet of a selector that this session is evaluating: a cycle.
ReadActive ==
  LET d == NextRead(Top) IN
  /\ EvaluationAt("running")
  /\ d \in Selectors
  /\ IsActive(Top.session, d)
  /\ stack' = WithTop([Top EXCEPT !.cycle = ActiveFrom(Top.session, d), !.at = "failed"])
  /\ UNCHANGED <<body, value, graphVars, mode, nextToken, sessions>>

\* suppliedGet of anything else.
Read(serving) ==
  LET d == NextRead(Top) IN
  /\ EvaluationAt("running")
  /\ d # None
  /\ d \in Atoms \/ ~IsActive(Top.session, d)
  /\ stack' = WithTop([Top EXCEPT !.pending = d, !.at = IF d \in Atoms THEN "served" ELSE "serving"])
                \o (IF d \in Selectors THEN serving ELSE <<>>)
  /\ UNCHANGED <<body, value, graphVars, mode, nextToken, sessions>>

\* serveKnownLocal: a current record is served, anything else evaluated first.
Serve ==
  LET d == Top.pending IN
  /\ EvaluationAt("serving")
  /\ stack' = WithTop([Top EXCEPT !.at = "served"])
                \o (IF record[d] # None /\ d \notin dirty THEN <<>> ELSE <<Evaluation(d, Top.session, Publications(Top.session))>>)
  /\ UNCHANGED <<body, value, graphVars, mode, nextToken, sessions>>

\* Mutant of NeedsNoProof: without a publication since the start, no read is
\* searched, recorded or not.
NeedsNoProofUnlessPublished(f, d) ==
  \/ Contains(f.deps, d)
  \/ graphVersion = f.entry[1]
  \/ f.known = None /\ OnlyAttributed(f, f.entry)

\* Whether suppliedGet may accept d without a search.
NeedsNoProof(f, d) ==
  \/ Contains(f.deps, d)
  \/ f.known # None /\ Contains(f.known, d) /\ graphVersion = f.entry[1]
  \/ f.known = None /\ OnlyAttributed(f, f.entry)

Latched(f, cycle) == [f EXCEPT !.cycle = cycle, !.at = "failed"]

\* Mutant of Captured: a node read twice is captured twice.
CapturedAgain(f, d) == Append(f.deps, d)

\* The reads of f with d, each node once.
Captured(f, d) == IF Contains(f.deps, d) THEN f.deps ELSE Append(f.deps, d)

\* What becomes of the frame f when its read of d got `out`.
AfterServe(stk, f, d, out, token) ==
  IF f.cycle # None THEN [f EXCEPT !.at = "failed"]
  ELSE IF ~NeedsNoProof(f, d) /\ PathExists(stk, f.session, d, f.selector)
    THEN Latched(f, ClosingCycle(stk, f.session, d, f.selector))
  ELSE Proved([f EXCEPT
         !.at = IF out = Error THEN "failed" ELSE "running",
         !.pending = None,
         !.deps = Captured(f, d),
         !.tokens = IF Contains(f.deps, d) THEN @ ELSE Append(@, token),
         !.reads = Append(@, out),
         !.observed = IF @ = None /\ d \in Selectors THEN {} ELSE @])

Accept ==
  LET d == Top.pending
      stk == Revalidated(stack)
      out == IF d \in Atoms THEN value[d] ELSE record[d].out
      token == IF d \in Atoms THEN None ELSE record[d].token
  IN
  /\ EvaluationAt("served")
  /\ stack' = [stk EXCEPT ![Len(stk)] = AfterServe(stk, Last(stk), d, out, token)]
  /\ UNCHANGED <<body, value, graphVars, mode, nextToken, sessions>>

-----------------------------------------------------------------------------
(* The end of an evaluation *)

Outcome(f) == IF f.at = "failed" THEN Error ELSE Returned(f)

\* An outcome equal to the current one keeps its token.
TokenOf(f, out) ==
  IF out # Error /\ f.baseline # None /\ f.baseline.value = out /\ f.baseline.token # None
    THEN f.baseline.token
    ELSE nextToken

\* The edges that the evaluations still in flight have to look at.
Observed(stk, edges) ==
  [i \in DOMAIN stk |->
     IF IsEvaluation(stk[i]) /\ stk[i].observed # None
       THEN [stk[i] EXCEPT !.observed = @ \cup edges]
       ELSE stk[i]]

\* #readSuperseded: something the evaluation read was published anew since.
Superseded(f, recs) ==
  \E i \in DOMAIN f.deps :
    /\ f.deps[i] \in Selectors
    /\ recs[f.deps[i]] # None
    /\ recs[f.deps[i]].token # f.tokens[i]

\* Mutant of Republished: a selector that keeps failing is not published anew.
RepublishedSuccess(old, new) == old # None /\ old.token # new.token /\ new.out # Error

\* Subscribers are reached and dependents marked.
Republished(old, new) == old # None /\ old.token # new.token

\* #installSelectorProposal, then serveKnownLocal's check of the install.
Install ==
  LET f == Top
      s == f.selector
      old == record[s]
      out == Outcome(f)
      new == [out |-> out, token |-> TokenOf(f, out), deps |-> f.deps,
              success |-> IF out # Error THEN out ELSE IF old = None THEN None ELSE old.success]
      recs == [record EXCEPT ![s] = new]
      own == IF f.cycle \in {None, <<>>} THEN None ELSE [reported |-> f.cycle, path |-> f.cycle]
      rts == [routes EXCEPT ![s] = own]
      changed == Republished(old, new)
      opened == IF mode = "propagating" THEN Reopened(s, new, rts) ELSE {}
      marked == IF mode = "propagating" /\ changed THEN Dependents(recs, s) ELSE {}
      E == opened \cup marked
      serves == provisional + Cardinality({d \in E : "settled" \in status[d]})
      again == f.provisional # serves /\ Superseded(f, recs)
  IN
  /\ EvaluationAt("failed") \/ (EvaluationAt("running") /\ NextRead(f) = None)
  /\ record' = recs
  /\ routes' = Routes(s, new, rts)
  /\ graphVersion' = graphVersion + 1
  /\ sessions' = [sessions EXCEPT ![f.session].publications = @ + 1]
  /\ nextToken' = IF new.token = nextToken THEN nextToken + 1 ELSE nextToken
  /\ dirty' = (dirty \ {s}) \cup E \cup (IF again THEN {s} ELSE {})
  /\ reached' = IF changed THEN reached \cup {s} ELSE reached
  /\ \E first \in SetToSeqs(Enqueueable(opened)), rest \in SetToSeqs(Enqueueable(marked \ opened)) :
       queue' = queue \o first \o rest \o (IF again /\ mode = "propagating" THEN <<s>> ELSE <<>>)
  /\ status' = [d \in Selectors |->
       IF d \in E \/ (d = s /\ again /\ mode = "propagating")
         THEN (status[d] \ {"settled"}) \cup {"queued"} ELSE status[d]]
  /\ provisional' = serves
  /\ stack' = Observed(Front(stack), {s} \X ((Range(f.deps) \ Range(Deps(record, s))) \cap Selectors))
  /\ UNCHANGED <<body, value, mode>>
=============================================================================
