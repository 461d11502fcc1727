---------------------------- MODULE DraftIntents ----------------------------
(***************************************************************************)
(* The intents of one transaction draft as a value: a sequence with at     *)
(* most one entry per (scope, atom), scopes in the order they were first   *)
(* written and, within a scope, atoms in the order they were first         *)
(* written.  TreeDraft (committed-store-tree/tree-transaction.ts) promises *)
(* this much; module TreeDraft models how it stores it.                   *)
(***************************************************************************)
EXTENDS Naturals, Sequences

\* The positions of the intents for a scope, and of the one for an atom in it.
OfScope(intents, s) == {i \in DOMAIN intents : intents[i].scope = s}
At(intents, s, a) == {i \in OfScope(intents, s) : intents[i].atom = a}

\* TreeDraft.getIntent(s, a) # undefined, and its result.
HasIntent(intents, s, a) == At(intents, s, a) # {}
IntentOf(intents, s, a) == intents[CHOOSE i \in At(intents, s, a) : TRUE]

\* TreeDraft.stage: the last write of an atom in a scope wins and keeps the
\* place of the first one.
Stage(intents, intent) ==
  LET here  == At(intents, intent.scope, intent.atom)
      group == OfScope(intents, intent.scope)
  IN  IF here # {}
        THEN [intents EXCEPT ![CHOOSE i \in here : TRUE] = intent]
        ELSE IF group = {}
          THEN Append(intents, intent)
          ELSE LET last == CHOOSE i \in group : \A j \in group : j <= i
               IN  SubSeq(intents, 1, last) \o <<intent>>
                     \o SubSeq(intents, last + 1, Len(intents))
=============================================================================
