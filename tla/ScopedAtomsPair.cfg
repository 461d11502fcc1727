SPECIFICATION Spec
CONSTANTS
  r = r
  m = m
  c = c
  a1 = a1
  a2 = a2
  v1 = v1
  v2 = v2
  Scopes = {r, c}
  Root = r
  Parent <- ChildParent
  Atoms = {a1, a2}
  Values = {v1, v2}
  Failed = Failed
  Lazy = {a1}
  EagerFallback <- EagerV1
  Equal <- EqualV1V2
  Together = {{r}, {c}}
  None = None
INVARIANTS
  FallbacksSettledBeforeCommit
  IndexCoversOwned
PROPERTIES
  ResetAllIsAllOrNothing
CHECK_DEADLOCK FALSE
