SPECIFICATION Spec
CONSTANTS
  r = r
  m = m
  c = c
  a1 = a1
  a2 = a2
  v1 = v1
  v2 = v2
  Scopes = {r, m, c}
  Root = r
  Parent <- ChainParent
  Atoms = {a1}
  Values = {v1, v2}
  Failed = Failed
  Lazy = {a1}
  EagerFallback <- EagerV1
  Equal = {}
  Together = {{r}, {m}, {c}, {r, m}, {m, c}, {r, c}, {r, m, c}}
  None = None
INVARIANT
  ViewsServeResolution
CHECK_DEADLOCK FALSE
