SPECIFICATION Spec
CONSTANTS
  r = r
  m = m
  c = c
  a1 = a1
  a2 = a2
  a3 = a3
  Scopes = {r, c}
  Path <- PairPath
  Atoms = {a1, a2}
  Kinds = {set, reset}
  Lazy = {a1, a2}
  MaxWrites = 4
  MaxUnwritten = 1
  MaxCached = 2
  None = None
INVARIANT
  ScratchServesDraft
CHECK_DEADLOCK FALSE
