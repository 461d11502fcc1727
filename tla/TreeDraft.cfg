SPECIFICATION Spec
CONSTANTS
  r = r
  m = m
  c = c
  a1 = a1
  a2 = a2
  a3 = a3
  Scopes = {r, m, c}
  Path <- StarPath
  Atoms = {a1, a2, a3}
  Kinds = {set, reset}
  Lazy = {}
  MaxWrites = 4
  MaxUnwritten = 1
  MaxCached = 0
  None = None
INVARIANTS
  TypeOK
  ShortcutsSeeEverything
PROPERTY
  ImplementsDraft
SYMMETRY Interchangeable
CHECK_DEADLOCK FALSE
