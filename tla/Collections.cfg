SPECIFICATION Spec
CONSTANTS
  r = r
  m = m
  c = c
  Scopes = {r, m, c}
  Root = r
  Parent <- ChainParent
  Rows = {a, b}
  Values = {v}
  Viewers = {m}
  MaxSteps = 3
  None = None
INVARIANTS
  TypeOK
  AlignedWithParent
PROPERTIES
  CommitPublishesReads
  ResetAllRestores
SYMMETRY Interchangeable
CHECK_DEADLOCK FALSE
