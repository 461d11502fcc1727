SPECIFICATION Spec
CONSTANTS
  r = r
  m = m
  c = c
  Scopes = {r, m}
  Root = r
  Parent <- ChildParent
  Rows = {a, b}
  Values = {v}
  Viewers = {}
  MaxSteps = 4
  None = None
PROPERTY
  CommitPublishesReads
SYMMETRY Interchangeable
CHECK_DEADLOCK FALSE
