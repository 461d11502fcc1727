SPECIFICATION FairSpec
CONSTANTS
  a = a
  b = b
  both = both
  r1 = r1
  r2 = r2
  Sources = {a, b}
  Derived = {both}
  Values = {0, 1}
  Compute <- MCCompute
  Regs = {r1, r2}
  Disposable <- MCDisposable
  WaveLimit = 2
  Failing = {"selector", "reaction", "subscriber"}
  None = None
INVARIANTS
  TypeOK
  PendingMeansQueued
  SettledBeforePublication
PROPERTIES
  ImplementsPublication
  BoundariesEnd
